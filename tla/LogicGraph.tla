------------------------------ MODULE LogicGraph ------------------------------
(***************************************************************************)
(* The logic graph of an App, the .topo text it is emitted as and the      *)
(* graph that is read back from it: src/runtime/topo/_graph.mjs,           *)
(* _reflect.mjs, _emit.mjs, _readback.mjs.                                 *)
(*                                                                         *)
(* A TypeRef holds the tokens of a scalar's spelling or a sequence of      *)
(* fields <<name, TypeRef>>; NoType, with neither, is the absent type of a *)
(* source handler's input.  A .topo text is the sequence of its            *)
(* declarations.  Names are opaque; what matters of a name is whether the  *)
(* read-back's \w+ matches it, and whether it is "void".                   *)
(***************************************************************************)
EXTENDS Naturals, Sequences, SequencesExt

CONSTANTS
    Names,      \* names of handlers, flows and namespaces
    OddNames    \* those of them that \w+ does not match

ASSUME LogicGraphAssumption ==
    /\ OddNames \subseteq Names
    /\ "" \notin Names
    /\ "void" \notin OddNames

Scalars == {"int", "float", "bool", "str"}

NoType == [scalar |-> <<>>, record |-> <<>>]
ScalarType(s) == [scalar |-> <<s>>, record |-> <<>>]
RecordType(fields) == [scalar |-> <<>>, record |-> fields]

Handler(name, in, out) == [name |-> name, in |-> in, out |-> out]

(* The target "" is the null of a terminal edge, the flow "" is no flow.   *)
Edge(source, target) == [source |-> source, target |-> target]
NoFlow == [name |-> "", edges |-> <<>>]
Graph(namespace, handlers, flow) ==
    [namespace |-> namespace, handlers |-> handlers, flow |-> flow]

-----------------------------------------------------------------------------
(* _reflect.mjs: which descriptors become types.  Records nest; the model  *)
(* follows them two deep.                                                  *)

IsScalar(d) == d.record = <<>> /\ \E s \in Scalars : d.scalar = <<s>>

(* A record has fields, each with a name of its own.                       *)
IsRecord(d) ==
    /\ d.record # <<>>
    /\ \A i \in 1 .. Len(d.record) : d.record[i][1] # ""
    /\ \A i, j \in 1 .. Len(d.record) :
         d.record[i][1] = d.record[j][1] => i = j

FieldTypes(d) == {field[2] : field \in Range(d.record)}

IsFlat(d) ==
    IsScalar(d) \/ (IsRecord(d) /\ \A t \in FieldTypes(d) : IsScalar(t))
ToTypeRefAccepts(d) ==
    IsScalar(d) \/ (IsRecord(d) /\ \A t \in FieldTypes(d) : IsFlat(t))

(* A signature needs an out type; a missing in type is a source handler.   *)
ReflectSignatureAccepts(in, out) ==
    /\ in = NoType \/ ToTypeRefAccepts(in)
    /\ ToTypeRefAccepts(out)

(* What a program passes as a descriptor: exactly one of a scalar and a    *)
(* record.  A field's name is one token and none of the two that separate  *)
(* fields and names.                                                       *)
ScalarDescriptors == [scalar : Seq(STRING), record : {<<>>}]
RecordDescriptors(types) ==
    [scalar : {<<>>}, record : Seq((STRING \ {",", ":"}) \X types)]
FlatDescriptors == ScalarDescriptors \cup RecordDescriptors(ScalarDescriptors)
Descriptors == FlatDescriptors \cup RecordDescriptors(FlatDescriptors)

(* parts.join(",").                                                        *)
Joined(parts) ==
    FlattenSeq([i \in 1 .. Len(parts) |->
      (IF i = 1 THEN <<>> ELSE <<",">>) \o parts[i]])

(* _graph.mjs: TypeRef.topo, given the spellings of the fields' types.     *)
Spelled(t, inner) ==
    IF t.record = <<>>
    THEN t.scalar
    ELSE <<"record<">>
         \o Joined([i \in 1 .. Len(t.record) |-> <<t.record[i][1], ":">> \o inner[i]])
         \o <<">">>

FlatTopo(t) == Spelled(t, [i \in DOMAIN t.record |-> t.record[i][2].scalar])
Topo(t) == Spelled(t, [i \in DOMAIN t.record |-> FlatTopo(t.record[i][2])])

-----------------------------------------------------------------------------
(* _emit.mjs.  The two types of a handler are spelled here, in `in` (the   *)
(* text between the parentheses) and `out`.                                *)

Decl(node, name, in, out, target) ==
    [node |-> node, name |-> name, in |-> in, out |-> out, target |-> target]

HandlerDecl(h) == Decl("handler", h.name, Topo(h.in), Topo(h.out), "")
EdgeDecl(e) ==
    Decl("edge", e.source, <<>>, <<>>,
         IF e.target = "" THEN "void" ELSE e.target)

EmitTopo(g) ==
    << Decl("namespace", g.namespace, <<>>, <<>>, "") >>
    \o [i \in 1 .. Len(g.handlers) |-> HandlerDecl(g.handlers[i])]
    \o IF g.flow = NoFlow
       THEN <<>>
       ELSE << Decl("flow", g.flow.name, <<>>, <<>>, "") >>
            \o [i \in 1 .. Len(g.flow.edges) |-> EdgeDecl(g.flow.edges[i])]

(* app_config.mjs, Config.snapshot: the overview beside the text.          *)
Snapshot(g) ==
    [namespace |-> g.namespace,
     handlers  |-> [i \in 1 .. Len(g.handlers) |->
                      << g.handlers[i].name, Topo(g.handlers[i].in),
                         Topo(g.handlers[i].out) >>],
     flow      |-> g.flow.name,
     edges     |-> [i \in 1 .. Len(g.flow.edges) |->
                      EdgeDecl(g.flow.edges[i])]]

-----------------------------------------------------------------------------
(* _readback.mjs: the dump of `topo --ast-dump` line by line.              *)

IsWord(name) == name \notin OddNames

(* text.split(","): a comma starts a part, any other token goes to the     *)
(* part that was started last.                                             *)
SplitAtCommas(s) ==
    LET split[n \in 0 .. Len(s)] ==
          IF n = 0 THEN << <<>> >>
          ELSE LET parts == split[n - 1]
               IN  IF s[n] = "," THEN Append(parts, <<>>)
                   ELSE Append(Front(parts), Append(Last(parts), s[n]))
    IN  split[Len(s)]

(* The fields of a record are split at every comma, at whatever depth.     *)
FieldOf(part) ==
    LET colon == SelectInSeq(part, LAMBDA t : t = ":")
    IN  << part[1], [scalar |-> SubSeq(part, colon + 1, Len(part)),
                     record |-> <<>>] >>

FieldsOf(s) ==
    LET parts == SplitAtCommas(s)
    IN  [k \in 1 .. Len(parts) |-> FieldOf(parts[k])]

(* Mutant: a record keeps its spelling.                                    *)
ParseTypeAsScalar(s) == [scalar |-> s, record |-> <<>>]

ParseType(s) ==
    IF Len(s) > 2 /\ s[1] = "record<" /\ s[Len(s)] = ">"
    THEN RecordType(FieldsOf(SubSeq(s, 2, Len(s) - 1)))
    ELSE [scalar |-> s, record |-> <<>>]

(* Mutant: a terminal edge leads to something called void.                 *)
ReadDeclVerbatim(g, d) ==
    CASE d.node = "namespace" /\ IsWord(d.name) ->
           [g EXCEPT !.namespace = d.name]
      [] d.node = "handler" /\ IsWord(d.name) ->
           [g EXCEPT !.handlers = Append(@,
              Handler(d.name, ParseType(d.in), ParseType(d.out)))]
      [] d.node = "flow" /\ IsWord(d.name) ->
           [g EXCEPT !.flow = [name |-> d.name, edges |-> <<>>]]
      [] d.node = "edge" /\ IsWord(d.name) /\ IsWord(d.target)
                         /\ g.flow # NoFlow ->
           [g EXCEPT !.flow.edges = Append(@, Edge(d.name, d.target))]
      [] OTHER -> g

(* What one line adds to the graph read so far.                            *)
ReadDecl(g, d) ==
    CASE d.node = "namespace" /\ IsWord(d.name) ->
           [g EXCEPT !.namespace = d.name]
      [] d.node = "handler" /\ IsWord(d.name) ->
           [g EXCEPT !.handlers = Append(@,
              Handler(d.name, ParseType(d.in), ParseType(d.out)))]
      [] d.node = "flow" /\ IsWord(d.name) ->
           [g EXCEPT !.flow = [name |-> d.name, edges |-> <<>>]]
      [] d.node = "edge" /\ IsWord(d.name) /\ IsWord(d.target)
                         /\ g.flow # NoFlow ->
           [g EXCEPT !.flow.edges = Append(@,
              Edge(d.name, IF d.target = "void" THEN "" ELSE d.target))]
      [] OTHER -> g

ReadTopo(text) ==
    LET read[n \in 0 .. Len(text)] ==
          IF n = 0 THEN Graph("", <<>>, NoFlow) ELSE ReadDecl(read[n - 1], text[n])
    IN  read[Len(text)]

-----------------------------------------------------------------------------
(* _graph.mjs: what two graphs are compared by.  Sorting before comparing  *)
(* makes them bags; types are compared by their spelling.                  *)

SemanticKey(g) ==
    [namespace |-> g.namespace,
     flow      |-> g.flow.name,
     handlers  |-> ToBag([i \in 1 .. Len(g.handlers) |->
                     LET h == g.handlers[i]
                     IN  <<h.name, Topo(h.in), Topo(h.out)>>]),
     edges     |-> ToBag(g.flow.edges)]

EquivalentTo(g, h) == SemanticKey(g) = SemanticKey(h)

=============================================================================
