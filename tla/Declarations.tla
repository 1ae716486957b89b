----------------------------- MODULE Declarations -----------------------------
(***************************************************************************)
(* The walks over the declarations of a source file in                     *)
(* src/topo-check/extractor/index.mjs: collectFunctions and collectTypes   *)
(* of transpile mode, extractFromStatement of symbols mode.  Each visits a *)
(* statement with the names of what encloses it; a qualified name is the   *)
(* sequence of names.                                                      *)
(***************************************************************************)
EXTENDS Lift

Names == Seq(STRING)

(* All that a walk finds in some statements, one after the other.          *)
Found(visit, items, names) ==
    FlattenSeq([i \in DOMAIN items |-> visit[items[i]][names]])

Entry(qname, item) == [qname |-> qname, item |-> item]

-----------------------------------------------------------------------------
(* Transpile mode.                                                         *)

BodiesBy(visit, it, ns) ==
    LET here == Append(ns, it.name)
        body(m, name) == IF Has(m, "body") THEN << Entry(name, m) >> ELSE <<>>
    IN  CASE HasBlock(it) -> Found(visit, it.items, here)
          [] it.kind = "function" /\ it.name # "" -> body(it, here)
          [] it.kind = "class" /\ it.name # "" ->
               FlattenSeq([i \in DOMAIN it.items |->
                 LET m == it.items[i]
                 IN  IF m.kind = "method" THEN body(m, Append(here, m.name)) ELSE <<>>])
          [] OTHER -> <<>>

VisitBodies[it \in Items] == [ns \in Names |-> BodiesBy(VisitBodies, it, ns)]
Bodies(items) == Found(VisitBodies, items, <<>>)

(* `collected` is a Map: a second body of a name replaces the first in its *)
(* place.                                                                  *)
MapPut(map, e) ==
    LET i == SelectInSeq(map, LAMBDA x : x.qname = e.qname)
    IN  IF i = 0 THEN Append(map, e) ELSE [map EXCEPT ![i] = e]

CollectFunctions(items) ==
    LET bodies == Bodies(items)
        collected[n \in 0 .. Len(bodies)] ==
            IF n = 0 THEN <<>> ELSE MapPut(collected[n - 1], bodies[n])
    IN  collected[Len(bodies)]

(* The base after `extends` is a class, whoever extends it.                *)
BaseKindByClause(isClass, clause) == IF clause = "extends" THEN "class" ELSE "interface"

(* Whether a base is a class or an interface.                              *)
BaseKind(isClass, clause) ==
    IF isClass /\ clause = "extends" THEN "class" ELSE "interface"

(* A class or an interface with its bases, fields and type parameters; a   *)
(* base of an interface, or one that a class implements, is an interface.  *)
LiftType(qname, it) ==
    LET tps == [i \in DOMAIN it.decl.typeParams |-> LiftTypeParam(it.decl.typeParams[i])]
        fields == [i \in DOMAIN it.decl.fields |->
                     LET f == it.decl.fields[i]
                     IN  Built("field", f.text, << TypeFromNode[f.kids[1]] >>)]
        baseOf(b) == Result(Leaf(BaseKind(it.kind = "class", b.kind), b.text),
            AllNotes([i \in DOMAIN b.kids |-> TypeFromNode[b.kids[i]]]))
        bases == [i \in DOMAIN it.decl.bases |-> baseOf(it.decl.bases[i])]
    IN  [qualifiedName |-> qname, fields |-> Models(fields),
         bases |-> Models(bases), templateParams |-> Models(tps),
         fidelity |-> Fidelity(AllNotes(bases) \o AllNotes(tps) \o AllNotes(fields))]

TypesBy(visit, it, ns) ==
    LET here == Append(ns, it.name)
    IN  CASE HasBlock(it) -> Found(visit, it.items, here)
          [] it.kind \in {"class", "interface"} /\ it.name # "" -> << LiftType(here, it) >>
          [] OTHER -> <<>>

VisitTypes[it \in Items] == [ns \in Names |-> TypesBy(VisitTypes, it, ns)]
CollectTypes(items) == Found(VisitTypes, items, <<>>)

-----------------------------------------------------------------------------
(* Symbols mode.                                                           *)

Symbol(qname, kind, enclosing, static, visibility) ==
    [qualifiedName |-> qname, kind |-> kind, enclosingClass |-> enclosing,
     isStatic |-> static, visibility |-> visibility]
Plain(qname, kind) == Symbol(qname, kind, <<>>, FALSE, "public")

MemberVisibility(m) ==
    IF Has(m, "private") THEN "private"
    ELSE IF Has(m, "protected") THEN "protected" ELSE "public"

ClassMembers(class, items) ==
    FlattenSeq([i \in DOMAIN items |->
      LET m == items[i]
      IN  IF m.name = "" THEN <<>>
          ELSE << Symbol(Append(class, m.name), m.kind, class,
                         m.kind = "method" /\ Has(m, "static"), MemberVisibility(m)) >>])

(* A computed name is taken for a name.                                    *)
EachNameOrNot(items, prefix, kind) ==
    [i \in DOMAIN items |-> Plain(Append(prefix, items[i].name), kind)]

(* The names of an export list, of a variable statement, or of CommonJS    *)
(* exports; a computed or destructured one is called "".                   *)
Each(items, prefix, kind) ==
    FlattenSeq([i \in DOMAIN items |->
      IF items[i].name = "" THEN <<>>
      ELSE << Plain(Append(prefix, items[i].name), kind) >>])

SymbolsBy(visit, it, prefix) ==
    LET here == Append(prefix, it.name)
        exported == Has(it, "export")
        named == exported /\ it.name # ""
    IN  IF Has(it, "declare") THEN <<>> ELSE
        CASE it.kind \in PlainKinds /\ named ->
               << Plain(here, IF it.kind = "alias" THEN "typealias" ELSE it.kind) >>
          [] it.kind = "class" /\ named ->
               << Plain(here, "class") >> \o ClassMembers(here, it.items)
          [] it.kind = "variables" /\ exported -> Each(it.items, prefix, "variable")
          [] HasBlock(it) /\ exported /\ ~Has(it, "string") -> Found(visit, it.items, here)
          [] it.kind = "exportlist" -> Each(it.items, prefix, "function")
          [] it.kind = "commonjs" -> Each(it.items, <<>>, "function")
          [] OTHER -> <<>>

VisitSymbols[it \in Items] == [prefix \in Names |-> SymbolsBy(VisitSymbols, it, prefix)]
Symbols(items) == Found(VisitSymbols, items, <<>>)

=============================================================================
