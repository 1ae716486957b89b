----------------------------- MODULE TopoAppProofs -----------------------------
(***************************************************************************)
(* Theorems about TopoApp, for all functions, names, signatures, flows,    *)
(* sources, hosts and bounds.                                              *)
(***************************************************************************)
EXTENDS TopoApp, LogicGraphProofs

Reflected == {s \in Signatures : ReflectSignatureAccepts(s[1], s[2])}
Handlers == {Handler(n, s[1], s[2]) : n \in Names, s \in Reflected}
EdgesOver(K) == {Edge(s, t) : s \in K, t \in K \cup {NoName}}
Entries == [name : Names, fn : Fns]
SourceFiles == [base : STRING, content : [defines : SUBSET Names, pure : BOOLEAN]]

KeysOf(map) == {map[i].name : i \in 1 .. Len(map)}

-----------------------------------------------------------------------------
(* Registration.                                                           *)

LEMMA NameOfIsKey ==
    ASSUME NEW map \in Seq(Entries), NEW fn, NameOf(map, fn) # NoName
    PROVE  NameOf(map, fn) \in KeysOf(map)
<1> DEFINE I == {i \in 1 .. Len(map) : map[i].fn = fn}
<1>1. I \in SUBSET Nat
    BY LenProperties
<1>2. NameOf(map, fn) = LET i == IF I # {} THEN Min(I) ELSE 0
                        IN  IF i = 0 THEN NoName ELSE map[i].name
    BY DEF NameOf, SelectInSeq, NoName
<1>3. I # {}
    BY <1>2
<1>4. Min(I) \in I
    BY <1>1, <1>3, MinIsLeast
<1>. QED BY <1>2, <1>3, <1>4 DEF KeysOf

LEMMA KeyIsCallable ==
    ASSUME NEW map \in Seq(Entries), NEW name \in KeysOf(map)
    PROVE  CallableFor(map, name) # NoFn
<1> DEFINE I == {i \in 1 .. Len(map) : map[i].name = name}
<1>1. I \in SUBSET Nat /\ I # {}
    BY LenProperties DEF KeysOf
<1>2. CallableFor(map, name) = LET i == IF I # {} THEN Min(I) ELSE 0
                               IN  IF i = 0 THEN NoFn ELSE map[i].fn
    BY DEF CallableFor, SelectInSeq
<1>3. Min(I) \in I
    BY <1>1, MinIsLeast
<1>4. Min(I) \in 1 .. Len(map)
    BY <1>3
<1>5. CallableFor(map, name) = map[Min(I)].fn
    BY <1>1, <1>2, <1>4
<1>6. map[Min(I)] \in Entries
    BY <1>4, ElementOfSeq
<1>. QED BY <1>5, <1>6, TopoAppAssumption DEF Entries

LEMMA MapSetAdds ==
    ASSUME NEW map \in Seq(Entries), NEW key \in Names, NEW fn \in Fns
    PROVE  /\ MapSet(map, key, fn) \in Seq(Entries)
           /\ KeysOf(MapSet(map, key, fn)) = KeysOf(map) \cup {key}
<1> DEFINE I == {i \in 1 .. Len(map) : map[i].name = key}
           k == IF I # {} THEN Min(I) ELSE 0
           entry == [name |-> key, fn |-> fn]
<1>1. I \in SUBSET Nat
    BY LenProperties
<1>2. MapSet(map, key, fn) = IF k = 0 THEN Append(map, entry)
                                      ELSE [map EXCEPT ![k] = entry]
    BY DEF MapSet, SelectInSeq
<1>3. entry \in Entries
    BY DEF Entries
<1>4. Len(map) \in Nat
    BY LenProperties
<1>5. CASE I = {}
  <2>1. MapSet(map, key, fn) = Append(map, entry)
      BY <1>2, <1>5
  <2>2. /\ Append(map, entry) \in Seq(Entries)
        /\ Len(Append(map, entry)) = Len(map) + 1
        /\ \A i \in 1 .. Len(map) : Append(map, entry)[i] = map[i]
        /\ Append(map, entry)[Len(map) + 1] = entry
      BY <1>3, AppendProperties
  <2>3. KeysOf(Append(map, entry)) = KeysOf(map) \cup {key}
      BY <2>2, <1>4 DEF KeysOf
  <2>. QED BY <2>1, <2>2, <2>3
<1>6. CASE I # {}
  <2>1. Min(I) \in I
      BY <1>1, <1>6, MinIsLeast
  <2>2. k \in 1 .. Len(map) /\ map[k].name = key
      BY <2>1, <1>6
  <2>3. MapSet(map, key, fn) = [map EXCEPT ![k] = entry]
      BY <1>2, <2>2
  <2> HIDE DEF k
  <2>4. /\ [map EXCEPT ![k] = entry] \in Seq(Entries)
        /\ Len([map EXCEPT ![k] = entry]) = Len(map)
        /\ \A j \in 1 .. Len(map) :
             [map EXCEPT ![k] = entry][j] = IF j = k THEN entry ELSE map[j]
      BY <1>3, <2>2, ExceptSeq
  <2>5. \A j \in 1 .. Len(map) : [map EXCEPT ![k] = entry][j].name = map[j].name
      BY <2>2, <2>4
  <2>6. KeysOf([map EXCEPT ![k] = entry]) = KeysOf(map)
      BY <2>4, <2>5 DEF KeysOf
  <2>7. key \in KeysOf(map)
      BY <2>2 DEF KeysOf
  <2>. QED BY <2>3, <2>4, <2>6, <2>7
<1>. QED BY <1>5, <1>6

-----------------------------------------------------------------------------
(* Flows.                                                                  *)

LEMMA EdgeType ==
    ASSUME NEW K, NEW s \in K, NEW t \in K \cup {NoName}
    PROVE  Edge(s, t) \in EdgesOver(K)
BY DEF EdgesOver

LEMMA FanType ==
    ASSUME NEW K, NEW sources \in Seq(K), NEW targets \in Seq(K \cup {NoName})
    PROVE  Fan(sources, targets) \in Seq(EdgesOver(K))
<1>1. Len(sources) \in Nat /\ Len(targets) \in Nat
    BY LenProperties
<1> DEFINE row(i) == [j \in 1 .. Len(targets) |-> Edge(sources[i], targets[j])]
<1>2. ASSUME NEW i \in 1 .. Len(sources) PROVE row(i) \in Seq(EdgesOver(K))
  <2>1. sources[i] \in K
      BY ElementOfSeq
  <2>2. \A j \in 1 .. Len(targets) : targets[j] \in K \cup {NoName}
      BY ElementOfSeq
  <2>3. \A j \in 1 .. Len(targets) : Edge(sources[i], targets[j]) \in EdgesOver(K)
      BY <2>1, <2>2, EdgeType
  <2>. QED BY <1>1, <2>3
<1>3. [i \in 1 .. Len(sources) |-> row(i)] \in Seq(Seq(EdgesOver(K)))
  <2> HIDE DEF row
  <2>. QED BY <1>1, <1>2
<1>4. FlattenSeq([i \in 1 .. Len(sources) |-> row(i)]) \in Seq(EdgesOver(K))
  <2> HIDE DEF row
  <2>. QED BY <1>3, FlattenSeqType
<1>. QED BY <1>4 DEF Fan

LEMMA FlowEdgesType ==
    ASSUME NEW map \in Seq(Entries), NEW stages \in Seq(Seq(Fns)),
           stages # <<>>, Registered(map, stages)
    PROVE  FlowEdges(map, stages) \in Seq(EdgesOver(KeysOf(map)))
<1> DEFINE K == KeysOf(map)
           names == [i \in 1 .. Len(stages) |-> StageNames(map, stages[i])]
           links == [i \in 1 .. Len(stages) - 1 |-> Fan(names[i], names[i + 1])]
<1>1. Len(stages) \in Nat \ {0}
    BY EmptySeq
<1>2. \A i \in 1 .. Len(stages) : names[i] \in Seq(K)
  <2>1. SUFFICES ASSUME NEW i \in 1 .. Len(stages)
                 PROVE  StageNames(map, stages[i]) \in Seq(K)
      OBVIOUS
  <2>2. Len(stages[i]) \in Nat
      BY ElementOfSeq, LenProperties
  <2>3. \A j \in 1 .. Len(stages[i]) : NameOf(map, stages[i][j]) \in K
      BY NameOfIsKey DEF Registered, NoName
  <2> HIDE DEF K
  <2>. QED BY <2>2, <2>3 DEF StageNames
<1> HIDE DEF K, names
<1>3. \A i \in 1 .. Len(stages) : names[i] \in Seq(K \cup {NoName})
    BY <1>2, SeqMonotonic
<1>4. \A i \in 1 .. Len(stages) - 1 : Fan(names[i], names[i + 1]) \in Seq(EdgesOver(K))
  <2>1. SUFFICES ASSUME NEW i \in 1 .. Len(stages) - 1
                 PROVE  Fan(names[i], names[i + 1]) \in Seq(EdgesOver(K))
      OBVIOUS
  <2>2. i \in 1 .. Len(stages) /\ i + 1 \in 1 .. Len(stages)
      BY <1>1
  <2>. QED BY <2>2, <1>2, <1>3, FanType
<1>5. links \in Seq(Seq(EdgesOver(K)))
    BY <1>1, <1>4
<1>6. FlattenSeq(links) \in Seq(EdgesOver(K))
  <2> HIDE DEF links
  <2>. QED BY <1>5, FlattenSeqType
<1>7. Fan(names[Len(stages)], <<"">>) \in Seq(EdgesOver(K))
  <2>1. names[Len(stages)] \in Seq(K)
      BY <1>1, <1>2
  <2>2. <<"">> \in Seq(K \cup {NoName})
    <3>1. <<NoName>> \in Seq(K \cup {NoName})
        OBVIOUS
    <3>. QED BY <3>1 DEF NoName
  <2>. QED BY <2>1, <2>2, FanType
<1>8. FlattenSeq(links) \o Fan(names[Len(stages)], <<"">>) \in Seq(EdgesOver(K))
    BY <1>6, <1>7, ConcatProperties
<1>9. FlowEdges(map, stages) = FlattenSeq(links) \o Fan(names[Len(stages)], <<"">>)
    BY DEF FlowEdges, names
<1>. QED BY <1>8, <1>9 DEF K

-----------------------------------------------------------------------------
(* The inductive invariant.                                                *)

Flows == {NoFlow} \cup [name : FlowNames, edges : Seq(EdgesOver(Names))]

(* What the program's own variables hold, and what a call of the API knows *)
(* of names: a function is kept under a name that has a handler, a flow    *)
(* leads between names under which functions are kept.                     *)
AppInv ==
    /\ graph \in [namespace : Namespaces, handlers : Seq(Handlers), flow : Flows]
    /\ fns \in Seq(Entries)
    /\ KeysOf(fns) \subseteq {h.name : h \in Range(graph.handlers)}
    /\ \A e \in Range(graph.flow.edges) : e \in EdgesOver(KeysOf(fns))

HostInv ==
    /\ threw \in BOOLEAN
    /\ \E h \in Hosts : world = h[1]
    /\ disk \in Disks \cup {h[2] : h \in Hosts}
    /\ changes \in Nat /\ unclean \in Nat /\ changes + unclean <= MaxChanges

Underway == call.pc \in {"staging", "resolved", "cleaning"}

(* The directory of the call under way is there; any other was left by a   *)
(* process that was killed or by a removal that threw.                     *)
DirInv ==
    /\ dirs \in Nat
    /\ Underway => dirs >= 1
    /\ dirs <= unclean + (IF Underway THEN 1 ELSE 0)

(* The sources copied so far, by base name; nothing is lost of them unless *)
(* two share a name.                                                       *)
StagedInv ==
    /\ call.sources \in Seq(SourceFiles)
    /\ call.copied \in 0 .. Len(call.sources)
    /\ \A b \in DOMAIN call.staged : \E i \in 1 .. call.copied :
         call.sources[i].base = b /\ call.sources[i].content = call.staged[b]
    /\ \A i \in 1 .. call.copied : call.sources[i].base \in DOMAIN call.staged
    /\ (\A i, j \in 1 .. Len(call.sources) :
          call.sources[i].base = call.sources[j].base => i = j)
       => \A i \in 1 .. call.copied :
            call.staged[call.sources[i].base] = call.sources[i].content

(* The text is that of the graph; a pass is a verdict on all that was      *)
(* staged.                                                                 *)
CallInv ==
    /\ DOMAIN call = DOMAIN NoCall
    /\ call.pc \in Pcs
    /\ call.pc # "idle" => call.text = EmitTopo(graph)
    /\ call.pc = "resolved" => call.copied = Len(call.sources)
    /\ call.says = "PASS" =>
         /\ call.pc # "idle"
         /\ call.copied = Len(call.sources)
         /\ Passes(call.text, Range(call.staged))

(* What a round trip returns is what its text says.                        *)
ReadInv ==
    call.pc = "returned" /\ call.tool = "topo" => call.read = ReadTopo(call.text)

IInv == AppInv /\ HostInv /\ DirInv /\ StagedInv /\ CallInv /\ ReadInv

-----------------------------------------------------------------------------
(* Initial states.                                                         *)

LEMMA NoCallStaged ==
    ASSUME call = NoCall
    PROVE  StagedInv /\ CallInv
<1>1. call.sources = <<>> /\ call.copied = 0 /\ call.staged = <<>>
      /\ call.pc = "idle" /\ call.says # "PASS"
    BY DEF NoCall
<1>2. CallInv
    BY <1>1 DEF CallInv, Pcs
<1>3. Len(call.sources) = 0 /\ 1 .. call.copied = {} /\ DOMAIN call.staged = {}
    BY <1>1
<1>4. call.sources \in Seq(SourceFiles)
    BY <1>1
<1>5. StagedInv
    BY <1>1, <1>3, <1>4 DEF StagedInv
<1>. QED BY <1>2, <1>5

LEMMA InitApp == ASSUME Init PROVE IInv
<1>1. PICK ns \in Namespaces : graph = EmptyGraph(ns)
    BY DEF Init
<1>2. graph.handlers = <<>> /\ graph.flow = NoFlow /\ graph.namespace = ns
    BY <1>1 DEF EmptyGraph, Graph
<1>3. graph \in [namespace : Namespaces, handlers : Seq(Handlers), flow : Flows]
    BY <1>1 DEF EmptyGraph, Graph, Flows
<1>4. fns = <<>> /\ graph.flow.edges = <<>>
  <2>1. fns = <<>>
      BY DEF Init
  <2>2. NoFlow.edges = <<>>
      BY DEF NoFlow
  <2>. QED BY <2>1, <2>2, <1>2
<1>5. KeysOf(fns) = {} /\ Range(graph.flow.edges) = {}
    BY <1>4 DEF KeysOf, Range
<1>6. AppInv
    BY <1>3, <1>4, <1>5 DEF AppInv
<1>7. HostInv
  <2>1. PICK h \in Hosts : world = h[1] /\ disk = h[2]
      BY DEF Init
  <2>2. threw = FALSE /\ changes = 0 /\ unclean = 0
      BY DEF Init
  <2>3. MaxChanges \in Nat
      BY TopoAppAssumption
  <2>4. \E g \in Hosts : world = g[1]
      BY <2>1
  <2>5. disk \in {g[2] : g \in Hosts}
      BY <2>1
  <2>6. changes \in Nat /\ unclean \in Nat /\ changes + unclean <= MaxChanges
    <3>1. changes = 0 /\ unclean = 0
        BY <2>2
    <3>. QED BY <3>1, <2>3
  <2>7. threw \in BOOLEAN
      BY <2>2
  <2>. QED BY <2>4, <2>5, <2>6, <2>7 DEF HostInv
<1>8. call = NoCall /\ dirs = 0 /\ unclean = 0
    BY DEF Init
<1>9. DirInv
  <2>1. call.pc = "idle"
      BY <1>8 DEF NoCall
  <2>. QED BY <1>8, <2>1 DEF DirInv, Underway
<1>10. ReadInv
    BY <1>8 DEF ReadInv, NoCall
<1>. QED BY <1>6, <1>7, <1>8, <1>9, <1>10, NoCallStaged DEF IInv

-----------------------------------------------------------------------------
(* Steps: the program's own variables.                                     *)

Registers(fn, name, s) ==
    /\ graph' = [graph EXCEPT !.handlers = Append(@, Handler(name, s[1], s[2]))]
    /\ fns' = MapSet(fns, name, fn)
    /\ threw' = FALSE

LEMMA RegisterCases ==
    ASSUME NEW fn \in Fns, NEW override \in Overrides, NEW s \in Signatures,
           RegisterHandler(fn, override, s[1], s[2])
    PROVE  /\ Idle /\ UNCHANGED << call, dirs, hostVars >>
           /\ \/ s \in Reflected /\ \E name \in Names : Registers(fn, name, s)
              \/ threw' = TRUE /\ UNCHANGED appVars
<1> DEFINE name == IF override # "" THEN override ELSE FnName[fn]
<1>1. name \in Names \cup {""}
  <2>1. FnName[fn] \in Names \cup {""}
      BY TopoAppAssumption
  <2>2. override \in Names \cup {""}
      BY TopoAppAssumption
  <2>. QED BY <2>1, <2>2
<1>2. Idle /\ UNCHANGED << call, dirs, hostVars >>
    BY DEF RegisterHandler
<1>3. CASE name # "" /\ ReflectSignatureAccepts(s[1], s[2])
  <2>1. name \in Names
      BY <1>1, <1>3
  <2>2. Registers(fn, name, s)
      BY <1>3 DEF RegisterHandler, Registers
  <2>3. s \in Reflected
      BY <1>3 DEF Reflected
  <2> HIDE DEF name
  <2>. QED BY <1>2, <2>1, <2>2, <2>3
<1>4. CASE ~(name # "" /\ ReflectSignatureAccepts(s[1], s[2]))
  <2>1. threw' = TRUE /\ UNCHANGED appVars
      BY <1>4 DEF RegisterHandler
  <2>. QED BY <1>2, <2>1
<1>. QED BY <1>3, <1>4

LEMMA AppKept == ASSUME AppInv, UNCHANGED appVars PROVE AppInv'
BY DEF AppInv, appVars, KeysOf

LEMMA RegisterKeepsApp ==
    ASSUME AppInv, NEW fn \in Fns, NEW s \in Reflected, NEW name \in Names,
           Registers(fn, name, s)
    PROVE  AppInv'
<1> DEFINE h == Handler(name, s[1], s[2])
<1>1. graph \in [namespace : Namespaces, handlers : Seq(Handlers), flow : Flows]
      /\ fns \in Seq(Entries)
    BY DEF AppInv
<1>2. h \in Handlers /\ h.name = name
    BY DEF Handlers, Handler
<1>3. graph.handlers \in Seq(Handlers)
    BY <1>1
<1>4. /\ graph'.handlers = Append(graph.handlers, h)
      /\ graph'.flow = graph.flow
      /\ graph'.namespace = graph.namespace
    BY <1>1 DEF Registers
<1> HIDE DEF h
<1>5. /\ graph'.handlers \in Seq(Handlers)
      /\ Range(graph'.handlers) = Range(graph.handlers) \cup {h}
  <2>1. /\ Append(graph.handlers, h) \in Seq(Handlers)
        /\ Len(Append(graph.handlers, h)) = Len(graph.handlers) + 1
        /\ \A i \in 1 .. Len(graph.handlers) :
             Append(graph.handlers, h)[i] = graph.handlers[i]
        /\ Append(graph.handlers, h)[Len(graph.handlers) + 1] = h
      BY <1>2, <1>3, AppendProperties
  <2>2. Len(graph.handlers) \in Nat
      BY <1>3, LenProperties
  <2>3. Range(Append(graph.handlers, h))
          = {Append(graph.handlers, h)[i] : i \in 1 .. Len(graph.handlers) + 1}
      BY <2>1, RangeEquality
  <2>4. Range(graph.handlers) = {graph.handlers[i] : i \in 1 .. Len(graph.handlers)}
      BY <1>3, RangeEquality
  <2>5. 1 .. Len(graph.handlers) + 1
          = (1 .. Len(graph.handlers)) \cup {Len(graph.handlers) + 1}
      BY <2>2
  <2>6. Range(Append(graph.handlers, h)) = Range(graph.handlers) \cup {h}
      BY <2>1, <2>3, <2>4, <2>5
  <2>. QED BY <1>4, <2>1, <2>6
<1>6. graph' \in [namespace : Namespaces, handlers : Seq(Handlers), flow : Flows]
    BY <1>1, <1>4, <1>5 DEF Registers
<1>7. fns' \in Seq(Entries) /\ KeysOf(fns') = KeysOf(fns) \cup {name}
    BY <1>1, MapSetAdds DEF Registers
<1>8. KeysOf(fns') \subseteq {g.name : g \in Range(graph'.handlers)}
    BY <1>2, <1>5, <1>7 DEF AppInv
<1>9. \A e \in Range(graph'.flow.edges) : e \in EdgesOver(KeysOf(fns'))
    BY <1>4, <1>7 DEF AppInv, EdgesOver
<1>10. KeysOf(fns') = KeysOf(fns)'
    BY DEF KeysOf
<1>. QED BY <1>6, <1>7, <1>8, <1>9, <1>10 DEF AppInv

LEMMA FlowKeepsApp ==
    ASSUME AppInv, NEW name \in FlowNames, NEW stages \in StageLists,
           DeclareFlow(name, stages)
    PROVE  AppInv'
<1>1. CASE stages # <<>> /\ Registered(fns, stages)
  <2> DEFINE edges == FlowEdges(fns, stages)
             flow == [name |-> name, edges |-> edges]
  <2>1. graph \in [namespace : Namespaces, handlers : Seq(Handlers), flow : Flows]
        /\ fns \in Seq(Entries)
      BY DEF AppInv
  <2>2. stages \in Seq(Seq(Fns))
      BY TopoAppAssumption
  <2>3. edges \in Seq(EdgesOver(KeysOf(fns)))
      BY <1>1, <2>1, <2>2, FlowEdgesType
  <2>4. graph' = [graph EXCEPT !.flow = flow] /\ UNCHANGED fns
      BY <1>1 DEF DeclareFlow
  <2>5. KeysOf(fns) \subseteq Names
    <3>1. \A i \in 1 .. Len(fns) : fns[i] \in Entries
        BY <2>1, ElementOfSeq
    <3>. QED BY <3>1 DEF KeysOf, Entries
  <2>6. EdgesOver(KeysOf(fns)) \subseteq EdgesOver(Names)
      BY <2>5 DEF EdgesOver
  <2> HIDE DEF edges
  <2>7. edges \in Seq(EdgesOver(Names))
      BY <2>3, <2>6, SeqMonotonic
  <2>8. flow \in Flows
      BY <2>7 DEF Flows
  <2>9. graph'.flow.edges = edges
      BY <2>1, <2>4
  <2>10. Range(edges) \subseteq EdgesOver(KeysOf(fns))
      BY <2>3, RangeOfSeq
  <2>11. graph'.handlers = graph.handlers
      BY <2>1, <2>4
  <2>12. graph' \in [namespace : Namespaces, handlers : Seq(Handlers), flow : Flows]
    <3> HIDE DEF flow
    <3>. QED BY <2>1, <2>4, <2>8
  <2>13. KeysOf(fns)' = KeysOf(fns)
      BY <2>4 DEF KeysOf
  <2>14. KeysOf(fns)' \subseteq {h.name : h \in Range(graph'.handlers)}
      BY <2>11, <2>13 DEF AppInv
  <2>15. \A e \in Range(graph'.flow.edges) : e \in EdgesOver(KeysOf(fns)')
      BY <2>9, <2>10, <2>13
  <2>. QED BY <2>1, <2>4, <2>12, <2>14, <2>15 DEF AppInv
<1>2. CASE ~(stages # <<>> /\ Registered(fns, stages))
    BY <1>2, AppKept DEF DeclareFlow, appVars
<1>. QED BY <1>1, <1>2

LEMMA KillKeepsApp == ASSUME AppInv, Kill PROVE AppInv'
<1>1. graph' = EmptyGraph(graph.namespace) /\ fns' = <<>>
    BY DEF Kill
<1>2. graph.namespace \in Namespaces
    BY DEF AppInv
<1>3. graph'.flow.edges = <<>>
  <2>1. graph'.flow = NoFlow
      BY <1>1 DEF EmptyGraph, Graph
  <2>2. NoFlow.edges = <<>>
      BY DEF NoFlow
  <2>. QED BY <2>1, <2>2
<1>4. KeysOf(fns)' = {} /\ Range(graph.flow.edges)' = {}
    BY <1>1, <1>3 DEF KeysOf, Range
<1>5. graph' \in [namespace : Namespaces, handlers : Seq(Handlers), flow : Flows]
    BY <1>1, <1>2 DEF EmptyGraph, Graph, Flows
<1>. QED BY <1>1, <1>4, <1>5 DEF AppInv

LEMMA AppStep == ASSUME AppInv, [Next]_vars PROVE AppInv'
<1>1. ASSUME NEW fn \in Fns, NEW override \in Overrides, NEW s \in Signatures,
             RegisterHandler(fn, override, s[1], s[2])
      PROVE  AppInv'
  <2>1. CASE UNCHANGED appVars
      BY <2>1, AppKept
  <2>2. CASE ~UNCHANGED appVars
    <3>1. PICK name \in Names : Registers(fn, name, s)
        BY <1>1, <2>2, RegisterCases
    <3>2. s \in Reflected
        BY <1>1, <2>2, RegisterCases
    <3>. QED BY <3>1, <3>2, RegisterKeepsApp
  <2>. QED BY <2>1, <2>2
<1>2. ASSUME NEW name \in FlowNames, NEW stages \in StageLists,
             DeclareFlow(name, stages)
      PROVE  AppInv'
    BY <1>2, FlowKeepsApp
<1>3. CASE Kill
    BY <1>3, KillKeepsApp
<1>4. CASE RoundTrip \/ Check
    BY <1>4, AppKept DEF RoundTrip, Check, BeginCall
<1>5. CASE CopySource \/ StagingFails \/ Resolve \/ RunTool \/ RemoveDir \/ Return
           \/ RemovalFails \/ Consume
    BY <1>5, AppKept DEF CopySource, StagingFails, Resolve, RunTool, RemoveDir,
                         RemovalFails, Return, Consume, Step
<1>6. CASE DiskChanges
    BY <1>6, AppKept DEF DiskChanges
<1>7. CASE UNCHANGED vars
    BY <1>7, AppKept DEF vars, appVars
<1>. QED BY <1>1, <1>2, <1>3, <1>4, <1>5, <1>6, <1>7 DEF Next

-----------------------------------------------------------------------------
(* Steps: the host and the temporary directory.                            *)

LEMMA HostKept ==
    ASSUME HostInv, UNCHANGED hostVars, threw' \in BOOLEAN PROVE HostInv'
BY DEF HostInv, hostVars

LEMMA HostStep == ASSUME HostInv, [Next]_vars PROVE HostInv'
<1>0. threw \in BOOLEAN
    BY DEF HostInv
<1>1. ASSUME NEW fn \in Fns, NEW override \in Overrides, NEW s \in Signatures,
             RegisterHandler(fn, override, s[1], s[2])
      PROVE  HostInv'
  <2>1. UNCHANGED hostVars
      BY <1>1 DEF RegisterHandler, hostVars
  <2>2. threw' \in BOOLEAN
      BY <1>1 DEF RegisterHandler
  <2>. QED BY <2>1, <2>2, HostKept
<1>2. ASSUME NEW name \in FlowNames, NEW stages \in StageLists,
             DeclareFlow(name, stages)
      PROVE  HostInv'
  <2>1. UNCHANGED hostVars /\ threw' \in BOOLEAN
      BY <1>2 DEF DeclareFlow, hostVars
  <2>. QED BY <2>1, HostKept
<1>3. CASE Kill \/ RemovalFails
  <2>1. /\ threw' \in {FALSE, threw} /\ UNCHANGED << world, disk, changes >>
        /\ unclean' = unclean + 1 /\ changes + unclean < MaxChanges
      BY <1>3 DEF Kill, RemovalFails
  <2>2. changes \in Nat /\ unclean \in Nat /\ MaxChanges \in Nat
      BY TopoAppAssumption DEF HostInv
  <2>3. changes' \in Nat /\ unclean' \in Nat /\ changes' + unclean' <= MaxChanges
      BY <2>1, <2>2
  <2>4. threw' \in BOOLEAN
      BY <1>0, <2>1
  <2>. QED BY <2>1, <2>3, <2>4 DEF HostInv
<1>4. CASE DiskChanges
  <2>1. /\ UNCHANGED << world, unclean, threw >> /\ disk' \in Disks
        /\ changes' = changes + 1 /\ changes + unclean < MaxChanges
      BY <1>4 DEF DiskChanges
  <2>2. changes \in Nat /\ unclean \in Nat /\ MaxChanges \in Nat
      BY TopoAppAssumption DEF HostInv
  <2>3. changes' \in Nat /\ unclean' \in Nat /\ changes' + unclean' <= MaxChanges
      BY <2>1, <2>2
  <2>. QED BY <2>1, <2>3 DEF HostInv
<1>5. CASE RoundTrip \/ Check
  <2>1. UNCHANGED hostVars /\ threw' \in BOOLEAN
      BY <1>5 DEF RoundTrip, Check, BeginCall, hostVars
  <2>. QED BY <2>1, HostKept
<1>6. CASE CopySource \/ StagingFails \/ Resolve \/ RunTool \/ RemoveDir \/ Consume
  <2>1. UNCHANGED hostVars /\ UNCHANGED threw
      BY <1>6 DEF CopySource, StagingFails, Resolve, RunTool, RemoveDir,
                  Consume, Step, hostVars
  <2>. QED BY <1>0, <2>1, HostKept
<1>7. CASE Return
  <2>1. UNCHANGED hostVars /\ threw' \in BOOLEAN
      BY <1>7 DEF Return, Step, hostVars
  <2>. QED BY <2>1, HostKept
<1>8. CASE UNCHANGED vars
    BY <1>0, <1>8, HostKept DEF vars, hostVars
<1>. QED BY <1>1, <1>2, <1>3, <1>4, <1>5, <1>6, <1>7, <1>8 DEF Next

(* What a step does to the program counter of a call, and nothing else.    *)
PcBecomes(pc) == call'.pc = pc

LEMMA DirKept ==
    ASSUME DirInv, UNCHANGED << call, dirs, unclean >> PROVE DirInv'
BY DEF DirInv, Underway

LEMMA PcOfStep ==
    ASSUME CallInv
    PROVE  /\ CopySource => call.pc = "staging" /\ PcBecomes("staging")
           /\ StagingFails => call.pc = "staging" /\ PcBecomes("cleaning")
           /\ Resolve => call.pc = "staging" /\ call'.pc \in {"resolved", "cleaning"}
           /\ RunTool => call.pc = "resolved" /\ PcBecomes("cleaning")
           /\ RemoveDir => call.pc = "cleaning" /\ PcBecomes("cleaned")
           /\ RemovalFails => call.pc = "cleaning" /\ PcBecomes("cleaned")
           /\ Return => call.pc = "cleaned" /\ call'.pc \in {"idle", "returned"}
           /\ Consume => call.pc = "returned" /\ PcBecomes("idle")
<1>1. "pc" \in DOMAIN call
    BY DEF CallInv, NoCall
<1>2. NoCall.pc = "idle"
    BY DEF NoCall
<1>3. CopySource => call.pc = "staging" /\ PcBecomes("staging")
    BY <1>1 DEF CopySource, Step, PcBecomes
<1>4. StagingFails => call.pc = "staging" /\ PcBecomes("cleaning")
    BY <1>1 DEF StagingFails, Step, PcBecomes
<1>5. Resolve => call.pc = "staging" /\ call'.pc \in {"resolved", "cleaning"}
    BY <1>1 DEF Resolve, Step
<1>6. RunTool => call.pc = "resolved" /\ PcBecomes("cleaning")
    BY <1>1 DEF RunTool, Step, PcBecomes
<1>7. RemoveDir => call.pc = "cleaning" /\ PcBecomes("cleaned")
    BY <1>1 DEF RemoveDir, Step, PcBecomes
<1>8. Return => call.pc = "cleaned" /\ call'.pc \in {"idle", "returned"}
    BY <1>1, <1>2 DEF Return, Step
<1>9. Consume => call.pc = "returned" /\ PcBecomes("idle")
    BY <1>2 DEF Consume, Step, PcBecomes
<1>10. RemovalFails => call.pc = "cleaning" /\ PcBecomes("cleaned")
    BY <1>1 DEF RemovalFails, PcBecomes
<1>. QED BY <1>3, <1>4, <1>5, <1>6, <1>7, <1>8, <1>9, <1>10

LEMMA DirStep == ASSUME CallInv, HostInv, DirInv, [Next]_vars PROVE DirInv'
<1>0. dirs \in Nat /\ unclean \in Nat
    BY DEF DirInv, HostInv
<1>1. ASSUME NEW fn \in Fns, NEW override \in Overrides, NEW s \in Signatures,
             RegisterHandler(fn, override, s[1], s[2])
      PROVE  DirInv'
    BY <1>1, RegisterCases, DirKept DEF hostVars
<1>2. ASSUME NEW name \in FlowNames, NEW stages \in StageLists,
             DeclareFlow(name, stages)
      PROVE  DirInv'
    BY <1>2, DirKept DEF DeclareFlow, hostVars
<1>3. CASE RoundTrip \/ Check
  <2>1. UNCHANGED unclean /\ Idle
        /\ (UNCHANGED << call, dirs >> \/ (dirs' = dirs + 1 /\ call'.pc = "staging"))
      BY <1>3 DEF RoundTrip, Check, BeginCall, hostVars, NoCall
  <2>2. CASE UNCHANGED << call, dirs >>
      BY <2>1, <2>2, DirKept
  <2>3. CASE dirs' = dirs + 1 /\ call'.pc = "staging"
      BY <1>0, <2>1, <2>3 DEF DirInv, Underway, Idle
  <2>. QED BY <2>1, <2>2, <2>3
<1>4. CASE CopySource \/ StagingFails \/ Resolve \/ RunTool
  <2>1. UNCHANGED dirs /\ UNCHANGED unclean
      BY <1>4 DEF CopySource, StagingFails, Resolve, RunTool, Step, hostVars
  <2>2. Underway /\ Underway'
      BY <1>4, PcOfStep DEF Underway, PcBecomes
  <2>. QED BY <2>1, <2>2 DEF DirInv
<1>5. CASE RemoveDir
  <2>1. dirs' = dirs - 1 /\ UNCHANGED unclean
      BY <1>5 DEF RemoveDir, Step, hostVars
  <2>2. Underway /\ ~Underway'
      BY <1>5, PcOfStep DEF Underway, PcBecomes
  <2>. QED BY <1>0, <2>1, <2>2 DEF DirInv
<1>6. CASE Return \/ Consume
  <2>1. UNCHANGED dirs /\ UNCHANGED unclean
      BY <1>6 DEF Return, Consume, Step, hostVars
  <2>2. ~Underway /\ ~Underway'
      BY <1>6, PcOfStep DEF Underway, PcBecomes
  <2>. QED BY <2>1, <2>2 DEF DirInv
<1>7. CASE Kill
  <2>1. UNCHANGED dirs /\ unclean' = unclean + 1 /\ call' = NoCall
      BY <1>7 DEF Kill
  <2>2. NoCall.pc = "idle"
      BY DEF NoCall
  <2>3. ~Underway'
      BY <2>1, <2>2 DEF Underway
  <2>. QED BY <1>0, <2>1, <2>3 DEF DirInv
<1>8. CASE DiskChanges \/ UNCHANGED vars
    BY <1>8, DirKept DEF DiskChanges, vars
<1>9. CASE RemovalFails
  <2>1. UNCHANGED dirs /\ unclean' = unclean + 1
      BY <1>9 DEF RemovalFails
  <2>2. Underway /\ ~Underway'
      BY <1>9, PcOfStep DEF Underway, PcBecomes
  <2>. QED BY <1>0, <2>1, <2>2 DEF DirInv
<1>. QED BY <1>1, <1>2, <1>3, <1>4, <1>5, <1>6, <1>7, <1>8, <1>9 DEF Next

-----------------------------------------------------------------------------
(* Steps: the staged sources.                                              *)

LEMMA StagedKept ==
    ASSUME StagedInv, call'.sources = call.sources, call'.copied = call.copied,
           call'.staged = call.staged
    PROVE  StagedInv'
<1>1. call'.sources \in Seq(SourceFiles)
    BY DEF StagedInv
<1>2. call'.copied \in 0 .. Len(call'.sources)
    BY DEF StagedInv
<1>3. \A b \in DOMAIN call'.staged : \E i \in 1 .. call'.copied :
        call'.sources[i].base = b /\ call'.sources[i].content = call'.staged[b]
    BY DEF StagedInv
<1>4. \A i \in 1 .. call'.copied : call'.sources[i].base \in DOMAIN call'.staged
    BY DEF StagedInv
<1>5. (\A i, j \in 1 .. Len(call'.sources) :
          call'.sources[i].base = call'.sources[j].base => i = j)
       => \A i \in 1 .. call'.copied :
            call'.staged[call'.sources[i].base] = call'.sources[i].content
    BY DEF StagedInv
<1>. QED BY <1>1, <1>2, <1>3, <1>4, <1>5 DEF StagedInv

LEMMA NoCallFields ==
    /\ NoCall.pc = "idle" /\ NoCall.says # "PASS"
    /\ NoCall.sources = <<>> /\ NoCall.copied = 0 /\ NoCall.staged = <<>>
BY DEF NoCall

LEMMA NothingStaged ==
    ASSUME call'.sources \in Seq(SourceFiles), call'.copied = 0, call'.staged = <<>>
    PROVE  StagedInv'
<1>1. Len(call'.sources) \in Nat
    BY LenProperties
<1>2. 0 \in 0 .. Len(call'.sources)
    BY <1>1
<1>3. 1 .. call'.copied = {} /\ DOMAIN call'.staged = {}
    BY DEF StagedInv
<1>. QED BY <1>2, <1>3 DEF StagedInv

LEMMA BeginStages ==
    ASSUME NEW tool, NEW sources \in Seq(SourceFiles), BeginCall(tool, sources),
           ~UNCHANGED call
    PROVE  /\ StagedInv'
           /\ call'.pc = "staging" /\ call'.text = EmitTopo(graph)
           /\ call'.says # "PASS" /\ DOMAIN call' = DOMAIN NoCall
<1>1. call' = [NoCall EXCEPT !.pc = "staging", !.tool = tool,
                 !.text = EmitTopo(graph), !.sources = sources]
    BY DEF BeginCall
<1>2. DOMAIN NoCall = {"pc", "tool", "text", "sources", "copied", "staged", "bin",
                       "status", "says", "read"}
    BY DEF NoCall
<1>3. /\ call'.pc = "staging" /\ call'.text = EmitTopo(graph)
      /\ call'.sources = sources /\ call'.copied = NoCall.copied
      /\ call'.staged = NoCall.staged /\ call'.says = NoCall.says
      /\ DOMAIN call' = DOMAIN NoCall
  <2> HIDE DEF NoCall
  <2>. QED BY <1>1, <1>2
<1>4. StagedInv'
    BY <1>3, NoCallFields, NothingStaged
<1>. QED BY <1>3, <1>4, NoCallFields

LEMMA CallDomain ==
    ASSUME CallInv
    PROVE  {"pc", "tool", "text", "sources", "copied", "staged", "bin", "status",
            "says", "read"} = DOMAIN call
BY DEF CallInv, NoCall

LEMMA CopyStages == ASSUME StagedInv, CallInv, CopySource PROVE StagedInv'
<1> DEFINE k == call.copied + 1
           src == call.sources[k]
<1>1. /\ call.sources \in Seq(SourceFiles) /\ call.copied \in 0 .. Len(call.sources)
      /\ call.copied < Len(call.sources)
    BY DEF StagedInv, CopySource
<1>2. Len(call.sources) \in Nat
    BY <1>1, LenProperties
<1>3. k \in 1 .. Len(call.sources) /\ k \in 0 .. Len(call.sources)
    BY <1>1, <1>2
<1>4. 1 .. k = (1 .. call.copied) \cup {k} /\ k \notin 1 .. call.copied
    BY <1>1, <1>2
<1>5. /\ call'.sources = call.sources /\ call'.copied = k
      /\ call'.staged = Copied(call.staged, src)
  <2>1. "sources" \in DOMAIN call /\ "copied" \in DOMAIN call /\ "staged" \in DOMAIN call
      BY CallDomain
  <2>2. call' = [call EXCEPT !.copied = @ + 1,
                   !.staged = Copied(@, src)]
      BY DEF CopySource
  <2> HIDE DEF src
  <2>. QED BY <2>1, <2>2
<1> HIDE DEF k
<1>6. /\ DOMAIN call'.staged = DOMAIN call.staged \cup {src.base}
      /\ \A b \in DOMAIN call'.staged :
           call'.staged[b] = IF b = src.base THEN src.content ELSE call.staged[b]
    BY <1>5 DEF Copied
<1>7. \A b \in DOMAIN call'.staged : \E i \in 1 .. k :
        call.sources[i].base = b /\ call.sources[i].content = call'.staged[b]
  <2>1. SUFFICES ASSUME NEW b \in DOMAIN call'.staged
                 PROVE  \E i \in 1 .. k : call.sources[i].base = b
                          /\ call.sources[i].content = call'.staged[b]
      OBVIOUS
  <2>2. CASE b = src.base
      BY <1>4, <1>6, <2>2
  <2>3. CASE b # src.base
    <3>1. b \in DOMAIN call.staged /\ call'.staged[b] = call.staged[b]
        BY <1>6, <2>3
    <3>2. PICK i \in 1 .. call.copied :
            call.sources[i].base = b /\ call.sources[i].content = call.staged[b]
        BY <3>1 DEF StagedInv
    <3>. QED BY <1>4, <3>1, <3>2
  <2>. QED BY <2>2, <2>3
<1>8. \A i \in 1 .. k : call.sources[i].base \in DOMAIN call'.staged
    BY <1>4, <1>6 DEF StagedInv
<1>9. ASSUME \A i, j \in 1 .. Len(call.sources) :
               call.sources[i].base = call.sources[j].base => i = j
      PROVE  \A i \in 1 .. k :
               call'.staged[call.sources[i].base] = call.sources[i].content
  <2>1. SUFFICES ASSUME NEW i \in 1 .. k
                 PROVE  call'.staged[call.sources[i].base] = call.sources[i].content
      OBVIOUS
  <2>2. CASE i = k
      BY <1>6, <2>2
  <2>3. CASE i # k
    <3>1. i \in 1 .. call.copied
        BY <1>4, <2>3
    <3>2. i \in 1 .. Len(call.sources)
        BY <1>1, <1>2, <3>1
    <3>3. call.sources[i].base # src.base
        BY <1>3, <1>9, <2>3, <3>2
    <3>4. call.sources[i].base \in DOMAIN call.staged
          /\ call.staged[call.sources[i].base] = call.sources[i].content
        BY <1>9, <3>1 DEF StagedInv
    <3>. QED BY <1>6, <3>3, <3>4
  <2>. QED BY <2>2, <2>3
<1>. QED BY <1>1, <1>3, <1>5, <1>7, <1>8, <1>9 DEF StagedInv

LEMMA StagedStep == ASSUME StagedInv, CallInv, [Next]_vars PROVE StagedInv'
<1>1. ASSUME UNCHANGED call PROVE StagedInv'
    BY <1>1, StagedKept
<1>2. ASSUME NEW fn \in Fns, NEW override \in Overrides, NEW s \in Signatures,
             RegisterHandler(fn, override, s[1], s[2])
      PROVE  UNCHANGED call
    BY <1>2 DEF RegisterHandler
<1>3. ASSUME NEW name \in FlowNames, NEW stages \in StageLists,
             DeclareFlow(name, stages)
      PROVE  UNCHANGED call
    BY <1>3 DEF DeclareFlow
<1>4. CASE RoundTrip
  <2>1. <<>> \in Seq(SourceFiles)
      OBVIOUS
  <2>. QED BY <1>1, <1>4, <2>1, BeginStages DEF RoundTrip
<1>5. CASE Check
  <2>1. PICK sources \in Sources : BeginCall("topo-check", sources)
      BY <1>5 DEF Check
  <2>2. sources \in Seq(SourceFiles)
      BY TopoAppAssumption DEF SourceFiles
  <2>. QED BY <1>1, <2>1, <2>2, BeginStages
<1>6. CASE CopySource
    BY <1>6, CopyStages
<1>7. CASE \/ StagingFails \/ Resolve \/ RunTool \/ RemoveDir \/ RemovalFails
           \/ (Return /\ call' # NoCall)
  <2>1. "sources" \in DOMAIN call /\ "copied" \in DOMAIN call /\ "staged" \in DOMAIN call
      BY CallDomain
  <2>2. /\ call'.sources = call.sources /\ call'.copied = call.copied
        /\ call'.staged = call.staged
      BY <1>7, <2>1 DEF StagingFails, Resolve, RunTool, RemoveDir, RemovalFails, Return
  <2>. QED BY <2>2, StagedKept
<1>8. CASE Consume \/ Kill \/ (Return /\ call' = NoCall)
  <2>1. call' = NoCall
      BY <1>8 DEF Consume, Kill
  <2>2. call'.sources \in Seq(SourceFiles) /\ call'.copied = 0 /\ call'.staged = <<>>
      BY <2>1, NoCallFields
  <2>. QED BY <2>2, NothingStaged
<1>9. CASE DiskChanges \/ UNCHANGED vars
    BY <1>1, <1>9 DEF DiskChanges, vars
<1>. QED BY <1>1, <1>2, <1>3, <1>4, <1>5, <1>6, <1>7, <1>8, <1>9 DEF Next

-----------------------------------------------------------------------------
(* Steps: the call under way.                                              *)

LEMMA NoCallKnown == ASSUME call' = NoCall PROVE CallInv'
BY NoCallFields DEF CallInv, Pcs

LEMMA IdleKeeps ==
    ASSUME CallInv, Idle, UNCHANGED call PROVE CallInv'
BY DEF CallInv, Idle

(* A step within a call: the graph stays, so its text does.                *)
LEMMA WithinKeeps ==
    ASSUME CallInv, call.pc # "idle", UNCHANGED graph,
           DOMAIN call' = DOMAIN call, call'.pc \in Pcs, call'.pc # "idle",
           call'.text = call.text, call'.sources = call.sources,
           call'.pc = "resolved" => call'.copied = Len(call.sources),
           call'.says = "PASS" =>
             call'.copied = Len(call.sources) /\ Passes(call.text, Range(call'.staged))
    PROVE  CallInv'
<1>1. EmitTopo(graph)' = EmitTopo(graph)
    OBVIOUS
<1>2. call'.text = EmitTopo(graph')
    BY <1>1 DEF CallInv
<1>3. DOMAIN call' = DOMAIN NoCall
    BY DEF CallInv
<1>. QED BY <1>2, <1>3 DEF CallInv

LEMMA BeginKnown ==
    ASSUME CallInv, NEW tool, NEW sources \in Seq(SourceFiles), BeginCall(tool, sources)
    PROVE  CallInv'
<1>1. CASE UNCHANGED call
    BY <1>1, IdleKeeps DEF BeginCall
<1>2. CASE ~UNCHANGED call
  <2>1. /\ call'.pc = "staging" /\ call'.text = EmitTopo(graph)
        /\ call'.says # "PASS" /\ DOMAIN call' = DOMAIN NoCall
      BY <1>2, BeginStages
  <2>2. UNCHANGED graph
      BY DEF BeginCall, appVars
  <2>. QED BY <2>1, <2>2 DEF CallInv, Pcs
<1>. QED BY <1>1, <1>2

LEMMA CallStep == ASSUME StagedInv, CallInv, [Next]_vars PROVE CallInv'
<1> USE CallDomain
<1>1. ASSUME NEW fn \in Fns, NEW override \in Overrides, NEW s \in Signatures,
             RegisterHandler(fn, override, s[1], s[2])
      PROVE  CallInv'
    BY <1>1, IdleKeeps DEF RegisterHandler
<1>2. ASSUME NEW name \in FlowNames, NEW stages \in StageLists,
             DeclareFlow(name, stages)
      PROVE  CallInv'
    BY <1>2, IdleKeeps DEF DeclareFlow
<1>3. CASE RoundTrip
  <2>1. <<>> \in Seq(SourceFiles)
      OBVIOUS
  <2>. QED BY <1>3, <2>1, BeginKnown DEF RoundTrip
<1>4. CASE Check
  <2>1. PICK sources \in Sources : BeginCall("topo-check", sources)
      BY <1>4 DEF Check
  <2>2. sources \in Seq(SourceFiles)
      BY TopoAppAssumption DEF SourceFiles
  <2>. QED BY <2>1, <2>2, BeginKnown
<1>5. CASE CopySource
  <2>1. /\ call.pc = "staging" /\ call.copied < Len(call.sources) /\ UNCHANGED graph
        /\ call' = [call EXCEPT !.copied = @ + 1,
                      !.staged = Copied(@, call.sources[call.copied + 1])]
      BY <1>5 DEF CopySource, Step, appVars
  <2>2. Len(call.sources) \in Nat
      BY LenProperties DEF StagedInv
  <2>3. call.says # "PASS"
      BY <2>1, <2>2 DEF CallInv
  <2>4. /\ DOMAIN call' = DOMAIN call /\ call'.pc = "staging"
        /\ call'.text = call.text /\ call'.sources = call.sources
        /\ call'.says = call.says
      BY <2>1
  <2>. QED BY <2>1, <2>3, <2>4, WithinKeeps DEF Pcs
<1>6. CASE StagingFails \/ RemoveDir \/ RemovalFails
  <2>1. /\ call.pc \in {"staging", "cleaning"} /\ UNCHANGED graph
        /\ \/ call' = [call EXCEPT !.pc = "cleaning", !.status = "threw"]
           \/ call' = [call EXCEPT !.pc = "cleaned"]
           \/ call' = [call EXCEPT !.pc = "cleaned", !.status = "threw"]
      BY <1>6 DEF StagingFails, RemoveDir, RemovalFails, Step, appVars
  <2>2. /\ DOMAIN call' = DOMAIN call /\ call'.pc \in {"cleaning", "cleaned"}
        /\ call'.text = call.text /\ call'.sources = call.sources
        /\ call'.copied = call.copied /\ call'.staged = call.staged
        /\ call'.says = call.says
      BY <2>1
  <2>3. call'.says = "PASS" =>
          call'.copied = Len(call.sources) /\ Passes(call.text, Range(call'.staged))
      BY <2>2 DEF CallInv
  <2>. QED BY <2>1, <2>2, <2>3, WithinKeeps DEF Pcs
<1>7. CASE Resolve
  <2>1. /\ call.pc = "staging" /\ UNCHANGED graph
        /\ call.copied = Len(call.sources)
        /\ \/ call' = [call EXCEPT !.pc = "cleaning", !.status = "threw"]
           \/ call' = [call EXCEPT !.pc = "resolved",
                                   !.bin = Find(world, disk, call.tool)]
      BY <1>7 DEF Resolve, Step, appVars
  <2>2. /\ DOMAIN call' = DOMAIN call /\ call'.pc \in {"cleaning", "resolved"}
        /\ call'.text = call.text /\ call'.sources = call.sources
        /\ call'.copied = call.copied /\ call'.staged = call.staged
        /\ call'.says = call.says
      BY <2>1
  <2>3. call'.says = "PASS" =>
          call'.copied = Len(call.sources) /\ Passes(call.text, Range(call'.staged))
      BY <2>2 DEF CallInv
  <2>. QED BY <2>1, <2>2, <2>3, WithinKeeps DEF Pcs
<1>8. CASE RunTool
  <2> DEFINE verdict == IF Passes(call.text, Range(call.staged)) THEN "PASS" ELSE "FAIL"
  <2>1. /\ call.pc = "resolved" /\ UNCHANGED graph
        /\ \/ \E status \in {"0", "1", "null"} :
                call' = [call EXCEPT !.pc = "cleaning", !.status = status]
           \/ \E status \in {"0", "1", "null"} :
                call' = [call EXCEPT !.pc = "cleaning", !.status = status,
                                     !.says = verdict]
      BY <1>8 DEF RunTool, Step, appVars
  <2>2. call.copied = Len(call.sources)
      BY <2>1 DEF CallInv
  <2> HIDE DEF verdict
  <2>3. /\ DOMAIN call' = DOMAIN call /\ call'.pc = "cleaning"
        /\ call'.text = call.text /\ call'.sources = call.sources
        /\ call'.copied = call.copied /\ call'.staged = call.staged
        /\ call'.says \in {call.says, verdict}
      BY <2>1
  <2>4. verdict = "PASS" => Passes(call.text, Range(call.staged))
      BY DEF verdict
  <2>5. call'.says = "PASS" =>
          call'.copied = Len(call.sources) /\ Passes(call.text, Range(call'.staged))
      BY <2>2, <2>3, <2>4 DEF CallInv
  <2>. QED BY <2>1, <2>3, <2>5, WithinKeeps DEF Pcs
<1>9. CASE Return
  <2>1. /\ call.pc = "cleaned" /\ UNCHANGED graph
        /\ \/ call' = NoCall
           \/ call' = [call EXCEPT !.pc = "returned",
                !.read = IF call.tool = "topo" THEN ReadTopo(call.text) ELSE @]
      BY <1>9 DEF Return, Step, appVars
  <2>2. CASE call' = NoCall
      BY <2>2, NoCallKnown
  <2>3. CASE call' # NoCall
    <3>1. /\ DOMAIN call' = DOMAIN call /\ call'.pc = "returned"
          /\ call'.text = call.text /\ call'.sources = call.sources
          /\ call'.copied = call.copied /\ call'.staged = call.staged
          /\ call'.says = call.says
        BY <2>1, <2>3
    <3>2. call'.says = "PASS" =>
            call'.copied = Len(call.sources) /\ Passes(call.text, Range(call'.staged))
        BY <3>1 DEF CallInv
    <3>. QED BY <2>1, <3>1, <3>2, WithinKeeps DEF Pcs
  <2>. QED BY <2>2, <2>3
<1>10. CASE Consume \/ Kill
    BY <1>10, NoCallKnown DEF Consume, Kill
<1>11. CASE DiskChanges \/ UNCHANGED vars
  <2>1. UNCHANGED call /\ UNCHANGED graph
      BY <1>11 DEF DiskChanges, vars, appVars
  <2>. QED BY <2>1 DEF CallInv
<1>. QED BY <1>1, <1>2, <1>3, <1>4, <1>5, <1>6, <1>7, <1>8, <1>9, <1>10, <1>11 DEF Next

LEMMA ReadStep == ASSUME ReadInv, CallInv, [Next]_vars PROVE ReadInv'
<1> USE CallDomain
<1>1. CASE UNCHANGED call
    BY <1>1 DEF ReadInv
<1>2. CASE call' = NoCall
    BY <1>2, NoCallFields DEF ReadInv
<1>3. ASSUME NEW tool, NEW sources, BeginCall(tool, sources) PROVE ReadInv'
    BY <1>3, <1>1 DEF BeginCall, NoCall, ReadInv
<1>4. CASE RoundTrip \/ Check
    BY <1>3, <1>4 DEF RoundTrip, Check
<1>5. CASE CopySource \/ StagingFails \/ Resolve \/ RunTool \/ RemoveDir \/ RemovalFails
  <2>1. call'.pc \in {"staging", "resolved", "cleaning", "cleaned"}
      BY <1>5 DEF CopySource, StagingFails, Resolve, RunTool, RemoveDir, RemovalFails, Step
  <2>. QED BY <2>1 DEF ReadInv
<1>6. CASE Return
  <2> DEFINE r == IF call.tool = "topo" THEN ReadTopo(call.text) ELSE call.read
  <2>1. call' = NoCall \/ call' = [call EXCEPT !.pc = "returned", !.read = r]
      BY <1>6 DEF Return
  <2>2. call.tool = "topo" => r = ReadTopo(call.text)
      OBVIOUS
  <2> HIDE DEF r
  <2>3. ASSUME call' = [call EXCEPT !.pc = "returned", !.read = r] PROVE ReadInv'
    <3>1. call'.tool = call.tool /\ call'.text = call.text /\ call'.read = r
        BY <2>3
    <3>. QED BY <2>2, <3>1 DEF ReadInv
  <2>. QED BY <1>2, <2>1, <2>3
<1>7. CASE Consume \/ Kill
    BY <1>2, <1>7 DEF Consume, Kill
<1>8. CASE DiskChanges \/ UNCHANGED vars
    BY <1>1, <1>8 DEF DiskChanges, vars
<1>9. ASSUME NEW fn \in Fns, NEW override \in Overrides, NEW s \in Signatures,
             RegisterHandler(fn, override, s[1], s[2])
      PROVE  ReadInv'
    BY <1>1, <1>9 DEF RegisterHandler
<1>10. ASSUME NEW name \in FlowNames, NEW stages \in StageLists,
             DeclareFlow(name, stages)
      PROVE  ReadInv'
    BY <1>1, <1>10 DEF DeclareFlow
<1>. QED BY <1>4, <1>5, <1>6, <1>7, <1>8, <1>9, <1>10 DEF Next

LEMMA InvStep == ASSUME IInv, [Next]_vars PROVE IInv'
BY AppStep, HostStep, DirStep, StagedStep, CallStep, ReadStep DEF IInv

THEOREM Invariance == Spec => []IInv
<1>1. Init => IInv
    BY InitApp
<1>2. IInv /\ [Next]_vars => IInv'
    BY InvStep
<1>. QED BY <1>1, <1>2, PTL DEF Spec

-----------------------------------------------------------------------------
(* What follows from the invariant.                                        *)

LEMMA InvType == ASSUME IInv PROVE TypeOK
<1>1. graph \in [namespace : Namespaces, handlers : Seq(Handlers), flow : Flows]
      /\ fns \in Seq(Entries)
    BY DEF IInv, AppInv
<1>2. graph.namespace \in Namespaces /\ graph.handlers \in Seq(Handlers)
      /\ graph.flow \in Flows
    BY <1>1
<1>3. \A h \in Range(graph.handlers) : h.name \in Names
  <2>1. Range(graph.handlers) \subseteq Handlers
      BY <1>2, RangeOfSeq
  <2>2. \A h \in Handlers : h.name \in Names
      BY DEF Handlers, Handler
  <2>. QED BY <2>1, <2>2
<1>4. graph.flow = NoFlow \/ graph.flow.name \in FlowNames
    BY <1>2 DEF Flows
<1>5. \A e \in Range(fns) : e.name \in Names /\ e.fn \in Fns
  <2>1. Range(fns) \subseteq Entries
      BY <1>1, RangeOfSeq
  <2>. QED BY <2>1 DEF Entries
<1>6. dirs \in 0 .. MaxChanges + 1
  <2>1. dirs \in Nat /\ unclean \in Nat /\ changes \in Nat /\ changes + unclean <= MaxChanges
        /\ MaxChanges \in Nat
      BY TopoAppAssumption DEF IInv, DirInv, HostInv
  <2>2. dirs <= unclean + 1
      BY <2>1 DEF IInv, DirInv
  <2>. QED BY <2>1, <2>2
<1>7. call.pc \in Pcs
    BY DEF IInv, CallInv
<1>. QED BY <1>2, <1>3, <1>4, <1>5, <1>6, <1>7 DEF IInv, HostInv, TypeOK

LEMMA EdgeEnds ==
    ASSUME NEW K, NEW e \in EdgesOver(K)
    PROVE  e.source \in K /\ e.target \in K \cup {NoName}
<1>1. PICK s \in K, t \in K \cup {NoName} : e = Edge(s, t)
    BY DEF EdgesOver
<1>. QED BY <1>1 DEF Edge

LEMMA InvEdges == ASSUME IInv PROVE EdgesResolve
<1>1. SUFFICES ASSUME NEW e \in Range(graph.flow.edges),
                      NEW name \in {e.source, e.target} \ {""}
               PROVE  /\ \E h \in Range(graph.handlers) : h.name = name
                      /\ CallableFor(fns, name) # NoFn
    BY DEF EdgesResolve
<1>2. e \in EdgesOver(KeysOf(fns))
    BY DEF IInv, AppInv
<1>3. e.source \in KeysOf(fns) /\ e.target \in KeysOf(fns) \cup {NoName}
    BY <1>2, EdgeEnds
<1>4. name \in KeysOf(fns)
    BY <1>3 DEF NoName
<1>5. fns \in Seq(Entries) /\ KeysOf(fns) \subseteq {h.name : h \in Range(graph.handlers)}
    BY DEF IInv, AppInv
<1>6. \E h \in Range(graph.handlers) : h.name = name
    BY <1>4, <1>5
<1>. QED BY <1>4, <1>5, <1>6, KeyIsCallable

(* The handlers of a graph are handlers of its text.                       *)
LEMMA TextHasHandlers ==
    ASSUME NEW g, g.handlers \in Seq(Handlers), g.flow \in Flows,
           NEW h \in Range(g.handlers)
    PROVE  h.name \in HandlersOf(EmitTopo(g))
<1> DEFINE ns == Decl("namespace", g.namespace, <<>>, <<>>, "")
           flow == Decl("flow", g.flow.name, <<>>, <<>>, "")
           D == {ns, flow} \cup {HandlerDecl(k) : k \in Range(g.handlers)}
                  \cup {EdgeDecl(e) : e \in Range(g.flow.edges)}
           H == [i \in 1 .. Len(g.handlers) |-> HandlerDecl(g.handlers[i])]
           E == [i \in 1 .. Len(g.flow.edges) |-> EdgeDecl(g.flow.edges[i])]
           F == IF g.flow = NoFlow THEN <<>> ELSE <<flow>> \o E
<1>1. EmitTopo(g) = <<ns>> \o H \o F
    BY DEF EmitTopo
<1>2. Len(g.handlers) \in Nat
    BY LenProperties
<1>3. \A i \in 1 .. Len(g.handlers) : g.handlers[i] \in Range(g.handlers)
    BY RangeEquality
<1> HIDE DEF ns, flow
<1>4. H \in Seq(D) /\ Len(H) = Len(g.handlers)
  <2>1. \A i \in 1 .. Len(g.handlers) : HandlerDecl(g.handlers[i]) \in D
      BY <1>3
  <2> HIDE DEF D
  <2>. QED BY <1>2, <2>1
<1>5. F \in Seq(D)
  <2>1. CASE g.flow = NoFlow
      BY <2>1
  <2>2. CASE g.flow # NoFlow
    <3>1. g.flow.edges \in Seq(EdgesOver(Names))
        BY <2>2 DEF Flows
    <3>2. Len(g.flow.edges) \in Nat
        BY <3>1, LenProperties
    <3>3. \A i \in 1 .. Len(g.flow.edges) : g.flow.edges[i] \in Range(g.flow.edges)
        BY <3>1, RangeEquality
    <3>4. \A i \in 1 .. Len(g.flow.edges) : EdgeDecl(g.flow.edges[i]) \in D
        BY <3>3
    <3>5. flow \in D
        OBVIOUS
    <3> HIDE DEF D
    <3>6. E \in Seq(D)
        BY <3>2, <3>4
    <3>7. <<flow>> \in Seq(D)
        BY <3>5
    <3> HIDE DEF E
    <3>8. <<flow>> \o E \in Seq(D)
        BY <3>6, <3>7, ConcatProperties
    <3>. QED BY <2>2, <3>8
  <2>. QED BY <2>1, <2>2
<1>6. ns \in D
    OBVIOUS
<1>7. PICK i \in 1 .. Len(g.handlers) : h = g.handlers[i]
    BY RangeEquality
<1>8. H[i] = HandlerDecl(h)
    BY <1>7
<1>9. HandlerDecl(h).node = "handler" /\ HandlerDecl(h).name = h.name
    BY DEF HandlerDecl, Decl
<1> HIDE DEF D, H, F
<1>10. <<ns>> \in Seq(D) /\ Len(<<ns>>) = 1
    BY <1>6
<1>11. /\ <<ns>> \o H \in Seq(D)
       /\ Len(<<ns>> \o H) = 1 + Len(H)
       /\ \A k \in 1 .. 1 + Len(H) :
            (<<ns>> \o H)[k] = IF k <= 1 THEN <<ns>>[k] ELSE H[k - 1]
    BY <1>4, <1>10, ConcatProperties
<1>12. /\ EmitTopo(g) \in Seq(D)
       /\ Len(EmitTopo(g)) = Len(<<ns>> \o H) + Len(F)
       /\ \A k \in 1 .. Len(<<ns>> \o H) + Len(F) :
            EmitTopo(g)[k] = IF k <= Len(<<ns>> \o H) THEN (<<ns>> \o H)[k]
                             ELSE F[k - Len(<<ns>> \o H)]
    BY <1>1, <1>5, <1>11, ConcatProperties
<1>13. Len(F) \in Nat
    BY <1>5, LenProperties
<1>14. i + 1 \in 1 .. Len(EmitTopo(g)) /\ i + 1 <= 1 + Len(H) /\ ~(i + 1 <= 1)
       /\ (i + 1) - 1 = i /\ i + 1 \in 1 .. 1 + Len(H)
    BY <1>2, <1>4, <1>7, <1>11, <1>12, <1>13
<1>15. EmitTopo(g)[i + 1] = H[i]
    BY <1>11, <1>12, <1>13, <1>14
<1>16. i + 1 \in DOMAIN EmitTopo(g)
    BY <1>12, <1>14, LenProperties
<1>. QED BY <1>8, <1>9, <1>15, <1>16 DEF HandlersOf

LEMMA InvPass == ASSUME IInv PROVE PassCoversEverySource
<1>1. SUFFICES ASSUME call.pc = "returned", call.says = "PASS"
               PROVE  LET given == Range(call.sources)
                      IN  /\ \A h \in Range(graph.handlers) :
                                \E s \in given : h.name \in s.content.defines
                          /\ \/ \A s \in given : s.content.pure
                             \/ \E i, j \in DOMAIN call.sources :
                                  /\ i # j
                                  /\ call.sources[i].base = call.sources[j].base
    BY DEF PassCoversEverySource, Passed
<1>2. /\ call.text = EmitTopo(graph)
      /\ call.copied = Len(call.sources)
      /\ HandlersOf(call.text) \subseteq UNION {c.defines : c \in Range(call.staged)}
      /\ \A c \in Range(call.staged) : c.pure
    BY <1>1 DEF IInv, CallInv, Passes
<1>3. call.sources \in Seq(SourceFiles)
    BY DEF IInv, StagedInv
<1>4. Range(call.sources) = {call.sources[i] : i \in 1 .. Len(call.sources)}
      /\ DOMAIN call.sources = 1 .. Len(call.sources)
    BY <1>3, RangeEquality, LenProperties
<1>5. ASSUME NEW c \in Range(call.staged)
      PROVE  \E i \in 1 .. Len(call.sources) : call.sources[i].content = c
  <2>1. PICK b \in DOMAIN call.staged : c = call.staged[b]
      BY DEF Range
  <2>2. StagedInv
      BY DEF IInv
  <2>3. PICK i \in 1 .. call.copied :
          call.sources[i].base = b /\ call.sources[i].content = call.staged[b]
      BY <2>1, <2>2 DEF StagedInv
  <2>. QED BY <1>2, <2>1, <2>3
<1>6. ASSUME NEW h \in Range(graph.handlers)
      PROVE  \E s \in Range(call.sources) : h.name \in s.content.defines
  <2>1. graph.handlers \in Seq(Handlers) /\ graph.flow \in Flows
      BY DEF IInv, AppInv
  <2>2. h.name \in HandlersOf(call.text)
      BY <1>2, <2>1, TextHasHandlers
  <2>3. PICK c \in Range(call.staged) : h.name \in c.defines
      BY <1>2, <2>2
  <2>. QED BY <1>4, <1>5, <2>3
<1>7. ASSUME \A i, j \in DOMAIN call.sources :
               call.sources[i].base = call.sources[j].base => i = j,
             NEW s \in Range(call.sources)
      PROVE  s.content.pure
  <2>1. PICK i \in 1 .. Len(call.sources) : s = call.sources[i]
      BY <1>4
  <2>2. i \in 1 .. call.copied
      BY <1>2, <2>1
  <2>3. \A j, k \in 1 .. Len(call.sources) :
          call.sources[j].base = call.sources[k].base => j = k
      BY <1>4, <1>7
  <2>4. StagedInv
      BY DEF IInv
  <2>5. /\ call.sources[i].base \in DOMAIN call.staged
        /\ call.staged[call.sources[i].base] = call.sources[i].content
      BY <2>2, <2>3, <2>4 DEF StagedInv
  <2>6. s.content \in Range(call.staged)
      BY <2>1, <2>5 DEF Range
  <2>. QED BY <1>2, <2>6
<1>. QED BY <1>6, <1>7

-----------------------------------------------------------------------------
(* Theorems.                                                               *)

(* The variables hold what the code keeps in them.                         *)
THEOREM TypeCorrect == Spec => []TypeOK
BY Invariance, InvType, PTL

(* However a program registers and declares, an edge of its flow has a     *)
(* signature and a function at both ends (app.mjs:116).                    *)
THEOREM NoEdgeDangles == Spec => []EdgesResolve
BY Invariance, InvEdges, PTL

(* check() says that a project passes only if all sources it was given     *)
(* did, save those another with the same base name replaced.               *)
THEOREM PassesCover == Spec => []PassCoversEverySource
BY Invariance, InvPass, PTL

(* No call leaves its temporary directory behind unless it is killed.      *)
THEOREM DirsAreRemoved == Spec => []NoDirIsLeftSilently
<1>1. IInv => NoDirIsLeftSilently
    BY DEF IInv, DirInv, Underway, NoDirIsLeftSilently
<1>. QED BY <1>1, Invariance, PTL

(* A call that throws has changed neither the graph nor the functions.     *)
THEOREM ThrowsKeepTheGraph == Spec => ThrowsChangeNothing
<1>1. ASSUME [Next]_vars PROVE [threw' => UNCHANGED appVars]_vars
  <2>1. ASSUME NEW fn \in Fns, NEW override \in Overrides, NEW s \in Signatures,
               RegisterHandler(fn, override, s[1], s[2])
        PROVE  threw' => UNCHANGED appVars
      BY <2>1 DEF RegisterHandler
  <2>2. ASSUME NEW name \in FlowNames, NEW stages \in StageLists,
               DeclareFlow(name, stages)
        PROVE  threw' => UNCHANGED appVars
      BY <2>2 DEF DeclareFlow, appVars
  <2>3. CASE RoundTrip \/ Check
      BY <2>3 DEF RoundTrip, Check, BeginCall
  <2>4. CASE CopySource \/ StagingFails \/ Resolve \/ RunTool \/ RemoveDir
             \/ RemovalFails \/ Return \/ Consume
      BY <2>4 DEF CopySource, StagingFails, Resolve, RunTool, RemoveDir, RemovalFails,
                  Return, Consume, Step
  <2>5. CASE DiskChanges
      BY <2>5 DEF DiskChanges
  <2>6. CASE Kill
      BY <2>6 DEF Kill
  <2>. QED BY <1>1, <2>1, <2>2, <2>3, <2>4, <2>5, <2>6 DEF Next
<1>. QED BY <1>1, PTL DEF Spec, ThrowsChangeNothing


-----------------------------------------------------------------------------
(* Which tool a call runs.                                                 *)

(* What can be run of the places a lookup goes through.                    *)
Executables(order) == {f \in Range(order) : IsExecutable(world, disk, f)}

LEMMA FindIsFirst ==
    ASSUME NEW S, NEW tool, SearchOrder(world, tool) \in Seq(S),
           Find(world, disk, tool) # NoFile
    PROVE  FirstIn(SearchOrder(world, tool), Executables(SearchOrder(world, tool)),
                   Find(world, disk, tool))
<1> DEFINE order == SearchOrder(world, tool)
           I == {i \in 1 .. Len(order) : IsExecutable(world, disk, order[i])}
<1>1. order \in Seq(S)
    OBVIOUS
<1> HIDE DEF order
<1>2. I \in SUBSET Nat
    BY <1>1, LenProperties
<1>3. Find(world, disk, tool) = LET i == IF I # {} THEN Min(I) ELSE 0
                                IN  IF i = 0 THEN NoFile ELSE order[i]
    BY DEF Find, SelectInSeq, order
<1>4. I # {}
    BY <1>3
<1>5. Min(I) \in I /\ \A i \in I : Min(I) <= i
    BY <1>2, <1>4, MinIsLeast
<1> DEFINE m == Min(I)
<1>6. m \in 1 .. Len(order) /\ IsExecutable(world, disk, order[m])
    BY <1>5
<1>7. Find(world, disk, tool) = order[m]
    BY <1>3, <1>4, <1>6
<1>8. Range(order) = {order[i] : i \in 1 .. Len(order)}
    BY <1>1, RangeEquality
<1>9. order[m] \in Executables(order)
    BY <1>6, <1>8 DEF Executables
<1>10. \A i \in 1 .. m - 1 : order[i] \notin Executables(order)
  <2>1. SUFFICES ASSUME NEW i \in 1 .. m - 1, IsExecutable(world, disk, order[i])
                 PROVE  FALSE
      BY DEF Executables
  <2>2. Len(order) \in Nat
      BY <1>1, LenProperties
  <2> HIDE DEF m
  <2>3. i \in 1 .. Len(order) /\ ~(m <= i)
      BY <1>6, <2>2
  <2>4. i \in I
      BY <2>1, <2>3
  <2>. QED BY <1>5, <2>3, <2>4 DEF m
<1> HIDE DEF m
<1>. QED BY <1>6, <1>7, <1>9, <1>10 DEF FirstIn, order

LEMMA TreeIs ==
    ASSUME NEW base, NEW tool
    PROVE  Tree(base, tool) =
             {File(base, layout, NoName, sfx, tool) :
                layout \in {"nested", "flat"}, sfx \in Range(SuffixesOf(world))}
             \cup
             {File(base, layout, config, sfx, tool) :
                layout \in {"nested", "flat", "parent"}, config \in Range(Configs),
                sfx \in Range(SuffixesOf(world))}
BY DEF Tree, NoName

LEMMA InTree ==
    ASSUME NEW base, NEW tool, NEW f
    PROVE  f \in Tree(base, tool) <=>
             \E sfx \in Range(SuffixesOf(world)) :
               \/ \E layout \in {"nested", "flat"} :
                    f = File(base, layout, NoName, sfx, tool)
               \/ \E layout \in {"nested", "flat", "parent"}, config \in Range(Configs) :
                    f = File(base, layout, config, sfx, tool)
BY TreeIs

LEMMA SuffixesAreSequence == \E S : SuffixesOf(world) \in Seq(S)
<1>1. CASE world.windows
  <2>1. SuffixesOf(world) = <<"", ".exe">>
      BY <1>1 DEF SuffixesOf
  <2>2. <<"", ".exe">> \in Seq({"", ".exe"})
      BY TwoElements, Zenon
  <2>. QED BY <2>1, <2>2, Zenon
<1>2. CASE ~world.windows
  <2>1. SuffixesOf(world) = <<"">>
      BY <1>2 DEF SuffixesOf
  <2>2. <<"">> \in Seq({""})
      BY OneElement, Zenon
  <2>. QED BY <2>1, <2>2, Zenon
<1>. QED BY <1>1, <1>2

LEMMA PlacedIsSequence ==
    ASSUME NEW base, NEW tool, NEW sfx \in Range(SuffixesOf(world))
    PROVE  /\ Placed(base, tool, sfx) \in Seq(Tree(base, tool))
           /\ \A layout \in {"nested", "flat"} :
                File(base, layout, NoName, sfx, tool) \in Range(Placed(base, tool, sfx))
           /\ \A layout \in {"nested", "flat", "parent"}, config \in Range(Configs) :
                File(base, layout, config, sfx, tool) \in Range(Placed(base, tool, sfx))
<1> DEFINE T == Tree(base, tool)
           plain == << File(base, "nested", NoName, sfx, tool),
                       File(base, "flat", NoName, sfx, tool) >>
           of(i) == << File(base, "nested", Configs[i], sfx, tool),
                       File(base, "flat", Configs[i], sfx, tool),
                       File(base, "parent", Configs[i], sfx, tool) >>
           parts == [i \in 1 .. Len(Configs) |-> of(i)]
<1>1. /\ Configs \in Seq(STRING) /\ Len(Configs) \in Nat
      /\ Range(Configs) = {Configs[i] : i \in 1 .. Len(Configs)}
    BY ToolchainAssumption, LenProperties, RangeEquality
<1>2. \A layout \in {"nested", "flat"} : File(base, layout, NoName, sfx, tool) \in T
    BY InTree
<1>3. /\ plain \in Seq(T)
      /\ Range(plain) = {File(base, "nested", NoName, sfx, tool),
                         File(base, "flat", NoName, sfx, tool)}
  <2>1. {File(base, "nested", NoName, sfx, tool),
         File(base, "flat", NoName, sfx, tool)} \subseteq T
      BY <1>2
  <2> HIDE DEF T
  <2>. QED BY <2>1, TwoElements, SeqMonotonic
<1>4. ASSUME NEW i \in 1 .. Len(Configs)
      PROVE  /\ of(i) \in Seq(T)
             /\ Range(of(i)) = {File(base, "nested", Configs[i], sfx, tool),
                                File(base, "flat", Configs[i], sfx, tool),
                                File(base, "parent", Configs[i], sfx, tool)}
  <2>1. Configs[i] \in Range(Configs)
      BY <1>1
  <2>2. \A layout \in {"nested", "flat", "parent"} :
          File(base, layout, Configs[i], sfx, tool) \in T
      BY <2>1, InTree
  <2>3. {File(base, "nested", Configs[i], sfx, tool),
         File(base, "flat", Configs[i], sfx, tool),
         File(base, "parent", Configs[i], sfx, tool)} \subseteq T
      BY <2>2
  <2> HIDE DEF T
  <2>. QED BY <2>3, ThreeElements, SeqMonotonic
<1>5. Placed(base, tool, sfx) = plain \o FlattenSeq(parts)
    BY DEF Placed, NoName
<1>6. parts \in Seq(Seq(T)) /\ Len(parts) = Len(Configs)
  <2> HIDE DEF T, of
  <2>. QED BY <1>1, <1>4
<1>7. \A i \in 1 .. Len(Configs) : parts[i] = of(i)
    OBVIOUS
<1> HIDE DEF T, plain, of, parts
<1>8. /\ FlattenSeq(parts) \in Seq(T)
      /\ \A i \in 1 .. Len(Configs) : Range(parts[i]) \subseteq Range(FlattenSeq(parts))
    BY <1>6, FlattenSeqType, FlattenSeqParts
<1>9. /\ plain \o FlattenSeq(parts) \in Seq(T)
      /\ Range(plain) \cup Range(FlattenSeq(parts))
           \subseteq Range(plain \o FlattenSeq(parts))
    BY <1>3, <1>8, ConcatProperties, RangeOfConcat
<1>10. \A layout \in {"nested", "flat"} :
         File(base, layout, NoName, sfx, tool) \in Range(plain)
    BY <1>3
<1>11. ASSUME NEW layout \in {"nested", "flat", "parent"}, NEW config \in Range(Configs)
       PROVE  File(base, layout, config, sfx, tool) \in Range(FlattenSeq(parts))
  <2>1. PICK i \in 1 .. Len(Configs) : config = Configs[i]
      BY <1>1
  <2>2. File(base, layout, config, sfx, tool) \in Range(of(i))
      BY <1>4, <2>1
  <2>. QED BY <1>7, <1>8, <2>2
<1>12. Placed(base, tool, sfx) \in Seq(T)
    BY <1>5, <1>9
<1>. QED BY <1>5, <1>9, <1>10, <1>11, <1>12 DEF T

LEMMA CandidatesAreTree ==
    ASSUME NEW base, NEW tool
    PROVE  /\ Candidates(world, base, tool) \in Seq(Tree(base, tool))
           /\ Tree(base, tool) \subseteq Range(Candidates(world, base, tool))
<1> DEFINE T == Tree(base, tool)
           sfxs == SuffixesOf(world)
           parts == [i \in 1 .. Len(sfxs) |-> Placed(base, tool, sfxs[i])]
<1>1. Candidates(world, base, tool) = FlattenSeq(parts)
    BY DEF Candidates
<1>2. PICK S : sfxs \in Seq(S)
    BY SuffixesAreSequence
<1> HIDE DEF sfxs
<1>3. Len(sfxs) \in Nat /\ Range(sfxs) = {sfxs[i] : i \in 1 .. Len(sfxs)}
    BY <1>2, LenProperties, RangeEquality
<1>4. \A i \in 1 .. Len(sfxs) : Placed(base, tool, sfxs[i]) \in Seq(T)
    BY <1>3, PlacedIsSequence DEF sfxs
<1>5. parts \in Seq(Seq(T)) /\ Len(parts) = Len(sfxs)
      /\ \A i \in 1 .. Len(sfxs) : parts[i] = Placed(base, tool, sfxs[i])
  <2> HIDE DEF T
  <2>. QED BY <1>3, <1>4
<1> HIDE DEF parts
<1>6. /\ FlattenSeq(parts) \in Seq(T)
      /\ \A i \in 1 .. Len(sfxs) : Range(parts[i]) \subseteq Range(FlattenSeq(parts))
  <2> HIDE DEF T
  <2>. QED BY <1>5, FlattenSeqType, FlattenSeqParts
<1>7. ASSUME NEW f \in T PROVE f \in Range(FlattenSeq(parts))
  <2>1. PICK sfx \in Range(sfxs) :
          \/ \E layout \in {"nested", "flat"} :
               f = File(base, layout, NoName, sfx, tool)
          \/ \E layout \in {"nested", "flat", "parent"}, config \in Range(Configs) :
               f = File(base, layout, config, sfx, tool)
      BY InTree DEF sfxs
  <2>2. f \in Range(Placed(base, tool, sfx))
      BY <2>1, PlacedIsSequence DEF sfxs
  <2>3. PICK i \in 1 .. Len(sfxs) : sfx = sfxs[i]
      BY <1>3
  <2>. QED BY <1>5, <1>6, <2>2, <2>3
<1>. QED BY <1>1, <1>6, <1>7

(* The places of the i-th directory of PATH.                               *)
BareAt(i, tool) == IF world.path[i] = "" THEN {} ELSE Bare(world.path[i], tool)
BareOnPath(tool) == UNION {BareAt(i, tool) : i \in 1 .. Len(world.path)}

LEMMA OnPathIsInOrder ==
    ASSUME NEW tool, world.path \in Seq(STRING)
    PROVE  /\ OnPath(world, tool) \in Seq(BareOnPath(tool))
           /\ BareOnPath(tool) \subseteq Range(OnPath(world, tool))
           /\ \A G, x : FirstIn(OnPath(world, tool), G, x) =>
                \E i \in 1 .. Len(world.path) :
                  /\ x \in BareAt(i, tool)
                  /\ \A j \in 1 .. i - 1 : BareAt(j, tool) \cap G = {}
<1> DEFINE B == BareOnPath(tool)
           tried == <<"">> \o IF world.windows THEN PathExt ELSE <<>>
           in(dir) == [j \in 1 .. Len(tried) |-> File(dir, "flat", "", tried[j], tool)]
           parts == [i \in 1 .. Len(world.path) |->
                       IF world.path[i] = "" THEN <<>> ELSE in(world.path[i])]
<1>1. OnPath(world, tool) = FlattenSeq(parts)
    BY DEF OnPath
<1>2. /\ Len(tried) \in Nat /\ Len(world.path) \in Nat
      /\ Range(tried) = {tried[j] : j \in 1 .. Len(tried)}
      /\ Range(tried) = {NoName} \cup IF world.windows THEN Range(PathExt) ELSE {}
  <2>1. <<NoName>> \in Seq({NoName}) /\ Range(<<NoName>>) = {NoName}
      BY OneElement
  <2>2. CASE world.windows
    <3> DEFINE S == {NoName} \cup STRING
    <3>1. tried = <<NoName>> \o PathExt
        BY <2>2 DEF NoName
    <3>2. PathExt \in Seq(STRING)
        BY ToolchainAssumption
    <3>3. <<NoName>> \in Seq(S) /\ PathExt \in Seq(S)
        BY <2>1, <3>2, SeqMonotonic
    <3> HIDE DEF tried, S
    <3> DEFINE one == <<NoName>>
    <3> HIDE DEF one
    <3>4. one \in Seq(S) /\ PathExt \in Seq(S) /\ tried = one \o PathExt
        BY <3>1, <3>3 DEF one
    <3>5. tried \in Seq(S)
        BY <3>4, ConcatProperties
    <3>6. Range(tried) = Range(one) \cup Range(PathExt)
        BY <3>4, RangeConcatenation
    <3>. QED BY <2>1, <2>2, <3>5, <3>6, LenProperties, RangeEquality DEF one
  <2>3. CASE ~world.windows
    <3>1. tried = <<NoName>> \o <<>>
        BY <2>3 DEF NoName
    <3> HIDE DEF tried
    <3>2. tried = <<NoName>>
        BY <2>1, <3>1, ConcatEmptySeq
    <3>. QED BY <2>1, <2>3, <3>2, LenProperties, RangeEquality
  <2>. QED BY <2>2, <2>3
<1> HIDE DEF tried
<1>3. ASSUME NEW dir
      PROVE  in(dir) \in Seq(Bare(dir, tool)) /\ Range(in(dir)) = Bare(dir, tool)
  <2> DEFINE at(sfx) == File(dir, "flat", NoName, sfx, tool)
  <2>1. Bare(dir, tool)
          = {at(sfx) : sfx \in {NoName} \cup IF world.windows THEN Range(PathExt) ELSE {}}
      BY DEF Bare, NoName
  <2>2. in(dir) = [j \in 1 .. Len(tried) |-> at(tried[j])]
      BY DEF NoName
  <2> HIDE DEF at, in
  <2>3. Bare(dir, tool) = {at(tried[j]) : j \in 1 .. Len(tried)}
    <3>1. Bare(dir, tool) = {at(sfx) : sfx \in Range(tried)}
        BY <1>2, <2>1, Zenon
    <3>. QED BY <1>2, <3>1
  <2>4. in(dir) \in Seq(Bare(dir, tool)) /\ Len(in(dir)) = Len(tried)
      BY <1>2, <2>2, <2>3
  <2>5. Range(in(dir)) = {in(dir)[j] : j \in 1 .. Len(in(dir))}
      BY <2>4, RangeEquality
  <2>. QED BY <2>2, <2>3, <2>4, <2>5
<1> HIDE DEF in
<1>4. parts \in [1 .. Len(world.path) -> {parts[i] : i \in 1 .. Len(world.path)}]
    OBVIOUS
<1>5. ASSUME NEW i \in 1 .. Len(world.path)
      PROVE  /\ parts[i] \in Seq(BareAt(i, tool))
             /\ Range(parts[i]) = BareAt(i, tool)
  <2>1. CASE world.path[i] = ""
    <3>1. parts[i] = <<>> /\ BareAt(i, tool) = {}
        BY <2>1 DEF BareAt
    <3>2. <<>> \in Seq(BareAt(i, tool)) /\ Len(<<>>) = 0 /\ 1 .. 0 = {}
        OBVIOUS
    <3>3. Range(parts[i]) = {}
      <4> HIDE DEF parts
      <4>1. parts[i] \in Seq({}) /\ Len(parts[i]) = 0 /\ 1 .. 0 = {}
          BY <3>1
      <4>2. DOMAIN parts[i] = {}
          BY <4>1, LenProperties
      <4>. QED BY <4>2 DEF Range
    <3> HIDE DEF parts
    <3>. QED BY <3>1, <3>2, <3>3
  <2>2. CASE world.path[i] # ""
    <3>1. parts[i] = in(world.path[i]) /\ BareAt(i, tool) = Bare(world.path[i], tool)
        BY <2>2 DEF BareAt
    <3> HIDE DEF parts
    <3>. QED BY <1>3, <3>1
  <2>. QED BY <2>1, <2>2
<1>6. \A i \in 1 .. Len(world.path) : BareAt(i, tool) \subseteq B
    BY DEF BareOnPath
<1> HIDE DEF B, parts
<1>7. \A i \in 1 .. Len(world.path) : parts[i] \in Seq(B)
    BY <1>5, <1>6, SeqMonotonic
<1>8. parts \in Seq(Seq(B)) /\ Len(parts) = Len(world.path)
    BY <1>2, <1>4, <1>7
<1>9. FlattenSeq(parts) \in Seq(B)
    BY <1>8, FlattenSeqType
<1>10. /\ \A i \in 1 .. Len(parts) : Range(parts[i]) \subseteq Range(FlattenSeq(parts))
       /\ \A G, x : FirstIn(FlattenSeq(parts), G, x) =>
            \E i \in 1 .. Len(parts) :
              /\ FirstIn(parts[i], G, x)
              /\ \A j \in 1 .. i - 1 : Range(parts[j]) \cap G = {}
    BY <1>8, FlattenSeqParts
<1>11. B \subseteq Range(FlattenSeq(parts))
    BY <1>5, <1>8, <1>10 DEF B, BareOnPath
<1>12. ASSUME NEW G, NEW x, FirstIn(OnPath(world, tool), G, x)
       PROVE  \E i \in 1 .. Len(world.path) :
                /\ x \in BareAt(i, tool)
                /\ \A j \in 1 .. i - 1 : BareAt(j, tool) \cap G = {}
  <2>1. PICK i \in 1 .. Len(world.path) :
          /\ FirstIn(parts[i], G, x)
          /\ \A j \in 1 .. i - 1 : Range(parts[j]) \cap G = {}
      BY <1>1, <1>8, <1>10, <1>12
  <2>2. \A j \in 1 .. i - 1 : j \in 1 .. Len(world.path)
      BY <1>2
  <2>3. x \in BareAt(i, tool)
      BY <1>5, <2>1, ElementOfSeq DEF FirstIn
  <2>. QED BY <1>5, <2>1, <2>2, <2>3
<1>. QED BY <1>1, <1>9, <1>11, <1>12 DEF B

(* Nothing in a set of places that were looked at can be run.              *)
LEMMA NothingRuns ==
    ASSUME NEW places, NEW order, places \subseteq Range(order),
           places \cap Executables(order) = {}
    PROVE  ~Runs(places)
BY DEF Runs, Executables

LEMMA FindIsPreferred ==
    ASSUME NEW tool, world.path \in Seq(STRING), Find(world, disk, tool) # NoFile
    PROVE  /\ Preferred(Find(world, disk, tool), tool)
           /\ IsExecutable(world, disk, Find(world, disk, tool))
<1> DEFINE x == Find(world, disk, tool)
           order == SearchOrder(world, tool)
           G == Executables(order)
           P == OnPath(world, tool)
           C(base) == Candidates(world, base, tool)
           U == BareOnPath(tool) \cup Tree("build", tool) \cup Tree("build-asan", tool)
<1>1. CASE world.binDir # ""
  <2>1. order = C(world.binDir)
      BY <1>1 DEF SearchOrder
  <2>2. order \in Seq(Tree(world.binDir, tool))
      BY <2>1, CandidatesAreTree
  <2>3. FirstIn(order, G, x)
      BY <2>2, FindIsFirst
  <2> HIDE DEF x, order
  <2>4. x \in Tree(world.binDir, tool) /\ x \in G
      BY <2>2, <2>3, ElementOfSeq DEF FirstIn
  <2>. QED BY <1>1, <2>4 DEF Preferred, Executables, x
<1>2. CASE world.binDir = ""
  <2>1. order = (P \o C("build")) \o C("build-asan")
      BY <1>2 DEF SearchOrder
  <2>2. /\ P \in Seq(BareOnPath(tool)) /\ BareOnPath(tool) \subseteq Range(P)
        /\ C("build") \in Seq(Tree("build", tool))
        /\ Tree("build", tool) \subseteq Range(C("build"))
        /\ C("build-asan") \in Seq(Tree("build-asan", tool))
      BY OnPathIsInOrder, CandidatesAreTree
  <2> HIDE DEF P, C
  <2>3. P \in Seq(U) /\ C("build") \in Seq(U) /\ C("build-asan") \in Seq(U)
      BY <2>2, SeqMonotonic
  <2> HIDE DEF U
  <2>4. P \o C("build") \in Seq(U) /\ (P \o C("build")) \o C("build-asan") \in Seq(U)
      BY <2>3, ConcatProperties
  <2>5. FirstIn(order, G, x)
      BY <2>1, <2>4, FindIsFirst
  <2>6. /\ Range(P) \cup Range(C("build")) \subseteq Range(P \o C("build"))
        /\ Range(P \o C("build")) \subseteq Range(order)
      BY <2>1, <2>3, <2>4, RangeOfConcat
  <2>7. ASSUME Range(P) \cap G = {}
        PROVE  \A j \in DOMAIN world.path : ~InstalledAt(j, tool)
    <3>1. SUFFICES ASSUME NEW j \in DOMAIN world.path, world.path[j] # ""
                   PROVE  ~Runs(Bare(world.path[j], tool))
        BY DEF InstalledAt
    <3>2. j \in 1 .. Len(world.path)
        BY <3>1, LenProperties
    <3>3. Bare(world.path[j], tool) \subseteq BareOnPath(tool)
        BY <3>1, <3>2 DEF BareOnPath, BareAt
    <3>. QED BY <2>2, <2>6, <2>7, <3>3, NothingRuns
  <2>8. x \in G
      BY <2>5 DEF FirstIn
  <2> HIDE DEF x, order
  <2>9. IsExecutable(world, disk, x)
      BY <2>8 DEF Executables
  <2>10. \/ FirstIn(P \o C("build"), G, x)
         \/ Range(P \o C("build")) \cap G = {} /\ FirstIn(C("build-asan"), G, x)
      BY <2>1, <2>3, <2>4, <2>5, FirstOfConcat
  <2>11. CASE FirstIn(P \o C("build"), G, x)
    <3>1. FirstIn(P, G, x) \/ (Range(P) \cap G = {} /\ FirstIn(C("build"), G, x))
        BY <2>3, <2>11, FirstOfConcat
    <3>2. CASE FirstIn(P, G, x)
      <4>1. PICK i \in 1 .. Len(world.path) :
              /\ x \in BareAt(i, tool)
              /\ \A j \in 1 .. i - 1 : BareAt(j, tool) \cap G = {}
          BY <3>2, OnPathIsInOrder DEF P
      <4>2. world.path[i] # "" /\ x \in Bare(world.path[i], tool)
          BY <4>1 DEF BareAt
      <4>3. ASSUME NEW j \in 1 .. i - 1 PROVE ~InstalledAt(j, tool)
        <5>1. SUFFICES ASSUME world.path[j] # "" PROVE ~Runs(Bare(world.path[j], tool))
            BY DEF InstalledAt
        <5>2. Len(world.path) \in Nat
            BY LenProperties
        <5>3. j \in 1 .. Len(world.path)
            BY <5>2
        <5>4. BareAt(j, tool) = Bare(world.path[j], tool)
            BY <5>1 DEF BareAt
        <5>5. Bare(world.path[j], tool) \subseteq BareOnPath(tool)
            BY <5>3, <5>4 DEF BareOnPath
        <5>. QED BY <2>2, <2>6, <4>1, <5>4, <5>5, NothingRuns
      <4>4. i \in DOMAIN world.path
          BY LenProperties
      <4>. QED BY <1>2, <2>9, <4>2, <4>3, <4>4 DEF Preferred, x
    <3>3. CASE Range(P) \cap G = {} /\ FirstIn(C("build"), G, x)
      <4>1. x \in Tree("build", tool)
          BY <2>2, <3>3, ElementOfSeq DEF FirstIn
      <4>. QED BY <1>2, <2>7, <2>9, <3>3, <4>1 DEF Preferred, x
    <3>. QED BY <3>1, <3>2, <3>3
  <2>12. CASE Range(P \o C("build")) \cap G = {} /\ FirstIn(C("build-asan"), G, x)
    <3>1. x \in Tree("build-asan", tool)
        BY <2>2, <2>12, ElementOfSeq DEF FirstIn
    <3>2. Range(P) \cap G = {} /\ Tree("build", tool) \cap G = {}
        BY <2>2, <2>6, <2>12
    <3>3. ~Runs(Tree("build", tool))
        BY <2>2, <2>6, <3>2, NothingRuns
    <3>. QED BY <1>2, <2>7, <2>9, <3>1, <3>2, <3>3 DEF Preferred, x
  <2>. QED BY <2>10, <2>11, <2>12
<1>. QED BY <1>1, <1>2

(* Whatever the environment, whichever of its places hold a tool: the one  *)
(* a call runs is the one the policy of _toolchain.mjs:8-20 prefers.       *)
THEOREM LookupFollowsPolicy == Spec => LookupPolicy
<1> DEFINE A == call.pc = "staging" /\ call'.pc = "resolved" =>
                  /\ Preferred(call'.bin, call.tool)
                  /\ IsExecutable(world, disk, call'.bin)
<1>1. ASSUME IInv, [Next]_vars PROVE [A]_vars
  <2>1. SUFFICES ASSUME call.pc = "staging", call'.pc = "resolved"
                 PROVE  /\ Preferred(call'.bin, call.tool)
                        /\ IsExecutable(world, disk, call'.bin)
      OBVIOUS
  <2>2. DOMAIN call = DOMAIN NoCall
      BY <1>1 DEF IInv, CallInv
  <2>3. world.path \in Seq(STRING)
    <3>1. PICK h \in Hosts : world = h[1]
        BY <1>1 DEF IInv, HostInv
    <3>. QED BY <3>1, TopoAppAssumption
  <2>4. CASE Resolve
    <3> DEFINE bin == Find(world, disk, call.tool)
    <3>1. call' = IF bin = NoFile
                  THEN [call EXCEPT !.pc = "cleaning", !.status = "threw"]
                  ELSE [call EXCEPT !.pc = "resolved", !.bin = bin]
        BY <2>4 DEF Resolve
    <3> HIDE DEF bin
    <3>2. bin # NoFile /\ call'.bin = bin
        BY <2>1, <2>2, <3>1 DEF NoCall
    <3>. QED BY <2>3, <3>2, FindIsPreferred DEF bin
  <2>5. ASSUME ~Resolve PROVE FALSE
    <3>1. CASE Idle
        BY <2>1, <3>1 DEF Idle
    <3>2. CASE CopySource \/ StagingFails
      <4>1. call'.pc \in {"staging", "cleaning"}
          BY <2>1, <2>2, <3>2 DEF CopySource, StagingFails, NoCall
      <4>. QED BY <2>1, <4>1
    <3>3. CASE RunTool \/ RemoveDir \/ RemovalFails \/ Return \/ Consume
        BY <2>1, <3>3 DEF RunTool, RemoveDir, RemovalFails, Return, Consume, Step
    <3>4. CASE DiskChanges \/ UNCHANGED vars
        BY <2>1, <3>4 DEF DiskChanges, vars
    <3>5. CASE Kill
        BY <2>1, <3>5 DEF Kill, NoCall
    <3>6. ASSUME NEW fn \in Fns, NEW override \in Overrides, NEW s \in Signatures,
                 RegisterHandler(fn, override, s[1], s[2])
          PROVE  Idle
        BY <3>6 DEF RegisterHandler
    <3>7. ASSUME NEW name \in FlowNames, NEW stages \in StageLists,
                 DeclareFlow(name, stages)
          PROVE  Idle
        BY <3>7 DEF DeclareFlow
    <3>8. CASE RoundTrip \/ Check
        BY <3>1, <3>8 DEF RoundTrip, Check, BeginCall
    <3>. QED BY <1>1, <2>5, <3>1, <3>2, <3>3, <3>4, <3>5, <3>6, <3>7, <3>8 DEF Next
  <2>. QED BY <2>4, <2>5
<1> HIDE DEF A
<1>2. Spec => [][A]_vars
    BY <1>1, Invariance, PTL DEF Spec
<1>. QED BY <1>2 DEF LookupPolicy, A

-----------------------------------------------------------------------------
(* The round trip: a graph of the program is one LogicGraphProofs is about. *)

LEMMA HandlersAreAccepted == Handlers \subseteq GraphHandlers
<1>1. SUFFICES ASSUME NEW n \in Names, NEW s \in Reflected
               PROVE  Handler(n, s[1], s[2]) \in GraphHandlers
    BY DEF Handlers
<1>2. s \in Signatures /\ ReflectSignatureAccepts(s[1], s[2])
    BY DEF Reflected
<1>3. s[1] \in Descriptors /\ s[2] \in Descriptors
    BY <1>2, TopoAppAssumption
<1>4. s[1] \in AcceptedTypes /\ s[2] \in AcceptedTypes
    BY <1>2, <1>3 DEF ReflectSignatureAccepts, Accepted, AcceptedTypes
<1>. QED BY <1>4 DEF Handler, GraphHandlers

LEMMA EdgesAreGraphEdges == EdgesOver(Names) \subseteq GraphEdges
BY DEF EdgesOver, Edge, GraphEdges

LEMMA InvGraph == ASSUME IInv PROVE graph \in ProgramGraphs
<1>1. graph \in [namespace : Namespaces, handlers : Seq(Handlers), flow : Flows]
    BY DEF IInv, AppInv
<1>2. Namespaces \subseteq Names /\ FlowNames \subseteq Names
    BY TopoAppAssumption
<1>3. Seq(Handlers) \subseteq Seq(GraphHandlers)
    BY HandlersAreAccepted, SeqMonotonic
<1>4. Flows \subseteq GraphFlows
  <2>1. Seq(EdgesOver(Names)) \subseteq Seq(GraphEdges)
      BY EdgesAreGraphEdges, SeqMonotonic
  <2>. QED BY <1>2, <2>1 DEF Flows, GraphFlows
<1>5. graph \in [namespace : Names, handlers : Seq(GraphHandlers), flow : GraphFlows]
    BY <1>1, <1>2, <1>3, <1>4
<1> DEFINE hs == graph.handlers
           es == graph.flow.edges
<1>6. hs \in Seq(GraphHandlers)
    BY <1>5
<1>7. ASSUME NEW name \in KeysOf(fns) PROVE IsHandlerOf(graph, name)
  <2>1. PICK h \in Range(hs) : h.name = name
      BY DEF IInv, AppInv
  <2>2. DOMAIN hs = 1 .. Len(hs)
      BY <1>6, LenProperties
  <2>3. PICK i \in 1 .. Len(hs) : h = hs[i]
      BY <2>2 DEF Range
  <2>. QED BY <2>1, <2>3 DEF IsHandlerOf
<1>8. \E T : es \in Seq(T)
  <2>1. graph.flow \in GraphFlows
      BY <1>5
  <2>2. CASE graph.flow = NoFlow
    <3>1. es = <<>>
        BY <2>2, NoFlowIs
    <3>. QED BY <3>1
  <2>3. CASE graph.flow # NoFlow
    <3>1. es \in Seq(GraphEdges)
        BY <2>1, <2>3 DEF GraphFlows
    <3>. QED BY <3>1
  <2>. QED BY <2>2, <2>3
<1>9. ASSUME NEW i \in 1 .. Len(es)
      PROVE  /\ IsHandlerOf(graph, es[i].source)
             /\ es[i].target = NoName \/ IsHandlerOf(graph, es[i].target)
  <2>1. DOMAIN es = 1 .. Len(es)
      BY <1>8, LenProperties
  <2>2. es[i] \in Range(es)
      BY <2>1 DEF Range
  <2>3. es[i] \in EdgesOver(KeysOf(fns))
      BY <2>2 DEF IInv, AppInv
  <2>. QED BY <1>7, <2>3, EdgeEnds
<1>10. EndsDeclared(graph)
    BY <1>9 DEF EndsDeclared
<1>. QED BY <1>5, <1>10 DEF ProgramGraphs

(* The words of the properties and those of the lemmas.                    *)
LEMMA SameWords ==
    ASSUME NEW g \in ProgramGraphs
    PROVE  /\ IsLegible(g) <=> Legible(g)
           /\ (\A e \in Range(g.flow.edges) : e.target # "void") <=> NoVoidTarget(g)
           /\ (\A h \in Range(g.handlers) : ~IsNested(h.in) /\ ~IsNested(h.out))
                <=> AllUnnested(g)
<1> DEFINE hs == g.handlers
           es == g.flow.edges
<1>1. DOMAIN hs = 1 .. Len(hs) /\ DOMAIN es = 1 .. Len(es)
    BY ProgramGraph
<1>2. Range(hs) = {hs[i] : i \in 1 .. Len(hs)} /\ Range(es) = {es[i] : i \in 1 .. Len(es)}
    BY <1>1 DEF Range
<1>3. IsLegible(g) <=> Legible(g)
    BY <1>2 DEF IsLegible, Legible
<1>4. (\A e \in Range(es) : e.target # Void) <=> NoVoidTarget(g)
    BY <1>2 DEF NoVoidTarget
<1>5. \A t : ~IsNested(t) <=> Unnested(t)
    BY DEF IsNested, Unnested
<1>6. (\A h \in Range(hs) : ~IsNested(h.in) /\ ~IsNested(h.out)) <=> AllUnnested(g)
    BY <1>2, <1>5 DEF AllUnnested
<1>. QED BY <1>3, <1>4, <1>6 DEF Void

LEMMA InvRoundTrip ==
    ASSUME IInv
    PROVE  RoundTripIsFaithful /\ EqualKeysHideNesting
<1>1. SUFFICES ASSUME ReadBack
               PROVE  /\ EquivalentTo(graph, call.read) <=>
                           /\ IsLegible(graph)
                           /\ \A e \in Range(graph.flow.edges) : e.target # "void"
                      /\ Snapshot(graph) = Snapshot(call.read) <=> IsLegible(graph)
                      /\ EquivalentTo(graph, call.read) =>
                           (call.read = graph <=>
                              \A h \in Range(graph.handlers) :
                                ~IsNested(h.in) /\ ~IsNested(h.out))
    BY DEF RoundTripIsFaithful, EqualKeysHideNesting
<1>2. call.read = ReadTopo(EmitTopo(graph))
    BY <1>1 DEF ReadBack, IInv, ReadInv, CallInv
<1> DEFINE r == call.read
<1>3. /\ EquivalentTo(graph, r) <=> Legible(graph) /\ NoVoidTarget(graph)
      /\ Snapshot(graph) = Snapshot(r) <=> Legible(graph)
      /\ EquivalentTo(graph, r) => (r = graph <=> AllUnnested(graph))
    BY <1>2, InvGraph, RoundTripSeen
<1>. QED BY <1>3, InvGraph, SameWords

(* What is read back is equivalent to what was emitted for exactly the     *)
(* graphs whose names the read-back matches and that lead to no handler    *)
(* called void; the snapshot differs for exactly the illegible ones.       *)
THEOREM ReadBackFaithful == Spec => []RoundTripIsFaithful
BY Invariance, InvRoundTrip, PTL

(* An equivalent graph is the graph itself exactly if no handler has a     *)
(* record within a record.                                                 *)
THEOREM EqualKeysNesting == Spec => []EqualKeysHideNesting
BY Invariance, InvRoundTrip, PTL

=============================================================================
