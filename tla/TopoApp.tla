------------------------------- MODULE TopoApp -------------------------------
(***************************************************************************)
(* A program that uses the framework: it registers functions as handlers,  *)
(* declares a flow over them, emits its logic graph as .topo, reads that   *)
(* text back through the real parser (`topo --ast-dump`) and has           *)
(* `topo-check` compare it with TypeScript sources.  src/runtime/topo/     *)
(* app.mjs, app_config.mjs, check.mjs, over LogicGraph and Toolchain.      *)
(*                                                                         *)
(* The two calls that run a tool make a temporary directory, fill it, look *)
(* the tool up, run it, and remove the directory in a `finally`; the disk, *)
(* the tool and the process may fail between any two of these steps.       *)
(***************************************************************************)
EXTENDS LogicGraph, Toolchain

CONSTANTS
    Fns,            \* functions of the program
    FnName,         \* fn.name of each; "" for an anonymous one
    Overrides,      \* `name` options of handler(); "" for none
    Signatures,     \* pairs <<in, out>> of descriptors a program may pass
    Namespaces, FlowNames,
    StageLists,     \* argument lists of flow(): sequences of groups
    Sources,        \* source lists given to check()
    Hosts,          \* pairs <<world, disk>> the process may be started on
    Disks,          \* disks it may find later
    MaxHandlers,    \* registrations, at most
    MaxChanges      \* changes of the disk and unclean ends, at most, together

NoFn == "no function"

ASSUME TopoAppAssumption ==
    /\ FnName \in [Fns -> Names \cup {""}]
    /\ NoFn \notin Fns
    /\ Signatures \subseteq Descriptors \X Descriptors
    /\ StageLists \subseteq Seq(Seq(Fns))
    /\ Sources \subseteq Seq([base : STRING,
          content : [defines : SUBSET Names, pure : BOOLEAN]])
    /\ Overrides \subseteq Names \cup {""}
    /\ Namespaces \subseteq Names
    /\ FlowNames \subseteq Names
    /\ \A h \in Hosts :
         h[1] \in [windows : BOOLEAN, binDir : STRING, path : Seq(STRING)]
    /\ MaxHandlers \in Nat
    /\ MaxChanges \in Nat

VARIABLES
    graph,      \* App._graph
    fns,        \* App._fns: a Map, so a sequence in insertion order
    threw,      \* did the last call of the API throw
    call,       \* the roundtrip() or check() under way
    dirs,       \* temporary directories on disk
    world,      \* platform, TOPO_BIN_DIR, PATH
    disk,       \* the executables
    changes,    \* how often the disk changed
    unclean     \* how often a call was killed, or its rmSync threw

appVars == << graph, fns >>
hostVars == << world, disk, changes, unclean >>
vars == << graph, fns, threw, call, dirs, world, disk, changes, unclean >>

(* `read` is graph' of a round trip; `staged` maps the base names copied   *)
(* so far to contents; `says` is the verdict line of topo-check.           *)
NoCall ==
    [pc |-> "idle", tool |-> "", text |-> <<>>, sources |-> <<>>,
     copied |-> 0, staged |-> <<>>, bin |-> NoFile, status |-> "none",
     says |-> "", read |-> Graph("", <<>>, NoFlow)]

EmptyGraph(ns) == Graph(ns, <<>>, NoFlow)

Init ==
    /\ \E ns \in Namespaces : graph = EmptyGraph(ns)
    /\ fns = <<>>
    /\ threw = FALSE
    /\ call = NoCall
    /\ dirs = 0
    /\ \E h \in Hosts : world = h[1] /\ disk = h[2]
    /\ changes = 0
    /\ unclean = 0

Idle == call.pc = "idle"

-----------------------------------------------------------------------------
(* Registration.                                                           *)

(* Map.set: a known key keeps its place.                                   *)
MapSet(map, key, fn) ==
    LET i == SelectInSeq(map, LAMBDA e : e.name = key)
        entry == [name |-> key, fn |-> fn]
    IN  IF i = 0 THEN Append(map, entry) ELSE [map EXCEPT ![i] = entry]

(* Mutant: a stage is named by the spelling of its function.               *)
NameOfBySpelling(map, fn) == FnName[fn]

(* App._nameOf: the first name the function is registered under, or "".    *)
NameOf(map, fn) ==
    LET i == SelectInSeq(map, LAMBDA e : e.fn = fn)
    IN  IF i = 0 THEN "" ELSE map[i].name

(* App.callableFor.                                                        *)
CallableFor(map, name) ==
    LET i == SelectInSeq(map, LAMBDA e : e.name = name)
    IN  IF i = 0 THEN NoFn ELSE map[i].fn

(* Mutant: an anonymous function is registered too.                        *)
RegisterAnonymous(fn, override, in, out) ==
    LET name == IF override # "" THEN override ELSE FnName[fn]
    IN  /\ Idle
        /\ Len(graph.handlers) < MaxHandlers
        /\ IF ReflectSignatureAccepts(in, out)
           THEN /\ graph' = [graph EXCEPT !.handlers =
                                Append(@, Handler(name, in, out))]
                /\ fns' = MapSet(fns, name, fn)
                /\ threw' = FALSE
           ELSE /\ threw' = TRUE
                /\ UNCHANGED appVars
        /\ UNCHANGED << call, dirs, hostVars >>

(* Mutant: the function is kept before its signature is looked at.         *)
RegisterThenReflect(fn, override, in, out) ==
    LET name == IF override # "" THEN override ELSE FnName[fn]
    IN  /\ Idle
        /\ Len(graph.handlers) < MaxHandlers
        /\ fns' = IF name = "" THEN fns ELSE MapSet(fns, name, fn)
        /\ IF name # "" /\ ReflectSignatureAccepts(in, out)
           THEN /\ graph' = [graph EXCEPT !.handlers =
                                Append(@, Handler(name, in, out))]
                /\ threw' = FALSE
           ELSE /\ threw' = TRUE
                /\ UNCHANGED graph
        /\ UNCHANGED << call, dirs, hostVars >>

(* App.handler(fn, {in, out, name}); a `name` of "" is no override.        *)
RegisterHandler(fn, override, in, out) ==
    LET name == IF override # "" THEN override ELSE FnName[fn]
    IN  /\ Idle
        /\ Len(graph.handlers) < MaxHandlers
        /\ IF name # "" /\ ReflectSignatureAccepts(in, out)
           THEN /\ graph' = [graph EXCEPT !.handlers =
                                Append(@, Handler(name, in, out))]
                /\ fns' = MapSet(fns, name, fn)
                /\ threw' = FALSE
           ELSE /\ threw' = TRUE
                /\ UNCHANGED appVars
        /\ UNCHANGED << call, dirs, hostVars >>

(* App.flow(name, ...stages).  A stage is the sequence of its members: one *)
(* for a function, any number for parallel(...).                           *)
StageNames(map, stage) == [i \in 1 .. Len(stage) |-> NameOf(map, stage[i])]

Fan(sources, targets) ==
    FlattenSeq([i \in 1 .. Len(sources) |->
      [j \in 1 .. Len(targets) |-> Edge(sources[i], targets[j])]])

FlowEdges(map, stages) ==
    LET names == [i \in 1 .. Len(stages) |-> StageNames(map, stages[i])]
        links == [i \in 1 .. Len(stages) - 1 |-> Fan(names[i], names[i + 1])]
    IN  FlattenSeq(links) \o Fan(names[Len(stages)], <<"">>)

Registered(map, stages) ==
    \A i \in 1 .. Len(stages) : \A j \in 1 .. Len(stages[i]) :
        NameOf(map, stages[i][j]) # ""

DeclareFlow(name, stages) ==
    /\ Idle
    /\ IF stages # <<>> /\ Registered(fns, stages)
       THEN /\ graph' = [graph EXCEPT !.flow =
                           [name |-> name, edges |-> FlowEdges(fns, stages)]]
            /\ threw' = FALSE
       ELSE /\ threw' = TRUE
            /\ UNCHANGED graph
    /\ UNCHANGED << fns, call, dirs, hostVars >>

-----------------------------------------------------------------------------
(* The calls that run a tool.                                              *)

(* Both emit the graph and make a directory, which may fail.               *)
BeginCall(tool, sources) ==
    /\ Idle
    /\ \/ /\ call' = [NoCall EXCEPT !.pc = "staging", !.tool = tool,
                        !.text = EmitTopo(graph), !.sources = sources]
          /\ dirs' = dirs + 1
          /\ threw' = FALSE
       \/ /\ threw' = TRUE
          /\ UNCHANGED << call, dirs >>
    /\ UNCHANGED << appVars, hostVars >>

(* Config.roundtrip and check(app, tsSources).                             *)
RoundTrip == BeginCall("topo", <<>>)
Check == \E sources \in Sources : BeginCall("topo-check", sources)

Step(pc) == call.pc = pc /\ UNCHANGED << appVars, hostVars >>

(* copyFileSync under the source's base name: the last of a name stays.    *)
Copied(staged, src) ==
    [base \in DOMAIN staged \cup {src.base} |->
       IF base = src.base THEN src.content ELSE staged[base]]

CopySource ==
    /\ Step("staging")
    /\ call.copied < Len(call.sources)
    /\ call' = [call EXCEPT !.copied = @ + 1,
                           !.staged = Copied(@, call.sources[call.copied + 1])]
    /\ UNCHANGED << threw, dirs >>

(* Mutant: no `finally` around the file operations.                        *)
StagingFailsOutright ==
    /\ Step("staging")
    /\ call' = [call EXCEPT !.pc = "cleaned", !.status = "threw"]
    /\ UNCHANGED << threw, dirs >>

(* Any file operation on the directory may throw; `finally` comes next.    *)
StagingFails ==
    /\ Step("staging")
    /\ call' = [call EXCEPT !.pc = "cleaning", !.status = "threw"]
    /\ UNCHANGED << threw, dirs >>

(* The text is written and every source copied: topoBin(), topoCheckBin(). *)
Resolve ==
    /\ Step("staging")
    /\ call.copied = Len(call.sources)
    /\ LET bin == Find(world, disk, call.tool)
       IN  call' = IF bin = NoFile
                   THEN [call EXCEPT !.pc = "cleaning", !.status = "threw"]
                   ELSE [call EXCEPT !.pc = "resolved", !.bin = bin]
    /\ UNCHANGED << threw, dirs >>

(* topo-check passes when each declared handler is defined in a source of  *)
(* the project and no function of the sources breaks the forced purity.    *)
HandlersOf(text) ==
    {text[i].name : i \in {j \in DOMAIN text : text[j].node = "handler"}}

Passes(text, contents) ==
    /\ HandlersOf(text) \subseteq UNION {c.defines : c \in contents}
    /\ \A c \in contents : c.pure

(* spawnSync.  The tool may be gone by now (no status, nothing printed),   *)
(* may reject its input, or may die after it printed all it has to say.    *)
RunTool ==
    /\ Step("resolved")
    /\ IF ~IsExecutable(world, disk, call.bin)
       THEN call' = [call EXCEPT !.pc = "cleaning", !.status = "null"]
       ELSE \/ call' = [call EXCEPT !.pc = "cleaning", !.status = "null"]
            \/ call' = [call EXCEPT !.pc = "cleaning", !.status = "1"]
            \/ \E status \in {"0", "1", "null"} :
                 /\ call.tool = "topo" => status = "0"
                 /\ call' = [call EXCEPT !.pc = "cleaning", !.status = status,
                      !.says = IF Passes(call.text, Range(call.staged))
                               THEN "PASS" ELSE "FAIL"]
    /\ UNCHANGED << threw, dirs >>

(* rmSync in the `finally`.                                                *)
RemoveDir ==
    /\ Step("cleaning")
    /\ dirs' = dirs - 1
    /\ call' = [call EXCEPT !.pc = "cleaned"]
    /\ UNCHANGED threw

(* rmSync throws, `force` or not, when it may not remove what is there:    *)
(* the directory stays, and its error is the one the caller sees.          *)
RemovalFails ==
    /\ call.pc = "cleaning"
    /\ changes + unclean < MaxChanges
    /\ unclean' = unclean + 1
    /\ call' = [call EXCEPT !.pc = "cleaned", !.status = "threw"]
    /\ UNCHANGED << appVars, threw, dirs, world, disk, changes >>

(* A thrown error goes on to the caller; readTopo throws on any status but *)
(* 0; check() returns whatever the tool did, `passed` by its text alone.   *)
Return ==
    /\ Step("cleaned")
    /\ IF call.status = "threw" \/ (call.tool = "topo" /\ call.status # "0")
       THEN call' = NoCall /\ threw' = TRUE
       ELSE /\ call' = [call EXCEPT !.pc = "returned",
                 !.read = IF call.tool = "topo" THEN ReadTopo(call.text)
                                                ELSE @]
            /\ threw' = FALSE
    /\ UNCHANGED dirs

(* Mutant: `passed` by the exit code.                                      *)
PassedByStatus == call.tool = "topo-check" /\ call.status = "0"

(* CheckResult.passed.                                                     *)
Passed == call.tool = "topo-check" /\ call.says = "PASS"

(* The caller is done with what the call returned.                         *)
Consume ==
    /\ Step("returned")
    /\ call' = NoCall
    /\ UNCHANGED << threw, dirs >>

-----------------------------------------------------------------------------
(* The environment.                                                        *)

(* A tool is installed, removed or rebuilt; between two calls this is the  *)
(* same as having started on the other disk.                               *)
DiskChanges ==
    /\ ~Idle
    /\ changes + unclean < MaxChanges
    /\ \E d \in Disks \ {disk} : disk' = d
    /\ changes' = changes + 1
    /\ UNCHANGED << appVars, threw, call, dirs, world, unclean >>

(* The process is killed in the middle of a call; a new one starts.        *)
Kill ==
    /\ ~Idle
    /\ changes + unclean < MaxChanges
    /\ unclean' = unclean + 1
    /\ graph' = EmptyGraph(graph.namespace)
    /\ fns' = <<>>
    /\ threw' = FALSE
    /\ call' = NoCall
    /\ UNCHANGED << dirs, world, disk, changes >>

Next ==
    \/ \E fn \in Fns, override \in Overrides, s \in Signatures :
         RegisterHandler(fn, override, s[1], s[2])
    \/ \E name \in FlowNames, stages \in StageLists : DeclareFlow(name, stages)
    \/ RoundTrip
    \/ Check
    \/ CopySource
    \/ StagingFails
    \/ Resolve
    \/ RunTool
    \/ RemoveDir
    \/ RemovalFails
    \/ Return
    \/ Consume
    \/ DiskChanges
    \/ Kill

Spec == Init /\ [][Next]_vars

-----------------------------------------------------------------------------
(* Properties.                                                             *)

Pcs == {"idle", "staging", "resolved", "cleaning", "cleaned", "returned"}

(* The variables hold what the code keeps in them.                         *)
TypeOK ==
    /\ graph.namespace \in Namespaces
    /\ \A h \in Range(graph.handlers) : h.name \in Names
    /\ graph.flow = NoFlow \/ graph.flow.name \in FlowNames
    /\ \A e \in Range(fns) : e.name \in Names /\ e.fn \in Fns
    /\ threw \in BOOLEAN
    /\ call.pc \in Pcs
    /\ dirs \in 0 .. MaxChanges + 1
    /\ \E h \in Hosts : world = h[1]
    /\ disk \in Disks \cup {h[2] : h \in Hosts}
    /\ changes \in Nat /\ unclean \in Nat /\ changes + unclean <= MaxChanges

(* "An unregistered function is rejected here rather than emitting a       *)
(* dangling edge" (app.mjs:116): whatever is registered before and after a *)
(* flow is declared, under whatever names, each end of each edge has a     *)
(* signature in the graph and a function to call.                          *)
EdgesResolve ==
    \A e \in Range(graph.flow.edges) :
      \A name \in {e.source, e.target} \ {""} :
        /\ \E h \in Range(graph.handlers) : h.name = name
        /\ CallableFor(fns, name) # NoFn

(* A call of the API that throws leaves the graph and the functions as     *)
(* they were: no handler without its function, no half-replaced flow.      *)
ThrowsChangeNothing ==
    [][threw' => UNCHANGED appVars]_vars

ReadBack == call.pc = "returned" /\ call.tool = "topo"

(* The graphs every line of whose text the read-back matches.              *)
IsLegible(g) ==
    /\ IsWord(g.namespace)
    /\ \A h \in Range(g.handlers) : IsWord(h.name)
    /\ IsWord(g.flow.name)

(* The headline of the round trip (app_config.mjs, _emit.mjs:33): what is  *)
(* read back is equivalent to what was emitted - for exactly the graphs    *)
(* that are legible and lead to no handler called void; the others are     *)
(* changed without an error.  The snapshot has one name for that handler   *)
(* and for the end of the flow, so it shows no difference there.           *)
RoundTripIsFaithful ==
    ReadBack =>
      /\ EquivalentTo(graph, call.read) <=>
           /\ IsLegible(graph)
           /\ \A e \in Range(graph.flow.edges) : e.target # "void"
      /\ Snapshot(graph) = Snapshot(call.read) <=> IsLegible(graph)

IsNested(t) == \E i \in DOMAIN t.record : t.record[i][2].record # <<>>

(* Types are compared by their spelling, so an equivalent graph' may have  *)
(* other types: a record in a record is taken apart at its commas, and     *)
(* only graphs without one come back as they were.                         *)
EqualKeysHideNesting ==
    ReadBack /\ EquivalentTo(graph, call.read) =>
      (call.read = graph <=>
         \A h \in Range(graph.handlers) : ~IsNested(h.in) /\ ~IsNested(h.out))

(* A pass is about this program and all the sources it was given: every    *)
(* handler of the graph is defined in one of them and none breaks purity.  *)
(* Sources that share a base name are the exception (check.mjs:80): one    *)
(* replaces the other in the staged project.                               *)
PassCoversEverySource ==
    call.pc = "returned" /\ Passed =>
      LET given == Range(call.sources)
      IN  /\ \A h \in Range(graph.handlers) :
                \E s \in given : h.name \in s.content.defines
          /\ \/ \A s \in given : s.content.pure
             \/ \E i, j \in DOMAIN call.sources :
                  /\ i # j
                  /\ call.sources[i].base = call.sources[j].base

(* The policy the three runtimes share (_toolchain.mjs:8-20): TOPO_BIN_DIR *)
(* pins the tool or the call throws; an installed tool is preferred to a   *)
(* build tree, in the order of PATH, and build/ to build-asan/; no other   *)
(* tree is ever used; and the tool that is called is the one that was      *)
(* asked for.                                                              *)
Bare(dir, tool) ==
    {File(dir, "flat", "", sfx, tool) :
       sfx \in {""} \cup IF world.windows THEN Range(PathExt) ELSE {}}

Tree(base, tool) ==
    {File(base, layout, "", sfx, tool) :
       layout \in {"nested", "flat"}, sfx \in Range(SuffixesOf(world))}
    \cup
    {File(base, layout, config, sfx, tool) :
       layout \in {"nested", "flat", "parent"}, config \in Range(Configs),
       sfx \in Range(SuffixesOf(world))}

Runs(places) == \E f \in places : IsExecutable(world, disk, f)

InstalledAt(i, tool) == world.path[i] # "" /\ Runs(Bare(world.path[i], tool))

Preferred(bin, tool) ==
    IF world.binDir # ""
    THEN bin \in Tree(world.binDir, tool)
    ELSE \/ \E i \in DOMAIN world.path :
              /\ world.path[i] # ""
              /\ bin \in Bare(world.path[i], tool)
              /\ \A j \in 1 .. i - 1 : ~InstalledAt(j, tool)
         \/ /\ bin \in Tree("build", tool) \cup Tree("build-asan", tool)
            /\ \A j \in DOMAIN world.path : ~InstalledAt(j, tool)
            /\ bin \notin Tree("build", tool) => ~Runs(Tree("build", tool))

LookupPolicy ==
    [][call.pc = "staging" /\ call'.pc = "resolved" =>
         /\ Preferred(call'.bin, call.tool)
         /\ IsExecutable(world, disk, call'.bin)]_vars

(* The throwaway directory is removed on every way out of a call, an error *)
(* at any step included (check.mjs:86, _readback.mjs:72); what is left     *)
(* over was left by a killed process or by a removal that threw.           *)
NoDirIsLeftSilently ==
    dirs <= unclean + (IF call.pc \in {"staging", "resolved", "cleaning"}
                       THEN 1 ELSE 0)

=============================================================================
