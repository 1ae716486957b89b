---------------------------- MODULE BuildBackend ----------------------------
(***************************************************************************)
(* topo-build/main.cpp: the process that topo-build starts for a           *)
(* TypeScript project.  It runs six checks and, when they pass, up to      *)
(* three transforms.  A transform hands a request to an external Node tool *)
(* through a file with a fixed name in the shared temporary directory,     *)
(* writes the rewritten sources under the output directory, and leaves a   *)
(* sidecar beside it that says what it did.                                *)
(*                                                                         *)
(* Builds are numbered by the order in which they start.  They share the   *)
(* file system: one path for each transform's request, and, for each       *)
(* project, its outputs, its sidecars and the sidecars' temporary names.   *)
(* A process may be killed at any step, and an operation on a file may     *)
(* fail with nobody looking: what is open then stays partial, or what was  *)
(* there before stays there.                                               *)
(*                                                                         *)
(* A world is what surrounds the builds of one behaviour: whether they may *)
(* overlap, the requests topo-build may make, the modes Topo.toml may      *)
(* hold, where outputs go, and how many kills and unnoticed failures there *)
(* may be.                                                                 *)
(***************************************************************************)
EXTENDS Naturals, FiniteSets, SequencesExt, Functions, TLC

CONSTANTS
    MaxBuild,  \* the number of builds that may be started
    Projects,  \* each with its own directory
    Files,     \* source files, by their path below the project
    Dests,     \* paths below an output directory
    NoFile,    \* none of them
    Names,     \* simple names of functions
    Worlds     \* the worlds considered

VARIABLES
    world,  \* the world of this behaviour
    build,  \* the state of each build process
    fs      \* the file system: what each path holds

vars == <<world, build, fs>>

ASSUME MaxBuildAssumption == MaxBuild \in Nat \ {0}
ASSUME FilesAssumption == IsFiniteSet(Files) /\ Files # {}
ASSUME NoFileIsNoFile == NoFile \notin Files

Builds == 1 .. MaxBuild

-----------------------------------------------------------------------------
(* Requests and Topo.toml *)

Modes == {"off", "auto", "force"}
Checks == <<"completeness", "containment", "visibility", "purity",
            "stage_isolation", "import_path">>
Skippable == {"visibility", "purity", "stage_isolation"}
Passes == <<"visibility", "containment_guard", "stage_assert">>
Link == "tsc_sourcemap_link"
Reports == Range(Passes) \cup {Link}

\* What the request and the sources declare: visibility entries, functions,
\* logic blocks with the stages of their calls, and the host symbols found.
Declarations ==
    [entries : SUBSET [name : Names, visibility : {"public", "internal", "private"}],
     functions : SUBSET [name : Names, external : BOOLEAN],
     blocks : SUBSET [name : Names, stages : SUBSET (0 .. 2)],
     host : SUBSET [file : Files, name : Names]]

Request ==
    [project : Projects, decl : Declarations, noVerify : BOOLEAN,
     warnOnly : BOOLEAN, out : BOOLEAN]

\* The simple names that a pass has something to do for.
NonPublic(d) == {e.name : e \in {e \in d.entries : e.visibility # "public"}}
NonExternal(d) == {f.name : f \in {f \in d.functions : ~f.external}}
Staged(d) == {k.name : k \in {k \in d.blocks : k.stages \ {0} # {}}}

Declared(pass, d) ==
    CASE pass = "visibility" -> NonPublic(d)
      [] pass = "containment_guard" -> NonExternal(d)
      [] pass = "stage_assert" -> Staged(d)

\* The files in which the extractor finds one of those names.
Targets(pass, d) == {h.file : h \in {h \in d.host : h.name \in Declared(pass, d)}}

Runs(mode, pass, d) ==
    \/ mode = "force"
    \/ mode = "auto" /\ Targets(pass, d) # {}

-----------------------------------------------------------------------------
(* The file system *)

Temp(pass) == <<"tmp", pass>>
Out(p, dest) == <<p, "out", dest>>
Sidecar(p, name) == <<p, "passes", name>>

\* Mutant: the sidecar is written in place.
SidecarTmpInPlace(p, name) == <<p, "passes", name>>

SidecarTmp(p, name) == <<p, "passes", name, "tmp">>
Nowhere == <<>>

Outputs == {Out(p, d) : p \in Projects, d \in Dests}
Sidecars == {Sidecar(p, n) : p \in Projects, n \in Reports}
Paths ==
    {Temp(x) : x \in Range(Passes)} \cup Outputs \cup Sidecars
        \cup {SidecarTmp(p, n) : p \in Projects, n \in Reports}

World ==
    [builds : Nat, overlap : BOOLEAN, findings : Nat, kills : Nat, slips : Nat,
     dest : [Files -> Dests],
     modes : [Range(Passes) -> SUBSET Modes], requests : (SUBSET Request) \ {{}}]

ASSUME WorldsAssumption == Worlds \subseteq World

Absent == [kind |-> "absent"]
Partial == [kind |-> "partial"]   \* truncated, and its text not (yet) wholly there
Garbled == [kind |-> "garbled"]   \* one text over the rest of a longer one
RequestOf(b, pass) == [kind |-> "request", build |-> b, pass |-> pass]
Rewrite(b, of, pass, f) ==
    [kind |-> "rewrite", by |-> b, of |-> of, pass |-> pass, file |-> f]
Record(b, name, count, rows) ==
    [kind |-> "sidecar", by |-> b, name |-> name, count |-> count, rows |-> rows]

Contents ==
    {Absent, Partial, Garbled}
        \cup {RequestOf(b, x) : b \in Builds, x \in Range(Passes)}
        \cup {Rewrite(b, o, x, f) : b \in Builds, o \in Builds, x \in Range(Passes), f \in Files}
        \cup {Record(b, n, c, r) : b \in Builds, n \in Reports,
                                   c \in 0 .. Cardinality(Files), r \in SUBSET Files}

-----------------------------------------------------------------------------
(* The state of a build *)

\* log: what stderr says of each pass.  printed: the diagnostics on stderr, as
\* <<check, what it was, what was printed>>.  handle: the path that names the
\* file it has open.  seen: what its tool read.  rows, todo, written: the files
\* the tool rewrote, those still to be written, and those counted as written.
\* slips is a history: the operations of this process that failed unnoticed.
Steps == {"idle", "check", "pass", "request", "tool", "answer", "outputs", "output",
          "sidecar", "rename", "remove", "ended"}
Exits == {"none", "0", "1", "aborted", "killed"}
Severities == {"warning", "error"}
Slips == {"open", "write", "remove"} \X Paths

BuildState ==
    [pc : Steps, exit : Exits, req : Request, at : 1 .. Len(Checks) + 1,
     errors : 0 .. 2 * Len(Checks), warnings : 0 .. 2 * Len(Checks),
     printed : SUBSET (Range(Checks) \X Severities \X Severities),
     log : [Range(Passes) -> [mode : Modes, ok : BOOLEAN, files : SUBSET Files]],
     mode : Modes, ok : BOOLEAN, handle : Paths \cup {Nowhere}, seen : Contents,
     rows : SUBSET Files, todo : SUBSET Files, written : SUBSET Files,
     file : Files \cup {NoFile}, slips : SUBSET Slips]

NotRun == [mode |-> "off", ok |-> FALSE, files |-> {}]

Idle(r) ==
    [pc |-> "idle", exit |-> "none", req |-> r, at |-> 1, errors |-> 0, warnings |-> 0,
     printed |-> {}, log |-> [x \in Range(Passes) |-> NotRun],
     mode |-> "off", ok |-> FALSE, handle |-> Nowhere, seen |-> Absent,
     rows |-> {}, todo |-> {}, written |-> {}, file |-> NoFile, slips |-> {}]

Init ==
    /\ world \in Worlds
    /\ build = [b \in Builds |-> Idle(CHOOSE r \in world.requests : TRUE)]
    /\ fs = [path \in Paths |-> Absent]

Pass(b) == Passes[build[b].at]
Ended(b) == build[b].pc = "ended"
InPasses(b) == build[b].pc = "pass" /\ build[b].at <= Len(Passes)

Become(b, s) == build' = [build EXCEPT ![b] = s]

\* What remains of a process, or of a block of it, when its locals are gone.
Kept(b) ==
    [Idle(build[b].req) EXCEPT
        !.printed = build[b].printed, !.log = build[b].log, !.slips = build[b].slips]

Quits(b, code) == [Kept(b) EXCEPT !.pc = "ended", !.exit = code]
Exit(b, code) == Become(b, Quits(b, code))

Proceeds(b) ==
    [Kept(b) EXCEPT !.pc = "pass", !.at = build[b].at + 1, !.log[Pass(b)] =
        [mode |-> build[b].mode, ok |-> build[b].ok, files |-> build[b].written]]

\* Each step on a file may slip: fail, as in a directory where another user's file
\* has the name, or on a full disk, in a way that the code does not look at.
MaySlip == Cardinality(UNION {{b} \X build[b].slips : b \in Builds}) < world.slips

\* std::ofstream: opening truncates, or leaves what is there.
Open(b, s, path) ==
    \/ /\ Become(b, [s EXCEPT !.handle = path])
       /\ fs' = [fs EXCEPT ![path] = Partial]
    \/ /\ MaySlip
       /\ Become(b, [s EXCEPT !.handle = Nowhere, !.slips = @ \cup {<<"open", path>>}])
       /\ UNCHANGED fs

\* Closing writes what was buffered, over what another process has written in
\* between, or only the beginning of it.
Onto(path, text) == {text} \cup (IF fs[path] = Partial THEN {} ELSE {Garbled})
Put(b, texts) ==
    IF build[b].handle = Nowhere THEN UNCHANGED fs
    ELSE \E c \in texts : fs' = [fs EXCEPT ![build[b].handle] = c]
Close(b, s, text) ==
    \/ /\ Become(b, [s EXCEPT !.handle = Nowhere])
       /\ Put(b, Onto(build[b].handle, text))
    \/ /\ MaySlip /\ build[b].handle # Nowhere
       /\ Become(b, [s EXCEPT !.handle = Nowhere,
                              !.slips = @ \cup {<<"write", build[b].handle>>}])
       /\ Put(b, Onto(build[b].handle, Partial) \cup {fs[build[b].handle]})

\* b becomes s, and the files that others hold open get other names or none.
BecomeAndRename(b, s, moved) ==
    build' = [c \in Builds |->
        IF c = b THEN s
        ELSE IF build[c].handle \in DOMAIN moved
        THEN [build[c] EXCEPT !.handle = moved[@]]
        ELSE build[c]]

-----------------------------------------------------------------------------
(* Verification *)

\* Builds start in the order of their numbers, and one by one where the world
\* does not let them overlap.
MayStart(b) ==
    /\ build[b].pc = "idle" /\ b <= world.builds
    /\ \A c \in 1 .. b - 1 : build[c].pc # "idle" /\ (world.overlap \/ Ended(c))

Start(b) ==
    /\ MayStart(b)
    /\ \E r \in world.requests :
            Become(b, [Idle(r) EXCEPT !.pc = IF r.noVerify THEN "pass" ELSE "check"])
    /\ UNCHANGED <<world, fs>>

\* The request cannot be read, is not valid, or holds a mistyped extra.
Reject(b) ==
    /\ MayStart(b)
    /\ Exit(b, "1")
    /\ UNCHANGED <<world, fs>>

\* A check finds problems of some severities.  Three checks have a mode: off
\* skips them, force prints and counts their warnings as errors.
Skips(check, mode) == check \in Skippable /\ mode = "off"
Promotes(check, mode) == check \in Skippable /\ mode = "force"

Printed(check, mode, found) ==
    {<<check, s, IF Promotes(check, mode) THEN "error" ELSE s>> : s \in found}

\* Mutant: a promoted warning is counted twice.
ErrorCountTwice(check, mode, found) ==
    IF Promotes(check, mode) THEN Cardinality(found) + Cardinality(found \cap {"warning"})
    ELSE Cardinality(found \cap {"error"})

\* Mutant: a promoted warning is printed as an error and counted as a warning.
ErrorCountPromotesNone(check, mode, found) == Cardinality(found \cap {"error"})

ErrorCount(check, mode, found) ==
    IF Promotes(check, mode) THEN Cardinality(found) ELSE Cardinality(found \cap {"error"})

Check(b) ==
    /\ build[b].pc = "check" /\ build[b].at <= Len(Checks)
    /\ LET check == Checks[build[b].at] IN
       \E mode \in Modes, found \in SUBSET Severities :
          /\ Cardinality(build[b].printed) + Cardinality(found) <= world.findings
          /\ Skips(check, mode) => found = {}
          /\ Become(b, [build[b] EXCEPT
                !.at = @ + 1, !.printed = @ \cup Printed(check, mode, found),
                !.errors = @ + ErrorCount(check, mode, found),
                !.warnings = @ + Cardinality(found) - ErrorCount(check, mode, found)])
    /\ UNCHANGED <<world, fs>>

Passed(b) == build[b].errors = 0 \/ build[b].req.warnOnly

Gate(b) ==
    /\ build[b].pc = "check" /\ build[b].at > Len(Checks)
    /\ IF Passed(b) THEN Become(b, [Kept(b) EXCEPT !.pc = "pass"]) ELSE Exit(b, "1")
    /\ UNCHANGED <<world, fs>>

-----------------------------------------------------------------------------
(* A transform.  Topo.toml is read as it begins: any mode of the world *)

Skip(b) ==
    /\ InPasses(b)
    /\ \E mode \in world.modes[Pass(b)] : ~Runs(mode, Pass(b), build[b].req.decl)
    /\ Become(b, Proceeds(b))
    /\ UNCHANGED <<world, fs>>

\* There is no output directory, or the tool is not installed.
Refuse(b) ==
    /\ InPasses(b)
    /\ \E mode \in world.modes[Pass(b)] :
          /\ Runs(mode, Pass(b), build[b].req.decl)
          /\ IF mode = "force" THEN Exit(b, "1") ELSE Become(b, Proceeds(b))
    /\ UNCHANGED <<world, fs>>

\* Mutant: a request that is there already is used again.
OpenRequestUnlessThere(b) ==
    /\ InPasses(b) /\ build[b].req.out
    /\ \E mode \in world.modes[Pass(b)] :
          /\ Runs(mode, Pass(b), build[b].req.decl)
          /\ LET s == [build[b] EXCEPT !.pc = "request", !.mode = mode] IN
             IF fs[Temp(Pass(b))].kind = "request" THEN Become(b, s) /\ UNCHANGED fs
             ELSE Open(b, s, Temp(Pass(b)))
    /\ UNCHANGED world

OpenRequest(b) ==
    /\ InPasses(b) /\ build[b].req.out
    /\ \E mode \in world.modes[Pass(b)] :
          /\ Runs(mode, Pass(b), build[b].req.decl)
          /\ Open(b, [build[b] EXCEPT !.pc = "request", !.mode = mode], Temp(Pass(b)))
    /\ UNCHANGED world

WriteRequest(b) ==
    /\ build[b].pc = "request"
    /\ Close(b, [build[b] EXCEPT !.pc = "tool"], RequestOf(b, Pass(b)))
    /\ UNCHANGED world

\* A source that is not UTF-8 cannot be dumped, an answer that is not JSON cannot
\* be parsed: both throw, in every mode, and nothing catches.
Abort(b) ==
    /\ build[b].pc \in {"request", "answer"}
    /\ Exit(b, "aborted")
    /\ UNCHANGED <<world, fs>>

\* External: the Node tool reads the file named on its command line, and
\* rewrites some of the files that the request gives it something to do for.
ToolReads(b) ==
    /\ build[b].pc = "tool"
    /\ Become(b, [build[b] EXCEPT !.pc = "answer", !.seen = fs[Temp(Pass(b))]])
    /\ UNCHANGED <<world, fs>>

\* The tool exits with an error, or answers that it did not succeed.
ToolFails(b) ==
    /\ build[b].pc = "answer"
    /\ Become(b, [build[b] EXCEPT !.pc = "remove", !.seen = Absent])
    /\ UNCHANGED <<world, fs>>

\* A rewritten file whose new text is empty gets a row, and no output.
ToolSucceeds(b) ==
    /\ build[b].pc = "answer" /\ build[b].seen.kind = "request"
    /\ \E rows \in SUBSET Targets(Pass(b), build[build[b].seen.build].req.decl) :
       \E blank \in SUBSET rows :
          Become(b, [build[b] EXCEPT !.pc = "outputs", !.ok = TRUE,
                                     !.rows = rows, !.todo = rows \ blank])
    /\ UNCHANGED <<world, fs>>

\* The outputs are written in the order of the answer.  Nothing looks at whether
\* one could be opened and written: it counts as written.
OpenOutput(b) ==
    /\ build[b].pc = "outputs"
    /\ \E f \in build[b].todo :
          Open(b, [build[b] EXCEPT
                !.pc = "output", !.todo = @ \ {f}, !.written = @ \cup {f}, !.file = f],
               Out(build[b].req.project, world.dest[f]))
    /\ UNCHANGED world

WriteOutput(b) ==
    /\ build[b].pc = "output"
    /\ Close(b, [build[b] EXCEPT !.pc = "outputs", !.file = NoFile],
             Rewrite(b, build[b].seen.build, Pass(b), build[b].file))
    /\ UNCHANGED world

-----------------------------------------------------------------------------
(* Sidecars *)

InLink(b) == build[b].pc = "pass" /\ build[b].at > Len(Passes)
Reported(b) == IF build[b].at <= Len(Passes) THEN Pass(b) ELSE Link
AfterSidecar(b) ==
    IF build[b].at <= Len(Passes)
    THEN [build[b] EXCEPT !.pc = "remove", !.handle = Nowhere]
    ELSE Quits(b, "0")

SidecarDue(b) ==
    \/ build[b].pc = "outputs" /\ build[b].todo = {}
    \/ InLink(b) /\ build[b].req.out

OpenSidecar(b) ==
    /\ SidecarDue(b)
    /\ Open(b, [build[b] EXCEPT !.pc = "sidecar"],
            SidecarTmp(build[b].req.project, Reported(b)))
    /\ UNCHANGED world

\* The directory of the sidecars cannot be made: the build goes on.
NoSidecar(b) ==
    /\ SidecarDue(b)
    /\ Become(b, AfterSidecar(b))
    /\ UNCHANGED <<world, fs>>

\* Mutant: fired_count counts the files that the tool rewrote.
WriteSidecarOfRows(b) ==
    /\ build[b].pc = "sidecar"
    /\ \E linked \in 0 .. 1 :
          Close(b, [build[b] EXCEPT !.pc = "rename"], Record(b, Reported(b),
              IF Reported(b) = Link THEN linked ELSE Cardinality(build[b].rows),
              build[b].rows))
    /\ UNCHANGED world

\* The last sidecar counts the .js files that tsc left with a map, none or some.
WriteSidecar(b) ==
    /\ build[b].pc = "sidecar"
    /\ \E linked \in 0 .. 1 :
          Close(b, [build[b] EXCEPT !.pc = "rename"], Record(b, Reported(b),
              IF Reported(b) = Link THEN linked ELSE Cardinality(build[b].written),
              build[b].rows))
    /\ UNCHANGED world

\* The rename is tried whatever became of the text.
RenameSidecar(b) ==
    /\ build[b].pc = "rename"
    /\ LET path == Sidecar(build[b].req.project, Reported(b))
           tmp == SidecarTmp(build[b].req.project, Reported(b)) IN
          \/ /\ fs[tmp] # Absent
             /\ fs' = [fs EXCEPT ![path] = fs[tmp], ![tmp] = Absent]
             /\ BecomeAndRename(b, AfterSidecar(b),
                    [q \in {tmp, path} |-> IF q = tmp THEN path ELSE Nowhere])
          \/ /\ UNCHANGED fs
             /\ Become(b, AfterSidecar(b))
    /\ UNCHANGED world

\* std::remove: b becomes s without the request, or with it still there.
Unlink(b, s) ==
    \/ /\ fs' = [fs EXCEPT ![Temp(Pass(b))] = Absent]
       /\ BecomeAndRename(b, s, [q \in {Temp(Pass(b))} |-> Nowhere])
    \/ /\ MaySlip
       /\ Become(b, [s EXCEPT !.slips = @ \cup {<<"remove", Temp(Pass(b))>>}])
       /\ UNCHANGED fs

\* Mutant: a forced pass that failed is forgotten.
RemoveRequestAndGoOn(b) ==
    /\ build[b].pc = "remove"
    /\ Unlink(b, Proceeds(b))
    /\ UNCHANGED world

\* Mutant: a forced pass that failed returns before the request is removed.
RemoveRequestAfterReturn(b) ==
    /\ build[b].pc = "remove"
    /\ IF build[b].mode = "force" /\ ~build[b].ok
       THEN Exit(b, "1") /\ UNCHANGED fs
       ELSE Unlink(b, Proceeds(b))
    /\ UNCHANGED world

RemoveRequest(b) ==
    /\ build[b].pc = "remove"
    /\ Unlink(b, IF build[b].mode = "force" /\ ~build[b].ok THEN Quits(b, "1") ELSE Proceeds(b))
    /\ UNCHANGED world

\* Without an output directory there is nothing to link.
Finish(b) ==
    /\ InLink(b) /\ ~build[b].req.out
    /\ Exit(b, "0")
    /\ UNCHANGED <<world, fs>>

\* The environment may kill a process at any step.
Kill(b) ==
    /\ build[b].pc \notin {"idle", "ended"}
    /\ Cardinality({c \in Builds : build[c].exit = "killed"}) < world.kills
    /\ Exit(b, "killed")
    /\ UNCHANGED <<world, fs>>

-----------------------------------------------------------------------------

Verify(b) == Start(b) \/ Reject(b) \/ Check(b) \/ Gate(b)

Report(b) == OpenSidecar(b) \/ NoSidecar(b) \/ WriteSidecar(b) \/ RenameSidecar(b)

\* The three passes are the same steps written out three times.
Transform(b, i) ==
    /\ build[b].at = i
    /\ \/ Skip(b) \/ Refuse(b) \/ OpenRequest(b) \/ WriteRequest(b) \/ Abort(b)
       \/ ToolReads(b) \/ ToolFails(b) \/ ToolSucceeds(b)
       \/ OpenOutput(b) \/ WriteOutput(b) \/ Report(b) \/ RemoveRequest(b)

VisibilityPass(b) == Transform(b, 1)
ContainmentGuardPass(b) == Transform(b, 2)
StageAssertPass(b) == Transform(b, 3)
SourcemapLink(b) == build[b].at > Len(Passes) /\ (Report(b) \/ Finish(b))

Next ==
    \E b \in Builds :
        \/ Verify(b) \/ Kill(b)
        \/ VisibilityPass(b) \/ ContainmentGuardPass(b) \/ StageAssertPass(b)
        \/ SourcemapLink(b)

Spec == Init /\ [][Next]_vars
-----------------------------------------------------------------------------
(* Properties *)

\* The variables have their types.
TypeOK ==
    /\ world \in Worlds
    /\ build \in [Builds -> BuildState]
    /\ fs \in [Paths -> Contents]

\* A build goes on to its transforms, or ends well, only if it printed no error,
\* unless the request asked to skip the checks or to take errors as warnings.
\* The counts that decide are kept apart from the diagnostics that are printed,
\* and both are rewritten when a mode promotes warnings (main.cpp:323-330).
PrintedErrorsFail ==
    \A b \in Builds :
        (build[b].pc \notin {"idle", "check", "ended"} \/ build[b].exit = "0") => \/ build[b].req.noVerify \/ build[b].req.warnOnly
           \/ \A d \in build[b].printed : d[3] # "error"

\* Nothing of the same project was started after b.
Newest(b) ==
    \A c \in Builds : c > b =>
        build[c].pc = "idle" \/ build[c].req.project # build[b].req.project

Rank(pass) == CHOOSE i \in DOMAIN Passes : Passes[i] = pass

Slipped(b, op, path) == <<op, path>> \in build[b].slips

\* When a build ends with 0, each pass it was forced to apply has succeeded, and,
\* where builds do not overlap, each file that pass wrote holds the whole text
\* that this pass, or a later one of this build, made of this build's sources
\* (isForce && !transformOk, main.cpp:699, 978, 1287).  Excepted is what the code
\* does not look at: an output that this build could not open or write (595), and
\* a request that it could not open, for which an older one may stand (550).
ForcedIsApplied ==
    \A b \in Builds, x \in Range(Passes) :
        build[b].exit = "0" /\ build[b].log[x].mode = "force" =>
        /\ build[b].log[x].ok
        /\ ~world.overlap /\ Newest(b) =>
           \A f \in build[b].log[x].files :
              LET path == Out(build[b].req.project, world.dest[f]) IN
              \/ Slipped(b, "open", path) \/ Slipped(b, "write", path)
              \/ /\ fs[path].kind = "rewrite"
                 /\ fs[path].by = b
                 /\ fs[path].of = b \/ Slipped(b, "open", Temp(fs[path].pass))
                 /\ Rank(fs[path].pass) >= Rank(x)

\* The output at path is the work of the sidecar's pass or of a later one, or
\* was left partial by a build that cannot be seen to have ended, or that could
\* not write it whole.
AsRecent(path, record) ==
    \/ /\ fs[path].kind = "rewrite"
       /\ \/ fs[path].by > record.by
          \/ /\ fs[path].by = record.by
             /\ Rank(fs[path].pass) >= Rank(record.name)
    \/ /\ fs[path] = Partial
       /\ \E b \in Builds :
             /\ b >= record.by
             /\ \/ build[b].exit = "killed" \/ build[b].handle = path
                \/ Slipped(b, "write", path)

\* Where builds do not overlap, a pass's sidecar is true of the disk: of the
\* files it lists, at least as many as its fired_count have an output that this
\* pass or a later one wrote, whatever failed or was killed since and although
\* later passes and builds write the same files, and although the sidecar that
\* is renamed may be an older build's; only an output that its build could not
\* open counts as fired all the same (main.cpp:570-695).
SidecarIsBacked ==
    ~world.overlap =>
    \A p \in Projects, x \in Range(Passes) :
        LET record == fs[Sidecar(p, x)] IN
        record.kind = "sidecar" =>
            Cardinality({f \in record.rows :
                LET path == Out(p, world.dest[f]) IN
                Slipped(record.by, "open", path) \/ AsRecent(path, record)}) >= record.count

\* Where builds do not overlap, an output is made for its own project, from the
\* sources of the build that wrote it: the request that an earlier build left in
\* the shared temporary directory is used only by a build that could not open
\* that name to write its own (main.cpp:547-555).
OwnRewrites ==
    ~world.overlap =>
    \A p \in Projects, d \in Dests :
        LET output == fs[Out(p, d)] IN
        output.kind = "rewrite" =>
            /\ build[output.by].req.project = p
            /\ output.of = output.by \/ Slipped(output.by, "open", Temp(output.pass))

\* A reader never sees half a sidecar, even if builds die at any step, as long as
\* no two builds of one project overlap (written beside and renamed,
\* main.cpp:662-672), unless a build of that project could not open the name
\* beside, or not write it whole: it renames what is there all the same.
OnePerProject ==
    \A b, c \in Builds : b # c /\ build[b].pc # "idle" /\ build[c].pc # "idle" =>
        ~world.overlap \/ build[b].req.project # build[c].req.project
SidecarSlipped(p, name) ==
    \E b \in Builds, op \in {"open", "write"} : Slipped(b, op, SidecarTmp(p, name))
SidecarsAreWhole ==
    OnePerProject =>
    \A p \in Projects, x \in Reports :
        fs[Sidecar(p, x)].kind \in {"absent", "sidecar"} \/ SidecarSlipped(p, x)

\* When every build has ended by itself, with whatever code and in whatever
\* order their steps came, no request is left behind but one that a build could
\* not remove (main.cpp:697).
RequestsAreRemoved ==
    (\A b \in Builds : build[b].exit \in {"0", "1"} \/ build[b].pc = "idle")
        => \A x \in Range(Passes) :
              fs[Temp(x)] = Absent \/ \E b \in Builds : Slipped(b, "remove", Temp(x))

=============================================================================
