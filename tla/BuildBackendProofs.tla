-------------------------- MODULE BuildBackendProofs --------------------------
(***************************************************************************)
(* Theorems about BuildBackend, for every number of builds and projects,   *)
(* every set of files and names, and every set of worlds: first what a     *)
(* build prints and ends with, then what the files hold.                   *)
(***************************************************************************)
EXTENDS BuildBackend, FiniteSetTheorems, TLAPS

Fields ==
    {"pc", "exit", "req", "at", "errors", "warnings", "printed", "log", "mode",
     "ok", "handle", "seen", "rows", "todo", "written", "file", "slips"}

NoErrors(printed) == \A d \in printed : d[3] # "error"
Waived(req) == req.noVerify \/ req.warnOnly
Underway(s) == s.pc \notin {"idle", "check", "ended"}

(* What PrintedErrorsFail rests on: until the gate, no counted error means *)
(* no printed one; after it, whatever goes on has passed it.               *)
Sound(s) ==
    /\ DOMAIN s = Fields
    /\ s.pc = "check" =>
         s.errors \in Nat /\ (s.errors = 0 => NoErrors(s.printed))
    /\ Underway(s) \/ s.exit = "0" => Waived(s.req) \/ NoErrors(s.printed)
    /\ s.exit # "none" => s.pc = "ended"

(* A build works on one of the three passes or on the last sidecar, and    *)
(* has no file open but the one that it is writing; the second part of a   *)
(* path tells requests, outputs and sidecars apart.  Nothing has slipped   *)
(* before a build starts.                                                  *)
PassSteps == {"request", "tool", "answer", "outputs", "output", "remove"}

Shape(s) ==
    /\ s.pc \in {"pass", "sidecar", "rename"} => s.at \in 1 .. 4
    /\ s.pc \in PassSteps => s.at \in 1 .. 3
    /\ \/ s.handle = Nowhere
       \/ s.pc = "request" /\ s.handle = Temp(Passes[s.at])
       \/ s.pc = "output" /\ s.handle[1] = s.req.project /\ s.handle[2] = "out"
       \/ s.pc = "sidecar" /\ s.handle[2] = "passes"
    /\ s.pc = "idle" => s.slips = {}

LocalInv ==
    /\ build = [b \in Builds |-> build[b]]
    /\ \A b \in Builds : Sound(build[b]) /\ Shape(build[b])

-----------------------------------------------------------------------------
(* How a state of one build changes.                                       *)

LEMMA IdleFields ==
    ASSUME NEW r
    PROVE  /\ DOMAIN Idle(r) = Fields /\ Idle(r).pc = "idle" /\ Idle(r).exit = "none"
           /\ Idle(r).req = r /\ Idle(r).errors = 0 /\ Idle(r).printed = {}
           /\ Idle(r).at = 1 /\ Idle(r).handle = Nowhere /\ Idle(r).slips = {}
BY DEF Idle, Fields

LEMMA KeptFields ==
    ASSUME NEW b
    PROVE  /\ DOMAIN Kept(b) = Fields /\ Kept(b).pc = "idle" /\ Kept(b).exit = "none"
           /\ Kept(b).req = build[b].req /\ Kept(b).printed = build[b].printed
           /\ Kept(b).at = 1 /\ Kept(b).handle = Nowhere
           /\ Kept(b).slips = build[b].slips
BY DEF Kept, Idle, Fields

LEMMA QuitsFields ==
    ASSUME NEW b, NEW code
    PROVE  /\ DOMAIN Quits(b, code) = Fields /\ Quits(b, code).pc = "ended"
           /\ Quits(b, code).exit = code /\ Quits(b, code).req = build[b].req
           /\ Quits(b, code).printed = build[b].printed
           /\ Quits(b, code).handle = Nowhere /\ Quits(b, code).slips = build[b].slips
BY KeptFields DEF Quits, Fields

LEMMA ProceedsFields ==
    ASSUME NEW b
    PROVE  /\ DOMAIN Proceeds(b) = Fields /\ Proceeds(b).pc = "pass"
           /\ Proceeds(b).exit = "none" /\ Proceeds(b).req = build[b].req
           /\ Proceeds(b).printed = build[b].printed
           /\ Proceeds(b).at = build[b].at + 1
           /\ Proceeds(b).handle = Nowhere /\ Proceeds(b).slips = build[b].slips
BY KeptFields DEF Proceeds, Fields

LEMMA BecomeGives ==
    ASSUME LocalInv, NEW b \in Builds, NEW s, Become(b, s)
    PROVE  /\ build' = [c \in Builds |-> build'[c]]
           /\ build'[b] = s
           /\ \A c \in Builds \ {b} : build'[c] = build[c]
BY DEF Become, LocalInv

LEMMA RenameGives ==
    ASSUME LocalInv, NEW b \in Builds, NEW s, NEW moved, BecomeAndRename(b, s, moved)
    PROVE  /\ build' = [c \in Builds |-> build'[c]]
           /\ build'[b] = s
           /\ \A c \in Builds \ {b} : build'[c] =
                IF build[c].handle \in DOMAIN moved
                THEN [build[c] EXCEPT !.handle = moved[build[c].handle]] ELSE build[c]
BY DEF BecomeAndRename, LocalInv

LEMMA BecomeKeeps ==
    ASSUME LocalInv, NEW b \in Builds, NEW s, Become(b, s), Sound(s), Shape(s)
    PROVE  LocalInv'
<1>1. \A c \in Builds : Sound(build'[c]) /\ Shape(build'[c])
    BY BecomeGives DEF LocalInv
<1>2. build' = [c \in Builds |-> build'[c]]
    BY BecomeGives
<1>. QED BY <1>1, <1>2 DEF LocalInv

-----------------------------------------------------------------------------
(* The checks.                                                             *)

LEMMA CountedErrors ==
    ASSUME NEW check, NEW mode, NEW found \in SUBSET Severities
    PROVE  /\ ErrorCount(check, mode, found) \in Nat
           /\ ErrorCount(check, mode, found) = 0 => NoErrors(Printed(check, mode, found))
<1>1. IsFiniteSet(Severities)
  <2>1. IsFiniteSet({"warning"}) /\ Severities = {"warning"} \cup {"error"}
      BY FS_Singleton DEF Severities
  <2>. QED BY <2>1, FS_AddElement
<1>2. IsFiniteSet(found) /\ IsFiniteSet(found \cap {"error"})
    BY <1>1, FS_Subset
<1>3. /\ Cardinality(found) \in Nat /\ (Cardinality(found) = 0 => found = {})
      /\ Cardinality(found \cap {"error"}) \in Nat
      /\ (Cardinality(found \cap {"error"}) = 0 => found \cap {"error"} = {})
    BY <1>2, FS_CardinalityType, FS_EmptySet
<1>4. CASE Promotes(check, mode)
    BY <1>3, <1>4 DEF ErrorCount, NoErrors, Printed
<1>5. CASE ~Promotes(check, mode)
    BY <1>3, <1>5 DEF ErrorCount, NoErrors, Printed
<1>. QED BY <1>4, <1>5

LEMMA CheckSound ==
    ASSUME LocalInv, NEW b \in Builds, Check(b)
    PROVE  LocalInv'
<1>1. PICK mode \in Modes, found \in SUBSET Severities :
        Become(b, [build[b] EXCEPT
          !.at = @ + 1,
          !.printed = @ \cup Printed(Checks[build[b].at], mode, found),
          !.errors = @ + ErrorCount(Checks[build[b].at], mode, found),
          !.warnings = @ + Cardinality(found)
                         - ErrorCount(Checks[build[b].at], mode, found)])
    BY DEF Check
<1> DEFINE check == Checks[build[b].at]
           n == ErrorCount(check, mode, found)
           p == Printed(check, mode, found)
           s == [build[b] EXCEPT !.at = @ + 1, !.printed = @ \cup p,
                   !.errors = @ + n, !.warnings = @ + Cardinality(found) - n]
<1>2. n \in Nat /\ (n = 0 => NoErrors(p))
    BY CountedErrors
<1>3. Sound(build[b]) /\ build[b].pc = "check" /\ Shape(build[b])
    BY DEF LocalInv, Check
<1> HIDE DEF n, p
<1>4. /\ DOMAIN s = Fields /\ s.pc = "check" /\ s.exit = build[b].exit
      /\ s.handle = build[b].handle
      /\ s.errors = build[b].errors + n /\ s.printed = build[b].printed \cup p
    BY <1>3 DEF Sound, Fields
<1>5. build[b].errors \in Nat
      /\ (build[b].errors = 0 => NoErrors(build[b].printed))
      /\ build[b].exit = "none"
    BY <1>3 DEF Sound
<1> HIDE DEF s
<1>6. s.errors \in Nat /\ (s.errors = 0 => NoErrors(s.printed))
    BY <1>2, <1>4, <1>5 DEF NoErrors
<1>7. Sound(s) /\ Shape(s)
  <2>1. Sound(s)
      BY <1>4, <1>5, <1>6 DEF Sound, Underway
  <2>2. build[b].handle = Nowhere
      BY <1>3 DEF Shape
  <2>. QED BY <1>4, <2>1, <2>2 DEF Shape, PassSteps
<1>8. Become(b, s)
    BY <1>1 DEF s, n, p
<1>. QED BY <1>7, <1>8, BecomeKeeps

LEMMA VerifySound ==
    ASSUME LocalInv, NEW b \in Builds, Verify(b)
    PROVE  LocalInv'
<1>1. CASE Start(b)
  <2>1. PICK r \in world.requests :
          Become(b, [Idle(r) EXCEPT !.pc = IF r.noVerify THEN "pass" ELSE "check"])
      BY <1>1 DEF Start
  <2> DEFINE s == [Idle(r) EXCEPT !.pc = IF r.noVerify THEN "pass" ELSE "check"]
  <2>2. /\ DOMAIN s = Fields /\ s.exit = "none" /\ s.req = r /\ s.errors = 0
        /\ s.printed = {} /\ s.pc = IF r.noVerify THEN "pass" ELSE "check"
      BY IdleFields DEF Fields
  <2> HIDE DEF s
  <2>3. Sound(s) /\ Shape(s)
    <3>1. s.at = 1 /\ s.handle = Nowhere
        BY IdleFields DEF Fields, s
    <3>. QED BY <2>2, <3>1 DEF Sound, NoErrors, Shape, PassSteps
  <2>4. Become(b, s)
      BY <2>1 DEF s
  <2>. QED BY <2>3, <2>4, BecomeKeeps
<1>2. CASE Reject(b)
  <2>1. Become(b, Quits(b, "1"))
      BY <1>2 DEF Reject, Exit
  <2>2. Sound(Quits(b, "1")) /\ Shape(Quits(b, "1"))
      BY QuitsFields DEF Sound, Underway, Shape, PassSteps
  <2>. QED BY <2>1, <2>2, BecomeKeeps
<1>3. CASE Check(b)
    BY <1>3, CheckSound
<1>4. CASE Gate(b)
  <2>1. CASE Passed(b)
    <3> DEFINE s == [Kept(b) EXCEPT !.pc = "pass"]
    <3>1. Become(b, s)
        BY <1>4, <2>1 DEF Gate
    <3>2. /\ DOMAIN s = Fields /\ s.pc = "pass" /\ s.exit = "none"
          /\ s.req = build[b].req /\ s.printed = build[b].printed
        BY KeptFields DEF Fields
    <3>3. Sound(build[b]) /\ build[b].pc = "check"
        BY <1>4 DEF Gate, LocalInv
    <3>4. Waived(build[b].req) \/ NoErrors(build[b].printed)
        BY <2>1, <3>3 DEF Passed, Waived, Sound
    <3> HIDE DEF s
    <3>5. Sound(s)
        BY <3>2, <3>4 DEF Sound
    <3>6. s.at = 1 /\ s.handle = Nowhere
        BY KeptFields DEF Fields, s
    <3>7. Shape(s)
        BY <3>2, <3>6 DEF Shape, PassSteps
    <3>. QED BY <3>1, <3>5, <3>7, BecomeKeeps
  <2>2. CASE ~Passed(b)
    <3>1. Become(b, Quits(b, "1"))
        BY <1>4, <2>2 DEF Gate, Exit
    <3>2. Sound(Quits(b, "1")) /\ Shape(Quits(b, "1"))
        BY QuitsFields DEF Sound, Underway, Shape, PassSteps
    <3>. QED BY <3>1, <3>2, BecomeKeeps
  <2>. QED BY <2>1, <2>2
<1>. QED BY <1>1, <1>2, <1>3, <1>4 DEF Verify

-----------------------------------------------------------------------------
(* What each step of a build under way makes of it: Goes to another step,  *)
(* or Quits.                                                               *)

Alone(b) == \A c \in Builds \ {b} : build'[c] = build[c]

(* Of this step or before it, with the path as it is named now.            *)
NowSlipped(b, op, path) == <<op, path>> \in build'[b].slips

(* What failed stays on record.                                            *)
Grows(b) == build[b].slips \subseteq build'[b].slips

Truncate(path) == fs' = [fs EXCEPT ![path] = Partial]

Goes(b, pc, at, handle) ==
    /\ build' = [c \in Builds |-> build'[c]]
    /\ DOMAIN build'[b] = Fields
    /\ build'[b].pc = pc /\ build'[b].exit = "none"
    /\ build'[b].at = at /\ build'[b].handle = handle
    /\ build'[b].req = build[b].req /\ build'[b].printed = build[b].printed
    /\ Grows(b)

Over(b, code) ==
    /\ build' = [c \in Builds |-> build'[c]]
    /\ DOMAIN build'[b] = Fields
    /\ build'[b].pc = "ended" /\ build'[b].exit = code
    /\ build'[b].handle = Nowhere
    /\ build'[b].req = build[b].req /\ build'[b].printed = build[b].printed
    /\ Grows(b)

LEMMA ExitGives ==
    ASSUME LocalInv, NEW b \in Builds, NEW code, Exit(b, code)
    PROVE  Over(b, code) /\ Alone(b)
BY BecomeGives, QuitsFields DEF Exit, Over, Grows, Alone

LEMMA ProceedGives ==
    ASSUME LocalInv, NEW b \in Builds, Become(b, Proceeds(b))
    PROVE  Goes(b, "pass", build[b].at + 1, Nowhere) /\ Alone(b)
BY BecomeGives, ProceedsFields DEF Goes, Grows, Alone

LEMMA Closed ==
    ASSUME LocalInv, NEW b \in Builds
    PROVE  /\ DOMAIN build[b] = Fields
           /\ build[b].pc # "ended" => build[b].exit = "none"
           /\ build[b].pc \notin {"request", "output", "sidecar"}
                => build[b].handle = Nowhere
BY DEF LocalInv, Sound, Shape

LEMMA EditGives ==
    ASSUME LocalInv, NEW b \in Builds, NEW s, Become(b, s), build[b].pc # "ended",
           DOMAIN s = Fields, s.exit = build[b].exit,
           s.req = build[b].req, s.printed = build[b].printed,
           build[b].slips \subseteq s.slips
    PROVE  Goes(b, s.pc, s.at, s.handle) /\ Alone(b) /\ build'[b] = s
BY BecomeGives, Closed DEF Goes, Grows, Alone

LEMMA SkipGives ==
    ASSUME LocalInv, NEW b \in Builds, Skip(b)
    PROVE  Goes(b, "pass", build[b].at + 1, Nowhere) /\ Alone(b)
BY ProceedGives DEF Skip

LEMMA RefuseGives ==
    ASSUME LocalInv, NEW b \in Builds, Refuse(b)
    PROVE  /\ Over(b, "1") \/ Goes(b, "pass", build[b].at + 1, Nowhere)
           /\ Alone(b)
<1>1. Exit(b, "1") \/ Become(b, Proceeds(b))
    BY DEF Refuse
<1>. QED BY <1>1, ProceedGives, ExitGives

(* Opening and closing a file: b goes on, and the file is as it should be  *)
(* or the failure is on record.                                            *)
LEMMA OpenGives ==
    ASSUME LocalInv, NEW b \in Builds, NEW s, NEW path, Open(b, s, path),
           build[b].pc # "ended", DOMAIN s = Fields, s.exit = build[b].exit,
           s.req = build[b].req, s.printed = build[b].printed,
           s.slips = build[b].slips
    PROVE  /\ Alone(b)
           /\ \A f \in Fields \ {"handle", "slips"} : build'[b][f] = s[f]
           /\ \/ /\ Goes(b, s.pc, s.at, path) /\ Truncate(path)
                 /\ build'[b].slips = build[b].slips
              \/ /\ Goes(b, s.pc, s.at, Nowhere) /\ UNCHANGED fs
                 /\ NowSlipped(b, "open", path)
                 /\ build'[b].slips = build[b].slips \cup {<<"open", path>>}
<1> DEFINE good == [s EXCEPT !.handle = path]
           bad == [s EXCEPT !.handle = Nowhere, !.slips = @ \cup {<<"open", path>>}]
<1>1. /\ DOMAIN good = Fields /\ good.exit = s.exit /\ good.req = s.req
      /\ good.printed = s.printed /\ good.pc = s.pc /\ good.at = s.at
      /\ good.handle = path /\ good.slips = s.slips
      /\ \A f \in Fields \ {"handle", "slips"} : good[f] = s[f]
    BY DEF Fields
<1>2. /\ DOMAIN bad = Fields /\ bad.exit = s.exit /\ bad.req = s.req
      /\ bad.printed = s.printed /\ bad.pc = s.pc /\ bad.at = s.at
      /\ bad.handle = Nowhere /\ bad.slips = s.slips \cup {<<"open", path>>}
      /\ \A f \in Fields \ {"handle", "slips"} : bad[f] = s[f]
    BY DEF Fields
<1>3. \/ Become(b, good) /\ Truncate(path)
      \/ Become(b, bad) /\ UNCHANGED fs
    BY DEF Open, Truncate
<1> HIDE DEF good, bad
<1>4. CASE Become(b, good) /\ Truncate(path)
    BY <1>1, <1>4, EditGives
<1>5. CASE Become(b, bad) /\ UNCHANGED fs
    BY <1>2, <1>5, EditGives DEF NowSlipped
<1>. QED BY <1>3, <1>4, <1>5

LEMMA CloseGives ==
    ASSUME LocalInv, NEW b \in Builds, NEW s, NEW text, Close(b, s, text),
           build[b].pc # "ended", DOMAIN s = Fields, s.exit = build[b].exit,
           s.req = build[b].req, s.printed = build[b].printed,
           s.slips = build[b].slips
    PROVE  LET h == build[b].handle IN
           /\ Goes(b, s.pc, s.at, Nowhere) /\ Alone(b)
           /\ \A f \in Fields \ {"handle", "slips"} : build'[b][f] = s[f]
           /\ \/ /\ Put(b, Onto(h, text))
                 /\ build'[b].slips = build[b].slips
              \/ /\ h # Nowhere /\ Put(b, Onto(h, Partial) \cup {fs[h]})
                 /\ NowSlipped(b, "write", h)
                 /\ build'[b].slips = build[b].slips \cup {<<"write", h>>}
<1> DEFINE h == build[b].handle
           good == [s EXCEPT !.handle = Nowhere]
           bad == [s EXCEPT !.handle = Nowhere, !.slips = @ \cup {<<"write", h>>}]
<1>1. /\ DOMAIN good = Fields /\ good.exit = s.exit /\ good.req = s.req
      /\ good.printed = s.printed /\ good.pc = s.pc /\ good.at = s.at
      /\ good.handle = Nowhere /\ good.slips = s.slips
      /\ \A f \in Fields \ {"handle", "slips"} : good[f] = s[f]
    BY DEF Fields
<1>2. /\ DOMAIN bad = Fields /\ bad.exit = s.exit /\ bad.req = s.req
      /\ bad.printed = s.printed /\ bad.pc = s.pc /\ bad.at = s.at
      /\ bad.handle = Nowhere /\ bad.slips = s.slips \cup {<<"write", h>>}
      /\ \A f \in Fields \ {"handle", "slips"} : bad[f] = s[f]
    BY DEF Fields
<1>3. \/ Become(b, good) /\ Put(b, Onto(h, text))
      \/ Become(b, bad) /\ h # Nowhere /\ Put(b, Onto(h, Partial) \cup {fs[h]})
    BY DEF Close
<1> HIDE DEF good, bad
<1>4. CASE Become(b, good) /\ Put(b, Onto(h, text))
    BY <1>1, <1>4, EditGives
<1>5. CASE Become(b, bad) /\ h # Nowhere /\ Put(b, Onto(h, Partial) \cup {fs[h]})
    BY <1>2, <1>5, EditGives DEF NowSlipped
<1>. QED BY <1>3, <1>4, <1>5

LEMMA OpenRequestGives ==
    ASSUME LocalInv, NEW b \in Builds, OpenRequest(b)
    PROVE  /\ Alone(b)
           /\ \/ /\ Goes(b, "request", build[b].at, Temp(Pass(b)))
                 /\ Truncate(Temp(Pass(b)))
              \/ /\ Goes(b, "request", build[b].at, Nowhere) /\ UNCHANGED fs
                 /\ NowSlipped(b, "open", Temp(Pass(b)))
<1>1. PICK mode : Open(b, [build[b] EXCEPT !.pc = "request", !.mode = mode], Temp(Pass(b)))
    BY DEF OpenRequest
<1>2. build[b].pc # "ended"
    BY DEF OpenRequest, InPasses
<1>3. DOMAIN build[b] = Fields
    BY Closed
<1> DEFINE s == [build[b] EXCEPT !.pc = "request", !.mode = mode]
<1>4. /\ DOMAIN s = Fields /\ s.exit = build[b].exit /\ s.req = build[b].req
      /\ s.printed = build[b].printed /\ s.at = build[b].at
      /\ s.pc = "request" /\ s.slips = build[b].slips
    BY <1>3 DEF Fields
<1>5. Open(b, s, Temp(Pass(b)))
    BY <1>1
<1> HIDE DEF s
<1>. QED BY <1>2, <1>4, <1>5, OpenGives

LEMMA WriteRequestGives ==
    ASSUME LocalInv, NEW b \in Builds, WriteRequest(b)
    PROVE  LET h == build[b].handle IN
           /\ Goes(b, "tool", build[b].at, Nowhere) /\ Alone(b)
           /\ \/ Put(b, Onto(h, RequestOf(b, Pass(b))))
              \/ h # Nowhere /\ Put(b, Onto(h, Partial) \cup {fs[h]})
<1> DEFINE s == [build[b] EXCEPT !.pc = "tool"]
<1>1. Close(b, s, RequestOf(b, Pass(b))) /\ build[b].pc # "ended"
    BY DEF WriteRequest
<1>3. DOMAIN build[b] = Fields
    BY Closed
<1>4. /\ DOMAIN s = Fields /\ s.exit = build[b].exit /\ s.req = build[b].req
      /\ s.printed = build[b].printed /\ s.at = build[b].at
      /\ s.pc = "tool" /\ s.slips = build[b].slips
    BY <1>3 DEF Fields
<1> HIDE DEF s
<1>. QED BY <1>1, <1>4, CloseGives

LEMMA ToolReadsGives ==
    ASSUME LocalInv, NEW b \in Builds, ToolReads(b)
    PROVE  /\ Goes(b, "answer", build[b].at, Nowhere) /\ Alone(b)
           /\ build'[b].seen = fs[Temp(Pass(b))]
<1>1. /\ Become(b, [build[b] EXCEPT !.pc = "answer", !.seen = fs[Temp(Pass(b))]])
      /\ build[b].pc = "tool"
    BY DEF ToolReads
<1> DEFINE s == [build[b] EXCEPT !.pc = "answer", !.seen = fs[Temp(Pass(b))]]
<1>2. build[b].pc # "ended" /\ Become(b, s)
    BY <1>1
<1>3. DOMAIN build[b] = Fields
    BY Closed
<1>4. /\ DOMAIN s = Fields /\ s.exit = build[b].exit /\ s.req = build[b].req
      /\ s.printed = build[b].printed /\ s.at = build[b].at
      /\ s.pc = "answer" /\ s.handle = build[b].handle /\ s.seen = fs[Temp(Pass(b))]
      /\ s.slips = build[b].slips
    BY <1>3 DEF Fields
<1> HIDE DEF s
<1>. QED BY <1>1, <1>2, <1>4, EditGives, Closed

LEMMA ToolFailsGives ==
    ASSUME LocalInv, NEW b \in Builds, ToolFails(b)
    PROVE  Goes(b, "remove", build[b].at, Nowhere) /\ Alone(b)
<1>1. /\ Become(b, [build[b] EXCEPT !.pc = "remove", !.seen = Absent])
      /\ build[b].pc = "answer"
    BY DEF ToolFails
<1> DEFINE s == [build[b] EXCEPT !.pc = "remove", !.seen = Absent]
<1>2. build[b].pc # "ended" /\ Become(b, s)
    BY <1>1
<1>3. DOMAIN build[b] = Fields
    BY Closed
<1>4. /\ DOMAIN s = Fields /\ s.exit = build[b].exit /\ s.req = build[b].req
      /\ s.printed = build[b].printed /\ s.at = build[b].at
      /\ s.pc = "remove" /\ s.handle = build[b].handle /\ s.slips = build[b].slips
    BY <1>3 DEF Fields
<1> HIDE DEF s
<1>. QED BY <1>2, <1>4, EditGives, <1>1, Closed

LEMMA ToolSucceedsGives ==
    ASSUME LocalInv, NEW b \in Builds, ToolSucceeds(b)
    PROVE  /\ Goes(b, "outputs", build[b].at, Nowhere) /\ Alone(b)
           /\ build'[b].seen = build[b].seen
<1>1. PICK rows, todo : Become(b, [build[b] EXCEPT !.pc = "outputs", !.ok = TRUE,
                                     !.rows = rows, !.todo = todo])
    BY DEF ToolSucceeds
<1>2. build[b].pc = "answer"
    BY DEF ToolSucceeds
<1> DEFINE s == [build[b] EXCEPT !.pc = "outputs", !.ok = TRUE, !.rows = rows, !.todo = todo]
<1>3. build[b].pc # "ended" /\ Become(b, s)
    BY <1>1, <1>2
<1>4. DOMAIN build[b] = Fields
    BY Closed
<1>5. /\ DOMAIN s = Fields /\ s.exit = build[b].exit /\ s.req = build[b].req
      /\ s.printed = build[b].printed /\ s.at = build[b].at
      /\ s.pc = "outputs" /\ s.handle = build[b].handle /\ s.seen = build[b].seen
      /\ s.slips = build[b].slips
    BY <1>4 DEF Fields
<1> HIDE DEF s
<1>. QED BY <1>3, <1>5, EditGives, <1>2, Closed

LEMMA OpenOutputGives ==
    ASSUME LocalInv, NEW b \in Builds, OpenOutput(b)
    PROVE  /\ Alone(b) /\ build'[b].seen = build[b].seen
           /\ \E f \in build[b].todo :
                LET path == Out(build[b].req.project, world.dest[f]) IN
                \/ Goes(b, "output", build[b].at, path) /\ Truncate(path)
                \/ /\ Goes(b, "output", build[b].at, Nowhere) /\ UNCHANGED fs
                   /\ NowSlipped(b, "open", path)
<1>1. PICK f \in build[b].todo :
        Open(b, [build[b] EXCEPT
               !.pc = "output", !.todo = @ \ {f}, !.written = @ \cup {f}, !.file = f],
             Out(build[b].req.project, world.dest[f]))
    BY DEF OpenOutput
<1> DEFINE path == Out(build[b].req.project, world.dest[f])
           s == [build[b] EXCEPT !.pc = "output", !.todo = @ \ {f},
                                 !.written = @ \cup {f}, !.file = f]
<1>2. build[b].pc # "ended"
    BY DEF OpenOutput
<1>3. DOMAIN build[b] = Fields
    BY Closed
<1>4. /\ DOMAIN s = Fields /\ s.exit = build[b].exit /\ s.req = build[b].req
      /\ s.printed = build[b].printed /\ s.at = build[b].at
      /\ s.pc = "output" /\ s.seen = build[b].seen /\ s.slips = build[b].slips
    BY <1>3 DEF Fields
<1>5. Open(b, s, path)
    BY <1>1
<1> HIDE DEF s, path
<1>6. "seen" \in Fields \ {"handle", "slips"}
    BY DEF Fields
<1>7. Alone(b) /\ build'[b].seen = build[b].seen
    BY <1>2, <1>4, <1>5, <1>6, OpenGives
<1>8. \/ Goes(b, "output", build[b].at, path) /\ Truncate(path)
      \/ /\ Goes(b, "output", build[b].at, Nowhere) /\ UNCHANGED fs
         /\ NowSlipped(b, "open", path)
    BY <1>2, <1>4, <1>5, OpenGives
<1>. QED BY <1>7, <1>8 DEF path

LEMMA WriteOutputGives ==
    ASSUME LocalInv, NEW b \in Builds, WriteOutput(b)
    PROVE  LET h == build[b].handle
               text == Rewrite(b, build[b].seen.build, Pass(b), build[b].file) IN
           /\ Goes(b, "outputs", build[b].at, Nowhere) /\ Alone(b)
           /\ build'[b].seen = build[b].seen
           /\ \/ Put(b, Onto(h, text))
              \/ /\ h # Nowhere /\ Put(b, Onto(h, Partial) \cup {fs[h]})
                 /\ NowSlipped(b, "write", h)
<1> DEFINE s == [build[b] EXCEPT !.pc = "outputs", !.file = NoFile]
           text == Rewrite(b, build[b].seen.build, Pass(b), build[b].file)
<1>1. Close(b, s, text) /\ build[b].pc # "ended"
    BY DEF WriteOutput
<1>3. DOMAIN build[b] = Fields
    BY Closed
<1>4. /\ DOMAIN s = Fields /\ s.exit = build[b].exit /\ s.req = build[b].req
      /\ s.printed = build[b].printed /\ s.at = build[b].at
      /\ s.pc = "outputs" /\ s.seen = build[b].seen /\ s.slips = build[b].slips
    BY <1>3 DEF Fields
<1>5. "seen" \in Fields \ {"handle", "slips"}
    BY DEF Fields
<1> HIDE DEF s, text
<1>. QED BY <1>1, <1>4, <1>5, CloseGives DEF text

LEMMA OpenSidecarGives ==
    ASSUME LocalInv, NEW b \in Builds, OpenSidecar(b)
    PROVE  LET path == SidecarTmp(build[b].req.project, Reported(b)) IN
           /\ path[2] = "passes" /\ Alone(b)
           /\ \/ Goes(b, "sidecar", build[b].at, path) /\ Truncate(path)
              \/ /\ Goes(b, "sidecar", build[b].at, Nowhere) /\ UNCHANGED fs
                 /\ NowSlipped(b, "open", path)
<1> DEFINE path == SidecarTmp(build[b].req.project, Reported(b))
           s == [build[b] EXCEPT !.pc = "sidecar"]
<1>1. Open(b, s, path)
    BY DEF OpenSidecar
<1>2. build[b].pc # "ended"
    BY DEF OpenSidecar, SidecarDue, InLink
<1>3. path[2] = "passes"
    BY DEF SidecarTmp
<1>4. DOMAIN build[b] = Fields
    BY Closed
<1>5. /\ DOMAIN s = Fields /\ s.exit = build[b].exit /\ s.req = build[b].req
      /\ s.printed = build[b].printed /\ s.at = build[b].at
      /\ s.pc = "sidecar" /\ s.slips = build[b].slips
    BY <1>4 DEF Fields
<1> HIDE DEF s, path
<1>6. /\ Alone(b)
      /\ \/ Goes(b, "sidecar", build[b].at, path) /\ Truncate(path)
         \/ /\ Goes(b, "sidecar", build[b].at, Nowhere) /\ UNCHANGED fs
            /\ NowSlipped(b, "open", path)
    BY <1>1, <1>2, <1>5, OpenGives
<1>. QED BY <1>3, <1>6 DEF path

LEMMA AfterSidecarFields ==
    ASSUME LocalInv, NEW b \in Builds, build[b].pc # "ended"
    PROVE  LET s == AfterSidecar(b)
           IN  /\ DOMAIN s = Fields /\ s.handle = Nowhere
               /\ s.req = build[b].req /\ s.printed = build[b].printed
               /\ s.slips = build[b].slips
               /\ IF build[b].at <= Len(Passes)
                  THEN s.pc = "remove" /\ s.exit = "none" /\ s.at = build[b].at
                  ELSE s.pc = "ended" /\ s.exit = "0"
BY QuitsFields, Closed DEF AfterSidecar, Fields

AfterGives(b) ==
    IF build[b].at <= Len(Passes) THEN Goes(b, "remove", build[b].at, Nowhere)
                                  ELSE Over(b, "0")

LEMMA NoSidecarGives ==
    ASSUME LocalInv, NEW b \in Builds, NoSidecar(b)
    PROVE  AfterGives(b) /\ Alone(b)
<1>1. build[b].pc # "ended" /\ Become(b, AfterSidecar(b))
    BY DEF NoSidecar, SidecarDue, InLink
<1>. QED BY <1>1, BecomeGives, AfterSidecarFields DEF Goes, Over, Grows, Alone, AfterGives

LEMMA WriteSidecarGives ==
    ASSUME LocalInv, NEW b \in Builds, WriteSidecar(b)
    PROVE  LET h == build[b].handle IN
           /\ Goes(b, "rename", build[b].at, Nowhere) /\ Alone(b)
           /\ \E count \in {0, 1, Cardinality(build[b].written)} :
                LET text == Record(b, Reported(b), count, build[b].rows) IN
                /\ Reported(b) # Link => count = Cardinality(build[b].written)
                /\ \/ Put(b, Onto(h, text))
                   \/ /\ h # Nowhere /\ Put(b, Onto(h, Partial) \cup {fs[h]})
                      /\ NowSlipped(b, "write", h)
<1> DEFINE s == [build[b] EXCEPT !.pc = "rename"]
<1>1. PICK linked \in 0 .. 1 : Close(b, s, Record(b, Reported(b),
              IF Reported(b) = Link THEN linked ELSE Cardinality(build[b].written),
              build[b].rows))
    BY DEF WriteSidecar
<1> DEFINE count == IF Reported(b) = Link THEN linked ELSE Cardinality(build[b].written)
           text == Record(b, Reported(b), count, build[b].rows)
<1>2. Close(b, s, text) /\ build[b].pc # "ended"
    BY <1>1 DEF WriteSidecar
<1>3. DOMAIN build[b] = Fields
    BY Closed
<1>4. /\ DOMAIN s = Fields /\ s.exit = build[b].exit /\ s.req = build[b].req
      /\ s.printed = build[b].printed /\ s.at = build[b].at
      /\ s.pc = "rename" /\ s.slips = build[b].slips
    BY <1>3 DEF Fields
<1>5. /\ count \in {0, 1, Cardinality(build[b].written)}
      /\ Reported(b) # Link => count = Cardinality(build[b].written)
    OBVIOUS
<1> HIDE DEF s, text
<1>6. /\ Goes(b, "rename", build[b].at, Nowhere) /\ Alone(b)
      /\ \/ Put(b, Onto(build[b].handle, text))
         \/ /\ build[b].handle # Nowhere
            /\ Put(b, Onto(build[b].handle, Partial) \cup {fs[build[b].handle]})
            /\ NowSlipped(b, "write", build[b].handle)
    BY <1>2, <1>4, CloseGives
<1> HIDE DEF count
<1>. QED BY <1>5, <1>6 DEF text

(* The paths that move, and where to, when a sidecar is put in its place   *)
(* and when a request is removed.                                          *)
RenameMoves(b) ==
    LET path == Sidecar(build[b].req.project, Reported(b))
        tmp == SidecarTmp(build[b].req.project, Reported(b))
    IN  [q \in {tmp, path} |-> IF q = tmp THEN path ELSE Nowhere]
RemoveMoves(b) == [q \in {Temp(Pass(b))} |-> Nowhere]

OthersMove(b, moved) ==
    \A c \in Builds \ {b} :
        build'[c] = IF build[c].handle \in DOMAIN moved
                    THEN [build[c] EXCEPT !.handle = moved[build[c].handle]]
                    ELSE build[c]

LEMMA RenameSidecarGives ==
    ASSUME LocalInv, NEW b \in Builds, RenameSidecar(b)
    PROVE  /\ AfterGives(b)
           /\ Alone(b) \/ OthersMove(b, RenameMoves(b))
<1>1. build[b].pc = "rename"
    BY DEF RenameSidecar
<1>2. \/ BecomeAndRename(b, AfterSidecar(b), RenameMoves(b))
      \/ Become(b, AfterSidecar(b))
    BY DEF RenameSidecar, RenameMoves
<1>3. CASE Become(b, AfterSidecar(b))
    BY <1>1, <1>3, BecomeGives, AfterSidecarFields DEF Goes, Over, Grows, Alone, AfterGives
<1>4. CASE BecomeAndRename(b, AfterSidecar(b), RenameMoves(b))
    BY <1>1, <1>4, RenameGives, AfterSidecarFields DEF Goes, Over, Grows, OthersMove, AfterGives
<1>. QED BY <1>2, <1>3, <1>4

LEMMA RemoveRequestGives ==
    ASSUME LocalInv, NEW b \in Builds, RemoveRequest(b)
    PROVE  /\ Over(b, "1") \/ Goes(b, "pass", build[b].at + 1, Nowhere)
           /\ \/ /\ OthersMove(b, RemoveMoves(b))
                 /\ fs' = [fs EXCEPT ![Temp(Pass(b))] = Absent]
              \/ Alone(b) /\ UNCHANGED fs /\ NowSlipped(b, "remove", Temp(Pass(b)))
<1>0. DOMAIN build[b] = Fields
    BY Closed
<1>1. PICK s : /\ Unlink(b, s)
               /\ \/ s = Quits(b, "1")
                  \/ s = Proceeds(b)
    BY DEF RemoveRequest
<1> DEFINE slip == <<"remove", Temp(Pass(b))>>
           bad == [s EXCEPT !.slips = @ \cup {slip}]
<1>2. \/ BecomeAndRename(b, s, RemoveMoves(b)) /\ fs' = [fs EXCEPT ![Temp(Pass(b))] = Absent]
      \/ Become(b, bad) /\ UNCHANGED fs
    BY <1>1 DEF Unlink, RemoveMoves
<1>3. /\ DOMAIN s = Fields /\ s.handle = Nowhere /\ s.req = build[b].req
      /\ s.printed = build[b].printed /\ s.slips = build[b].slips
      /\ \/ s.pc = "ended" /\ s.exit = "1"
         \/ s.pc = "pass" /\ s.exit = "none" /\ s.at = build[b].at + 1
    BY <1>1, QuitsFields, ProceedsFields
<1>4. CASE BecomeAndRename(b, s, RemoveMoves(b)) /\ fs' = [fs EXCEPT ![Temp(Pass(b))] = Absent]
  <2>1. build' = [c \in Builds |-> build'[c]] /\ build'[b] = s /\ OthersMove(b, RemoveMoves(b))
      BY <1>4, RenameGives DEF OthersMove
  <2>. QED BY <1>3, <1>4, <2>1 DEF Over, Goes, Grows
<1>5. CASE Become(b, bad) /\ UNCHANGED fs
  <2>1. build' = [c \in Builds |-> build'[c]] /\ build'[b] = bad /\ Alone(b)
      BY <1>5, BecomeGives DEF Alone
  <2>2. /\ DOMAIN bad = Fields /\ bad.handle = s.handle /\ bad.req = s.req
        /\ bad.printed = s.printed /\ bad.slips = s.slips \cup {slip}
        /\ bad.pc = s.pc /\ bad.exit = s.exit /\ bad.at = s.at
      BY <1>3 DEF Fields
  <2> HIDE DEF bad
  <2>3. NowSlipped(b, "remove", Temp(Pass(b)))
      BY <2>1, <2>2 DEF NowSlipped
  <2>4. Over(b, "1") \/ Goes(b, "pass", build[b].at + 1, Nowhere)
      BY <1>3, <2>1, <2>2 DEF Over, Goes, Grows
  <2>. QED BY <1>5, <2>1, <2>3, <2>4
<1>. QED BY <1>2, <1>4, <1>5

-----------------------------------------------------------------------------
(* Every step keeps LocalInv.                                              *)

LEMMA SoundAfter ==
    ASSUME LocalInv, NEW b \in Builds, NEW pc, NEW at, NEW h, NEW code,
           Underway(build[b]),
           \/ Goes(b, pc, at, h) /\ pc \notin {"idle", "check", "ended"}
           \/ Over(b, code)
    PROVE  Sound(build'[b])
<1>1. Sound(build[b])
    BY DEF LocalInv
<1>2. CASE Goes(b, pc, at, h) /\ pc \notin {"idle", "check", "ended"}
  <2>1. Waived(build[b].req) \/ NoErrors(build[b].printed)
      BY <1>1 DEF Sound
  <2>. QED BY <1>2, <2>1 DEF Goes, Sound
<1>3. CASE Over(b, code)
  <2>1. Waived(build[b].req) \/ NoErrors(build[b].printed)
      BY <1>1 DEF Sound
  <2>. QED BY <1>3, <2>1 DEF Over, Sound, Underway
<1>. QED BY <1>2, <1>3

LEMMA AloneKeeps ==
    ASSUME LocalInv, NEW b \in Builds, Alone(b), build' = [c \in Builds |-> build'[c]],
           Sound(build'[b]), Shape(build'[b])
    PROVE  LocalInv'
<1>1. \A c \in Builds : Sound(build'[c]) /\ Shape(build'[c])
    BY DEF Alone, LocalInv
<1>. QED BY <1>1 DEF LocalInv

LEMMA OtherHandle ==
    ASSUME NEW s, NEW t, Shape(s), t.pc = s.pc, t.at = s.at, t.slips = s.slips,
           t.handle = Nowhere \/ (s.pc = "sidecar" /\ t.handle[2] = "passes")
    PROVE  Shape(t)
<1>1. /\ t.pc \in {"pass", "sidecar", "rename"} => t.at \in 1 .. 4
      /\ t.pc \in PassSteps => t.at \in 1 .. 3
    BY DEF Shape
<1>2. t.handle = Nowhere \/ (t.pc = "sidecar" /\ t.handle[2] = "passes")
    OBVIOUS
<1>3. t.pc = "idle" => t.slips = {}
    BY DEF Shape
<1>. QED BY <1>1, <1>2, <1>3 DEF Shape

(* What is open elsewhere has the shape it had, under its new name.        *)
LEMMA MoveKeeps ==
    ASSUME LocalInv, NEW b \in Builds, NEW moved, OthersMove(b, moved),
           \/ moved = RenameMoves(b)
           \/ moved = RemoveMoves(b),
           build' = [c \in Builds |-> build'[c]],
           Sound(build'[b]), Shape(build'[b])
    PROVE  LocalInv'
<1>1. ASSUME NEW c \in Builds \ {b}
      PROVE  Sound(build'[c]) /\ Shape(build'[c])
  <2> DEFINE h == build[c].handle
  <2>1. Sound(build[c]) /\ Shape(build[c]) /\ DOMAIN build[c] = Fields
      BY Closed DEF LocalInv
  <2>2. CASE h \notin DOMAIN moved
      BY <2>1, <2>2 DEF OthersMove
  <2>3. CASE h \in DOMAIN moved
    <3>1. build'[c] = [build[c] EXCEPT !.handle = moved[h]]
        BY <2>3 DEF OthersMove
    <3>2. Sound(build'[c])
        BY <2>1, <3>1 DEF Sound, Fields, Underway
    <3>3. moved[h] = Nowhere \/ (h[2] = "passes" /\ moved[h][2] = "passes" /\ h # Nowhere)
      <4>1. CASE moved = RemoveMoves(b)
          BY <2>3, <4>1 DEF RemoveMoves
      <4>2. CASE moved = RenameMoves(b)
          BY <2>3, <4>2 DEF RenameMoves, Sidecar, SidecarTmp, Nowhere
      <4>. QED BY <4>1, <4>2
    <3>4. /\ build'[c].pc = build[c].pc /\ build'[c].at = build[c].at
          /\ build'[c].handle = moved[h] /\ build'[c].slips = build[c].slips
        BY <2>1, <3>1 DEF Fields
    <3>5. CASE moved[h] = Nowhere
        BY <2>1, <3>2, <3>4, <3>5, OtherHandle
    <3>6. CASE h[2] = "passes" /\ moved[h][2] = "passes" /\ h # Nowhere
      <4>1. ASSUME build[c].pc = "request", h = Temp(Passes[build[c].at]) PROVE FALSE
        <5>1. build[c].at \in 1 .. 3
            BY <2>1, <4>1 DEF Shape, PassSteps
        <5>. QED BY <3>6, <4>1, <5>1 DEF Temp, Passes
      <4>2. build[c].pc = "sidecar"
          BY <2>1, <3>6, <4>1 DEF Shape
      <4>. QED BY <2>1, <3>2, <3>4, <3>6, <4>2, OtherHandle
    <3>. QED BY <3>3, <3>5, <3>6
  <2>. QED BY <2>2, <2>3
<1>. QED BY <1>1 DEF LocalInv

LEMMA GoesKeeps ==
    ASSUME LocalInv, NEW b \in Builds, NEW pc, NEW at, NEW h, Underway(build[b]),
           Goes(b, pc, at, h), Alone(b),
           pc \notin {"idle", "check", "ended"},
           pc \in {"pass", "sidecar", "rename"} => at \in 1 .. 4,
           pc \in PassSteps => at \in 1 .. 3,
           \/ h = Nowhere
           \/ pc = "request" /\ h = Temp(Passes[at])
           \/ pc = "output" /\ h[1] = build[b].req.project /\ h[2] = "out"
           \/ pc = "sidecar" /\ h[2] = "passes"
    PROVE  LocalInv'
<1>1. Sound(build'[b])
    BY SoundAfter
<1>2. Shape(build'[b]) /\ build' = [c \in Builds |-> build'[c]]
    BY DEF Shape, Goes
<1>. QED BY <1>1, <1>2, AloneKeeps

LEMMA OverKeeps ==
    ASSUME LocalInv, NEW b \in Builds, NEW code, Underway(build[b]) \/ code # "0",
           Over(b, code), Alone(b)
    PROVE  LocalInv'
<1>1. Sound(build'[b])
  <2>1. CASE Underway(build[b])
      BY <2>1, SoundAfter
  <2>2. CASE code # "0"
      BY <2>2 DEF Over, Sound, Underway
  <2>. QED BY <2>1, <2>2
<1>2. Shape(build'[b]) /\ build' = [c \in Builds |-> build'[c]]
    BY DEF Shape, Over, PassSteps
<1>. QED BY <1>1, <1>2, AloneKeeps

LEMMA ShapeAt ==
    ASSUME LocalInv, NEW b \in Builds
    PROVE  /\ build[b].pc \in {"pass", "sidecar", "rename"} => build[b].at \in 1 .. 4
           /\ build[b].pc \in PassSteps => build[b].at \in 1 .. 3
BY DEF LocalInv, Shape

LEMMA TransformLocal ==
    ASSUME LocalInv, NEW b \in Builds, NEW i \in 1 .. 3, Transform(b, i), ~Report(b)
    PROVE  LocalInv'
<1>. USE DEF PassSteps
<1>1. CASE Skip(b)
  <2>1. build[b].pc = "pass" /\ build[b].at = i
      BY <1>1 DEF Skip, InPasses, Transform
  <2>. QED BY <1>1, <2>1, SkipGives, GoesKeeps DEF Underway
<1>2. CASE Refuse(b)
  <2>1. build[b].pc = "pass" /\ build[b].at = i
      BY <1>2 DEF Refuse, InPasses, Transform
  <2>. QED BY <1>2, <2>1, RefuseGives, GoesKeeps, OverKeeps DEF Underway
<1>3. CASE OpenRequest(b)
  <2>1. build[b].pc = "pass" /\ build[b].at = i
      BY <1>3 DEF OpenRequest, InPasses, Transform
  <2>2. PICK h : /\ Goes(b, "request", build[b].at, h) /\ Alone(b)
                 /\ h = Nowhere \/ h = Temp(Passes[build[b].at])
      BY <1>3, OpenRequestGives DEF Pass
  <2>. QED BY <2>1, <2>2, GoesKeeps DEF Underway
<1>4. CASE WriteRequest(b)
  <2>1. build[b].pc = "request"
      BY <1>4 DEF WriteRequest
  <2>. QED BY <1>4, <2>1, WriteRequestGives, GoesKeeps, ShapeAt DEF Underway
<1>5. CASE Abort(b)
    BY <1>5, ExitGives, OverKeeps DEF Abort
<1>6. CASE ToolReads(b)
  <2>1. build[b].pc = "tool"
      BY <1>6 DEF ToolReads
  <2>. QED BY <1>6, <2>1, ToolReadsGives, GoesKeeps, ShapeAt DEF Underway
<1>7. CASE ToolFails(b)
  <2>1. build[b].pc = "answer"
      BY <1>7 DEF ToolFails
  <2>. QED BY <1>7, <2>1, ToolFailsGives, GoesKeeps, ShapeAt DEF Underway
<1>8. CASE ToolSucceeds(b)
  <2>1. build[b].pc = "answer"
      BY <1>8 DEF ToolSucceeds
  <2>. QED BY <1>8, <2>1, ToolSucceedsGives, GoesKeeps, ShapeAt DEF Underway
<1>9. CASE OpenOutput(b)
  <2>1. build[b].pc = "outputs"
      BY <1>9 DEF OpenOutput
  <2>2. PICK h : /\ Goes(b, "output", build[b].at, h)
                 /\ h = Nowhere \/ (h[1] = build[b].req.project /\ h[2] = "out")
    <3>1. PICK f \in build[b].todo :
            LET path == Out(build[b].req.project, world.dest[f]) IN
            Goes(b, "output", build[b].at, path) \/ Goes(b, "output", build[b].at, Nowhere)
        BY <1>9, OpenOutputGives
    <3> DEFINE path == Out(build[b].req.project, world.dest[f])
    <3>2. path[1] = build[b].req.project /\ path[2] = "out"
        BY DEF Out
    <3>. QED BY <3>1, <3>2
  <2>3. Alone(b)
      BY <1>9, OpenOutputGives
  <2>. QED BY <2>1, <2>2, <2>3, GoesKeeps, ShapeAt DEF Underway
<1>10. CASE WriteOutput(b)
  <2>1. build[b].pc = "output"
      BY <1>10 DEF WriteOutput
  <2>. QED BY <1>10, <2>1, WriteOutputGives, GoesKeeps, ShapeAt DEF Underway
<1>11. CASE RemoveRequest(b)
  <2>1. build[b].pc = "remove"
      BY <1>11 DEF RemoveRequest
  <2>2. /\ Over(b, "1") \/ Goes(b, "pass", build[b].at + 1, Nowhere)
        /\ OthersMove(b, RemoveMoves(b)) \/ Alone(b)
      BY <1>11, RemoveRequestGives
  <2>3. Sound(build'[b])
      BY <2>1, <2>2, SoundAfter DEF Underway
  <2>4. Shape(build'[b]) /\ build' = [c \in Builds |-> build'[c]]
      BY <2>1, <2>2, ShapeAt DEF Shape, Over, Goes
  <2>. QED BY <2>2, <2>3, <2>4, MoveKeeps, AloneKeeps
<1>. QED BY <1>1, <1>2, <1>3, <1>4, <1>5, <1>6, <1>7, <1>8, <1>9, <1>10, <1>11
         DEF Transform

LEMMA ReportLocal ==
    ASSUME LocalInv, NEW b \in Builds, Report(b)
    PROVE  LocalInv'
<1>. USE DEF PassSteps
<1>1. Len(Passes) = 3
    BY DEF Passes
<1>2. CASE OpenSidecar(b)
  <2>1. build[b].pc \in {"outputs", "pass"}
      BY <1>2 DEF OpenSidecar, SidecarDue, InLink
  <2>2. PICK h : /\ Goes(b, "sidecar", build[b].at, h) /\ Alone(b)
                 /\ h = Nowhere \/ h[2] = "passes"
      BY <1>2, OpenSidecarGives
  <2>. QED BY <2>1, <2>2, GoesKeeps, ShapeAt DEF Underway
<1>3. CASE WriteSidecar(b)
  <2>1. build[b].pc = "sidecar"
      BY <1>3 DEF WriteSidecar
  <2>. QED BY <1>3, <2>1, WriteSidecarGives, GoesKeeps, ShapeAt DEF Underway
<1>4. CASE NoSidecar(b)
  <2>1. build[b].pc \in {"outputs", "pass"}
      BY <1>4 DEF NoSidecar, SidecarDue, InLink
  <2>2. AfterGives(b) /\ Alone(b)
      BY <1>4, NoSidecarGives
  <2>3. CASE build[b].at <= 3
      BY <1>1, <2>1, <2>2, <2>3, GoesKeeps, ShapeAt DEF Underway, AfterGives
  <2>4. CASE ~(build[b].at <= 3)
      BY <1>1, <2>1, <2>2, <2>4, OverKeeps DEF Underway, AfterGives
  <2>. QED BY <2>3, <2>4
<1>5. CASE RenameSidecar(b)
  <2>1. build[b].pc = "rename" /\ build[b].at \in 1 .. 4
      BY <1>5, ShapeAt DEF RenameSidecar
  <2>2. AfterGives(b) /\ (Alone(b) \/ OthersMove(b, RenameMoves(b)))
      BY <1>5, RenameSidecarGives
  <2>3. Sound(build'[b])
      BY <2>1, <2>2, SoundAfter DEF Underway, AfterGives
  <2>4. Shape(build'[b]) /\ build' = [c \in Builds |-> build'[c]]
      BY <1>1, <2>1, <2>2 DEF Shape, Over, Goes, AfterGives
  <2>. QED BY <2>2, <2>3, <2>4, MoveKeeps, AloneKeeps
<1>. QED BY <1>2, <1>3, <1>4, <1>5 DEF Report

LEMMA NextLocal ==
    ASSUME LocalInv, [Next]_vars
    PROVE  LocalInv'
<1>1. CASE UNCHANGED vars
    BY <1>1 DEF vars, LocalInv
<1>2. ASSUME NEW b \in Builds, Verify(b)
      PROVE  LocalInv'
    BY <1>2, VerifySound
<1>3. ASSUME NEW b \in Builds, Kill(b)
      PROVE  LocalInv'
    BY <1>3, ExitGives, OverKeeps DEF Kill
<1>4. ASSUME NEW b \in Builds, NEW i \in 1 .. 3, Transform(b, i)
      PROVE  LocalInv'
    BY <1>4, TransformLocal, ReportLocal
<1>5. ASSUME NEW b \in Builds, SourcemapLink(b)
      PROVE  LocalInv'
  <2>1. CASE Report(b)
      BY <2>1, ReportLocal
  <2>2. CASE Finish(b)
      BY <2>2, ExitGives, OverKeeps DEF Finish, InLink, Underway
  <2>. QED BY <1>5, <2>1, <2>2 DEF SourcemapLink
<1>. QED BY <1>1, <1>2, <1>3, <1>4, <1>5
         DEF Next, VisibilityPass, ContainmentGuardPass, StageAssertPass

LEMMA VerifyGrows ==
    ASSUME LocalInv, NEW b \in Builds, Verify(b)
    PROVE  Grows(b)
<1>1. DOMAIN build[b] = Fields /\ Shape(build[b])
    BY Closed DEF LocalInv
<1>2. CASE Start(b)
    BY <1>1, <1>2 DEF Start, MayStart, Shape, Grows
<1>3. CASE Reject(b)
    BY <1>3, ExitGives DEF Reject, Over
<1>4. CASE Check(b)
  <2>1. PICK at, printed, errors, warnings : Become(b, [build[b] EXCEPT
          !.at = at, !.printed = printed, !.errors = errors, !.warnings = warnings])
      BY <1>4 DEF Check
  <2>2. build'[b] = [build[b] EXCEPT !.at = at, !.printed = printed,
                       !.errors = errors, !.warnings = warnings]
      BY <2>1, BecomeGives
  <2>3. build'[b].slips = build[b].slips
      BY <1>1, <2>2 DEF Fields
  <2>. QED BY <2>3 DEF Grows
<1>5. CASE Gate(b)
  <2>1. Become(b, [Kept(b) EXCEPT !.pc = "pass"]) \/ Exit(b, "1")
      BY <1>5 DEF Gate
  <2>2. CASE Become(b, [Kept(b) EXCEPT !.pc = "pass"])
      BY <2>2, BecomeGives, KeptFields DEF Fields, Grows
  <2>. QED BY <2>1, <2>2, ExitGives DEF Over
<1>. QED BY <1>2, <1>3, <1>4, <1>5 DEF Verify

LEMMA ReportGrows ==
    ASSUME LocalInv, NEW b \in Builds, Report(b)
    PROVE  Grows(b)
<1>1. AfterGives(b) => Grows(b)
    BY DEF AfterGives, Goes, Over
<1>2. CASE OpenSidecar(b)
    BY <1>2, OpenSidecarGives DEF Goes
<1>3. CASE WriteSidecar(b)
    BY <1>3, WriteSidecarGives DEF Goes
<1>. QED BY <1>1, <1>2, <1>3, NoSidecarGives, RenameSidecarGives DEF Report

LEMMA TransformGrows ==
    ASSUME LocalInv, NEW b \in Builds, NEW i \in 1 .. 3, Transform(b, i)
    PROVE  Grows(b)
<1>1. \A pc, at, h : Goes(b, pc, at, h) => Grows(b)
    BY DEF Goes
<1>2. \A code : Over(b, code) => Grows(b)
    BY DEF Over
<1>3. CASE Skip(b) \/ Refuse(b) \/ Abort(b)
    BY <1>1, <1>2, <1>3, SkipGives, RefuseGives, ExitGives DEF Abort
<1>4. CASE OpenRequest(b) \/ WriteRequest(b)
    BY <1>1, <1>4, OpenRequestGives, WriteRequestGives
<1>5. CASE ToolReads(b) \/ ToolFails(b) \/ ToolSucceeds(b)
    BY <1>1, <1>5, ToolReadsGives, ToolFailsGives, ToolSucceedsGives
<1>6. CASE OpenOutput(b) \/ WriteOutput(b)
    BY <1>1, <1>6, OpenOutputGives, WriteOutputGives
<1>7. CASE RemoveRequest(b)
    BY <1>1, <1>2, <1>7, RemoveRequestGives
<1>. QED BY <1>3, <1>4, <1>5, <1>6, <1>7, ReportGrows DEF Transform

-----------------------------------------------------------------------------
(* A request that exists is that of a pass under way, or could not be      *)
(* removed, or some build did not end by itself.                           *)

Holds(s, x) ==
    /\ s.pc \in PassSteps \cup {"sidecar", "rename"}
    /\ s.at \in 1 .. 3 /\ Passes[s.at] = x

Died(s) == s.exit \in {"aborted", "killed"}

Unremoved(s, x) == <<"remove", Temp(x)>> \in s.slips

TempInv ==
    /\ fs = [q \in Paths |-> fs[q]]
    /\ \A x \in Range(Passes) :
         \/ fs[Temp(x)] = Absent
         \/ \E c \in Builds : Holds(build[c], x) \/ Died(build[c]) \/ Unremoved(build[c], x)

LEMMA Kinds ==
    /\ Range(Passes) = {"visibility", "containment_guard", "stage_assert"}
    /\ Len(Passes) = 3
    /\ \A i \in 1 .. 3 : Passes[i] \in Range(Passes)
    /\ \A x \in Range(Passes) : Temp(x) \in Paths /\ Temp(x) # Nowhere
    /\ \A h : h[2] \in {"out", "passes"} => \A x \in Range(Passes) : h # Temp(x)
    /\ \A x, y \in Range(Passes) : x # y => Temp(x) # Temp(y)
<1>1. Range(Passes) = {"visibility", "containment_guard", "stage_assert"}
    BY DEF Passes, Range
<1>2. Len(Passes) = 3 /\ \A i \in 1 .. 3 : Passes[i] \in Range(Passes)
    BY <1>1 DEF Passes
<1>3. \A x \in Range(Passes) : Temp(x) \in Paths
    BY DEF Paths
<1>4. \A x : Temp(x) # Nowhere
    BY DEF Temp, Nowhere
<1>5. \A x : Temp(x)[2] = x
    BY DEF Temp
<1>6. "out" \notin Range(Passes) /\ "passes" \notin Range(Passes)
    BY <1>1
<1>. QED BY <1>1, <1>2, <1>3, <1>4, <1>5, <1>6

LEMMA FsStays ==
    ASSUME TempInv, NEW q \in Paths, NEW r, NEW c, r # q, fs' = [fs EXCEPT ![r] = c]
    PROVE  fs'[q] = fs[q]
BY DEF TempInv

LEMMA FsDomain ==
    ASSUME TempInv, NEW r, NEW c, fs' = [fs EXCEPT ![r] = c]
    PROVE  fs' = [q \in Paths |-> fs'[q]]
BY DEF TempInv

(* Each other build holds what it held.                                    *)
LEMMA OthersHold ==
    ASSUME LocalInv, NEW b \in Builds, NEW moved, Alone(b) \/ OthersMove(b, moved),
           NEW c \in Builds \ {b}, NEW x
    PROVE  /\ Holds(build[c], x) => Holds(build'[c], x)
           /\ Died(build[c]) => Died(build'[c])
           /\ build'[c].slips = build[c].slips
<1>1. DOMAIN build[c] = Fields
    BY Closed
<1>2. build'[c] = build[c] \/ build'[c] = [build[c] EXCEPT !.handle = moved[build[c].handle]]
    BY DEF Alone, OthersMove
<1>3. /\ build'[c].pc = build[c].pc /\ build'[c].at = build[c].at
      /\ build'[c].exit = build[c].exit /\ build'[c].slips = build[c].slips
    BY <1>1, <1>2 DEF Fields
<1>. QED BY <1>3 DEF Holds, Died

LEMMA TempKeeps ==
    ASSUME LocalInv, TempInv, NEW b \in Builds, NEW moved,
           Alone(b) \/ OthersMove(b, moved), fs' = [q \in Paths |-> fs'[q]],
           ~Died(build[b]) \/ Died(build'[b]), Grows(b),
           \A x \in Range(Passes) :
             \/ fs'[Temp(x)] = Absent
             \/ Holds(build'[b], x) \/ Died(build'[b]) \/ Unremoved(build'[b], x)
             \/ fs'[Temp(x)] = fs[Temp(x)] /\ ~Holds(build[b], x)
    PROVE  TempInv'
<1>1. ASSUME NEW x \in Range(Passes), fs'[Temp(x)] # Absent
      PROVE  \E c \in Builds :
                Holds(build'[c], x) \/ Died(build'[c]) \/ Unremoved(build'[c], x)
  <2>1. CASE Holds(build'[b], x) \/ Died(build'[b]) \/ Unremoved(build'[b], x)
      BY <2>1
  <2>2. CASE /\ fs'[Temp(x)] = fs[Temp(x)] /\ ~Holds(build[b], x) /\ ~Died(build'[b])
             /\ ~Unremoved(build'[b], x)
    <3>1. PICK c \in Builds : Holds(build[c], x) \/ Died(build[c]) \/ Unremoved(build[c], x)
        BY <1>1, <2>2 DEF TempInv
    <3>2. c \in Builds \ {b}
        BY <2>2, <3>1 DEF Unremoved, Grows
    <3>. QED BY <3>1, <3>2, OthersHold DEF Unremoved
  <2>. QED BY <1>1, <2>1, <2>2
<1>. QED BY <1>1 DEF TempInv, Unremoved

LEMMA TempRuns ==
    ASSUME LocalInv, TempInv, NEW b \in Builds, Underway(build[b]), Alone(b),
           UNCHANGED fs,
           \/ \E code : Over(b, code) /\ (Died(build'[b]) \/ \A x : ~Holds(build[b], x))
           \/ \E pc, h : /\ Goes(b, pc, build[b].at, h)
                         /\ pc \in PassSteps \cup {"sidecar", "rename"}
           \/ \A x : ~Holds(build[b], x),
           Grows(b)
    PROVE  TempInv'
<1>1. build[b].exit = "none"
    BY Closed DEF Underway
<1>2. \A x : Holds(build[b], x) => Holds(build'[b], x) \/ Died(build'[b])
    BY DEF Holds, Goes
<1>3. fs' = [q \in Paths |-> fs'[q]]
    BY DEF TempInv
<1>. QED BY <1>1, <1>2, <1>3, TempKeeps DEF Died

LEMMA TempElsewhere ==
    ASSUME LocalInv, TempInv, NEW b \in Builds, NEW moved, build[b].exit = "none",
           Alone(b) \/ OthersMove(b, moved), fs' = [q \in Paths |-> fs'[q]],
           \A x \in Range(Passes) : fs'[Temp(x)] = fs[Temp(x)],
           \A x : Holds(build[b], x) => Holds(build'[b], x) \/ Died(build'[b]),
           Grows(b)
    PROVE  TempInv'
BY TempKeeps DEF Died

(* Writing what is not a request.                                          *)
Writes(path, content) == fs' = [fs EXCEPT ![path] = content]

LEMMA OtherWrite ==
    ASSUME TempInv, NEW r, NEW c, r[2] \in {"out", "passes"}, Writes(r, c)
    PROVE  /\ fs' = [q \in Paths |-> fs'[q]]
           /\ \A x \in Range(Passes) : fs'[Temp(x)] = fs[Temp(x)]
<1>1. fs' = [q \in Paths |-> fs'[q]]
    BY FsDomain DEF Writes
<1>2. ASSUME NEW x \in Range(Passes)
      PROVE  fs'[Temp(x)] = fs[Temp(x)]
  <2>1. Temp(x) \in Paths /\ r # Temp(x)
      BY Kinds
  <2>. QED BY <2>1, FsStays DEF Writes
<1>. QED BY <1>1, <1>2

LEMMA PutElsewhere ==
    ASSUME LocalInv, TempInv, NEW b \in Builds, build[b].pc \in {"output", "sidecar"},
           NEW texts, Put(b, texts)
    PROVE  /\ fs' = [q \in Paths |-> fs'[q]]
           /\ \A x \in Range(Passes) : fs'[Temp(x)] = fs[Temp(x)]
<1>1. build[b].handle = Nowhere \/ build[b].handle[2] \in {"out", "passes"}
    BY DEF LocalInv, Shape
<1>2. CASE build[b].handle = Nowhere
    BY <1>2 DEF Put, TempInv
<1>3. CASE build[b].handle # Nowhere
  <2>1. PICK c : Writes(build[b].handle, c)
      BY <1>3 DEF Put, Writes
  <2>2. build[b].handle[2] \in {"out", "passes"}
      BY <1>1, <1>3
  <2>. QED BY <2>1, <2>2, OtherWrite
<1>. QED BY <1>2, <1>3

LEMMA TempVerify ==
    ASSUME LocalInv, TempInv, NEW b \in Builds, Verify(b)
    PROVE  TempInv'
<1>1. build[b].pc \in {"idle", "check"} /\ UNCHANGED fs
    BY DEF Verify, Start, Reject, Check, Gate, MayStart
<1>2. \E s : Become(b, s)
    BY DEF Verify, Start, Reject, Check, Gate, Exit
<1>3. Alone(b)
    BY <1>2, BecomeGives DEF Alone
<1>4. build[b].exit = "none" /\ \A x : ~Holds(build[b], x)
    BY <1>1, Closed DEF Holds, PassSteps
<1>5. fs' = [q \in Paths |-> fs'[q]]
    BY <1>1 DEF TempInv
<1>. QED BY <1>1, <1>3, <1>4, <1>5, TempElsewhere, VerifyGrows

(* The request of a pass at b is written or removed; b holds no other.     *)
LEMMA TempOfPass ==
    ASSUME LocalInv, TempInv, NEW b \in Builds, NEW moved, NEW c,
           build[b].at \in 1 .. 3, build[b].exit = "none",
           Alone(b) \/ OthersMove(b, moved),
           fs' = [fs EXCEPT ![Temp(Pass(b))] = c],
           c = Absent \/ Holds(build'[b], Pass(b)), Grows(b)
    PROVE  TempInv'
<1>1. Pass(b) \in Range(Passes)
    BY Kinds DEF Pass
<1>2. fs' = [q \in Paths |-> fs'[q]]
    BY FsDomain
<1>3. fs'[Temp(Pass(b))] = c
    BY <1>1, Kinds DEF TempInv
<1>4. ASSUME NEW x \in Range(Passes), x # Pass(b)
      PROVE  fs'[Temp(x)] = fs[Temp(x)] /\ ~Holds(build[b], x)
    BY <1>1, <1>4, Kinds, FsStays DEF Holds, Pass
<1>. QED BY <1>2, <1>3, <1>4, TempKeeps DEF Died

LEMMA TempTransform ==
    ASSUME LocalInv, TempInv, NEW b \in Builds, NEW i \in 1 .. 3, Transform(b, i),
           ~Report(b)
    PROVE  TempInv'
<1> USE DEF PassSteps
<1>1. build[b].at = i /\ build[b].at \in 1 .. 3 /\ Grows(b)
    BY TransformGrows DEF Transform
<1> USE <1>1
<1>2. CASE Skip(b)
  <2>1. build[b].pc = "pass" /\ UNCHANGED fs
      BY <1>2 DEF Skip, InPasses
  <2>2. \A x : ~Holds(build[b], x)
      BY <2>1 DEF Holds
  <2>. QED BY <1>2, <2>1, <2>2, SkipGives, TempRuns DEF Underway
<1>3. CASE Refuse(b)
  <2>1. build[b].pc = "pass" /\ UNCHANGED fs
      BY <1>3 DEF Refuse, InPasses
  <2>2. \A x : ~Holds(build[b], x)
      BY <2>1 DEF Holds
  <2>. QED BY <1>3, <2>1, <2>2, RefuseGives, TempRuns DEF Underway
<1>4. CASE OpenRequest(b)
  <2>1. build[b].pc = "pass"
      BY <1>4 DEF OpenRequest, InPasses
  <2>2. build[b].exit = "none" /\ \A x : ~Holds(build[b], x)
      BY <2>1, Closed DEF Holds
  <2>3. CASE Goes(b, "request", build[b].at, Temp(Pass(b))) /\ Truncate(Temp(Pass(b)))
    <3>1. Holds(build'[b], Pass(b))
        BY <2>3 DEF Holds, Goes, Pass
    <3>2. Alone(b)
        BY <1>4, OpenRequestGives
    <3>. QED BY <2>2, <2>3, <3>1, <3>2, TempOfPass DEF Truncate
  <2>4. CASE UNCHANGED fs
      BY <1>4, <2>1, <2>2, <2>4, OpenRequestGives, TempRuns DEF Underway
  <2>. QED BY <1>4, <2>3, <2>4, OpenRequestGives
<1>5. CASE WriteRequest(b)
  <2>1. PICK texts : build[b].pc = "request" /\ Put(b, texts)
      BY <1>5, WriteRequestGives DEF WriteRequest
  <2>2. build[b].exit = "none"
      BY <2>1, Closed
  <2>3. Goes(b, "tool", build[b].at, Nowhere) /\ Alone(b)
      BY <1>5, WriteRequestGives
  <2>4. Holds(build'[b], Pass(b))
      BY <1>1, <2>3 DEF Holds, Goes, Pass
  <2>5. build[b].handle \in {Nowhere, Temp(Pass(b))}
      BY <2>1 DEF LocalInv, Shape, Pass
  <2>6. CASE build[b].handle = Nowhere
      BY <2>1, <2>3, <2>6, TempRuns DEF Put, Underway
  <2>7. CASE build[b].handle # Nowhere
    <3>1. PICK c : fs' = [fs EXCEPT ![Temp(Pass(b))] = c]
        BY <2>1, <2>5, <2>7 DEF Put
    <3>. QED BY <1>1, <2>2, <2>3, <2>4, <3>1, TempOfPass
  <2>. QED BY <2>6, <2>7
<1>6. CASE Abort(b)
  <2>1. build[b].pc \in {"request", "answer"} /\ UNCHANGED fs
        /\ Over(b, "aborted") /\ Alone(b)
      BY <1>6, ExitGives DEF Abort
  <2>2. Died(build'[b])
      BY <2>1 DEF Over, Died
  <2>. QED BY <2>1, <2>2, TempRuns DEF Underway
<1>7. CASE ToolReads(b) \/ ToolFails(b) \/ ToolSucceeds(b)
  <2>1. build[b].pc \in {"tool", "answer"} /\ UNCHANGED fs
      BY <1>7 DEF ToolReads, ToolFails, ToolSucceeds
  <2>2. /\ Alone(b)
        /\ \E pc \in {"answer", "remove", "outputs"} :
             Goes(b, pc, build[b].at, Nowhere)
      BY <1>7, ToolReadsGives, ToolFailsGives, ToolSucceedsGives
  <2>. QED BY <2>1, <2>2, TempRuns DEF Underway
<1>8. CASE OpenOutput(b)
  <2>1. build[b].pc = "outputs" /\ build[b].exit = "none"
      BY <1>8, Closed DEF OpenOutput
  <2>2. Alone(b)
      BY <1>8, OpenOutputGives
  <2>3. CASE Goes(b, "output", build[b].at, Nowhere) /\ UNCHANGED fs
      BY <2>1, <2>2, <2>3, TempRuns DEF Underway
  <2>4. ASSUME NEW path, Goes(b, "output", build[b].at, path), path[2] = "out",
               Truncate(path)
        PROVE  TempInv'
    <3>1. /\ fs' = [q \in Paths |-> fs'[q]]
          /\ \A x \in Range(Passes) : fs'[Temp(x)] = fs[Temp(x)]
      <4>1. Writes(path, Partial)
          BY <2>4 DEF Truncate, Writes
      <4>. QED BY <2>4, <4>1, OtherWrite
    <3>2. \A x : Holds(build[b], x) => Holds(build'[b], x)
        BY <2>4 DEF Holds, Goes
    <3>. QED BY <2>1, <2>2, <3>1, <3>2, TempElsewhere
  <2>5. \A p, d : Out(p, d)[2] = "out"
      BY DEF Out
  <2>. QED BY <1>8, <2>3, <2>4, <2>5, OpenOutputGives
<1>9. CASE WriteOutput(b)
  <2>1. build[b].pc = "output" /\ build[b].exit = "none"
      BY <1>9, Closed DEF WriteOutput
  <2>2. /\ Goes(b, "outputs", build[b].at, Nowhere) /\ Alone(b)
        /\ \E texts : Put(b, texts)
      BY <1>9, WriteOutputGives
  <2>3. \A x : Holds(build[b], x) => Holds(build'[b], x)
      BY <2>2 DEF Holds, Goes
  <2>. QED BY <2>1, <2>2, <2>3, PutElsewhere, TempElsewhere
<1>10. CASE RemoveRequest(b)
  <2>1. build[b].pc = "remove" /\ build[b].exit = "none"
      BY <1>10, Closed DEF RemoveRequest
  <2>2. CASE fs' = [fs EXCEPT ![Temp(Pass(b))] = Absent]
    <3>1. Alone(b) \/ OthersMove(b, RemoveMoves(b))
        BY <1>10, RemoveRequestGives
    <3>. QED BY <2>1, <2>2, <3>1, TempOfPass
  <2>3. CASE Alone(b) /\ UNCHANGED fs /\ NowSlipped(b, "remove", Temp(Pass(b)))
    <3>1. Unremoved(build'[b], Pass(b))
        BY <2>3 DEF NowSlipped, Unremoved
    <3>2. fs' = [q \in Paths |-> fs'[q]]
        BY <2>3 DEF TempInv
    <3>3. \A x : Holds(build[b], x) => x = Pass(b)
        BY DEF Holds, Pass
    <3>. QED BY <2>1, <2>3, <3>1, <3>2, <3>3, TempKeeps DEF Died
  <2>. QED BY <1>10, <2>2, <2>3, RemoveRequestGives
<1>. QED BY <1>2, <1>3, <1>4, <1>5, <1>6, <1>7, <1>8, <1>9, <1>10 DEF Transform

LEMMA TempReport ==
    ASSUME LocalInv, TempInv, NEW b \in Builds, Report(b)
    PROVE  TempInv'
<1> USE DEF PassSteps
<1>0. Grows(b)
    BY ReportGrows
<1> USE <1>0
<1>1. CASE OpenSidecar(b)
  <2>1. build[b].pc \in {"outputs", "pass"} /\ build[b].exit = "none"
      BY <1>1, Closed DEF OpenSidecar, SidecarDue, InLink
  <2>2. PICK h, path :
          /\ Goes(b, "sidecar", build[b].at, h) /\ Alone(b)
          /\ UNCHANGED fs \/ (path[2] = "passes" /\ Truncate(path))
      BY <1>1, OpenSidecarGives
  <2>3. /\ fs' = [q \in Paths |-> fs'[q]]
        /\ \A x \in Range(Passes) : fs'[Temp(x)] = fs[Temp(x)]
    <3>1. CASE UNCHANGED fs
        BY <3>1 DEF TempInv
    <3>2. CASE path[2] = "passes" /\ Writes(path, Partial)
        BY <3>2, OtherWrite
    <3>. QED BY <2>2, <3>1, <3>2 DEF Truncate, Writes
  <2>4. \A x : Holds(build[b], x) => Holds(build'[b], x)
      BY <2>2 DEF Holds, Goes
  <2>. QED BY <2>1, <2>2, <2>3, <2>4, TempElsewhere
<1>2. CASE WriteSidecar(b)
  <2>1. build[b].pc = "sidecar" /\ build[b].exit = "none"
      BY <1>2, Closed DEF WriteSidecar
  <2>2. /\ Goes(b, "rename", build[b].at, Nowhere) /\ Alone(b)
        /\ \E texts : Put(b, texts)
      BY <1>2, WriteSidecarGives
  <2>3. \A x : Holds(build[b], x) => Holds(build'[b], x)
      BY <2>2 DEF Holds, Goes
  <2>. QED BY <2>1, <2>2, <2>3, PutElsewhere, TempElsewhere
<1>3. ASSUME AfterGives(b)
      PROVE  \A x : Holds(build[b], x) => Holds(build'[b], x)
    BY <1>3, Kinds DEF AfterGives, Holds, Goes
<1>4. CASE NoSidecar(b)
  <2>1. /\ build[b].exit = "none" /\ UNCHANGED fs
        /\ AfterGives(b) /\ Alone(b)
      BY <1>4, Closed, NoSidecarGives DEF NoSidecar, SidecarDue, InLink
  <2>2. fs' = [q \in Paths |-> fs'[q]]
      BY <2>1 DEF TempInv
  <2>. QED BY <1>3, <2>1, <2>2, TempElsewhere
<1>5. CASE RenameSidecar(b)
  <2> DEFINE path == Sidecar(build[b].req.project, Reported(b))
             tmp == SidecarTmp(build[b].req.project, Reported(b))
  <2>1. /\ build[b].exit = "none" /\ AfterGives(b)
        /\ Alone(b) \/ OthersMove(b, RenameMoves(b))
      BY <1>5, Closed, RenameSidecarGives DEF RenameSidecar
  <2>2. \/ UNCHANGED fs
        \/ fs' = [fs EXCEPT ![path] = fs[tmp], ![tmp] = Absent]
      BY <1>5 DEF RenameSidecar
  <2>3. path[2] = "passes" /\ tmp[2] = "passes"
      BY DEF Sidecar, SidecarTmp
  <2> HIDE DEF path, tmp
  <2>4. \A x \in Range(Passes) : Temp(x) \in Paths /\ Temp(x) # path /\ Temp(x) # tmp
      BY <2>3, Kinds
  <2>5. /\ fs' = [q \in Paths |-> fs'[q]]
        /\ \A x \in Range(Passes) : fs'[Temp(x)] = fs[Temp(x)]
      BY <2>2, <2>4 DEF TempInv
  <2>. QED BY <1>3, <2>1, <2>5, TempElsewhere
<1>. QED BY <1>1, <1>2, <1>4, <1>5 DEF Report

LEMMA NextTemp ==
    ASSUME LocalInv, TempInv, [Next]_vars
    PROVE  TempInv'
<1>1. CASE UNCHANGED vars
    BY <1>1 DEF vars, TempInv, Holds, Died, Unremoved
<1>2. ASSUME NEW b \in Builds, Verify(b)
      PROVE  TempInv'
    BY <1>2, TempVerify
<1>3. ASSUME NEW b \in Builds, Kill(b)
      PROVE  TempInv'
  <2>1. Over(b, "killed") /\ Alone(b) /\ UNCHANGED fs /\ build[b].pc # "ended"
      BY <1>3, ExitGives DEF Kill
  <2>2. build[b].exit = "none" /\ Died(build'[b]) /\ Grows(b)
      BY <2>1, Closed DEF Over, Died
  <2>3. fs' = [q \in Paths |-> fs'[q]]
      BY <2>1 DEF TempInv
  <2>. QED BY <2>1, <2>2, <2>3, TempElsewhere
<1>4. ASSUME NEW b \in Builds, NEW i \in 1 .. 3, Transform(b, i)
      PROVE  TempInv'
    BY <1>4, TempTransform, TempReport
<1>5. ASSUME NEW b \in Builds, SourcemapLink(b)
      PROVE  TempInv'
  <2>1. CASE Report(b)
      BY <2>1, TempReport
  <2>2. CASE Finish(b)
    <3>1. build[b].pc = "pass" /\ UNCHANGED fs /\ Over(b, "0") /\ Alone(b)
        BY <2>2, ExitGives DEF Finish, InLink
    <3>2. Grows(b) /\ \A x : ~Holds(build[b], x)
        BY <3>1 DEF Holds, PassSteps, Over
    <3>. QED BY <3>1, <3>2, TempRuns DEF Underway
  <2>. QED BY <1>5, <2>1, <2>2 DEF SourcemapLink
<1>. QED BY <1>1, <1>2, <1>3, <1>4, <1>5
         DEF Next, VisibilityPass, ContainmentGuardPass, StageAssertPass

-----------------------------------------------------------------------------
(* Builds one by one: what a pass reads and writes is of its own build, or *)
(* the build could not open the name of the request.                       *)

OneByOne ==
    \A b, c \in Builds : b < c /\ build[c].pc # "idle" => build[b].pc = "ended"

Stale(b) == Slipped(b, "open", Temp(Pass(b)))

Mine(b) ==
    /\ build[b].pc = "request" =>
         \/ build[b].handle = Temp(Pass(b)) /\ fs[Temp(Pass(b))] = Partial
         \/ build[b].handle = Nowhere /\ Stale(b)
    /\ build[b].pc = "tool" =>
         (fs[Temp(Pass(b))].kind = "request" => fs[Temp(Pass(b))].build = b \/ Stale(b))
    /\ build[b].pc = "answer" =>
         (build[b].seen.kind = "request" => build[b].seen.build = b \/ Stale(b))
    /\ build[b].pc \in {"outputs", "output"} => build[b].seen.build = b \/ Stale(b)

OwnOutputs ==
    \A p \in Projects, d \in Dests :
        LET output == fs[Out(p, d)]
        IN  output.kind = "rewrite" =>
              /\ output.by \in Builds
              /\ output.of = output.by \/ Slipped(output.by, "open", Temp(output.pass))
              /\ build[output.by].pc # "idle" /\ build[output.by].req.project = p

OwnInv ==
    ~world.overlap => OneByOne /\ OwnOutputs /\ \A b \in Builds : Mine(b)

LEMMA OthersStay ==
    ASSUME LocalInv, NEW b \in Builds, NEW moved, Alone(b) \/ OthersMove(b, moved),
           NEW c \in Builds \ {b}
    PROVE  /\ build'[c].pc = build[c].pc /\ build'[c].req = build[c].req
           /\ build'[c].slips = build[c].slips
<1>1. DOMAIN build[c] = Fields
    BY Closed
<1>2. build'[c] = build[c] \/ build'[c] = [build[c] EXCEPT !.handle = moved[build[c].handle]]
    BY DEF Alone, OthersMove
<1>. QED BY <1>1, <1>2 DEF Fields

(* What b does to the outputs.                                             *)
Leaves(b) ==
    \A p \in Projects, d \in Dests :
        \/ fs'[Out(p, d)] = fs[Out(p, d)]
        \/ fs'[Out(p, d)].kind # "rewrite"
        \/ /\ fs'[Out(p, d)].by = b
           /\ fs'[Out(p, d)].of = b \/ NowSlipped(b, "open", Temp(fs'[Out(p, d)].pass))
           /\ build[b].pc # "idle" /\ build[b].req.project = p

LEMMA OwnKeeps ==
    ASSUME LocalInv, OwnInv, NEW b \in Builds, NEW moved, UNCHANGED world, Grows(b),
           ~world.overlap => /\ Alone(b) \/ OthersMove(b, moved)
                             /\ build[b].pc # "ended" /\ build'[b].pc # "idle"
                             /\ build[b].pc = "idle" =>
                                  \A c \in 1 .. b - 1 : build[c].pc = "ended"
                             /\ Mine(b)'
                             /\ build[b].pc # "idle" => build'[b].req = build[b].req
                             /\ Leaves(b)
    PROVE  OwnInv'
<1>1. SUFFICES ASSUME ~world.overlap
               PROVE  OneByOne' /\ OwnOutputs' /\ \A c \in Builds : Mine(c)'
    BY DEF OwnInv
<1>2. OneByOne /\ OwnOutputs
    BY <1>1 DEF OwnInv
<1>3. \A c \in Builds \ {b} : /\ build'[c].pc = build[c].pc /\ build'[c].req = build[c].req
                              /\ build'[c].slips = build[c].slips
    BY <1>1, OthersStay
<1>4. Builds \subseteq Nat /\ \A c \in Builds : c < b => c \in 1 .. b - 1
    BY MaxBuildAssumption DEF Builds
<1>5. \A c \in Builds : c < b => build[c].pc = "ended"
    BY <1>1, <1>2, <1>4 DEF OneByOne
<1>6. \A c \in Builds : b < c => build[c].pc = "idle"
    BY <1>1, <1>2 DEF OneByOne
<1>7. OneByOne'
  <2>1. SUFFICES ASSUME NEW c \in Builds, NEW e \in Builds, c < e, build'[e].pc # "idle"
                 PROVE  build'[c].pc = "ended"
      BY DEF OneByOne
  <2>2. CASE e = b
      BY <1>3, <1>4, <1>5, <2>1, <2>2
  <2>3. CASE e # b
    <3>1. build[c].pc = "ended"
        BY <1>2, <1>3, <2>1, <2>3 DEF OneByOne
    <3>2. c # b
        BY <1>1, <3>1
    <3>. QED BY <1>3, <3>1, <3>2
  <2>. QED BY <2>2, <2>3
<1>8. ASSUME NEW c \in Builds PROVE Mine(c)'
  <2>1. CASE c = b
      BY <1>1, <2>1
  <2>2. CASE c # b
    <3>1. build'[c].pc \in {"idle", "ended"}
        BY <1>3, <1>4, <1>5, <1>6, <2>2
    <3>. QED BY <3>1 DEF Mine
  <2>. QED BY <2>1, <2>2
<1>9. OwnOutputs'
  <2>1. SUFFICES ASSUME NEW p \in Projects, NEW d \in Dests,
                        fs'[Out(p, d)].kind = "rewrite"
                 PROVE  LET output == fs'[Out(p, d)]
                        IN  /\ output.by \in Builds
                            /\ \/ output.of = output.by
                               \/ NowSlipped(output.by, "open", Temp(output.pass))
                            /\ build'[output.by].pc # "idle"
                            /\ build'[output.by].req.project = p
      BY DEF OwnOutputs, Out, Slipped, NowSlipped, Temp
  <2> DEFINE o == fs[Out(p, d)]
  <2>2. CASE fs'[Out(p, d)] = o
    <3>1. /\ o.by \in Builds
          /\ o.of = o.by \/ Slipped(o.by, "open", Temp(o.pass))
          /\ build[o.by].pc # "idle" /\ build[o.by].req.project = p
        BY <1>2, <2>1, <2>2 DEF OwnOutputs
    <3>2. build[o.by].slips \subseteq build'[o.by].slips
        BY <1>3, <3>1 DEF Grows
    <3>3. o.of = o.by \/ NowSlipped(o.by, "open", Temp(o.pass))
        BY <3>1, <3>2 DEF Slipped, NowSlipped
    <3>4. build'[o.by].pc # "idle" /\ build'[o.by].req.project = p
        BY <1>1, <1>3, <3>1
    <3>. QED BY <2>2, <3>1, <3>3, <3>4
  <2>3. CASE /\ fs'[Out(p, d)].by = b
             /\ fs'[Out(p, d)].of = b \/ NowSlipped(b, "open", Temp(fs'[Out(p, d)].pass))
             /\ build[b].pc # "idle" /\ build[b].req.project = p
      BY <1>1, <2>3
  <2>. QED BY <1>1, <2>1, <2>2, <2>3 DEF Leaves
<1>. QED BY <1>7, <1>8, <1>9

LEMMA LeavesWhenSame ==
    ASSUME NEW b, UNCHANGED fs
    PROVE  Leaves(b)
BY DEF Leaves

LEMMA LeavesWhenElsewhere ==
    ASSUME TempInv, NEW b, NEW r, NEW c, Writes(r, c),
           r[2] # "out" \/ c.kind # "rewrite"
    PROVE  Leaves(b)
<1>1. SUFFICES ASSUME NEW p \in Projects, NEW d \in Dests
               PROVE  \/ fs'[Out(p, d)] = fs[Out(p, d)]
                      \/ fs'[Out(p, d)].kind # "rewrite"
    BY DEF Leaves
<1>2. Out(p, d) \in Paths /\ Out(p, d)[2] = "out"
    BY DEF Paths, Outputs, Out
<1>3. CASE r = Out(p, d)
    BY <1>2, <1>3 DEF Writes, TempInv
<1>4. CASE r # Out(p, d)
    BY <1>2, <1>4 DEF Writes, TempInv
<1>. QED BY <1>3, <1>4

LEMMA LeavesOwn ==
    ASSUME LocalInv, TempInv, NEW b \in Builds, build[b].pc = "output",
           NEW texts, Put(b, texts),
           \A c \in texts :
              \/ c.kind # "rewrite" \/ c = fs[build[b].handle]
              \/ c.by = b /\ (c.of = b \/ NowSlipped(b, "open", Temp(c.pass)))
    PROVE  Leaves(b)
<1>1. CASE build[b].handle = Nowhere
    BY <1>1, LeavesWhenSame DEF Put
<1>2. CASE build[b].handle # Nowhere
  <2>1. /\ build[b].handle[1] = build[b].req.project
        /\ build[b].handle[2] = "out"
      BY <1>2 DEF LocalInv, Shape
  <2>2. PICK c \in texts : Writes(build[b].handle, c)
      BY <1>2 DEF Put, Writes
  <2>3. CASE c.kind # "rewrite"
      BY <2>2, <2>3, LeavesWhenElsewhere
  <2>4. CASE \/ c = fs[build[b].handle]
             \/ c.by = b /\ (c.of = b \/ NowSlipped(b, "open", Temp(c.pass)))
    <3>1. SUFFICES ASSUME NEW p \in Projects, NEW d \in Dests
                   PROVE  \/ fs'[Out(p, d)] = fs[Out(p, d)]
                          \/ /\ fs'[Out(p, d)].by = b
                             /\ \/ fs'[Out(p, d)].of = b
                                \/ NowSlipped(b, "open", Temp(fs'[Out(p, d)].pass))
                             /\ build[b].req.project = p
        BY DEF Leaves
    <3>2. Out(p, d) \in Paths /\ Out(p, d)[1] = p
        BY DEF Paths, Outputs, Out
    <3>3. CASE build[b].handle = Out(p, d)
      <4>1. fs'[Out(p, d)] = c
          BY <2>2, <3>2, <3>3 DEF Writes, TempInv
      <4>. QED BY <2>1, <2>4, <3>2, <3>3, <4>1
    <3>4. CASE build[b].handle # Out(p, d)
        BY <2>2, <3>2, <3>4 DEF Writes, TempInv
    <3>. QED BY <3>3, <3>4
  <2>. QED BY <2>2, <2>3, <2>4
<1>. QED BY <1>1, <1>2

(* A step of a build that has started, to where nothing is promised.       *)
Plain(pc) == pc \notin {"idle", "request", "tool", "answer", "outputs", "output"}

LEMMA OwnGoes ==
    ASSUME LocalInv, OwnInv, NEW b \in Builds, NEW moved, UNCHANGED world,
           Alone(b) \/ OthersMove(b, moved), build[b].pc \notin {"idle", "ended"},
           build'[b].req = build[b].req, Leaves(b), build'[b].pc # "idle", Grows(b),
           Plain(build'[b].pc) \/ (~world.overlap => Mine(b)')
    PROVE  OwnInv'
<1>1. Plain(build'[b].pc) => Mine(b)'
    BY DEF Plain, Mine
<1>. QED BY <1>1, OwnKeeps

LEMMA OwnVerify ==
    ASSUME LocalInv, OwnInv, NEW b \in Builds, Verify(b)
    PROVE  OwnInv'
<1> USE VerifyGrows
<1>1. UNCHANGED <<world, fs>>
    BY DEF Verify, Start, Reject, Check, Gate
<1>2. PICK s : Become(b, s)
    BY DEF Verify, Start, Reject, Check, Gate, Exit
<1>3. Alone(b) /\ build'[b] = s
    BY <1>2, BecomeGives DEF Alone
<1>4. CASE Start(b) \/ Reject(b)
  <2>1. build'[b].pc \in {"check", "pass", "ended"}
    <3>1. CASE Start(b)
      <4>1. PICK r : Become(b, [Idle(r) EXCEPT
                              !.pc = IF r.noVerify THEN "pass" ELSE "check"])
          BY <3>1 DEF Start
      <4>2. build'[b] = [Idle(r) EXCEPT !.pc = IF r.noVerify THEN "pass" ELSE "check"]
          BY <4>1, BecomeGives
      <4>. QED BY <4>2, IdleFields DEF Fields
    <3>2. CASE Reject(b)
        BY <3>2, ExitGives DEF Reject, Over
    <3>. QED BY <1>4, <3>1, <3>2
  <2>2. Mine(b)'
      BY <2>1 DEF Mine
  <2>3. /\ build[b].pc = "idle"
        /\ ~world.overlap => \A c \in 1 .. b - 1 : build[c].pc = "ended"
      BY <1>4 DEF Start, Reject, MayStart, Ended
  <2>. QED BY <1>1, <1>3, <2>1, <2>2, <2>3, OwnKeeps, LeavesWhenSame
<1>5. CASE Check(b) \/ Gate(b)
  <2>1. build[b].pc = "check"
      BY <1>5 DEF Check, Gate
  <2>2. DOMAIN build[b] = Fields
      BY Closed
  <2>3. build'[b].pc \in {"check", "pass", "ended"} /\ build'[b].req = build[b].req
    <3>1. CASE Check(b)
      <4>1. PICK at, printed, errors, warnings :
              Become(b, [build[b] EXCEPT !.at = at, !.printed = printed,
                           !.errors = errors, !.warnings = warnings])
          BY <3>1 DEF Check
      <4>2. build'[b] = [build[b] EXCEPT !.at = at, !.printed = printed,
                           !.errors = errors, !.warnings = warnings]
          BY <4>1, BecomeGives
      <4>. QED BY <2>1, <2>2, <4>2 DEF Fields
    <3>2. CASE Become(b, [Kept(b) EXCEPT !.pc = "pass"])
      <4>1. build'[b] = [Kept(b) EXCEPT !.pc = "pass"]
          BY <3>2, BecomeGives
      <4>. QED BY <4>1, KeptFields DEF Fields
    <3>3. CASE Exit(b, "1")
        BY <3>3, ExitGives DEF Over
    <3>. QED BY <1>5, <3>1, <3>2, <3>3 DEF Gate
  <2>4. Plain(build'[b].pc) /\ build'[b].pc # "idle"
      BY <2>3 DEF Plain
  <2>. QED BY <1>1, <1>3, <2>1, <2>3, <2>4, OwnGoes, LeavesWhenSame
<1>. QED BY <1>4, <1>5 DEF Verify

(* A build quits, or goes on to a step where nothing is promised.          *)
LEMMA OwnPlain ==
    ASSUME LocalInv, OwnInv, NEW b \in Builds, NEW moved, UNCHANGED world,
           Alone(b) \/ OthersMove(b, moved), build[b].pc \notin {"idle", "ended"},
           Leaves(b),
           \/ \E code : Over(b, code)
           \/ \E pc, at, h : Goes(b, pc, at, h) /\ Plain(pc)
    PROVE  OwnInv'
<1>1. CASE \E code : Over(b, code)
  <2>1. /\ Plain(build'[b].pc) /\ build'[b].pc # "idle" /\ build'[b].req = build[b].req
        /\ Grows(b)
      BY <1>1 DEF Over, Plain
  <2>. QED BY <2>1, OwnGoes
<1>2. CASE \E pc, at, h : Goes(b, pc, at, h) /\ Plain(pc)
  <2>1. /\ Plain(build'[b].pc) /\ build'[b].pc # "idle" /\ build'[b].req = build[b].req
        /\ Grows(b)
      BY <1>2 DEF Goes, Plain
  <2>. QED BY <2>1, OwnGoes
<1>. QED BY <1>1, <1>2

LEMMA OwnMine ==
    ASSUME OwnInv, NEW b \in Builds, ~world.overlap
    PROVE  Mine(b)
BY DEF OwnInv

(* Requests and sidecars are not outputs.                                  *)
LEMMA LeavesTemp ==
    ASSUME TempInv, NEW b, NEW x \in Range(Passes), NEW c, Writes(Temp(x), c)
    PROVE  Leaves(b)
<1>1. Temp(x)[2] = x /\ x # "out"
    BY Kinds DEF Temp
<1>. QED BY <1>1, LeavesWhenElsewhere

(* A stale request stays one for the rest of the pass.                     *)
LEMMA StaleStays ==
    ASSUME NEW b, Grows(b), build'[b].at = build[b].at
    PROVE  /\ Stale(b) => Stale(b)'
           /\ NowSlipped(b, "open", Temp(Pass(b))) => Stale(b)'
BY DEF Stale, Slipped, NowSlipped, Grows, Pass

LEMMA OwnTransform ==
    ASSUME LocalInv, TempInv, OwnInv, NEW b \in Builds, NEW i \in 1 .. 3,
           Transform(b, i), ~Report(b)
    PROVE  OwnInv'
<1>1. /\ build[b].at \in 1 .. 3 /\ Pass(b) \in Range(Passes) /\ Temp(Pass(b)) \in Paths
      /\ Grows(b)
    BY Kinds, TransformGrows DEF Transform, Pass
<1> USE <1>1
<1>2. CASE Skip(b)
  <2>1. build[b].pc = "pass" /\ UNCHANGED <<world, fs>>
      BY <1>2 DEF Skip, InPasses
  <2>. QED BY <1>2, <2>1, SkipGives, OwnPlain, LeavesWhenSame DEF Plain
<1>3. CASE Refuse(b)
  <2>1. build[b].pc = "pass" /\ UNCHANGED <<world, fs>>
      BY <1>3 DEF Refuse, InPasses
  <2>. QED BY <1>3, <2>1, RefuseGives, OwnPlain, LeavesWhenSame DEF Plain
<1>4. CASE OpenRequest(b)
  <2>1. build[b].pc = "pass" /\ UNCHANGED world
      BY <1>4 DEF OpenRequest, InPasses
  <2>2. CASE Goes(b, "request", build[b].at, Temp(Pass(b))) /\ Truncate(Temp(Pass(b)))
    <3>1. fs'[Temp(Pass(b))] = Partial
        BY <1>1, <2>2 DEF TempInv, Truncate
    <3>2. Mine(b)'
        BY <2>2, <3>1 DEF Mine, Goes, Pass
    <3>3. Leaves(b)
        BY <1>1, <2>2, LeavesTemp DEF Truncate, Writes
    <3>4. Alone(b) /\ build'[b].pc # "idle" /\ build'[b].req = build[b].req
        BY <1>4, <2>2, OpenRequestGives DEF Goes
    <3>. QED BY <2>1, <3>2, <3>3, <3>4, OwnGoes
  <2>3. CASE /\ Goes(b, "request", build[b].at, Nowhere) /\ UNCHANGED fs
             /\ NowSlipped(b, "open", Temp(Pass(b)))
    <3>1. Stale(b)'
        BY <2>3, StaleStays DEF Goes
    <3>2. Mine(b)'
        BY <2>3, <3>1 DEF Mine, Goes
    <3>3. Alone(b) /\ build'[b].pc # "idle" /\ build'[b].req = build[b].req
        BY <1>4, <2>3, OpenRequestGives DEF Goes
    <3>. QED BY <2>1, <2>3, <3>2, <3>3, OwnGoes, LeavesWhenSame
  <2>. QED BY <1>4, <2>2, <2>3, OpenRequestGives
<1>5. CASE WriteRequest(b)
  <2>1. build[b].pc = "request" /\ UNCHANGED world
      BY <1>5 DEF WriteRequest
  <2> DEFINE h == build[b].handle
  <2>2. /\ Goes(b, "tool", build[b].at, Nowhere) /\ Alone(b)
        /\ \/ Put(b, Onto(h, RequestOf(b, Pass(b))))
           \/ h # Nowhere /\ Put(b, Onto(h, Partial) \cup {fs[h]})
      BY <1>5, WriteRequestGives
  <2>3. h \in {Nowhere, Temp(Pass(b))}
      BY <2>1 DEF LocalInv, Shape, Pass
  <2>4. Leaves(b)
    <3>1. CASE h = Nowhere
        BY <2>2, <3>1, LeavesWhenSame DEF Put
    <3>2. CASE h # Nowhere
      <4>1. PICK c : Writes(Temp(Pass(b)), c)
          BY <2>2, <2>3, <3>2 DEF Put, Writes
      <4>. QED BY <1>1, <4>1, LeavesTemp
    <3>. QED BY <3>1, <3>2
  <2>5. ASSUME ~world.overlap PROVE Mine(b)'
    <3> DEFINE tmp == Temp(Pass(b))
    <3>1. \/ h = tmp /\ fs[tmp] = Partial
          \/ h = Nowhere /\ Stale(b)
        BY <2>1, <2>5, OwnMine DEF Mine
    <3>2. tmp = Temp(Pass(b))' /\ build'[b].pc = "tool"
        BY <2>2 DEF Goes, Pass
    <3>3. CASE Stale(b)
      <4>1. Stale(b)'
          BY <2>2, <3>3, StaleStays DEF Goes
      <4>. QED BY <3>2, <4>1 DEF Mine
    <3>4. CASE h = tmp /\ fs[tmp] = Partial
      <4>1. h # Nowhere
          BY <1>1, <3>4, Kinds
      <4>2. PICK c \in {RequestOf(b, Pass(b)), Partial} : fs' = [fs EXCEPT ![tmp] = c]
          BY <2>2, <3>4, <4>1 DEF Put, Onto
      <4>3. fs'[tmp] = c
          BY <1>1, <4>2 DEF TempInv
      <4>4. c.kind = "request" => c.build = b
          BY <4>2 DEF RequestOf, Partial
      <4> HIDE DEF tmp
      <4>. QED BY <3>2, <4>3, <4>4 DEF Mine
    <3>. QED BY <3>1, <3>3, <3>4
  <2>6. build'[b].pc # "idle" /\ build'[b].req = build[b].req
      BY <2>2 DEF Goes
  <2>. QED BY <2>1, <2>2, <2>4, <2>5, <2>6, OwnGoes
<1>6. CASE Abort(b)
  <2>1. build[b].pc \in {"request", "answer"} /\ UNCHANGED <<world, fs>>
        /\ Over(b, "aborted") /\ Alone(b)
      BY <1>6, ExitGives DEF Abort
  <2>. QED BY <2>1, OwnPlain, LeavesWhenSame
<1>7. CASE ToolReads(b)
  <2>1. build[b].pc = "tool" /\ UNCHANGED <<world, fs>>
      BY <1>7 DEF ToolReads
  <2>2. /\ Goes(b, "answer", build[b].at, Nowhere) /\ Alone(b)
        /\ build'[b].seen = fs[Temp(Pass(b))]
      BY <1>7, ToolReadsGives
  <2>3. ASSUME ~world.overlap PROVE Mine(b)'
    <3>1. build'[b].seen = fs[Temp(Pass(b))] /\ build'[b].at = build[b].at
          /\ build'[b].pc = "answer"
        BY <2>2 DEF Goes
    <3>2. fs[Temp(Pass(b))].kind = "request" => fs[Temp(Pass(b))].build = b \/ Stale(b)
        BY <2>1, <2>3, OwnMine DEF Mine
    <3>. QED BY <2>2, <3>1, <3>2, StaleStays DEF Mine
  <2>4. build'[b].pc # "idle" /\ build'[b].req = build[b].req
      BY <2>2 DEF Goes
  <2>. QED BY <2>1, <2>2, <2>3, <2>4, OwnGoes, LeavesWhenSame
<1>8. CASE ToolFails(b)
  <2>1. build[b].pc = "answer" /\ UNCHANGED <<world, fs>>
      BY <1>8 DEF ToolFails
  <2>. QED BY <1>8, <2>1, ToolFailsGives, OwnPlain, LeavesWhenSame DEF Plain
<1>9. CASE ToolSucceeds(b) \/ OpenOutput(b) \/ WriteOutput(b)
  <2>1. build[b].pc \in {"answer", "outputs", "output"} /\ UNCHANGED world
      BY <1>9 DEF ToolSucceeds, OpenOutput, WriteOutput
  <2>2. /\ Alone(b) /\ build'[b].seen = build[b].seen
        /\ build'[b].pc \in {"outputs", "output"} /\ build'[b].req = build[b].req
        /\ build'[b].at = build[b].at
      BY <1>9, ToolSucceedsGives, OpenOutputGives, WriteOutputGives DEF Goes
  <2>3. ASSUME ~world.overlap
        PROVE  Mine(b)' /\ (build[b].seen.build = b \/ Stale(b))
    <3>1. build[b].seen.build = b \/ Stale(b)
        BY <1>9, <2>1, <2>3, OwnMine DEF Mine, ToolSucceeds, OpenOutput, WriteOutput
    <3>. QED BY <2>2, <3>1, StaleStays DEF Mine
  <2>4. CASE ToolSucceeds(b)
    <3>1. UNCHANGED fs
        BY <2>4 DEF ToolSucceeds
    <3>. QED BY <2>1, <2>2, <2>3, <3>1, OwnGoes, LeavesWhenSame
  <2>5. CASE OpenOutput(b)
    <3>1. CASE UNCHANGED fs
        BY <2>1, <2>2, <2>3, <3>1, OwnGoes, LeavesWhenSame
    <3>2. ASSUME NEW path, Truncate(path)
          PROVE  OwnInv'
      <4>1. Writes(path, Partial)
          BY <3>2 DEF Truncate, Writes
      <4>2. Partial.kind # "rewrite"
          BY DEF Partial
      <4>3. Leaves(b)
          BY <4>1, <4>2, LeavesWhenElsewhere
      <4>. QED BY <2>1, <2>2, <2>3, <4>3, OwnGoes
    <3>. QED BY <2>5, <3>1, <3>2, OpenOutputGives
  <2>6. CASE WriteOutput(b)
    <3>1. ASSUME ~world.overlap PROVE Leaves(b)
      <4> DEFINE h == build[b].handle
                 text == Rewrite(b, build[b].seen.build, Pass(b), build[b].file)
      <4>1. \/ Put(b, Onto(h, text))
            \/ Put(b, Onto(h, Partial) \cup {fs[h]})
          BY <2>6, WriteOutputGives
      <4>2. text.by = b /\ (text.of = b \/ NowSlipped(b, "open", Temp(text.pass)))
          BY <1>1, <2>3, <3>1 DEF Rewrite, Stale, Slipped, NowSlipped, Grows
      <4>3. Garbled.kind # "rewrite" /\ Partial.kind # "rewrite"
          BY DEF Garbled, Partial
      <4>4. build[b].pc = "output"
          BY <2>6 DEF WriteOutput
      <4> HIDE DEF text
      <4>5. \A c \in Onto(h, text) \cup Onto(h, Partial) \cup {fs[h]} :
              \/ c.kind # "rewrite" \/ c = fs[build[b].handle]
              \/ c.by = b /\ (c.of = b \/ NowSlipped(b, "open", Temp(c.pass)))
          BY <4>2, <4>3 DEF Onto
      <4>. QED BY <4>1, <4>4, <4>5, LeavesOwn
    <3>. QED BY <2>1, <2>2, <2>3, <3>1, OwnKeeps
  <2>. QED BY <1>9, <2>4, <2>5, <2>6
<1>10. CASE RemoveRequest(b)
  <2>1. build[b].pc = "remove" /\ UNCHANGED world
      BY <1>10 DEF RemoveRequest
  <2>2. Leaves(b)
      BY <1>1, <1>10, RemoveRequestGives, LeavesTemp, LeavesWhenSame DEF Writes
  <2>. QED BY <1>10, <2>1, <2>2, RemoveRequestGives, OwnPlain DEF Plain
<1>. QED BY <1>2, <1>3, <1>4, <1>5, <1>6, <1>7, <1>8, <1>9, <1>10 DEF Transform

LEMMA OwnReport ==
    ASSUME LocalInv, TempInv, OwnInv, NEW b \in Builds, Report(b)
    PROVE  OwnInv'
<1>1. UNCHANGED world /\ build[b].pc \notin {"idle", "ended"}
    BY DEF Report, OpenSidecar, NoSidecar, WriteSidecar, RenameSidecar, SidecarDue,
           InLink
<1>2. ASSUME AfterGives(b)
      PROVE  \/ \E code : Over(b, code)
             \/ \E pc, at, h : Goes(b, pc, at, h) /\ Plain(pc)
    BY <1>2 DEF AfterGives, Plain
<1>3. CASE OpenSidecar(b)
  <2>1. PICK h, path :
          /\ Goes(b, "sidecar", build[b].at, h) /\ Alone(b)
          /\ UNCHANGED fs \/ (path[2] = "passes" /\ Truncate(path))
      BY <1>3, OpenSidecarGives
  <2>2. Leaves(b)
      BY <2>1, LeavesWhenSame, LeavesWhenElsewhere DEF Truncate, Writes
  <2>. QED BY <1>1, <2>1, <2>2, OwnPlain DEF Plain
<1>4. CASE NoSidecar(b)
  <2>1. UNCHANGED fs /\ AfterGives(b) /\ Alone(b)
      BY <1>4, NoSidecarGives DEF NoSidecar
  <2>. QED BY <1>1, <1>2, <2>1, OwnPlain, LeavesWhenSame
<1>5. CASE WriteSidecar(b)
  <2>1. build[b].pc = "sidecar"
      BY <1>5 DEF WriteSidecar
  <2>2. PICK texts : Goes(b, "rename", build[b].at, Nowhere) /\ Alone(b) /\ Put(b, texts)
      BY <1>5, WriteSidecarGives
  <2>3. CASE build[b].handle = Nowhere
    <3>1. UNCHANGED fs
        BY <2>2, <2>3 DEF Put
    <3>. QED BY <1>1, <2>2, <3>1, OwnPlain, LeavesWhenSame DEF Plain
  <2>4. CASE build[b].handle # Nowhere
    <3>1. build[b].handle[2] = "passes"
        BY <2>1, <2>4 DEF LocalInv, Shape
    <3>2. PICK c : Writes(build[b].handle, c)
        BY <2>2, <2>4 DEF Put, Writes
    <3>3. Leaves(b)
        BY <3>1, <3>2, LeavesWhenElsewhere
    <3>. QED BY <1>1, <2>2, <3>3, OwnPlain DEF Plain
  <2>. QED BY <2>3, <2>4
<1>6. CASE RenameSidecar(b)
  <2> DEFINE path == Sidecar(build[b].req.project, Reported(b))
             tmp == SidecarTmp(build[b].req.project, Reported(b))
  <2>1. /\ AfterGives(b)
        /\ Alone(b) \/ OthersMove(b, RenameMoves(b))
      BY <1>6, RenameSidecarGives
  <2>2. \/ UNCHANGED fs
        \/ fs' = [fs EXCEPT ![path] = fs[tmp], ![tmp] = Absent]
      BY <1>6 DEF RenameSidecar
  <2>3. path[2] = "passes" /\ tmp[2] = "passes"
      BY DEF Sidecar, SidecarTmp
  <2> HIDE DEF path, tmp
  <2>4. ASSUME NEW p \in Projects, NEW d \in Dests
        PROVE  fs'[Out(p, d)] = fs[Out(p, d)]
    <3>1. Out(p, d) \in Paths /\ Out(p, d)[2] = "out"
        BY DEF Paths, Outputs, Out
    <3>2. Out(p, d) # path /\ Out(p, d) # tmp
        BY <2>3, <3>1
    <3>. QED BY <2>2, <3>1, <3>2 DEF TempInv
  <2>5. Leaves(b)
      BY <2>4 DEF Leaves
  <2>. QED BY <1>1, <1>2, <2>1, <2>5, OwnPlain
<1>. QED BY <1>3, <1>4, <1>5, <1>6 DEF Report

LEMMA NextOwn ==
    ASSUME LocalInv, TempInv, OwnInv, [Next]_vars
    PROVE  OwnInv'
<1>1. CASE UNCHANGED vars
    BY <1>1 DEF vars, OwnInv, OneByOne, OwnOutputs, Mine, Pass, Stale, Slipped
<1>2. ASSUME NEW b \in Builds, Verify(b)
      PROVE  OwnInv'
    BY <1>2, OwnVerify
<1>3. ASSUME NEW b \in Builds, Kill(b)
      PROVE  OwnInv'
  <2>1. /\ Over(b, "killed") /\ Alone(b) /\ UNCHANGED <<world, fs>>
        /\ build[b].pc \notin {"idle", "ended"}
      BY <1>3, ExitGives DEF Kill
  <2>. QED BY <2>1, OwnPlain, LeavesWhenSame
<1>4. ASSUME NEW b \in Builds, NEW i \in 1 .. 3, Transform(b, i)
      PROVE  OwnInv'
    BY <1>4, OwnTransform, OwnReport
<1>5. ASSUME NEW b \in Builds, SourcemapLink(b)
      PROVE  OwnInv'
  <2>1. CASE Report(b)
      BY <2>1, OwnReport
  <2>2. CASE Finish(b)
    <3>1. /\ build[b].pc = "pass" /\ UNCHANGED <<world, fs>>
          /\ Over(b, "0") /\ Alone(b)
        BY <2>2, ExitGives DEF Finish, InLink
    <3>. QED BY <3>1, OwnPlain, LeavesWhenSame
  <2>. QED BY <1>5, <2>1, <2>2 DEF SourcemapLink
<1>. QED BY <1>1, <1>2, <1>3, <1>4, <1>5
         DEF Next, VisibilityPass, ContainmentGuardPass, StageAssertPass

-----------------------------------------------------------------------------
(* The inductive invariant.                                                *)

IInv == LocalInv /\ TempInv /\ OwnInv

LEMMA InitBuilds == ASSUME Init PROVE IInv
<1>1. PICK r : build = [b \in Builds |-> Idle(r)]
    BY DEF Init
<1>2. \A b \in Builds : build[b] = Idle(r)
    BY <1>1
<1>3. LocalInv
  <2>1. \A b \in Builds : Sound(build[b]) /\ Shape(build[b])
      BY <1>2, IdleFields DEF Sound, Shape, Underway, PassSteps
  <2>. QED BY <1>1, <2>1 DEF LocalInv
<1>4. fs = [q \in Paths |-> Absent]
    BY DEF Init
<1>5. TempInv
    BY <1>4, Kinds DEF TempInv
<1>6. OwnInv
  <2>1. \A b \in Builds : build[b].pc = "idle"
      BY <1>2, IdleFields
  <2>2. OneByOne /\ \A b \in Builds : Mine(b)
      BY <2>1 DEF OneByOne, Mine
  <2>3. OwnOutputs
    <3>1. \A p \in Projects, d \in Dests : Out(p, d) \in Paths
        BY DEF Paths, Outputs
    <3>2. \A p \in Projects, d \in Dests : fs[Out(p, d)].kind # "rewrite"
        BY <1>4, <3>1 DEF Absent
    <3>. QED BY <3>2 DEF OwnOutputs
  <2>. QED BY <2>2, <2>3 DEF OwnInv
<1>. QED BY <1>3, <1>5, <1>6 DEF IInv

(* Whatever builds run, in whatever order their steps come, IInv holds.    *)
THEOREM Invariance == Spec => []IInv
<1>1. Init => IInv
    BY InitBuilds
<1>2. IInv /\ [Next]_vars => IInv'
    BY NextLocal, NextTemp, NextOwn DEF IInv
<1>. QED BY <1>1, <1>2, PTL DEF Spec

(* A build that printed an error stops at the gate, unless its request     *)
(* waives the checks (main.cpp:323).                                       *)
THEOREM ErrorsStopTheBuild == Spec => []PrintedErrorsFail
<1>1. IInv => PrintedErrorsFail
  <2>1. SUFFICES ASSUME LocalInv, NEW b \in Builds,
                        \/ build[b].pc \notin {"idle", "check", "ended"}
                        \/ build[b].exit = "0"
                 PROVE  \/ build[b].req.noVerify \/ build[b].req.warnOnly
                        \/ \A d \in build[b].printed : d[3] # "error"
      BY DEF PrintedErrorsFail, IInv
  <2>2. Sound(build[b])
      BY <2>1 DEF LocalInv
  <2>. QED BY <2>1, <2>2 DEF Sound, Underway, Waived, NoErrors
<1>. QED BY <1>1, Invariance, PTL

(* Builds that overlap in any way, in one project or many, leave no        *)
(* request behind once each has ended by itself (main.cpp:697), but one    *)
(* that a build could not remove.                                          *)
THEOREM NoRequestIsLeft == Spec => []RequestsAreRemoved
<1>1. IInv => RequestsAreRemoved
  <2>1. SUFFICES ASSUME LocalInv, TempInv,
                        \A b \in Builds : build[b].exit \in {"0", "1"} \/ build[b].pc = "idle",
                        NEW x \in Range(Passes)
                 PROVE  fs[Temp(x)] = Absent \/ \E b \in Builds : Slipped(b, "remove", Temp(x))
      BY DEF RequestsAreRemoved, IInv
  <2>2. ASSUME NEW b \in Builds
        PROVE  ~Holds(build[b], x) /\ ~Died(build[b])
    <3>1. build[b].exit # "none" => build[b].pc = "ended"
        BY <2>1 DEF LocalInv, Sound
    <3>. QED BY <2>1, <3>1 DEF Holds, Died, PassSteps
  <2>. QED BY <2>1, <2>2 DEF TempInv, Unremoved, Slipped
<1>. QED BY <1>1, Invariance, PTL

(* Builds one by one never use what another left in the shared directory,  *)
(* even if that one was killed in the middle of its request, except where  *)
(* they cannot open the name of the request to write their own and do not  *)
(* notice (main.cpp:547-555).                                              *)
THEOREM RewritesAreOwn == Spec => []OwnRewrites
<1>1. IInv => OwnRewrites
    BY DEF IInv, OwnInv, OwnOutputs, OwnRewrites
<1>. QED BY <1>1, Invariance, PTL

-----------------------------------------------------------------------------
(* What the files hold that builds leave: whole sidecars, sidecars that    *)
(* are true of the outputs, outputs of the passes that were forced; and    *)
(* the types of the variables.                                             *)

(* The types, and what they rest on: until the gate each check adds at     *)
(* most two to the counts, and a pass writes outputs only after its tool   *)
(* has read a request.                                                     *)
Typed(s) ==
    /\ s \in BuildState
    /\ s.errors + s.warnings <= 2 * (s.at - 1)
    /\ s.pc \in {"outputs", "output"} => s.seen.kind = "request"
    /\ s.pc = "output" => s.file \in Files

TypeInv ==
    /\ world \in Worlds
    /\ \A b \in Builds : Typed(build[b])
    /\ fs \in [Paths -> Contents]

(* What a build of its own project leaves of sidecars: between the two     *)
(* steps that write one, its temporary file is the build's own, and then   *)
(* it is whole, unless a build could not open it or write it whole.        *)
Tmp(b) == SidecarTmp(build[b].req.project, Reported(b))

Writing(b) ==
    /\ build[b].pc = "sidecar" =>
         \/ build[b].handle = Tmp(b) /\ fs[Tmp(b)] = Partial
         \/ build[b].handle = Nowhere /\ Slipped(b, "open", Tmp(b))
    /\ build[b].pc = "rename" =>
         \/ fs[Tmp(b)].kind = "sidecar"
         \/ SidecarSlipped(build[b].req.project, Reported(b))

WholeAt(p, n) ==
    fs[Sidecar(p, n)].kind \in {"absent", "sidecar"} \/ SidecarSlipped(p, n)

WholeInv ==
    OnePerProject =>
        /\ \A p \in Projects, n \in Reports : WholeAt(p, n)
        /\ \A b \in Builds : Writing(b)

(* What a pass has logged belongs to a pass already done, and a forced     *)
(* pass is logged only when it succeeded; outputs are of rewritten files.  *)
Logged(s) ==
    /\ \A x \in Range(Passes) :
         /\ (s.log[x].mode = "force") => s.log[x].ok
         /\ s.pc \in {"idle", "check"} => s.log[x].files = {}
         /\ s.log[x].files # {} => s.pc = "ended" \/ Rank(x) < s.at
    /\ s.pc \in {"check", "pass"} => s.mode # "force"
    /\ s.pc \in {"idle", "check", "pass", "request", "tool", "answer"} => s.written = {}
    /\ s.written \subseteq s.rows /\ s.todo \subseteq s.rows

LogInv == \A b \in Builds : Logged(build[b])

(* The outputs that b has written, with the rank of the pass at least.     *)
Path(b, f) == Out(build[b].req.project, world.dest[f])

Wrote(b, f, rank) ==
    \/ Slipped(b, "open", Path(b, f))
    \/ /\ fs[Path(b, f)].kind = "rewrite" /\ fs[Path(b, f)].by = b
       /\ fs[Path(b, f)].of = b \/ Slipped(b, "open", Temp(fs[Path(b, f)].pass))
       /\ Rank(fs[Path(b, f)].pass) >= rank
    \/ /\ fs[Path(b, f)] = Partial
       /\ build[b].handle = Path(b, f) \/ Slipped(b, "write", Path(b, f))

OpensOwn(b) ==
    \/ build[b].handle = Nowhere /\ Slipped(b, "open", Path(b, build[b].file))
    \/ build[b].handle = Path(b, build[b].file) /\ fs[build[b].handle] = Partial

Undisturbed(b) == build[b].exit \in {"none", "0"} /\ Newest(b)

AppliedInv ==
    ~world.overlap =>
    \A b \in Builds :
        /\ build[b].pc = "output" => OpensOwn(b)
        /\ Undisturbed(b) =>
             /\ \A x \in Range(Passes) : \A f \in build[b].log[x].files : Wrote(b, f, Rank(x))
             /\ \A f \in build[b].written : Wrote(b, f, build[b].at)

(* The sidecars of passes are true, and of no build that is still to come; *)
(* so are the files beside them, which a later build may rename.           *)
Backing(p, record) ==
    {f \in record.rows :
        LET path == Out(p, world.dest[f]) IN
        Slipped(record.by, "open", path) \/ AsRecent(path, record)}

IsTrue(p, x, record) ==
    /\ record.by \in Builds /\ record.name = x
    /\ build[record.by].pc \notin {"idle", "check"}
    /\ build[record.by].pc # "ended" => Rank(x) <= build[record.by].at
    /\ Cardinality(Backing(p, record)) >= record.count

BackedInv ==
    ~world.overlap =>
    \A p \in Projects, x \in Range(Passes) :
        \A q \in {Sidecar(p, x), SidecarTmp(p, x)} :
            fs[q].kind = "sidecar" => IsTrue(p, x, fs[q])

-----------------------------------------------------------------------------
(* Types.                                                                  *)

LEMMA PathTypes ==
    /\ \A x \in Range(Passes) : Temp(x) \in Paths
    /\ \A p \in Projects, d \in Dests : Out(p, d) \in Paths
    /\ \A p \in Projects, n \in Reports :
         Sidecar(p, n) \in Paths /\ SidecarTmp(p, n) \in Paths
    /\ \A i \in 1 .. 3 : Passes[i] \in Range(Passes)
    /\ Range(Passes) \subseteq Reports /\ Link \in Reports
BY Kinds DEF Paths, Outputs, Sidecars, Reports

LEMMA ContentTypes ==
    /\ Absent \in Contents /\ Partial \in Contents /\ Garbled \in Contents
    /\ \A b \in Builds, x \in Range(Passes) : RequestOf(b, x) \in Contents
    /\ \A b, o \in Builds, x \in Range(Passes), f \in Files :
         Rewrite(b, o, x, f) \in Contents
    /\ \A b \in Builds, n \in Reports, c \in 0 .. Cardinality(Files), r \in SUBSET Files :
         Record(b, n, c, r) \in Contents
BY DEF Contents

LEMMA RequestBuild ==
    ASSUME NEW c \in Contents, c.kind = "request"
    PROVE  c.build \in Builds
BY DEF Contents, Absent, Partial, Garbled, RequestOf, Rewrite, Record

LEMMA RecordRows ==
    ASSUME NEW c \in Contents, c.kind = "sidecar"
    PROVE  c.by \in Builds /\ c.rows \subseteq Files /\ c.count \in Nat /\ c.name \in Reports
<1>1. Cardinality(Files) \in Nat
    BY FilesAssumption, FS_CardinalityType
<1>. QED BY <1>1 DEF Contents, Absent, Partial, Garbled, RequestOf, Rewrite, Record

LEMMA WorldTypes ==
    ASSUME world \in Worlds
    PROVE  /\ world.requests \in SUBSET Request /\ world.requests # {}
           /\ \A f \in Files : world.dest[f] \in Dests
           /\ \A x \in Range(Passes) : world.modes[x] \in SUBSET Modes
BY WorldsAssumption DEF World

LEMMA Counts ==
    ASSUME NEW A \in SUBSET Files
    PROVE  Cardinality(A) \in 0 .. Cardinality(Files)
BY FilesAssumption, FS_Subset, FS_CardinalityType

LEMMA IdleTyped ==
    ASSUME NEW r \in Request
    PROVE  Typed(Idle(r)) /\ Idle(r) \in BuildState
<1>1. Idle(r) \in BuildState
  <2>1. NotRun \in [mode : Modes, ok : BOOLEAN, files : SUBSET Files]
      BY DEF NotRun, Modes
  <2>2. [x \in Range(Passes) |-> NotRun] \in
          [Range(Passes) -> [mode : Modes, ok : BOOLEAN, files : SUBSET Files]]
      BY <2>1
  <2>3. 1 \in 1 .. Len(Checks) + 1 /\ 0 \in 0 .. 2 * Len(Checks)
      BY DEF Checks
  <2>. QED BY <2>2, <2>3, ContentTypes
           DEF Idle, BuildState, Steps, Exits, Modes
<1>. QED BY <1>1 DEF Typed, Idle

LEMMA KeptTyped ==
    ASSUME NEW b \in Builds, build[b] \in BuildState
    PROVE  Kept(b) \in BuildState
<1>1. Idle(build[b].req) \in BuildState
    BY IdleTyped DEF BuildState
<1>. QED BY <1>1 DEF Kept, BuildState

LEMMA QuitsTyped ==
    ASSUME NEW b \in Builds, build[b] \in BuildState, NEW code \in Exits
    PROVE  Typed(Quits(b, code))
<1>1. Kept(b) \in BuildState /\ Kept(b).at = 1 /\ Kept(b).errors = 0 /\ Kept(b).warnings = 0
    BY KeptTyped DEF Kept, Idle
<1>2. Quits(b, code) \in BuildState
    BY <1>1 DEF Quits, BuildState, Steps
<1>3. /\ Quits(b, code).errors = 0 /\ Quits(b, code).warnings = 0
      /\ Quits(b, code).at = 1 /\ Quits(b, code).pc = "ended"
    BY <1>1 DEF Quits, BuildState
<1>. QED BY <1>2, <1>3 DEF Typed

LEMMA ProceedsTyped ==
    ASSUME NEW b \in Builds, build[b] \in BuildState, build[b].at \in 1 .. 3
    PROVE  Typed(Proceeds(b))
<1>1. Kept(b) \in BuildState /\ Kept(b).at = 1 /\ Kept(b).errors = 0 /\ Kept(b).warnings = 0
    BY KeptTyped DEF Kept, Idle
<1>2. Pass(b) \in Range(Passes)
    BY PathTypes DEF Pass
<1> DEFINE entry == [mode |-> build[b].mode, ok |-> build[b].ok, files |-> build[b].written]
<1>3. entry \in [mode : Modes, ok : BOOLEAN, files : SUBSET Files]
    BY DEF BuildState
<1>4. build[b].at + 1 \in 1 .. Len(Checks) + 1
    BY DEF Checks
<1>5. [Kept(b).log EXCEPT ![Pass(b)] = entry]
        \in [Range(Passes) -> [mode : Modes, ok : BOOLEAN, files : SUBSET Files]]
    BY <1>1, <1>2, <1>3 DEF BuildState
<1>6. Proceeds(b) = [Kept(b) EXCEPT !.pc = "pass", !.at = build[b].at + 1,
                        !.log = [Kept(b).log EXCEPT ![Pass(b)] = entry]]
    BY <1>1 DEF Proceeds, BuildState
<1> HIDE DEF entry
<1>7. Proceeds(b) \in BuildState
    BY <1>1, <1>4, <1>5, <1>6 DEF BuildState, Steps
<1>8. Proceeds(b).errors = 0 /\ Proceeds(b).warnings = 0 /\ Proceeds(b).pc = "pass"
      /\ Proceeds(b).at = build[b].at + 1
    BY <1>1, <1>6 DEF BuildState
<1>. QED BY <1>7, <1>8 DEF Typed

LEMMA TypeBecome ==
    ASSUME LocalInv, TypeInv, NEW b \in Builds, NEW s, Become(b, s), Typed(s),
           UNCHANGED world, fs' \in [Paths -> Contents]
    PROVE  TypeInv'
BY BecomeGives DEF TypeInv

(* What another process does to the name of an open file.                  *)
LEMMA TypeRename ==
    ASSUME LocalInv, TypeInv, NEW b \in Builds, NEW s, NEW moved,
           BecomeAndRename(b, s, moved), Typed(s),
           \A q \in DOMAIN moved : moved[q] \in Paths \cup {Nowhere},
           UNCHANGED world, fs' \in [Paths -> Contents]
    PROVE  TypeInv'
<1>1. ASSUME NEW c \in Builds \ {b} PROVE Typed(build'[c])
  <2>1. CASE build'[c] = build[c]
      BY <2>1 DEF TypeInv
  <2>2. CASE /\ build[c].handle \in DOMAIN moved
             /\ build'[c] = [build[c] EXCEPT !.handle = moved[build[c].handle]]
    <3>1. Typed(build[c]) /\ moved[build[c].handle] \in Paths \cup {Nowhere}
        BY <2>2 DEF TypeInv
    <3>2. build'[c] \in BuildState
        BY <2>2, <3>1 DEF Typed, BuildState
    <3>3. /\ build'[c].pc = build[c].pc /\ build'[c].seen = build[c].seen
          /\ build'[c].file = build[c].file /\ build'[c].at = build[c].at
          /\ build'[c].errors = build[c].errors /\ build'[c].warnings = build[c].warnings
        BY <2>2, <3>1 DEF Typed, BuildState
    <3>. QED BY <3>1, <3>2, <3>3 DEF Typed
  <2>3. build'[c] = IF build[c].handle \in DOMAIN moved
                    THEN [build[c] EXCEPT !.handle = moved[build[c].handle]]
                    ELSE build[c]
      BY RenameGives
  <2>. QED BY <2>1, <2>2, <2>3
<1>2. build'[b] = s
    BY RenameGives
<1>. QED BY <1>1, <1>2 DEF TypeInv

LEMMA TypeOf ==
    ASSUME TypeInv, NEW b \in Builds
    PROVE  /\ Typed(build[b]) /\ build[b] \in BuildState
           /\ build[b].at \in 1 .. 7 /\ build[b].req \in Request
           /\ build[b].req.project \in Projects
           /\ build[b].written \in SUBSET Files /\ build[b].rows \in SUBSET Files
           /\ build[b].todo \in SUBSET Files
<1>1. Typed(build[b]) /\ build[b] \in BuildState
    BY DEF TypeInv, Typed
<1>2. Len(Checks) + 1 = 7
    BY DEF Checks
<1>. QED BY <1>1, <1>2 DEF BuildState, Request

LEMMA TypeWrite ==
    ASSUME TypeInv, NEW r, NEW c \in Contents, Writes(r, c)
    PROVE  fs' \in [Paths -> Contents]
BY DEF TypeInv, Writes

LEMMA TypePut ==
    ASSUME TypeInv, NEW b \in Builds, NEW texts \in SUBSET Contents, Put(b, texts)
    PROVE  fs' \in [Paths -> Contents]
<1>1. \/ UNCHANGED fs
      \/ \E d \in texts : fs' = [fs EXCEPT ![build[b].handle] = d]
    BY DEF Put
<1>. QED BY <1>1 DEF TypeInv

LEMMA OntoTypes ==
    ASSUME NEW path, NEW text \in Contents
    PROVE  Onto(path, text) \in SUBSET Contents
BY ContentTypes DEF Onto

(* Opening and closing a file does not change what else is typed.          *)
LEMMA TypedEdit ==
    ASSUME NEW s, Typed(s), NEW h \in Paths \cup {Nowhere}, NEW slips \in SUBSET Slips
    PROVE  Typed([s EXCEPT !.handle = h, !.slips = slips])
<1> DEFINE t == [s EXCEPT !.handle = h, !.slips = slips]
<1>1. s \in BuildState
    BY DEF Typed
<1>2. t \in BuildState
    BY <1>1 DEF BuildState
<1>3. /\ t.errors = s.errors /\ t.warnings = s.warnings /\ t.at = s.at /\ t.pc = s.pc
      /\ t.seen = s.seen /\ t.file = s.file
    BY <1>1 DEF BuildState
<1> HIDE DEF t
<1>4. Typed(t)
    BY <1>2, <1>3 DEF Typed
<1>. QED BY <1>4 DEF t

LEMMA TypeOpen ==
    ASSUME LocalInv, TypeInv, NEW b \in Builds, NEW s, NEW path \in Paths,
           Open(b, s, path), Typed(s), UNCHANGED world
    PROVE  TypeInv'
<1>0. s \in BuildState
    BY DEF Typed
<1>1. s.slips \in SUBSET Slips /\ s.slips \cup {<<"open", path>>} \in SUBSET Slips
    BY <1>0 DEF BuildState, Slips
<1>2. CASE /\ Become(b, [s EXCEPT !.handle = path])
           /\ Writes(path, Partial)
  <2>1. [s EXCEPT !.handle = path] = [s EXCEPT !.handle = path, !.slips = s.slips]
      BY <1>0 DEF BuildState
  <2>2. Typed([s EXCEPT !.handle = path])
      BY <1>1, <2>1, TypedEdit
  <2>3. fs' \in [Paths -> Contents]
      BY <1>2, TypeWrite, ContentTypes
  <2>. QED BY <1>2, <2>2, <2>3, TypeBecome
<1>3. CASE /\ UNCHANGED fs
           /\ Become(b, [s EXCEPT !.handle = Nowhere,
                                   !.slips = s.slips \cup {<<"open", path>>}])
  <2>1. Typed([s EXCEPT !.handle = Nowhere, !.slips = s.slips \cup {<<"open", path>>}])
      BY <1>1, TypedEdit
  <2>. QED BY <1>3, <2>1, TypeBecome DEF TypeInv
<1>. QED BY <1>2, <1>3 DEF Open, Writes

LEMMA TypeClose ==
    ASSUME LocalInv, TypeInv, NEW b \in Builds, NEW s, NEW text \in Contents,
           Close(b, s, text), Typed(s), UNCHANGED world
    PROVE  TypeInv'
<1> DEFINE h == build[b].handle
<1>0. s \in BuildState /\ h \in Paths \cup {Nowhere}
    BY TypeOf DEF Typed, BuildState
<1>1. CASE /\ Become(b, [s EXCEPT !.handle = Nowhere])
           /\ Put(b, Onto(h, text))
  <2>1. [s EXCEPT !.handle = Nowhere] = [s EXCEPT !.handle = Nowhere, !.slips = s.slips]
      BY <1>0 DEF BuildState
  <2>2. s.slips \in SUBSET Slips
      BY <1>0 DEF BuildState
  <2>3. Typed([s EXCEPT !.handle = Nowhere])
      BY <2>1, <2>2, TypedEdit
  <2>4. fs' \in [Paths -> Contents]
      BY <1>1, TypePut, OntoTypes
  <2>. QED BY <1>1, <2>3, <2>4, TypeBecome
<1>2. CASE /\ h # Nowhere /\ Put(b, Onto(h, Partial) \cup {fs[h]})
           /\ Become(b, [s EXCEPT !.handle = Nowhere,
                                   !.slips = s.slips \cup {<<"write", h>>}])
  <2>1. s.slips \cup {<<"write", h>>} \in SUBSET Slips
      BY <1>0, <1>2 DEF BuildState, Slips
  <2>2. Typed([s EXCEPT !.handle = Nowhere, !.slips = s.slips \cup {<<"write", h>>}])
      BY <2>1, TypedEdit
  <2>3. Onto(h, Partial) \cup {fs[h]} \in SUBSET Contents
      BY <1>0, <1>2, OntoTypes, ContentTypes DEF TypeInv
  <2>4. fs' \in [Paths -> Contents]
      BY <1>2, <2>3, TypePut
  <2>. QED BY <1>2, <2>2, <2>4, TypeBecome
<1>. QED BY <1>1, <1>2 DEF Close

(* The counts of one check.                                                *)
LEMMA CountsOf ==
    ASSUME NEW check, NEW mode, NEW found \in SUBSET Severities
    PROVE  /\ Cardinality(found) \in 0 .. 2
           /\ ErrorCount(check, mode, found) \in 0 .. Cardinality(found)
<1>1. IsFiniteSet(Severities) /\ Cardinality(Severities) = 2
  <2>1. Cardinality({"warning"}) = 1 /\ IsFiniteSet({"warning"})
      BY FS_Singleton
  <2>2. /\ Cardinality({"warning"} \cup {"error"}) = 2
        /\ IsFiniteSet({"warning"} \cup {"error"})
      BY <2>1, FS_AddElement, "error" \notin {"warning"}
  <2>3. {"warning"} \cup {"error"} = Severities
      BY DEF Severities
  <2>. QED BY <2>2, <2>3
<1>2. IsFiniteSet(found) /\ Cardinality(found) \in Nat /\ Cardinality(found) <= 2
    BY <1>1, FS_Subset, FS_CardinalityType
<1>3. Cardinality(found \cap {"error"}) <= Cardinality(found)
      /\ Cardinality(found \cap {"error"}) \in Nat
  <2>1. found \cap {"error"} \subseteq found
      OBVIOUS
  <2>. QED BY <1>2, <2>1, FS_Subset, FS_CardinalityType
<1>. QED BY <1>2, <1>3 DEF ErrorCount

LEMMA TypeVerify ==
    ASSUME LocalInv, TypeInv, NEW b \in Builds, Verify(b)
    PROVE  TypeInv'
<1>1. build[b] \in BuildState /\ Typed(build[b]) /\ build[b].at \in 1 .. 7
    BY TypeOf
<1>2. CASE Start(b)
  <2>1. PICK r \in world.requests :
          Become(b, [Idle(r) EXCEPT !.pc = IF r.noVerify THEN "pass" ELSE "check"])
      BY <1>2 DEF Start
  <2>2. Typed(Idle(r)) /\ Idle(r) \in BuildState
      BY IdleTyped, WorldTypes DEF TypeInv
  <2> DEFINE s == [Idle(r) EXCEPT !.pc = IF r.noVerify THEN "pass" ELSE "check"]
  <2>3. s \in BuildState
      BY <2>2 DEF BuildState, Steps
  <2>4. /\ s.pc \in {"pass", "check"} /\ s.errors = 0 /\ s.warnings = 0 /\ s.at = 1
      BY DEF Idle
  <2>5. Typed(s)
      BY <2>3, <2>4 DEF Typed
  <2>. QED BY <1>2, <2>1, <2>5, TypeBecome DEF Start, TypeInv
<1>3. CASE Reject(b)
  <2>1. Typed(Quits(b, "1"))
      BY <1>1, QuitsTyped DEF Exits
  <2>. QED BY <1>3, <2>1, TypeBecome DEF Reject, Exit, TypeInv
<1>4. CASE Check(b)
  <2> DEFINE check == Checks[build[b].at]
  <2>1. PICK mode \in Modes, found \in SUBSET Severities :
          Become(b, [build[b] EXCEPT
                !.at = @ + 1, !.printed = @ \cup Printed(check, mode, found),
                !.errors = @ + ErrorCount(check, mode, found),
                !.warnings = @ + Cardinality(found) - ErrorCount(check, mode, found)])
      BY <1>4 DEF Check
  <2> DEFINE e == ErrorCount(check, mode, found)
             n == Cardinality(found)
             q == Printed(check, mode, found)
  <2>2. n \in 0 .. 2 /\ e \in 0 .. n
      BY CountsOf
  <2>3. q \in SUBSET (Range(Checks) \X Severities \X Severities)
    <3>1. check \in Range(Checks)
        BY <1>1, <1>4 DEF Check, Range, Checks
    <3>. QED BY <3>1 DEF Printed, Severities
  <2>4. /\ build[b].errors \in Nat /\ build[b].warnings \in Nat
        /\ build[b].printed \subseteq Range(Checks) \X Severities \X Severities
        /\ build[b].at \in 1 .. 6
        /\ build[b].errors + build[b].warnings <= 2 * (build[b].at - 1)
      BY <1>1, <1>4 DEF BuildState, Check, Typed, Checks
  <2> DEFINE s == [build[b] EXCEPT !.at = @ + 1, !.printed = @ \cup q,
                     !.errors = @ + e, !.warnings = @ + n - e]
  <2>5. Become(b, s)
      BY <2>1
  <2> HIDE DEF check, e, n, q
  <2>6. s \in BuildState
    <3>1. /\ build[b].errors + e \in 0 .. 2 * Len(Checks)
          /\ build[b].warnings + n - e \in 0 .. 2 * Len(Checks)
          /\ build[b].at + 1 \in 1 .. Len(Checks) + 1
        BY <2>2, <2>4 DEF Checks
    <3>2. build[b].printed \cup q \in SUBSET (Range(Checks) \X Severities \X Severities)
        BY <2>3, <2>4
    <3>. QED BY <1>1, <3>1, <3>2 DEF BuildState
  <2>7. Typed(s)
    <3>1. /\ s.pc = "check" /\ s.at = build[b].at + 1
          /\ s.errors = build[b].errors + e /\ s.warnings = build[b].warnings + n - e
        BY <1>1, <1>4 DEF Check, BuildState
    <3>2. s.errors + s.warnings <= 2 * (s.at - 1)
        BY <2>2, <2>4, <3>1
    <3>. QED BY <2>6, <3>1, <3>2 DEF Typed
  <2> HIDE DEF s
  <2>. QED BY <1>4, <2>5, <2>7, TypeBecome DEF Check, TypeInv
<1>5. CASE Gate(b)
  <2>1. Typed(Quits(b, "1"))
      BY <1>1, QuitsTyped DEF Exits
  <2>2. Typed([Kept(b) EXCEPT !.pc = "pass"])
    <3> DEFINE s == [Kept(b) EXCEPT !.pc = "pass"]
    <3>0. Kept(b) \in BuildState
        BY <1>1, KeptTyped
    <3>1. s \in BuildState
        BY <3>0 DEF BuildState, Steps
    <3>2. s.pc = "pass" /\ s.errors = 0 /\ s.warnings = 0 /\ s.at = 1
        BY DEF Kept, Idle
    <3>. QED BY <3>1, <3>2 DEF Typed
  <2>. QED BY <1>5, <2>1, <2>2, TypeBecome DEF Gate, Exit, TypeInv
<1>. QED BY <1>2, <1>3, <1>4, <1>5 DEF Verify

LEMMA TypeTransform ==
    ASSUME LocalInv, TypeInv, NEW b \in Builds, NEW i \in 1 .. 3, Transform(b, i),
           ~Report(b)
    PROVE  TypeInv'
<1>1. /\ build[b] \in BuildState /\ Typed(build[b]) /\ build[b].at \in 1 .. 3
      /\ build[b].req.project \in Projects
    BY TypeOf DEF Transform
<1>2. Pass(b) \in Range(Passes) /\ Temp(Pass(b)) \in Paths
    BY <1>1, PathTypes DEF Pass
<1>3. world.modes[Pass(b)] \subseteq Modes
    BY <1>2, WorldTypes DEF TypeInv
<1>4. Typed(Proceeds(b)) /\ \A code \in Exits : Typed(Quits(b, code))
    BY <1>1, ProceedsTyped, QuitsTyped
<1>5. CASE Skip(b) \/ Refuse(b) \/ Abort(b)
    BY <1>4, <1>5, TypeBecome DEF Skip, Refuse, Abort, Exit, Exits, TypeInv
<1>6. CASE OpenRequest(b)
  <2>1. PICK mode \in Modes :
          Open(b, [build[b] EXCEPT !.pc = "request", !.mode = mode], Temp(Pass(b)))
      BY <1>3, <1>6 DEF OpenRequest
  <2> DEFINE s == [build[b] EXCEPT !.pc = "request", !.mode = mode]
  <2>2. s \in BuildState
      BY <1>1, <1>2 DEF BuildState, Steps
  <2>3. s.pc = "request" /\ s.errors = build[b].errors /\ s.at = build[b].at
        /\ s.warnings = build[b].warnings
      BY <1>1 DEF BuildState
  <2>4. Typed(s)
      BY <1>1, <2>2, <2>3 DEF Typed
  <2>5. UNCHANGED world
      BY <1>6 DEF OpenRequest
  <2>. QED BY <1>2, <2>1, <2>4, <2>5, TypeOpen
<1>7. CASE WriteRequest(b)
  <2> DEFINE s == [build[b] EXCEPT !.pc = "tool"]
  <2>1. s \in BuildState
      BY <1>1 DEF BuildState, Steps
  <2>2. s.pc = "tool" /\ s.errors = build[b].errors /\ s.at = build[b].at
        /\ s.warnings = build[b].warnings
      BY <1>1 DEF BuildState
  <2>3. Typed(s)
      BY <1>1, <2>1, <2>2 DEF Typed
  <2>4. RequestOf(b, Pass(b)) \in Contents
      BY <1>2, ContentTypes
  <2>5. Close(b, s, RequestOf(b, Pass(b))) /\ UNCHANGED world
      BY <1>7 DEF WriteRequest
  <2>. QED BY <2>3, <2>4, <2>5, TypeClose
<1>8. CASE ToolReads(b)
  <2> DEFINE s == [build[b] EXCEPT !.pc = "answer", !.seen = fs[Temp(Pass(b))]]
  <2>1. fs[Temp(Pass(b))] \in Contents
      BY <1>2 DEF TypeInv
  <2>2. s \in BuildState
      BY <1>1, <2>1 DEF BuildState, Steps
  <2>3. s.pc = "answer" /\ s.errors = build[b].errors /\ s.at = build[b].at
        /\ s.warnings = build[b].warnings
      BY <1>1 DEF BuildState
  <2>4. Typed(s)
      BY <1>1, <2>2, <2>3 DEF Typed
  <2>. QED BY <1>8, <2>4, TypeBecome DEF ToolReads, TypeInv
<1>9. CASE ToolFails(b)
  <2> DEFINE s == [build[b] EXCEPT !.pc = "remove", !.seen = Absent]
  <2>1. s \in BuildState
      BY <1>1, ContentTypes DEF BuildState, Steps
  <2>2. s.pc = "remove" /\ s.errors = build[b].errors /\ s.at = build[b].at
        /\ s.warnings = build[b].warnings
      BY <1>1 DEF BuildState
  <2>3. Typed(s)
      BY <1>1, <2>1, <2>2 DEF Typed
  <2>. QED BY <1>9, <2>3, TypeBecome DEF ToolFails, TypeInv
<1>10. CASE ToolSucceeds(b)
  <2> DEFINE targets == Targets(Pass(b), build[build[b].seen.build].req.decl)
  <2>1. PICK rows \in SUBSET targets : \E blank \in SUBSET rows :
          Become(b, [build[b] EXCEPT !.pc = "outputs", !.ok = TRUE,
                                     !.rows = rows, !.todo = rows \ blank])
      BY <1>10 DEF ToolSucceeds
  <2>2. PICK blank \in SUBSET rows :
          Become(b, [build[b] EXCEPT !.pc = "outputs", !.ok = TRUE,
                                     !.rows = rows, !.todo = rows \ blank])
      BY <2>1
  <2>3. rows \subseteq Files
    <3>1. build[b].seen \in Contents /\ build[b].seen.kind = "request"
        BY <1>1, <1>10 DEF BuildState, ToolSucceeds
    <3>2. build[build[b].seen.build].req \in Request
        BY <3>1, RequestBuild, TypeOf
    <3>3. build[build[b].seen.build].req.decl.host \subseteq [file : Files, name : Names]
        BY <3>2 DEF Request, Declarations
    <3>4. targets \subseteq Files
        BY <3>3 DEF Targets
    <3>. QED BY <3>4
  <2> DEFINE s == [build[b] EXCEPT !.pc = "outputs", !.ok = TRUE,
                                   !.rows = rows, !.todo = rows \ blank]
  <2>4. s \in BuildState
      BY <1>1, <2>3 DEF BuildState, Steps
  <2>5. s.pc = "outputs" /\ s.errors = build[b].errors /\ s.at = build[b].at
        /\ s.warnings = build[b].warnings /\ s.seen = build[b].seen
      BY <1>1 DEF BuildState
  <2>6. Typed(s)
      BY <1>1, <1>10, <2>4, <2>5 DEF Typed, ToolSucceeds
  <2>. QED BY <1>10, <2>2, <2>6, TypeBecome DEF ToolSucceeds, TypeInv
<1>11. CASE OpenOutput(b)
  <2>1. PICK f \in build[b].todo :
          Open(b, [build[b] EXCEPT
                !.pc = "output", !.todo = @ \ {f}, !.written = @ \cup {f}, !.file = f],
               Out(build[b].req.project, world.dest[f]))
      BY <1>11 DEF OpenOutput
  <2> DEFINE path == Out(build[b].req.project, world.dest[f])
             s == [build[b] EXCEPT !.pc = "output", !.todo = @ \ {f},
                     !.written = @ \cup {f}, !.file = f]
  <2>2. f \in Files
      BY <1>1 DEF BuildState
  <2>3. path \in Paths
      BY <1>1, <2>2, PathTypes, WorldTypes DEF TypeInv
  <2>4. s \in BuildState
      BY <1>1, <2>2 DEF BuildState, Steps
  <2>5. s.pc = "output" /\ s.errors = build[b].errors /\ s.at = build[b].at
        /\ s.warnings = build[b].warnings /\ s.seen = build[b].seen /\ s.file = f
      BY <1>1 DEF BuildState
  <2>6. Typed(s)
      BY <1>1, <1>11, <2>2, <2>4, <2>5 DEF Typed, OpenOutput
  <2>7. Open(b, s, path) /\ UNCHANGED world
      BY <1>11, <2>1 DEF OpenOutput
  <2> HIDE DEF s, path
  <2>. QED BY <2>3, <2>6, <2>7, TypeOpen
<1>12. CASE WriteOutput(b)
  <2> DEFINE s == [build[b] EXCEPT !.pc = "outputs", !.file = NoFile]
  <2>1. s \in BuildState
      BY <1>1 DEF BuildState, Steps
  <2>2. s.pc = "outputs" /\ s.errors = build[b].errors /\ s.at = build[b].at
        /\ s.warnings = build[b].warnings /\ s.seen = build[b].seen
      BY <1>1 DEF BuildState
  <2>3. Typed(s)
      BY <1>1, <1>12, <2>1, <2>2 DEF Typed, WriteOutput
  <2>4. build[b].seen.build \in Builds /\ build[b].file \in Files
      BY <1>1, <1>12, RequestBuild DEF Typed, BuildState, WriteOutput
  <2>5. Rewrite(b, build[b].seen.build, Pass(b), build[b].file) \in Contents
      BY <1>2, <2>4, ContentTypes
  <2>6. /\ Close(b, s, Rewrite(b, build[b].seen.build, Pass(b), build[b].file))
        /\ UNCHANGED world
      BY <1>12 DEF WriteOutput
  <2> HIDE DEF s
  <2>. QED BY <2>3, <2>5, <2>6, TypeClose
<1>13. CASE RemoveRequest(b)
  <2> DEFINE moved == [q \in {Temp(Pass(b))} |-> Nowhere]
             s == IF build[b].mode = "force" /\ ~build[b].ok THEN Quits(b, "1") ELSE Proceeds(b)
             slip == <<"remove", Temp(Pass(b))>>
  <2>1. Typed(s)
      BY <1>4 DEF Exits
  <2>2. /\ UNCHANGED world
        /\ \/ BecomeAndRename(b, s, moved) /\ Writes(Temp(Pass(b)), Absent)
           \/ Become(b, [s EXCEPT !.slips = @ \cup {slip}]) /\ UNCHANGED fs
      BY <1>13 DEF RemoveRequest, Unlink, Writes
  <2>3. \A q \in DOMAIN moved : moved[q] \in Paths \cup {Nowhere}
      OBVIOUS
  <2>4. slip \in Slips
      BY <1>2 DEF Slips
  <2> HIDE DEF s, moved, slip
  <2>5. s \in BuildState /\ s.slips \cup {slip} \in SUBSET Slips
      BY <2>1, <2>4 DEF Typed, BuildState
  <2>6. CASE BecomeAndRename(b, s, moved) /\ Writes(Temp(Pass(b)), Absent)
      BY <2>1, <2>2, <2>3, <2>6, TypeRename, TypeWrite, ContentTypes
  <2>7. CASE Become(b, [s EXCEPT !.slips = @ \cup {slip}]) /\ UNCHANGED fs
    <3>1. [s EXCEPT !.slips = @ \cup {slip}]
            = [s EXCEPT !.handle = s.handle, !.slips = s.slips \cup {slip}]
        BY <2>5 DEF BuildState
    <3>2. s.handle \in Paths \cup {Nowhere}
        BY <2>5 DEF BuildState
    <3>3. Typed([s EXCEPT !.slips = @ \cup {slip}])
        BY <2>1, <2>5, <3>1, <3>2, TypedEdit
    <3>. QED BY <2>2, <2>7, <3>3, TypeBecome DEF TypeInv
  <2>. QED BY <2>2, <2>6, <2>7
<1>. QED BY <1>5, <1>6, <1>7, <1>8, <1>9, <1>10, <1>11, <1>12, <1>13 DEF Transform

LEMMA TypeReport ==
    ASSUME LocalInv, TypeInv, NEW b \in Builds, Report(b), build[b].at \in 1 .. 4
    PROVE  TypeInv'
<1>1. /\ build[b] \in BuildState /\ Typed(build[b]) /\ build[b].req.project \in Projects
      /\ build[b].written \subseteq Files /\ build[b].rows \subseteq Files
    BY TypeOf
<1>2. Reported(b) \in Reports
    BY PathTypes DEF Reported, Pass, Passes
<1> DEFINE path == Sidecar(build[b].req.project, Reported(b))
           tmp == SidecarTmp(build[b].req.project, Reported(b))
<1>3. path \in Paths /\ tmp \in Paths
    BY <1>1, <1>2, PathTypes
<1>4. Typed(AfterSidecar(b))
  <2>1. CASE build[b].at <= Len(Passes)
    <3> DEFINE s == [build[b] EXCEPT !.pc = "remove", !.handle = Nowhere]
    <3>1. s \in BuildState
        BY <1>1 DEF BuildState, Steps
    <3>2. s.pc = "remove" /\ s.errors = build[b].errors /\ s.at = build[b].at
          /\ s.warnings = build[b].warnings
        BY <1>1 DEF BuildState
    <3>3. Typed(s)
        BY <1>1, <3>1, <3>2 DEF Typed
    <3>. QED BY <2>1, <3>3 DEF AfterSidecar
  <2>2. CASE ~(build[b].at <= Len(Passes))
      BY <1>1, <2>2, QuitsTyped DEF AfterSidecar, Exits
  <2>. QED BY <2>1, <2>2
<1>5. CASE OpenSidecar(b)
  <2> DEFINE s == [build[b] EXCEPT !.pc = "sidecar"]
  <2>1. s \in BuildState
      BY <1>1 DEF BuildState, Steps
  <2>2. s.pc = "sidecar" /\ s.errors = build[b].errors /\ s.at = build[b].at
        /\ s.warnings = build[b].warnings
      BY <1>1 DEF BuildState
  <2>3. Typed(s)
      BY <1>1, <2>1, <2>2 DEF Typed
  <2>4. Open(b, s, tmp) /\ UNCHANGED world
      BY <1>5 DEF OpenSidecar
  <2> HIDE DEF s, tmp
  <2>. QED BY <1>3, <2>3, <2>4, TypeOpen
<1>6. CASE NoSidecar(b)
    BY <1>4, <1>6, TypeBecome DEF NoSidecar, TypeInv
<1>7. CASE WriteSidecar(b)
  <2> DEFINE s == [build[b] EXCEPT !.pc = "rename"]
  <2>1. s \in BuildState
      BY <1>1 DEF BuildState, Steps
  <2>2. s.pc = "rename" /\ s.errors = build[b].errors /\ s.at = build[b].at
        /\ s.warnings = build[b].warnings
      BY <1>1 DEF BuildState
  <2>3. Typed(s)
      BY <1>1, <2>1, <2>2 DEF Typed
  <2>4. PICK linked \in 0 .. 1 :
          Close(b, s, Record(b, Reported(b),
              IF Reported(b) = Link THEN linked ELSE Cardinality(build[b].written),
              build[b].rows))
      BY <1>7 DEF WriteSidecar
  <2>5. /\ linked \in 0 .. Cardinality(Files)
        /\ Cardinality(build[b].written) \in 0 .. Cardinality(Files)
    <3>1. Cardinality(Files) \in Nat /\ Cardinality(Files) # 0
        BY FilesAssumption, FS_CardinalityType, FS_EmptySet
    <3>. QED BY <1>1, <3>1, Counts
  <2>6. Record(b, Reported(b),
              IF Reported(b) = Link THEN linked ELSE Cardinality(build[b].written),
              build[b].rows) \in Contents
      BY <1>1, <1>2, <2>5, ContentTypes
  <2>7. UNCHANGED world
      BY <1>7 DEF WriteSidecar
  <2> HIDE DEF s
  <2>. QED BY <2>3, <2>4, <2>6, <2>7, TypeClose
<1>8. CASE RenameSidecar(b)
  <2> DEFINE moved == [q \in {tmp, path} |-> IF q = tmp THEN path ELSE Nowhere]
  <2>1. CASE UNCHANGED fs /\ Become(b, AfterSidecar(b))
      BY <1>4, <1>8, <2>1, TypeBecome DEF RenameSidecar, TypeInv
  <2>2. CASE /\ fs' = [fs EXCEPT ![path] = fs[tmp], ![tmp] = Absent]
             /\ BecomeAndRename(b, AfterSidecar(b), moved)
    <3>1. \A q \in DOMAIN moved : moved[q] \in Paths \cup {Nowhere}
        BY <1>3
    <3>2. fs' \in [Paths -> Contents]
      <4> HIDE DEF path, tmp
      <4>. QED BY <1>3, <2>2, ContentTypes DEF TypeInv
    <3>3. UNCHANGED world
        BY <1>8 DEF RenameSidecar
    <3> HIDE DEF moved
    <3>. QED BY <1>4, <2>2, <3>1, <3>2, <3>3, TypeRename
  <2>. QED BY <1>8, <2>1, <2>2 DEF RenameSidecar
<1>. QED BY <1>5, <1>6, <1>7, <1>8 DEF Report

LEMMA ReportAt ==
    ASSUME LocalInv, NEW b \in Builds, Report(b)
    PROVE  build[b].at \in 1 .. 4
BY ShapeAt DEF Report, OpenSidecar, NoSidecar, WriteSidecar, RenameSidecar, SidecarDue,
               InLink, PassSteps

LEMMA NextTypes ==
    ASSUME LocalInv, TypeInv, [Next]_vars
    PROVE  TypeInv'
<1>1. CASE UNCHANGED vars
    BY <1>1 DEF vars, TypeInv
<1>2. ASSUME NEW b \in Builds, Kill(b) \/ Finish(b)
      PROVE  TypeInv'
    BY <1>2, TypeOf, QuitsTyped, TypeBecome DEF Kill, Finish, Exit, Exits, TypeInv
<1>3. ASSUME NEW b \in Builds, NEW i \in 1 .. 3, Transform(b, i)
      PROVE  TypeInv'
    BY <1>3, TypeTransform, TypeReport, ReportAt
<1>4. ASSUME NEW b \in Builds, SourcemapLink(b)
      PROVE  TypeInv'
    BY <1>2, <1>4, TypeReport, ReportAt DEF SourcemapLink
<1>. QED BY <1>1, <1>2, <1>3, <1>4, TypeVerify
         DEF Next, VisibilityPass, ContainmentGuardPass, StageAssertPass

LEMMA InitTypes == ASSUME Init PROVE TypeInv
<1> DEFINE r == CHOOSE r \in world.requests : TRUE
<1>1. r \in Request
    BY WorldTypes DEF Init
<1>2. \A b \in Builds : build[b] = Idle(r)
    BY DEF Init
<1> HIDE DEF r
<1>3. fs \in [Paths -> Contents]
    BY ContentTypes DEF Init
<1>. QED BY <1>1, <1>2, <1>3, IdleTyped DEF Init, TypeInv

-----------------------------------------------------------------------------
(* What is logged.                                                         *)

LEMMA Ranks ==
    /\ \A i \in 1 .. 3 : Rank(Passes[i]) = i
    /\ \A x \in Range(Passes) : Rank(x) \in 1 .. 3 /\ Passes[Rank(x)] = x
<1>1. DOMAIN Passes = 1 .. 3
    BY DEF Passes
<1>2. \A i, j \in 1 .. 3 : Passes[i] = Passes[j] => i = j
    BY DEF Passes
<1>3. ASSUME NEW i \in 1 .. 3 PROVE Rank(Passes[i]) = i
  <2>1. \E j \in DOMAIN Passes : Passes[j] = Passes[i]
      BY <1>1
  <2>2. Rank(Passes[i]) \in DOMAIN Passes /\ Passes[Rank(Passes[i])] = Passes[i]
      BY <2>1 DEF Rank
  <2>. QED BY <1>1, <1>2, <2>2
<1>4. \A x \in Range(Passes) : \E i \in 1 .. 3 : x = Passes[i]
    BY <1>1 DEF Range
<1>. QED BY <1>3, <1>4

LEMMA LogBecome ==
    ASSUME LocalInv, LogInv, NEW b \in Builds, NEW s, Become(b, s), Logged(s)
    PROVE  LogInv'
BY BecomeGives DEF LogInv

LEMMA LogRename ==
    ASSUME LocalInv, TypeInv, LogInv, NEW b \in Builds, NEW s, NEW moved,
           BecomeAndRename(b, s, moved), Logged(s)
    PROVE  LogInv'
<1>1. ASSUME NEW c \in Builds \ {b} PROVE Logged(build'[c])
  <2>1. build[c] \in BuildState /\ Logged(build[c])
      BY TypeOf DEF LogInv
  <2>2. build'[c] = IF build[c].handle \in DOMAIN moved
                    THEN [build[c] EXCEPT !.handle = moved[build[c].handle]]
                    ELSE build[c]
      BY RenameGives
  <2>3. /\ build'[c].pc = build[c].pc /\ build'[c].log = build[c].log
        /\ build'[c].at = build[c].at /\ build'[c].mode = build[c].mode
        /\ build'[c].written = build[c].written /\ build'[c].rows = build[c].rows
        /\ build'[c].todo = build[c].todo
      BY <2>1, <2>2 DEF BuildState
  <2>. QED BY <2>1, <2>3 DEF Logged
<1>2. build'[b] = s
    BY RenameGives
<1>. QED BY <1>1, <1>2 DEF LogInv

LEMMA LogQuits ==
    ASSUME TypeInv, LogInv, NEW b \in Builds, NEW code
    PROVE  Logged(Quits(b, code))
<1>1. Logged(build[b])
    BY DEF LogInv
<1>2. /\ Quits(b, code).log = build[b].log /\ Quits(b, code).pc = "ended"
      /\ Quits(b, code).written = {} /\ Quits(b, code).todo = {}
    BY DEF Quits, Kept, Idle
<1>. QED BY <1>1, <1>2 DEF Logged

LEMMA LogProceeds ==
    ASSUME TypeInv, LogInv, NEW b \in Builds, build[b].at \in 1 .. 3,
           build[b].pc \notin {"idle", "check", "ended"},
           (build[b].mode = "force") => build[b].ok
    PROVE  Logged(Proceeds(b))
<1>1. Logged(build[b]) /\ build[b] \in BuildState
    BY TypeOf DEF LogInv
<1> DEFINE entry == [mode |-> build[b].mode, ok |-> build[b].ok, files |-> build[b].written]
<1>2. Kept(b) \in BuildState /\ Kept(b).log = build[b].log /\ Kept(b).mode = "off"
      /\ Kept(b).written = {} /\ Kept(b).todo = {}
    BY <1>1, KeptTyped DEF Kept, Idle
<1>3. /\ Proceeds(b).pc = "pass" /\ Proceeds(b).mode = "off"
      /\ Proceeds(b).written = {} /\ Proceeds(b).todo = {}
      /\ Proceeds(b).at = build[b].at + 1
      /\ Proceeds(b).log = [build[b].log EXCEPT ![Pass(b)] = entry]
    BY <1>2 DEF Proceeds, BuildState
<1>4. entry.mode = build[b].mode /\ entry.ok = build[b].ok
    OBVIOUS
<1>5. Pass(b) \in Range(Passes) /\ Rank(Pass(b)) = build[b].at
    BY PathTypes, Ranks DEF Pass
<1> HIDE DEF entry
<1>6. ASSUME NEW x \in Range(Passes)
      PROVE  /\ (Proceeds(b).log[x].mode = "force") => Proceeds(b).log[x].ok
             /\ Proceeds(b).log[x].files # {} => Rank(x) < Proceeds(b).at
  <2>1. build[b].log \in [Range(Passes) -> [mode : Modes, ok : BOOLEAN, files : SUBSET Files]]
      BY <1>1 DEF BuildState
  <2>2. Proceeds(b).log[x] = IF x = Pass(b) THEN entry ELSE build[b].log[x]
      BY <1>3, <2>1
  <2>3. CASE x = Pass(b)
      BY <1>3, <1>4, <1>5, <2>2, <2>3
  <2>4. CASE x # Pass(b)
    <3>1. build[b].log[x].files # {} => Rank(x) < build[b].at
        BY <1>1 DEF Logged
    <3>2. (build[b].log[x].mode = "force") => build[b].log[x].ok
        BY <1>1 DEF Logged
    <3>. QED BY <1>3, <2>2, <2>4, <3>1, <3>2, Ranks
  <2>. QED BY <2>3, <2>4
<1>. QED BY <1>3, <1>6 DEF Logged

LEMMA LogVerify ==
    ASSUME LocalInv, TypeInv, LogInv, NEW b \in Builds, Verify(b)
    PROVE  LogInv'
<1>1. Logged(build[b]) /\ build[b] \in BuildState
    BY TypeOf DEF LogInv
<1>2. CASE Start(b)
  <2>1. PICK r \in world.requests :
          Become(b, [Idle(r) EXCEPT !.pc = IF r.noVerify THEN "pass" ELSE "check"])
      BY <1>2 DEF Start
  <2>2. Logged([Idle(r) EXCEPT !.pc = IF r.noVerify THEN "pass" ELSE "check"])
      BY DEF Idle, Logged, NotRun
  <2>. QED BY <2>1, <2>2, LogBecome
<1>3. CASE Reject(b)
    BY <1>3, LogQuits, LogBecome DEF Reject, Exit
<1>4. CASE Check(b)
  <2>1. PICK at, printed, errors, warnings :
          Become(b, [build[b] EXCEPT !.at = at, !.printed = printed,
                       !.errors = errors, !.warnings = warnings])
      BY <1>4 DEF Check
  <2>2. build[b].pc = "check"
      BY <1>4 DEF Check
  <2> DEFINE s == [build[b] EXCEPT !.at = at, !.printed = printed,
                     !.errors = errors, !.warnings = warnings]
  <2>3. /\ s.pc = "check" /\ s.log = build[b].log /\ s.mode = build[b].mode
        /\ s.written = build[b].written /\ s.todo = build[b].todo /\ s.rows = build[b].rows
      BY <1>1, <2>2 DEF BuildState
  <2>4. Logged(s)
      BY <1>1, <2>2, <2>3 DEF Logged
  <2>. QED BY <2>1, <2>4, LogBecome
<1>5. CASE Gate(b)
  <2>1. build[b].pc = "check"
      BY <1>5 DEF Gate
  <2> DEFINE s == [Kept(b) EXCEPT !.pc = "pass"]
  <2>2. /\ s.pc = "pass" /\ s.log = build[b].log /\ s.mode = "off"
        /\ s.written = {} /\ s.todo = {} /\ s.rows = {}
      BY DEF Kept, Idle
  <2>3. Logged(s)
      BY <1>1, <2>1, <2>2 DEF Logged
  <2>. QED BY <1>5, <2>3, LogQuits, LogBecome DEF Gate, Exit
<1>. QED BY <1>2, <1>3, <1>4, <1>5 DEF Verify

(* The steps within a pass leave the log alone.                            *)
LEMMA LogSame ==
    ASSUME LocalInv, LogInv, NEW b \in Builds, NEW s, Become(b, s),
           s.log = build[b].log, s.at = build[b].at,
           build[b].pc \notin {"idle", "check", "ended"},
           s.pc \notin {"idle", "check", "pass"},
           s.pc \in {"request", "tool", "answer"} => s.written = {},
           s.written \subseteq s.rows, s.todo \subseteq s.rows
    PROVE  LogInv'
<1>1. Logged(build[b])
    BY DEF LogInv
<1>2. Logged(s)
    BY <1>1 DEF Logged
<1>. QED BY <1>2, LogBecome

(* So does opening or closing a file, whether it fails or not.             *)
LEMMA FileStep ==
    ASSUME LocalInv, NEW b \in Builds, NEW s \in BuildState,
           \/ \E path : Open(b, s, path)
           \/ \E text : Close(b, s, text)
    PROVE  /\ \E h, e : Become(b, [s EXCEPT !.handle = h, !.slips = e])
           /\ build'[b].pc = s.pc /\ build'[b].log = s.log /\ build'[b].at = s.at
           /\ build'[b].written = s.written /\ build'[b].file = s.file
<1>1. \E h, e : Become(b, [s EXCEPT !.handle = h, !.slips = e])
  <2>1. ASSUME NEW h PROVE [s EXCEPT !.handle = h] = [s EXCEPT !.handle = h, !.slips = s.slips]
      BY DEF BuildState
  <2>. QED BY <2>1 DEF Open, Close
<1>2. PICK h, e : Become(b, [s EXCEPT !.handle = h, !.slips = e])
    BY <1>1
<1>3. build'[b] = [s EXCEPT !.handle = h, !.slips = e]
    BY <1>2, BecomeGives
<1>. QED BY <1>2, <1>3 DEF BuildState

LEMMA LogFile ==
    ASSUME LocalInv, LogInv, NEW b \in Builds, NEW s \in BuildState,
           \/ \E path : Open(b, s, path)
           \/ \E text : Close(b, s, text),
           s.log = build[b].log, s.at = build[b].at,
           build[b].pc \notin {"idle", "check", "ended"},
           s.pc \notin {"idle", "check", "pass"},
           s.pc \in {"request", "tool", "answer"} => s.written = {},
           s.written \subseteq s.rows, s.todo \subseteq s.rows
    PROVE  LogInv'
<1>2. PICK h, e : Become(b, [s EXCEPT !.handle = h, !.slips = e])
    BY FileStep
<1> DEFINE u == [s EXCEPT !.handle = h, !.slips = e]
<1>3. /\ u.pc = s.pc /\ u.log = s.log /\ u.at = s.at /\ u.written = s.written
      /\ u.rows = s.rows /\ u.todo = s.todo
    BY DEF BuildState
<1>4. Become(b, u)
    BY <1>2
<1> HIDE DEF u
<1>. QED BY <1>3, <1>4, LogSame

LEMMA LogTransform ==
    ASSUME LocalInv, TypeInv, LogInv, NEW b \in Builds, NEW i \in 1 .. 3,
           Transform(b, i), ~Report(b)
    PROVE  LogInv'
<1>1. /\ build[b] \in BuildState /\ Logged(build[b]) /\ build[b].at \in 1 .. 3
      /\ build[b].written \subseteq build[b].rows /\ build[b].todo \subseteq build[b].rows
      /\ build[b].pc \in {"pass", "request", "tool", "answer"} => build[b].written = {}
    BY TypeOf DEF Transform, LogInv, Logged
<1>2. CASE Skip(b) \/ Refuse(b)
  <2>1. build[b].pc = "pass" /\ build[b].mode # "force"
      BY <1>1, <1>2 DEF Skip, Refuse, InPasses, Logged
  <2>2. Logged(Proceeds(b))
      BY <1>1, <2>1, LogProceeds
  <2>. QED BY <1>2, <2>2, LogQuits, LogBecome DEF Skip, Refuse, Exit
<1>3. CASE Abort(b)
    BY <1>3, LogQuits, LogBecome DEF Abort, Exit
<1>4. CASE OpenRequest(b)
  <2>5. world.modes[Pass(b)] \subseteq Modes
      BY <1>1, PathTypes, WorldTypes DEF Pass, TypeInv
  <2>1. PICK mode \in Modes :
          Open(b, [build[b] EXCEPT !.pc = "request", !.mode = mode], Temp(Pass(b)))
      BY <1>4, <2>5 DEF OpenRequest
  <2>2. build[b].pc = "pass"
      BY <1>4 DEF OpenRequest, InPasses
  <2> DEFINE s == [build[b] EXCEPT !.pc = "request", !.mode = mode]
  <2>3. /\ s.pc = "request" /\ s.log = build[b].log /\ s.at = build[b].at
        /\ s.written = build[b].written /\ s.todo = build[b].todo /\ s.rows = build[b].rows
        /\ s \in BuildState
      BY <1>1 DEF BuildState, Steps
  <2> HIDE DEF s
  <2>4. Open(b, s, Temp(Pass(b)))
      BY <2>1 DEF s
  <2>. QED BY <1>1, <2>2, <2>3, <2>4, LogFile
<1>5. CASE WriteRequest(b)
  <2> DEFINE s == [build[b] EXCEPT !.pc = "tool"]
  <2>1. Close(b, s, RequestOf(b, Pass(b))) /\ build[b].pc = "request"
      BY <1>5 DEF WriteRequest
  <2>2. /\ s.pc = "tool" /\ s.log = build[b].log /\ s.at = build[b].at
        /\ s.written = build[b].written /\ s.todo = build[b].todo /\ s.rows = build[b].rows
        /\ s \in BuildState
      BY <1>1 DEF BuildState, Steps
  <2> HIDE DEF s
  <2>. QED BY <1>1, <2>1, <2>2, LogFile
<1>6. CASE ToolReads(b)
  <2> DEFINE s == [build[b] EXCEPT !.pc = "answer", !.seen = fs[Temp(Pass(b))]]
  <2>1. Become(b, s) /\ build[b].pc = "tool"
      BY <1>6 DEF ToolReads
  <2>2. /\ s.pc = "answer" /\ s.log = build[b].log /\ s.at = build[b].at
        /\ s.written = build[b].written /\ s.todo = build[b].todo /\ s.rows = build[b].rows
      BY <1>1 DEF BuildState
  <2> HIDE DEF s
  <2>. QED BY <1>1, <2>1, <2>2, LogSame
<1>7. CASE ToolFails(b)
  <2> DEFINE s == [build[b] EXCEPT !.pc = "remove", !.seen = Absent]
  <2>1. Become(b, s) /\ build[b].pc = "answer"
      BY <1>7 DEF ToolFails
  <2>2. /\ s.pc = "remove" /\ s.log = build[b].log /\ s.at = build[b].at
        /\ s.written = build[b].written /\ s.todo = build[b].todo /\ s.rows = build[b].rows
      BY <1>1 DEF BuildState
  <2> HIDE DEF s
  <2>. QED BY <1>1, <2>1, <2>2, LogSame
<1>8. CASE ToolSucceeds(b)
  <2>1. PICK rows, blank :
          Become(b, [build[b] EXCEPT !.pc = "outputs", !.ok = TRUE,
                                     !.rows = rows, !.todo = rows \ blank])
      BY <1>8 DEF ToolSucceeds
  <2> DEFINE s == [build[b] EXCEPT !.pc = "outputs", !.ok = TRUE,
                                   !.rows = rows, !.todo = rows \ blank]
  <2>2. Become(b, s) /\ build[b].pc = "answer"
      BY <1>8, <2>1 DEF ToolSucceeds
  <2>3. /\ s.pc = "outputs" /\ s.log = build[b].log /\ s.at = build[b].at
        /\ s.written = build[b].written /\ s.todo \subseteq s.rows
      BY <1>1 DEF BuildState
  <2> HIDE DEF s
  <2>. QED BY <1>1, <2>2, <2>3, LogSame
<1>9. CASE OpenOutput(b)
  <2>1. PICK f \in build[b].todo : \E path :
          Open(b, [build[b] EXCEPT !.pc = "output", !.todo = @ \ {f},
                     !.written = @ \cup {f}, !.file = f], path)
      BY <1>9 DEF OpenOutput
  <2> DEFINE s == [build[b] EXCEPT !.pc = "output", !.todo = @ \ {f},
                     !.written = @ \cup {f}, !.file = f]
  <2>2. PICK path : Open(b, s, path)
      BY <2>1
  <2>3. build[b].pc = "outputs"
      BY <1>9 DEF OpenOutput
  <2>4. f \in Files
      BY <1>1 DEF BuildState
  <2>5. /\ s.pc = "output" /\ s.log = build[b].log /\ s.at = build[b].at
        /\ s.written = build[b].written \cup {f} /\ s.rows = build[b].rows
        /\ s.todo = build[b].todo \ {f}
      BY <1>1 DEF BuildState
  <2>6. s \in BuildState
      BY <1>1, <2>4 DEF BuildState, Steps
  <2> HIDE DEF s
  <2>. QED BY <1>1, <2>1, <2>2, <2>3, <2>5, <2>6, LogFile
<1>10. CASE WriteOutput(b)
  <2> DEFINE s == [build[b] EXCEPT !.pc = "outputs", !.file = NoFile]
  <2>1. build[b].pc = "output" /\ \E text : Close(b, s, text)
      BY <1>10 DEF WriteOutput
  <2>2. /\ s.pc = "outputs" /\ s.log = build[b].log /\ s.at = build[b].at
        /\ s.written = build[b].written /\ s.todo = build[b].todo /\ s.rows = build[b].rows
        /\ s \in BuildState
      BY <1>1 DEF BuildState, Steps
  <2> HIDE DEF s
  <2>. QED BY <1>1, <2>1, <2>2, LogFile
<1>11. CASE RemoveRequest(b)
  <2> DEFINE s == IF build[b].mode = "force" /\ ~build[b].ok THEN Quits(b, "1") ELSE Proceeds(b)
  <2>1. Unlink(b, s) /\ build[b].pc = "remove"
      BY <1>11 DEF RemoveRequest
  <2>2. Logged(s)
      BY <1>1, <2>1, LogQuits, LogProceeds
  <2>3. s \in BuildState
      BY <1>1, <2>1, QuitsTyped, ProceedsTyped DEF Typed, Exits
  <2>4. ASSUME NEW e PROVE Logged([s EXCEPT !.slips = e])
    <3> DEFINE u == [s EXCEPT !.slips = e]
    <3>1. /\ u.pc = s.pc /\ u.log = s.log /\ u.at = s.at /\ u.written = s.written
          /\ u.rows = s.rows /\ u.todo = s.todo /\ u.mode = s.mode
        BY <2>3 DEF BuildState
    <3> HIDE DEF u, s
    <3>2. Logged(u)
        BY <2>2, <3>1 DEF Logged
    <3>. QED BY <3>2 DEF u
  <2> HIDE DEF s
  <2>5. \/ BecomeAndRename(b, s, [q \in {Temp(Pass(b))} |-> Nowhere])
        \/ Become(b, [s EXCEPT !.slips = s.slips \cup {<<"remove", Temp(Pass(b))>>}])
      BY <2>1 DEF Unlink
  <2>. QED BY <2>2, <2>4, <2>5, LogRename, LogBecome
<1>. QED BY <1>2, <1>3, <1>4, <1>5, <1>6, <1>7, <1>8, <1>9, <1>10, <1>11 DEF Transform

LEMMA LogReport ==
    ASSUME LocalInv, TypeInv, LogInv, NEW b \in Builds, Report(b)
    PROVE  LogInv'
<1>1. /\ build[b] \in BuildState /\ Logged(build[b])
      /\ build[b].written \subseteq build[b].rows /\ build[b].todo \subseteq build[b].rows
      /\ build[b].pc \in {"outputs", "pass", "sidecar", "rename"}
    BY TypeOf DEF LogInv, Logged, Report, OpenSidecar, NoSidecar, WriteSidecar, RenameSidecar,
                  SidecarDue, InLink
<1>2. Logged(AfterSidecar(b))
  <2>1. CASE build[b].at <= Len(Passes)
    <3> DEFINE s == [build[b] EXCEPT !.pc = "remove", !.handle = Nowhere]
    <3>1. /\ s.pc = "remove" /\ s.log = build[b].log /\ s.at = build[b].at
          /\ s.written = build[b].written /\ s.todo = build[b].todo /\ s.rows = build[b].rows
        BY <1>1 DEF BuildState
    <3>2. Logged(s)
        BY <1>1, <3>1 DEF Logged
    <3>. QED BY <2>1, <3>2 DEF AfterSidecar
  <2>2. CASE ~(build[b].at <= Len(Passes))
      BY <2>2, LogQuits DEF AfterSidecar
  <2>. QED BY <2>1, <2>2
<1>3. CASE OpenSidecar(b)
  <2> DEFINE s == [build[b] EXCEPT !.pc = "sidecar"]
  <2>1. \E path : Open(b, s, path)
      BY <1>3 DEF OpenSidecar
  <2>2. /\ s.pc = "sidecar" /\ s.log = build[b].log /\ s.at = build[b].at
        /\ s.written = build[b].written /\ s.todo = build[b].todo /\ s.rows = build[b].rows
        /\ s \in BuildState
      BY <1>1 DEF BuildState, Steps
  <2> HIDE DEF s
  <2>. QED BY <1>1, <2>1, <2>2, LogFile
<1>4. CASE WriteSidecar(b)
  <2> DEFINE s == [build[b] EXCEPT !.pc = "rename"]
  <2>1. \E text : Close(b, s, text)
      BY <1>4 DEF WriteSidecar
  <2>2. /\ s.pc = "rename" /\ s.log = build[b].log /\ s.at = build[b].at
        /\ s.written = build[b].written /\ s.todo = build[b].todo /\ s.rows = build[b].rows
        /\ s \in BuildState
      BY <1>1 DEF BuildState, Steps
  <2> HIDE DEF s
  <2>. QED BY <1>1, <2>1, <2>2, LogFile
<1>5. CASE NoSidecar(b) \/ RenameSidecar(b)
  <2>1. Become(b, AfterSidecar(b)) \/ \E moved : BecomeAndRename(b, AfterSidecar(b), moved)
      BY <1>5 DEF NoSidecar, RenameSidecar
  <2>. QED BY <1>2, <2>1, LogBecome, LogRename
<1>. QED BY <1>3, <1>4, <1>5 DEF Report

LEMMA NextLog ==
    ASSUME LocalInv, TypeInv, LogInv, [Next]_vars
    PROVE  LogInv'
<1>1. CASE UNCHANGED vars
    BY <1>1 DEF vars, LogInv
<1>2. ASSUME NEW b \in Builds, Kill(b) \/ Finish(b)
      PROVE  LogInv'
    BY <1>2, LogQuits, LogBecome DEF Kill, Finish, Exit
<1>3. ASSUME NEW b \in Builds, NEW i \in 1 .. 3, Transform(b, i)
      PROVE  LogInv'
    BY <1>3, LogTransform, LogReport
<1>4. ASSUME NEW b \in Builds, SourcemapLink(b)
      PROVE  LogInv'
    BY <1>2, <1>4, LogReport DEF SourcemapLink
<1>. QED BY <1>1, <1>2, <1>3, <1>4, LogVerify
         DEF Next, VisibilityPass, ContainmentGuardPass, StageAssertPass

LEMMA InitLog == ASSUME Init PROVE LogInv
<1>1. PICK r : \A b \in Builds : build[b] = Idle(r)
    BY DEF Init
<1>2. Logged(Idle(r))
    BY DEF Idle, Logged, NotRun
<1>. QED BY <1>1, <1>2 DEF LogInv

-----------------------------------------------------------------------------
(* One step is one process's; where builds do not overlap the others stand *)
(* still, with no file open.                                               *)

Acts(b) ==
    /\ UNCHANGED world /\ Grows(b)
    /\ build[b].pc # "ended" /\ build'[b].pc # "idle"
    /\ build[b].pc # "idle" => build'[b].req = build[b].req
    /\ build[b].pc = "idle" /\ ~world.overlap => \A c \in 1 .. b - 1 : build[c].pc = "ended"
    /\ \/ Alone(b)
       \/ build[b].pc = "rename" /\ OthersMove(b, RenameMoves(b))
       \/ build[b].at \in 1 .. 3 /\ OthersMove(b, RemoveMoves(b))

LEMMA VerifyActs ==
    ASSUME LocalInv, NEW b \in Builds, Verify(b)
    PROVE  Acts(b) /\ UNCHANGED fs /\ build'[b].pc \in {"check", "pass", "ended"}
<1>1. UNCHANGED <<world, fs>> /\ Grows(b)
    BY VerifyGrows DEF Verify, Start, Reject, Check, Gate
<1>2. PICK s : Become(b, s)
    BY DEF Verify, Start, Reject, Check, Gate, Exit
<1>3. Alone(b) /\ build'[b] = s
    BY <1>2, BecomeGives DEF Alone
<1>4. CASE Start(b) \/ Reject(b)
  <2>1. build'[b].pc \in {"check", "pass", "ended"}
    <3>1. CASE Start(b)
      <4>1. PICK r : Become(b, [Idle(r) EXCEPT
                              !.pc = IF r.noVerify THEN "pass" ELSE "check"])
          BY <3>1 DEF Start
      <4>2. build'[b] = [Idle(r) EXCEPT !.pc = IF r.noVerify THEN "pass" ELSE "check"]
          BY <4>1, BecomeGives
      <4>. QED BY <4>2, IdleFields DEF Fields
    <3>2. CASE Reject(b)
        BY <3>2, ExitGives DEF Reject, Over
    <3>. QED BY <1>4, <3>1, <3>2
  <2>2. /\ build[b].pc = "idle"
        /\ ~world.overlap => \A c \in 1 .. b - 1 : build[c].pc = "ended"
      BY <1>4 DEF Start, Reject, MayStart, Ended
  <2>. QED BY <1>1, <1>3, <2>1, <2>2 DEF Acts
<1>5. CASE Check(b) \/ Gate(b)
  <2>1. build[b].pc = "check" /\ DOMAIN build[b] = Fields
      BY <1>5, Closed DEF Check, Gate
  <2>2. build'[b].pc \in {"check", "pass", "ended"} /\ build'[b].req = build[b].req
    <3>1. CASE Check(b)
      <4>1. PICK at, printed, errors, warnings :
              Become(b, [build[b] EXCEPT !.at = at, !.printed = printed,
                           !.errors = errors, !.warnings = warnings])
          BY <3>1 DEF Check
      <4>2. build'[b] = [build[b] EXCEPT !.at = at, !.printed = printed,
                           !.errors = errors, !.warnings = warnings]
          BY <4>1, BecomeGives
      <4>. QED BY <2>1, <4>2 DEF Fields
    <3>2. CASE Become(b, [Kept(b) EXCEPT !.pc = "pass"])
      <4>1. build'[b] = [Kept(b) EXCEPT !.pc = "pass"]
          BY <3>2, BecomeGives
      <4>. QED BY <4>1, KeptFields DEF Fields
    <3>3. CASE Exit(b, "1")
        BY <3>3, ExitGives DEF Over
    <3>. QED BY <1>5, <3>1, <3>2, <3>3 DEF Gate
  <2>. QED BY <1>1, <1>3, <2>1, <2>2 DEF Acts
<1>. QED BY <1>4, <1>5 DEF Verify

LEMMA EndActs ==
    ASSUME LocalInv, NEW b \in Builds, Kill(b) \/ Finish(b) \/ Abort(b)
    PROVE  /\ Acts(b) /\ UNCHANGED fs /\ build'[b].pc = "ended"
           /\ build[b].pc \notin {"idle", "ended"}
<1>1. /\ UNCHANGED <<world, fs>> /\ build[b].pc \notin {"idle", "ended"}
      /\ \E code : Exit(b, code)
    BY DEF Kill, Finish, Abort, InLink
<1>. QED BY <1>1, ExitGives DEF Over, Acts

LEMMA TransformActs ==
    ASSUME LocalInv, NEW b \in Builds, NEW i \in 1 .. 3, Transform(b, i), ~Report(b)
    PROVE  /\ Acts(b) /\ build[b].pc \notin {"idle", "ended"}
           /\ build'[b].pc \notin {"sidecar", "rename"}
<1>1. build[b].at \in 1 .. 3 /\ Grows(b)
    BY TransformGrows DEF Transform
<1> USE <1>1
<1>2. CASE Skip(b) \/ Refuse(b)
  <2>1. build[b].pc = "pass" /\ UNCHANGED world
      BY <1>2 DEF Skip, Refuse, InPasses
  <2>. QED BY <1>2, <2>1, SkipGives, RefuseGives DEF Goes, Over, Acts
<1>3. CASE OpenRequest(b)
  <2>1. build[b].pc = "pass" /\ UNCHANGED world
      BY <1>3 DEF OpenRequest, InPasses
  <2>. QED BY <1>3, <2>1, OpenRequestGives DEF Goes, Acts
<1>4. CASE WriteRequest(b)
  <2>1. build[b].pc = "request" /\ UNCHANGED world
      BY <1>4 DEF WriteRequest
  <2>. QED BY <1>4, <2>1, WriteRequestGives DEF Goes, Acts
<1>5. CASE Abort(b)
    BY <1>5, EndActs
<1>6. CASE ToolReads(b) \/ ToolFails(b) \/ ToolSucceeds(b)
  <2>1. build[b].pc \in {"tool", "answer"} /\ UNCHANGED world
      BY <1>6 DEF ToolReads, ToolFails, ToolSucceeds
  <2>. QED BY <1>6, <2>1, ToolReadsGives, ToolFailsGives, ToolSucceedsGives DEF Goes, Acts
<1>7. CASE OpenOutput(b)
  <2>1. build[b].pc = "outputs" /\ UNCHANGED world
      BY <1>7 DEF OpenOutput
  <2>2. Alone(b) /\ build'[b].pc = "output" /\ build'[b].req = build[b].req
      BY <1>7, OpenOutputGives DEF Goes
  <2>. QED BY <2>1, <2>2 DEF Acts
<1>8. CASE WriteOutput(b)
  <2>1. build[b].pc = "output" /\ UNCHANGED world
      BY <1>8 DEF WriteOutput
  <2>. QED BY <1>8, <2>1, WriteOutputGives DEF Goes, Acts
<1>9. CASE RemoveRequest(b)
  <2>1. build[b].pc = "remove" /\ UNCHANGED world
      BY <1>9 DEF RemoveRequest
  <2>. QED BY <1>1, <1>9, <2>1, RemoveRequestGives DEF Goes, Over, Acts
<1>. QED BY <1>2, <1>3, <1>4, <1>5, <1>6, <1>7, <1>8, <1>9 DEF Transform

LEMMA ReportActs ==
    ASSUME LocalInv, NEW b \in Builds, Report(b)
    PROVE  Acts(b) /\ build[b].pc \notin {"idle", "ended"}
<1>1. /\ build[b].pc \in {"outputs", "pass", "sidecar", "rename"} /\ UNCHANGED world
      /\ Grows(b)
    BY ReportGrows DEF Report, OpenSidecar, NoSidecar, WriteSidecar, RenameSidecar, SidecarDue,
                       InLink
<1>2. ASSUME AfterGives(b)
      PROVE  build'[b].pc # "idle" /\ build'[b].req = build[b].req
    BY <1>2 DEF AfterGives, Goes, Over
<1>3. CASE OpenSidecar(b)
  <2>1. PICK h : Goes(b, "sidecar", build[b].at, h) /\ Alone(b)
      BY <1>3, OpenSidecarGives
  <2>. QED BY <1>1, <2>1 DEF Goes, Acts
<1>4. CASE NoSidecar(b)
    BY <1>1, <1>2, <1>4, NoSidecarGives DEF Acts
<1>5. CASE WriteSidecar(b)
    BY <1>1, <1>5, WriteSidecarGives DEF Goes, Acts
<1>6. CASE RenameSidecar(b)
  <2>1. build[b].pc = "rename"
      BY <1>6 DEF RenameSidecar
  <2>. QED BY <1>1, <1>2, <1>6, <2>1, RenameSidecarGives DEF Acts
<1>. QED BY <1>3, <1>4, <1>5, <1>6 DEF Report

LEMMA SidecarPaths ==
    ASSUME NEW p, NEW n
    PROVE  /\ Sidecar(p, n)[1] = p /\ Sidecar(p, n)[2] = "passes" /\ Sidecar(p, n)[3] = n
           /\ SidecarTmp(p, n)[1] = p /\ SidecarTmp(p, n)[2] = "passes"
           /\ SidecarTmp(p, n)[3] = n
           /\ \A q, m : SidecarTmp(p, n) # Sidecar(q, m)
           /\ Sidecar(p, n) # Nowhere /\ SidecarTmp(p, n) # Nowhere
<1>1. \A q, m : DOMAIN Sidecar(q, m) = 1 .. 3 /\ DOMAIN SidecarTmp(q, m) = 1 .. 4
    BY DEF Sidecar, SidecarTmp
<1>2. DOMAIN Nowhere = {}
    BY DEF Nowhere
<1>. QED BY <1>1, <1>2 DEF Sidecar, SidecarTmp

(* What a rename of files does to the names others have open.              *)
LEMMA MovedNames ==
    ASSUME NEW b
    PROVE  /\ \A h \in DOMAIN RenameMoves(b) :
                h # Nowhere /\ h[1] = build[b].req.project /\ h[2] = "passes"
           /\ build[b].at \in 1 .. 3 =>
                \A h \in DOMAIN RemoveMoves(b) : h # Nowhere /\ h[2] \notin {"out", "passes"}
<1>1. \A h \in DOMAIN RenameMoves(b) :
        h # Nowhere /\ h[1] = build[b].req.project /\ h[2] = "passes"
    BY SidecarPaths DEF RenameMoves
<1>2. ASSUME build[b].at \in 1 .. 3, NEW h \in DOMAIN RemoveMoves(b)
      PROVE  h # Nowhere /\ h[2] \notin {"out", "passes"}
  <2>1. h = Temp(Pass(b)) /\ Pass(b) \in Range(Passes)
      BY <1>2, PathTypes DEF RemoveMoves, Pass
  <2>. QED BY <2>1, Kinds
<1>. QED BY <1>1, <1>2

LEMMA OneActs ==
    ASSUME LocalInv, OwnInv, ~world.overlap, NEW b \in Builds, Acts(b),
           NEW c \in Builds \ {b}
    PROVE  /\ build'[c] = build[c] /\ build[c].handle = Nowhere
           /\ build[c].pc \in {"idle", "ended"} /\ (c > b => build[c].pc = "idle")
<1>1. b \in Nat /\ c \in Nat /\ b >= 1 /\ c >= 1
    BY MaxBuildAssumption DEF Builds
<1>2. OneByOne
    BY DEF OwnInv
<1>3. c > b => build[c].pc = "idle"
    BY <1>1, <1>2 DEF OneByOne, Acts
<1>4. c < b => build[c].pc = "ended"
    BY <1>1, <1>2 DEF OneByOne, Acts
<1>5. build[c].pc \in {"idle", "ended"}
    BY <1>1, <1>3, <1>4
<1>6. build[c].handle = Nowhere
    BY <1>5, Closed
<1>7. build'[c] = build[c]
    BY <1>6, MovedNames DEF Acts, Alone, OthersMove
<1>. QED BY <1>3, <1>5, <1>6, <1>7

(* What has failed is not forgotten by any step.                           *)
LEMMA SlipsStay ==
    ASSUME LocalInv, NEW b \in Builds, Acts(b)
    PROVE  /\ \A c \in Builds : \A op, path : Slipped(c, op, path) => NowSlipped(c, op, path)
           /\ \A p, n : SidecarSlipped(p, n) => SidecarSlipped(p, n)'
<1>1. ASSUME NEW c \in Builds PROVE build[c].slips \subseteq build'[c].slips
    BY OthersStay DEF Acts, Grows
<1>2. \A c \in Builds : \A op, path : Slipped(c, op, path) => NowSlipped(c, op, path)
    BY <1>1 DEF Slipped, NowSlipped
<1>. QED BY <1>1, <1>2 DEF SidecarSlipped, Slipped

(* Closing a file writes it, if it is open.                                *)
LEMMA PutWrites ==
    ASSUME NEW b, NEW texts, Put(b, texts)
    PROVE  /\ build[b].handle = Nowhere => UNCHANGED fs
           /\ build[b].handle # Nowhere => \E c \in texts : Writes(build[b].handle, c)
BY DEF Put, Writes

LEMMA ClosePuts ==
    ASSUME NEW b, NEW s, NEW text, Close(b, s, text)
    PROVE  \E texts : Put(b, texts)
BY DEF Close

-----------------------------------------------------------------------------
(* Sidecars are whole.                                                     *)

LEMMA WholeKeeps ==
    ASSUME LocalInv, TypeInv, OwnInv, WholeInv, NEW b \in Builds, Acts(b),
           build'[b].req.project \in Projects,
           OnePerProject =>
             \A p \in Projects, n \in Reports : p # build'[b].req.project =>
               /\ fs'[Sidecar(p, n)] = fs[Sidecar(p, n)]
               /\ fs'[SidecarTmp(p, n)] = fs[SidecarTmp(p, n)],
           OnePerProject /\ OnePerProject' =>
             /\ Writing(b)'
             /\ \A p \in Projects, n \in Reports :
                  p = build'[b].req.project => WholeAt(p, n)'
    PROVE  WholeInv'
<1> SUFFICES ASSUME OnePerProject'
             PROVE  /\ \A p \in Projects, n \in Reports : WholeAt(p, n)'
                    /\ \A c \in Builds : Writing(c)'
    BY DEF WholeInv
<1>1. ASSUME NEW c \in Builds \ {b}
      PROVE  build'[c].pc = build[c].pc /\ build'[c].req = build[c].req
    BY OthersStay DEF Acts
<1>2. OnePerProject
  <2>1. SUFFICES ASSUME NEW c \in Builds, NEW d \in Builds, c # d,
                        build[c].pc # "idle", build[d].pc # "idle", world.overlap
                 PROVE  build[c].req.project # build[d].req.project
      BY DEF OnePerProject
  <2>2. \A e \in {c, d} : build'[e].pc # "idle" /\ build'[e].req = build[e].req
      BY <1>1, <2>1 DEF Acts
  <2>3. world' = world
      BY DEF Acts
  <2>. QED BY <2>1, <2>2, <2>3 DEF OnePerProject
<1>3. ASSUME NEW p \in Projects, NEW n \in Reports
      PROVE  WholeAt(p, n)'
  <2>1. WholeAt(p, n)
      BY <1>2 DEF WholeInv
  <2>2. CASE p # build'[b].req.project
      BY <1>2, <2>1, <2>2, SlipsStay DEF WholeAt
  <2>. QED BY <1>2, <2>2
<1>4. ASSUME NEW c \in Builds \ {b}, build'[c].pc \in {"sidecar", "rename"}
      PROVE  Writing(c)'
  <2>1. build[c].pc \in {"sidecar", "rename"} /\ Writing(c)
      BY <1>1, <1>2, <1>4 DEF WholeInv
  <2>2. world.overlap
      BY <2>1, OneActs
  <2>3. build'[b].req.project # build[c].req.project
      BY <1>1, <1>4, <2>2 DEF OnePerProject, Acts
  <2>4. Reported(c) \in Reports
    <3>1. build[c].at \in 1 .. 4
        BY <2>1, ShapeAt
    <3>. QED BY <3>1, PathTypes DEF Reported, Pass, Passes
  <2>5. fs'[Tmp(c)] = fs[Tmp(c)]
      BY <1>2, <2>3, <2>4, TypeOf DEF Tmp
  <2>6. build'[c] = build[c]
    <3>1. build[c].handle = Nowhere \/ build[c].handle = Tmp(c)
        BY <2>1, Closed DEF Writing
    <3>2. Tmp(c)[1] = build[c].req.project /\ Tmp(c)[2] = "passes"
        BY SidecarPaths DEF Tmp
    <3>3. ASSUME OthersMove(b, RenameMoves(b)), build[b].pc = "rename" PROVE build'[c] = build[c]
      <4>1. build[b].req.project # build[c].req.project
          BY <2>3, <3>3 DEF Acts
      <4>2. build[c].handle \notin DOMAIN RenameMoves(b)
          BY <3>1, <3>2, <4>1, MovedNames
      <4>. QED BY <3>3, <4>2 DEF OthersMove
    <3>4. ASSUME OthersMove(b, RemoveMoves(b)), build[b].at \in 1 .. 3
          PROVE  build'[c] = build[c]
      <4>1. build[c].handle \notin DOMAIN RemoveMoves(b)
          BY <3>1, <3>2, <3>4, MovedNames
      <4>. QED BY <3>4, <4>1 DEF OthersMove
    <3>. QED BY <3>3, <3>4 DEF Acts, Alone
  <2>7. Tmp(c)' = Tmp(c) /\ Reported(c)' = Reported(c)
      BY <2>6 DEF Tmp, Reported, Pass
  <2>8. build'[c].pc = "sidecar" =>
          \/ build'[c].handle = Tmp(c)' /\ fs'[Tmp(c)'] = Partial
          \/ build'[c].handle = Nowhere /\ Slipped(c, "open", Tmp(c))'
      BY <2>1, <2>5, <2>6, <2>7 DEF Writing, Slipped
  <2>9. build'[c].pc = "rename" =>
          \/ fs'[Tmp(c)'].kind = "sidecar"
          \/ SidecarSlipped(build[c].req.project, Reported(c))'
    <3>1. PICK p, n : p = build[c].req.project /\ n = Reported(c)
        OBVIOUS
    <3>2. SidecarSlipped(p, n) => SidecarSlipped(p, n)'
        BY SlipsStay
    <3>3. SidecarSlipped(p, n)' => SidecarSlipped(build[c].req.project, Reported(c))'
        BY <2>6, <2>7, <3>1
    <3>4. build[c].pc = "rename" => fs[Tmp(c)].kind = "sidecar" \/ SidecarSlipped(p, n)
        BY <2>1, <3>1 DEF Writing
    <3>. QED BY <2>5, <2>6, <2>7, <3>2, <3>3, <3>4
  <2>. QED BY <2>8, <2>9 DEF Writing
<1>5. ASSUME NEW c \in Builds PROVE Writing(c)'
  <2>1. CASE c = b
      BY <1>2, <2>1
  <2>2. CASE c # b /\ build'[c].pc \in {"sidecar", "rename"}
      BY <1>4, <2>2
  <2>3. CASE build'[c].pc \notin {"sidecar", "rename"}
      BY <2>3 DEF Writing
  <2>. QED BY <2>1, <2>2, <2>3
<1>. QED BY <1>3, <1>5

LEMMA WholeElsewhere ==
    ASSUME LocalInv, TypeInv, OwnInv, WholeInv, NEW b \in Builds, Acts(b),
           build'[b].req.project \in Projects,
           build'[b].pc \notin {"sidecar", "rename"},
           \A p \in Projects, n \in Reports :
             /\ fs'[Sidecar(p, n)] = fs[Sidecar(p, n)]
             /\ fs'[SidecarTmp(p, n)] = fs[SidecarTmp(p, n)]
    PROVE  WholeInv'
<1>1. Writing(b)'
    BY DEF Writing
<1>2. OnePerProject => \A p \in Projects, n \in Reports : WholeAt(p, n)'
    BY SlipsStay DEF WholeInv, WholeAt
<1>. QED BY <1>1, <1>2, WholeKeeps

(* A step of a transform writes at most one file, and no sidecar.          *)
LEMMA TransformFiles ==
    ASSUME LocalInv, NEW b \in Builds, NEW i \in 1 .. 3, Transform(b, i), ~Report(b)
    PROVE  UNCHANGED fs \/ \E r, c : Writes(r, c) /\ r[2] # "passes"
<1>1. Temp(Pass(b))[2] # "passes"
  <2>1. Pass(b) \in Range(Passes)
      BY PathTypes DEF Transform, Pass
  <2>2. Temp(Pass(b))[2] = Pass(b)
      BY DEF Temp
  <2>. QED BY <2>1, <2>2, Kinds
<1>2. CASE Skip(b) \/ Refuse(b) \/ Abort(b) \/ ToolReads(b) \/ ToolFails(b) \/ ToolSucceeds(b)
    BY <1>2 DEF Skip, Refuse, Abort, ToolReads, ToolFails, ToolSucceeds
<1>3. CASE OpenRequest(b)
    BY <1>1, <1>3, OpenRequestGives DEF Truncate, Writes
<1>4. CASE OpenOutput(b)
  <2>1. ASSUME NEW d, Truncate(Out(build[b].req.project, d))
        PROVE  \E r, c : Writes(r, c) /\ r[2] # "passes"
    <3>1. Out(build[b].req.project, d)[2] = "out"
        BY DEF Out
    <3>. QED BY <2>1, <3>1 DEF Truncate, Writes
  <2>. QED BY <1>4, <2>1, OpenOutputGives
<1>5. CASE WriteRequest(b) \/ WriteOutput(b)
  <2>1. build[b].pc \in {"request", "output"} /\ \E texts : Put(b, texts)
      BY <1>5, ClosePuts DEF WriteRequest, WriteOutput
  <2>2. build[b].handle = Nowhere \/ build[b].handle[2] # "passes"
    <3>1. Shape(build[b])
        BY DEF LocalInv
    <3>. QED BY <1>1, <2>1, <3>1 DEF Shape, Pass
  <2>. QED BY <2>1, <2>2, PutWrites
<1>6. CASE RemoveRequest(b)
    BY <1>1, <1>6, RemoveRequestGives DEF Writes
<1>. QED BY <1>2, <1>3, <1>4, <1>5, <1>6 DEF Transform

LEMMA WriteStays ==
    ASSUME TypeInv, NEW q \in Paths, NEW r, NEW c, r # q, Writes(r, c)
    PROVE  fs'[q] = fs[q]
BY DEF TypeInv, Writes

LEMMA WriteThere ==
    ASSUME TypeInv, NEW r \in Paths, NEW c, Writes(r, c)
    PROVE  fs'[r] = c
BY DEF TypeInv, Writes

LEMMA WholeTransform ==
    ASSUME LocalInv, TypeInv, OwnInv, WholeInv, NEW b \in Builds, NEW i \in 1 .. 3,
           Transform(b, i), ~Report(b)
    PROVE  WholeInv'
<1>1. /\ Acts(b) /\ build[b].pc \notin {"idle", "ended"}
      /\ build'[b].pc \notin {"sidecar", "rename"}
    BY TransformActs
<1>2. build'[b].req.project \in Projects
    BY <1>1, TypeOf DEF Acts
<1>3. ASSUME NEW p \in Projects, NEW n \in Reports
      PROVE  /\ fs'[Sidecar(p, n)] = fs[Sidecar(p, n)]
             /\ fs'[SidecarTmp(p, n)] = fs[SidecarTmp(p, n)]
  <2>1. Sidecar(p, n) \in Paths /\ SidecarTmp(p, n) \in Paths
      BY PathTypes
  <2>2. Sidecar(p, n)[2] = "passes" /\ SidecarTmp(p, n)[2] = "passes"
      BY SidecarPaths
  <2>3. CASE UNCHANGED fs
      BY <2>3
  <2>4. ASSUME NEW r, NEW c, Writes(r, c), r[2] # "passes"
        PROVE  /\ fs'[Sidecar(p, n)] = fs[Sidecar(p, n)]
               /\ fs'[SidecarTmp(p, n)] = fs[SidecarTmp(p, n)]
      BY <2>1, <2>2, <2>4, WriteStays
  <2>. QED BY <2>3, <2>4, TransformFiles
<1>. QED BY <1>1, <1>2, <1>3, WholeElsewhere

(* A step that reports is about the sidecar of the build's own project.    *)
LEMMA ReportPaths ==
    ASSUME LocalInv, TypeInv, NEW b \in Builds, Report(b)
    PROVE  /\ Reported(b) \in Reports /\ build[b].req.project \in Projects
           /\ Tmp(b) = SidecarTmp(build[b].req.project, Reported(b)) /\ Tmp(b) \in Paths
           /\ Sidecar(build[b].req.project, Reported(b)) \in Paths
           /\ \A p \in Projects, n \in Reports :
                /\ Sidecar(p, n) # Tmp(b)
                /\ p # build[b].req.project => SidecarTmp(p, n) # Tmp(b)
                /\ p # build[b].req.project \/ n # Reported(b) =>
                     Sidecar(p, n) # Sidecar(build[b].req.project, Reported(b))
                /\ SidecarTmp(p, n) # Sidecar(build[b].req.project, Reported(b))
<1>1. Reported(b) \in Reports /\ build[b].req.project \in Projects
  <2>1. build[b].at \in 1 .. 4
      BY ReportAt
  <2>. QED BY <2>1, PathTypes, TypeOf DEF Reported, Pass, Passes
<1>2. Tmp(b) = SidecarTmp(build[b].req.project, Reported(b))
    BY DEF Tmp
<1>. QED BY <1>1, <1>2, PathTypes, SidecarPaths

LEMMA WholeReport ==
    ASSUME LocalInv, TypeInv, OwnInv, WholeInv, NEW b \in Builds, Report(b)
    PROVE  WholeInv'
<1>1. /\ Acts(b) /\ build[b].pc \notin {"idle", "ended"} /\ build'[b].req = build[b].req
      /\ \A p, n : SidecarSlipped(p, n) => SidecarSlipped(p, n)'
    BY ReportActs, SlipsStay DEF Acts
<1>2. Reported(b) \in Reports /\ build[b].req.project \in Projects /\ Tmp(b) \in Paths
    BY ReportPaths
<1>3. PICK project \in Projects, name \in Reports :
        project = build[b].req.project /\ name = Reported(b)
    BY <1>2
<1> DEFINE path == Sidecar(project, name)
           tmp == SidecarTmp(project, name)
<1>4. /\ Tmp(b) = tmp /\ path \in Paths /\ tmp \in Paths /\ path # tmp
      /\ \A p \in Projects, n \in Reports :
           /\ Sidecar(p, n) \in Paths /\ SidecarTmp(p, n) \in Paths
           /\ Sidecar(p, n) # tmp /\ SidecarTmp(p, n) # path
           /\ p # project => SidecarTmp(p, n) # tmp
           /\ p # project \/ n # name => Sidecar(p, n) # path
      /\ tmp # Nowhere
    BY <1>2, <1>3, ReportPaths, PathTypes, SidecarPaths
<1>5. OnePerProject => /\ \A p \in Projects, n \in Reports : WholeAt(p, n)
                       /\ Writing(b)
    BY DEF WholeInv
<1> HIDE DEF path, tmp
<1>6. build'[b].at = build[b].at => Tmp(b)' = tmp /\ Reported(b)' = name
    BY <1>1, <1>3, <1>4 DEF Tmp, Reported, Pass
(* Where the sidecars are as before, and so are the other projects'        *)
(* temporary files.                                                        *)
<1>7. ASSUME UNCHANGED fs \/ \E c : Writes(tmp, c), OnePerProject,
             OnePerProject' => Writing(b)'
      PROVE  WholeInv'
  <2>1. \A p \in Projects, n \in Reports :
          /\ fs'[Sidecar(p, n)] = fs[Sidecar(p, n)]
          /\ p # project => fs'[SidecarTmp(p, n)] = fs[SidecarTmp(p, n)]
      BY <1>4, <1>7, WriteStays
  <2>2. \A p \in Projects, n \in Reports : WholeAt(p, n)'
      BY <1>1, <1>5, <1>7, <2>1 DEF WholeAt
  <2>. QED BY <1>1, <1>3, <1>7, <2>1, <2>2, WholeKeeps
<1>8. ASSUME ~OnePerProject PROVE WholeInv'
    BY <1>1, <1>3, <1>8, WholeKeeps
<1>9. CASE OpenSidecar(b) /\ OnePerProject
  <2>1. \/ Goes(b, "sidecar", build[b].at, tmp) /\ Truncate(tmp)
        \/ Goes(b, "sidecar", build[b].at, Nowhere) /\ UNCHANGED fs /\ NowSlipped(b, "open", tmp)
      BY <1>3, <1>9, OpenSidecarGives DEF tmp
  <2>2. CASE Goes(b, "sidecar", build[b].at, tmp) /\ Truncate(tmp)
    <3>1. Writes(tmp, Partial)
        BY <2>2 DEF Truncate, Writes
    <3>2. fs'[tmp] = Partial
        BY <1>4, <3>1, WriteThere
    <3>3. build'[b].pc = "sidecar" /\ build'[b].handle = tmp /\ Tmp(b)' = tmp
        BY <1>6, <2>2 DEF Goes
    <3>. QED BY <1>7, <1>9, <3>1, <3>2, <3>3 DEF Writing
  <2>3. CASE Goes(b, "sidecar", build[b].at, Nowhere) /\ UNCHANGED fs /\ NowSlipped(b, "open", tmp)
    <3>1. build'[b].pc = "sidecar" /\ build'[b].handle = Nowhere /\ Tmp(b)' = tmp
        BY <1>6, <2>3 DEF Goes
    <3>2. Slipped(b, "open", Tmp(b))'
        BY <2>3, <3>1 DEF Slipped, NowSlipped
    <3>. QED BY <1>7, <1>9, <2>3, <3>1, <3>2 DEF Writing
  <2>. QED BY <2>1, <2>2, <2>3
<1>10. CASE NoSidecar(b)
  <2>1. UNCHANGED fs /\ build'[b].pc \in {"remove", "ended"}
      BY <1>10, NoSidecarGives DEF NoSidecar, AfterGives, Goes, Over
  <2>. QED BY <1>1, <1>2, <2>1, WholeElsewhere
<1>11. CASE WriteSidecar(b) /\ OnePerProject
  <2>1. PICK count : LET h == build[b].handle
                         text == Record(b, Reported(b), count, build[b].rows) IN
          /\ Goes(b, "rename", build[b].at, Nowhere)
          /\ \/ Put(b, Onto(h, text))
             \/ /\ h # Nowhere /\ Put(b, Onto(h, Partial) \cup {fs[h]})
                /\ NowSlipped(b, "write", h)
      BY <1>11, WriteSidecarGives
  <2>2. build'[b].pc = "rename" /\ build'[b].req.project = project
        /\ Tmp(b)' = tmp /\ Reported(b)' = name
      BY <1>1, <1>3, <1>6, <2>1 DEF Goes
  <2>3. \/ build[b].handle = tmp /\ fs[tmp] = Partial
        \/ build[b].handle = Nowhere /\ Slipped(b, "open", tmp)
      BY <1>4, <1>5, <1>11 DEF Writing, WriteSidecar
  <2>4. UNCHANGED fs \/ \E c : Writes(tmp, c)
      BY <2>1, <2>3, PutWrites
  <2>5. fs'[tmp].kind = "sidecar" \/ SidecarSlipped(project, name)'
    <3>1. CASE build[b].handle = Nowhere
      <4>1. SidecarSlipped(project, name)
          BY <1>4, <2>3, <3>1 DEF SidecarSlipped, tmp
      <4>. QED BY <1>1, <4>1
    <3>2. CASE build[b].handle = tmp /\ NowSlipped(b, "write", tmp)
        BY <3>2 DEF SidecarSlipped, Slipped, NowSlipped, tmp
    <3>3. CASE build[b].handle = tmp /\ Put(b, Onto(tmp, Record(b, Reported(b), count, build[b].rows)))
      <4>1. Onto(tmp, Record(b, Reported(b), count, build[b].rows))
              = {Record(b, Reported(b), count, build[b].rows)}
          BY <1>4, <2>3, <3>3 DEF Onto
      <4>2. Writes(tmp, Record(b, Reported(b), count, build[b].rows))
          BY <1>4, <3>3, <4>1, PutWrites
      <4>3. fs'[tmp] = Record(b, Reported(b), count, build[b].rows)
          BY <1>4, <4>2, WriteThere
      <4>. QED BY <4>3 DEF Record
    <3>. QED BY <2>1, <2>3, <3>1, <3>2, <3>3
  <2>6. Writing(b)'
    <3>1. SidecarSlipped(project, name)' => SidecarSlipped(build[b].req.project, Reported(b))'
        BY <2>2
    <3>. QED BY <2>2, <2>5, <3>1 DEF Writing
  <2>. QED BY <1>7, <1>11, <2>4, <2>6
<1>12. CASE RenameSidecar(b) /\ OnePerProject
  <2>1. build[b].pc = "rename" /\ build'[b].pc \in {"remove", "ended"}
      BY <1>12, RenameSidecarGives DEF RenameSidecar, AfterGives, Goes, Over
  <2>2. CASE UNCHANGED fs
      BY <1>1, <1>2, <2>1, <2>2, WholeElsewhere
  <2>3. CASE fs' = [fs EXCEPT ![path] = fs[tmp], ![tmp] = Absent]
    <3>1. fs \in [Paths -> Contents]
        BY DEF TypeInv
    <3>2. fs'[path] = fs[tmp] /\ \A q \in Paths : q # path /\ q # tmp => fs'[q] = fs[q]
        BY <1>4, <2>3, <3>1
    <3>3. fs[tmp].kind = "sidecar" \/ SidecarSlipped(project, name)
        BY <1>3, <1>4, <1>5, <1>12, <2>1 DEF Writing
    <3>4. \A p \in Projects, n \in Reports : p # project =>
            /\ fs'[Sidecar(p, n)] = fs[Sidecar(p, n)]
            /\ fs'[SidecarTmp(p, n)] = fs[SidecarTmp(p, n)]
        BY <1>4, <3>2
    <3>5. ASSUME NEW n \in Reports PROVE WholeAt(project, n)'
      <4>1. CASE n = name
          BY <1>1, <3>2, <3>3, <4>1 DEF WholeAt, path
      <4>2. CASE n # name
        <5>1. fs'[Sidecar(project, n)] = fs[Sidecar(project, n)]
            BY <1>4, <3>2, <4>2
        <5>. QED BY <1>1, <1>5, <1>12, <5>1 DEF WholeAt
      <4>. QED BY <4>1, <4>2
    <3>6. Writing(b)'
        BY <2>1 DEF Writing
    <3>. QED BY <1>1, <1>3, <3>4, <3>5, <3>6, WholeKeeps
  <2>. QED BY <1>3, <1>12, <2>2, <2>3 DEF RenameSidecar, path, tmp
<1>. QED BY <1>8, <1>9, <1>10, <1>11, <1>12 DEF Report

LEMMA NextWhole ==
    ASSUME LocalInv, TypeInv, OwnInv, WholeInv, [Next]_vars, TypeInv'
    PROVE  WholeInv'
<1>1. CASE UNCHANGED vars
  <2>1. UNCHANGED build /\ UNCHANGED world /\ UNCHANGED fs
      BY <1>1 DEF vars
  <2>2. \A p, n : WholeAt(p, n) => WholeAt(p, n)'
      BY <2>1 DEF WholeAt, SidecarSlipped, Slipped
  <2>3. \A b \in Builds : Writing(b) => Writing(b)'
      BY <2>1 DEF Writing, Tmp, Reported, Pass, SidecarSlipped, Slipped
  <2>4. OnePerProject' => OnePerProject
      BY <2>1 DEF OnePerProject
  <2>. QED BY <2>2, <2>3, <2>4 DEF WholeInv
<1>2. ASSUME NEW b \in Builds, Verify(b) \/ Kill(b) \/ Finish(b)
      PROVE  WholeInv'
  <2>1. Acts(b) /\ UNCHANGED fs /\ build'[b].pc \in {"check", "pass", "ended"}
      BY <1>2, VerifyActs, EndActs
  <2>2. build'[b].req.project \in Projects
    <3>1. build'[b] \in BuildState
        BY DEF TypeInv, Typed
    <3>. QED BY <3>1 DEF BuildState, Request
  <2>. QED BY <2>1, <2>2, WholeElsewhere
<1>3. ASSUME NEW b \in Builds, NEW i \in 1 .. 3, Transform(b, i)
      PROVE  WholeInv'
    BY <1>3, WholeTransform, WholeReport
<1>4. ASSUME NEW b \in Builds, SourcemapLink(b)
      PROVE  WholeInv'
    BY <1>2, <1>4, WholeReport DEF SourcemapLink
<1>. QED BY <1>1, <1>2, <1>3, <1>4
         DEF Next, VisibilityPass, ContainmentGuardPass, StageAssertPass

-----------------------------------------------------------------------------
(* The outputs, where builds do not overlap.                               *)

(* What a step of b leaves of an output: the text that was there, a file   *)
(* that b has just opened, was killed with or could not write whole, or    *)
(* what b writes in the pass it is in.                                     *)
Outcome(b, q) ==
    \/ fs'[q] = fs[q] /\ build[b].handle # q
    \/ /\ q[1] = build[b].req.project /\ fs'[q] = Partial
       /\ build'[b].handle = q \/ build'[b].exit = "killed" \/ NowSlipped(b, "write", q)
    \/ /\ q[1] = build[b].req.project /\ build[b].at \in 1 .. 3
       /\ \E of : /\ of = b \/ NowSlipped(b, "open", Temp(Pass(b)))
                  /\ fs'[q] = Rewrite(b, of, Pass(b), build[b].file)

Outcomes(b) == \A p \in Projects, d \in Dests : Outcome(b, Out(p, d))

LEMMA OutPaths ==
    ASSUME NEW p, NEW d
    PROVE  Out(p, d)[1] = p /\ Out(p, d)[2] = "out" /\ Out(p, d) # Nowhere
<1>1. DOMAIN Out(p, d) = 1 .. 3 /\ DOMAIN Nowhere = {}
    BY DEF Out, Nowhere
<1>. QED BY <1>1 DEF Out

LEMMA Quiet ==
    ASSUME LocalInv, TypeInv, NEW b \in Builds, build[b].pc # "output",
           \A p \in Projects, d \in Dests : fs'[Out(p, d)] = fs[Out(p, d)]
    PROVE  Outcomes(b)
<1>1. Shape(build[b])
    BY DEF LocalInv
<1>2. ASSUME NEW p \in Projects, NEW d \in Dests
      PROVE  build[b].handle # Out(p, d)
  <2>1. Out(p, d)[2] = "out" /\ Out(p, d) # Nowhere
      BY OutPaths
  <2>2. build[b].pc = "request" => Passes[build[b].at] \in Range(Passes)
      BY <1>1, PathTypes DEF Shape, PassSteps
  <2>. QED BY <1>1, <2>1, <2>2, Kinds DEF Shape
<1>. QED BY <1>2 DEF Outcomes, Outcome

LEMMA QuietWrite ==
    ASSUME LocalInv, TypeInv, NEW b \in Builds, build[b].pc # "output",
           UNCHANGED fs \/ \E r, c : Writes(r, c) /\ r[2] # "out"
    PROVE  Outcomes(b)
<1>1. ASSUME NEW p \in Projects, NEW d \in Dests
      PROVE  fs'[Out(p, d)] = fs[Out(p, d)]
  <2>1. Out(p, d) \in Paths /\ Out(p, d)[2] = "out"
      BY OutPaths, PathTypes
  <2>. QED BY <2>1, WriteStays
<1>. QED BY <1>1, Quiet

LEMMA TransformOutcomes ==
    ASSUME LocalInv, TypeInv, OwnInv, AppliedInv, ~world.overlap, NEW b \in Builds,
           NEW i \in 1 .. 3, Transform(b, i), ~Report(b)
    PROVE  Outcomes(b)
<1>1. build[b].at \in 1 .. 3 /\ Temp(Pass(b))[2] # "out"
  <2>1. Pass(b) \in Range(Passes)
      BY PathTypes DEF Transform, Pass
  <2>2. Temp(Pass(b))[2] = Pass(b)
      BY DEF Temp
  <2>. QED BY <2>1, <2>2, Kinds DEF Transform
<1>2. CASE Skip(b) \/ Refuse(b) \/ Abort(b) \/ ToolReads(b) \/ ToolFails(b) \/ ToolSucceeds(b)
  <2>1. UNCHANGED fs /\ build[b].pc # "output"
      BY <1>2 DEF Skip, Refuse, Abort, ToolReads, ToolFails, ToolSucceeds, InPasses
  <2>. QED BY <2>1, QuietWrite
<1>3. CASE OpenRequest(b) \/ RemoveRequest(b)
  <2>1. build[b].pc # "output"
      BY <1>3 DEF OpenRequest, RemoveRequest, InPasses
  <2>2. UNCHANGED fs \/ \E c : Writes(Temp(Pass(b)), c)
      BY <1>3, OpenRequestGives, RemoveRequestGives DEF Truncate, Writes
  <2>. QED BY <1>1, <2>1, <2>2, QuietWrite
<1>4. CASE WriteRequest(b)
  <2>1. build[b].pc = "request" /\ \E texts : Put(b, texts)
      BY <1>4, ClosePuts DEF WriteRequest
  <2>2. build[b].handle = Nowhere \/ build[b].handle = Temp(Pass(b))
    <3>1. Shape(build[b])
        BY DEF LocalInv
    <3>. QED BY <2>1, <3>1 DEF Shape, Pass
  <2>3. UNCHANGED fs \/ \E c : Writes(Temp(Pass(b)), c)
      BY <2>1, <2>2, PutWrites
  <2>. QED BY <1>1, <2>1, <2>3, QuietWrite
<1>5. CASE OpenOutput(b)
  <2>1. build[b].pc # "output"
      BY <1>5 DEF OpenOutput
  <2>2. CASE UNCHANGED fs
      BY <2>1, <2>2, QuietWrite
  <2>3. ASSUME NEW d0, Goes(b, "output", build[b].at, Out(build[b].req.project, d0)),
               Truncate(Out(build[b].req.project, d0))
        PROVE  Outcomes(b)
    <3> DEFINE r == Out(build[b].req.project, d0)
    <3>1. build'[b].handle = r /\ Writes(r, Partial)
        BY <2>3 DEF Goes, Truncate, Writes
    <3>2. r[1] = build[b].req.project
        BY OutPaths
    <3> HIDE DEF r
    <3>3. ASSUME NEW p \in Projects, NEW d \in Dests
          PROVE  Outcome(b, Out(p, d))
      <4>1. Out(p, d) \in Paths
          BY PathTypes
      <4>2. CASE Out(p, d) = r
          BY <3>1, <3>2, <4>1, <4>2, WriteThere DEF Outcome
      <4>3. CASE Out(p, d) # r
        <5>1. fs'[Out(p, d)] = fs[Out(p, d)]
            BY <3>1, <4>1, <4>3, WriteStays
        <5>2. build[b].handle # Out(p, d)
          <6>1. build[b].pc \notin {"request", "output", "sidecar"}
              BY <1>5 DEF OpenOutput
          <6>. QED BY <6>1, Closed, OutPaths
        <5>. QED BY <5>1, <5>2 DEF Outcome
      <4>. QED BY <4>2, <4>3
    <3>. QED BY <3>3 DEF Outcomes
  <2>. QED BY <1>5, <2>2, <2>3, OpenOutputGives
<1>6. CASE WriteOutput(b)
  <2>1. PICK h, of : h = build[b].handle /\ of = build[b].seen.build
      OBVIOUS
  <2> DEFINE text == Rewrite(b, of, Pass(b), build[b].file)
  <2>2. \/ Put(b, Onto(h, text))
        \/ /\ h # Nowhere /\ Put(b, Onto(h, Partial) \cup {fs[h]})
           /\ NowSlipped(b, "write", h)
      BY <1>6, <2>1, WriteOutputGives
  <2>3. build[b].pc = "output"
      BY <1>6 DEF WriteOutput
  <2>4. of = b \/ NowSlipped(b, "open", Temp(Pass(b)))
    <3>1. of = b \/ Stale(b)
        BY <2>1, <2>3, OwnMine DEF Mine
    <3>2. Grows(b)
        BY TransformGrows
    <3>. QED BY <3>1, <3>2 DEF Stale, Slipped, NowSlipped, Grows
  <2>5. OpensOwn(b)
      BY <2>3 DEF AppliedInv
  <2>6. CASE h = Nowhere
    <3>1. UNCHANGED fs
        BY <2>1, <2>2, <2>6, PutWrites
    <3>. QED BY <2>1, <2>6, <3>1, OutPaths DEF Outcomes, Outcome
  <2>7. CASE h # Nowhere
    <3>1. h = Path(b, build[b].file) /\ fs[h] = Partial
        BY <2>1, <2>5, <2>7 DEF OpensOwn
    <3>2. \/ Writes(h, text)
          \/ Writes(h, Partial) /\ NowSlipped(b, "write", h)
      <4> HIDE DEF text
      <4>1. Onto(h, text) = {text} /\ Onto(h, Partial) \cup {fs[h]} = {Partial}
          BY <3>1 DEF Onto
      <4>. QED BY <2>1, <2>2, <2>7, <4>1, PutWrites
    <3>3. ASSUME NEW p \in Projects, NEW d \in Dests
          PROVE  Outcome(b, Out(p, d))
      <4>1. Out(p, d) \in Paths
          BY PathTypes
      <4>2. CASE Out(p, d) = h
        <5>1. fs'[h] = text \/ (fs'[h] = Partial /\ NowSlipped(b, "write", h))
          <6> HIDE DEF text
          <6>. QED BY <3>2, <4>1, <4>2, WriteThere
        <5>2. h[1] = build[b].req.project
            BY <3>1, OutPaths DEF Path
        <5>3. Outcome(b, h)
            BY <1>1, <2>4, <5>1, <5>2 DEF Outcome
        <5>. QED BY <4>2, <5>3
      <4>3. CASE Out(p, d) # h
        <5>1. \E c : Writes(h, c)
            BY <3>2
        <5>. QED BY <2>1, <4>1, <4>3, <5>1, WriteStays DEF Outcome
      <4>. QED BY <4>2, <4>3
    <3>. QED BY <3>3 DEF Outcomes
  <2>. QED BY <2>6, <2>7
<1>. QED BY <1>2, <1>3, <1>4, <1>5, <1>6 DEF Transform

LEMMA ReportOutcomes ==
    ASSUME LocalInv, TypeInv, NEW b \in Builds, Report(b)
    PROVE  Outcomes(b)
<1>1. build[b].pc # "output"
    BY DEF Report, OpenSidecar, NoSidecar, WriteSidecar, RenameSidecar, SidecarDue, InLink
<1>2. CASE OpenSidecar(b)
  <2>1. PICK h : h[2] = "passes" /\ (Truncate(h) \/ UNCHANGED fs)
      BY <1>2, OpenSidecarGives
  <2>2. UNCHANGED fs \/ (Writes(h, Partial) /\ h[2] # "out")
      BY <2>1 DEF Truncate, Writes
  <2>. QED BY <1>1, <2>2, QuietWrite
<1>3. CASE NoSidecar(b)
    BY <1>1, <1>3, QuietWrite DEF NoSidecar
<1>4. CASE WriteSidecar(b)
  <2>1. build[b].pc = "sidecar" /\ \E texts : Put(b, texts)
      BY <1>4, ClosePuts DEF WriteSidecar
  <2>2. build[b].handle = Nowhere \/ build[b].handle[2] = "passes"
    <3>1. Shape(build[b])
        BY DEF LocalInv
    <3>. QED BY <2>1, <3>1 DEF Shape
  <2>3. UNCHANGED fs \/ (build[b].handle[2] = "passes" /\ \E c : Writes(build[b].handle, c))
      BY <2>1, <2>2, PutWrites
  <2>. QED BY <1>1, <2>3, QuietWrite
<1>5. CASE RenameSidecar(b)
  <2> DEFINE path == Sidecar(build[b].req.project, Reported(b))
             tmp == SidecarTmp(build[b].req.project, Reported(b))
  <2>1. UNCHANGED fs \/ fs' = [fs EXCEPT ![path] = fs[tmp], ![tmp] = Absent]
      BY <1>5 DEF RenameSidecar
  <2>2. path[2] = "passes" /\ tmp[2] = "passes"
      BY SidecarPaths
  <2> HIDE DEF path, tmp
  <2>3. ASSUME NEW p \in Projects, NEW d \in Dests
        PROVE  fs'[Out(p, d)] = fs[Out(p, d)]
    <3>1. Out(p, d) \in Paths /\ Out(p, d) # path /\ Out(p, d) # tmp
        BY <2>2, OutPaths, PathTypes
    <3>. QED BY <2>1, <3>1 DEF TypeInv
  <2>. QED BY <1>1, <2>3, Quiet
<1>. QED BY <1>2, <1>3, <1>4, <1>5 DEF Report

LEMMA EndOutcomes ==
    ASSUME LocalInv, TypeInv, AppliedInv, ~world.overlap, NEW b \in Builds,
           Kill(b) \/ Finish(b)
    PROVE  Outcomes(b)
<1>1. UNCHANGED fs
    BY DEF Kill, Finish
<1>2. CASE build[b].pc # "output"
    BY <1>1, <1>2, QuietWrite
<1>3. CASE build[b].pc = "output"
  <2>1. Kill(b)
      BY <1>3 DEF Finish, InLink
  <2>2. build'[b].exit = "killed"
      BY <2>1, ExitGives DEF Kill, Over
  <2>3. OpensOwn(b)
      BY <1>3 DEF AppliedInv
  <2>4. ASSUME NEW p \in Projects, NEW d \in Dests, build[b].handle = Out(p, d)
        PROVE  fs[Out(p, d)] = Partial /\ Out(p, d)[1] = build[b].req.project
      BY <2>3, <2>4, OutPaths DEF OpensOwn, Path
  <2>. QED BY <1>1, <2>2, <2>4 DEF Outcomes, Outcome
<1>. QED BY <1>2, <1>3

-----------------------------------------------------------------------------
(* Forced passes are applied.                                              *)

(* What a step adds to the log was written in the pass that it ends; what  *)
(* it adds to the files written, it has just opened.                       *)
Extends(s, t) ==
    /\ \A x \in Range(Passes) : \A f \in t.log[x].files :
         f \in s.log[x].files \/ (f \in s.written /\ Rank(x) = s.at)
    /\ \A f \in t.written :
         t.at = s.at /\ (f \in s.written \/ (t.pc = "output" /\ f = t.file))

LEMMA ExtendsSame ==
    ASSUME NEW s, NEW t, t.log = s.log, t.at = s.at, t.written = s.written
    PROVE  Extends(s, t)
BY DEF Extends

LEMMA ExtendsQuits ==
    ASSUME NEW b, NEW code
    PROVE  Extends(build[b], Quits(b, code)) /\ Quits(b, code).pc = "ended"
<1>1. /\ Quits(b, code).log = build[b].log /\ Quits(b, code).pc = "ended"
      /\ Quits(b, code).written = {}
    BY DEF Quits, Kept, Idle
<1>. QED BY <1>1 DEF Extends

LEMMA ExtendsProceeds ==
    ASSUME TypeInv, NEW b \in Builds, build[b].at \in 1 .. 3
    PROVE  Extends(build[b], Proceeds(b)) /\ Proceeds(b).pc = "pass"
<1>1. build[b] \in BuildState
    BY TypeOf
<1> DEFINE entry == [mode |-> build[b].mode, ok |-> build[b].ok, files |-> build[b].written]
<1>2. Kept(b) \in BuildState /\ Kept(b).log = build[b].log /\ Kept(b).written = {}
    BY <1>1, KeptTyped DEF Kept, Idle
<1>3. /\ Proceeds(b).pc = "pass" /\ Proceeds(b).written = {}
      /\ Proceeds(b).log = [build[b].log EXCEPT ![Pass(b)] = entry]
    BY <1>2 DEF Proceeds, BuildState
<1>4. entry.files = build[b].written
    OBVIOUS
<1>5. Pass(b) \in Range(Passes) /\ Rank(Pass(b)) = build[b].at
    BY PathTypes, Ranks DEF Pass
<1> HIDE DEF entry
<1>6. ASSUME NEW x \in Range(Passes), NEW f \in Proceeds(b).log[x].files
      PROVE  f \in build[b].log[x].files \/ (f \in build[b].written /\ Rank(x) = build[b].at)
  <2>1. build[b].log \in [Range(Passes) -> [mode : Modes, ok : BOOLEAN, files : SUBSET Files]]
      BY <1>1 DEF BuildState
  <2>2. Proceeds(b).log[x] = IF x = Pass(b) THEN entry ELSE build[b].log[x]
      BY <1>3, <2>1
  <2>. QED BY <1>4, <1>5, <1>6, <2>2
<1>. QED BY <1>3, <1>6 DEF Extends

LEMMA FileExtends ==
    ASSUME LocalInv, NEW b \in Builds, NEW s \in BuildState,
           \/ \E path : Open(b, s, path)
           \/ \E text : Close(b, s, text),
           s.log = build[b].log, s.at = build[b].at, s.written = build[b].written
    PROVE  Extends(build[b], build'[b]) /\ build'[b].pc = s.pc
<1>1. /\ build'[b].pc = s.pc /\ build'[b].log = s.log /\ build'[b].at = s.at
      /\ build'[b].written = s.written
    BY FileStep
<1>. QED BY <1>1, ExtendsSame

LEMMA VerifyExtends ==
    ASSUME LocalInv, TypeInv, LogInv, NEW b \in Builds, Verify(b)
    PROVE  Extends(build[b], build'[b])
<1>1. Logged(build[b]) /\ build[b] \in BuildState
    BY TypeOf DEF LogInv
<1>2. CASE Start(b)
  <2>1. PICK r \in world.requests :
          Become(b, [Idle(r) EXCEPT !.pc = IF r.noVerify THEN "pass" ELSE "check"])
      BY <1>2 DEF Start
  <2>2. build'[b] = [Idle(r) EXCEPT !.pc = IF r.noVerify THEN "pass" ELSE "check"]
      BY <2>1, BecomeGives
  <2>3. build'[b].written = {} /\ \A x \in Range(Passes) : build'[b].log[x].files = {}
      BY <2>2 DEF Idle, NotRun
  <2>. QED BY <2>3 DEF Extends
<1>3. CASE Reject(b)
  <2>1. build'[b] = Quits(b, "1")
      BY <1>3, BecomeGives DEF Reject, Exit
  <2>. QED BY <2>1, ExtendsQuits
<1>4. CASE Check(b)
  <2>1. PICK at, printed, errors, warnings :
          Become(b, [build[b] EXCEPT !.at = at, !.printed = printed,
                       !.errors = errors, !.warnings = warnings])
      BY <1>4 DEF Check
  <2>2. build[b].pc = "check"
      BY <1>4 DEF Check
  <2>3. build'[b] = [build[b] EXCEPT !.at = at, !.printed = printed,
                       !.errors = errors, !.warnings = warnings]
      BY <2>1, BecomeGives
  <2>4. build'[b].log = build[b].log /\ build'[b].written = build[b].written
      BY <1>1, <2>3 DEF BuildState
  <2>5. build[b].written = {}
      BY <1>1, <2>2 DEF Logged
  <2>. QED BY <2>4, <2>5 DEF Extends
<1>5. CASE Gate(b)
  <2>1. build'[b] = Quits(b, "1") \/ build'[b] = [Kept(b) EXCEPT !.pc = "pass"]
      BY <1>5, BecomeGives DEF Gate, Exit
  <2>2. CASE build'[b] = [Kept(b) EXCEPT !.pc = "pass"]
    <3>1. build'[b].log = build[b].log /\ build'[b].written = {}
        BY <2>2 DEF Kept, Idle
    <3>. QED BY <3>1 DEF Extends
  <2>. QED BY <2>1, <2>2, ExtendsQuits
<1>. QED BY <1>2, <1>3, <1>4, <1>5 DEF Verify

LEMMA TransformExtends ==
    ASSUME LocalInv, TypeInv, NEW b \in Builds, NEW i \in 1 .. 3, Transform(b, i), ~Report(b)
    PROVE  /\ Extends(build[b], build'[b])
           /\ build'[b].pc = "output" => OpensOwn(b)'
<1>1. build[b] \in BuildState /\ build[b].at \in 1 .. 3
    BY TypeOf DEF Transform
<1>2. /\ Extends(build[b], Proceeds(b)) /\ Proceeds(b).pc = "pass"
      /\ \A code : Extends(build[b], Quits(b, code)) /\ Quits(b, code).pc = "ended"
    BY <1>1, ExtendsQuits, ExtendsProceeds
<1>3. CASE Skip(b) \/ Refuse(b) \/ Abort(b)
  <2>1. build'[b] = Proceeds(b) \/ \E code : build'[b] = Quits(b, code)
      BY <1>3, BecomeGives DEF Skip, Refuse, Abort, Exit
  <2>. QED BY <1>2, <2>1
<1>11. CASE RemoveRequest(b)
  <2>1. PICK s : Unlink(b, s) /\ (s = Proceeds(b) \/ s = Quits(b, "1"))
      BY <1>11 DEF RemoveRequest
  <2>2. \/ build'[b] = s
        \/ build'[b] = [s EXCEPT !.slips = s.slips \cup {<<"remove", Temp(Pass(b))>>}]
      BY <2>1, BecomeGives, RenameGives DEF Unlink
  <2>3. s \in BuildState
      BY <1>1, <2>1, QuitsTyped, ProceedsTyped DEF Typed, Exits
  <2>4. /\ build'[b].pc = s.pc /\ build'[b].log = s.log
        /\ build'[b].at = s.at /\ build'[b].written = s.written
      BY <2>2, <2>3 DEF BuildState
  <2>5. Extends(build[b], s) /\ s.pc # "output"
      BY <1>2, <2>1
  <2>. QED BY <2>4, <2>5 DEF Extends
<1>4. CASE OpenRequest(b)
  <2>5. world.modes[Pass(b)] \subseteq Modes
      BY <1>1, PathTypes, WorldTypes DEF Pass, TypeInv
  <2>1. PICK mode \in Modes :
          Open(b, [build[b] EXCEPT !.pc = "request", !.mode = mode], Temp(Pass(b)))
      BY <1>4, <2>5 DEF OpenRequest
  <2> DEFINE s == [build[b] EXCEPT !.pc = "request", !.mode = mode]
  <2>2. /\ s.pc = "request" /\ s.log = build[b].log /\ s.at = build[b].at
        /\ s.written = build[b].written /\ s \in BuildState
      BY <1>1 DEF BuildState, Steps
  <2>3. Open(b, s, Temp(Pass(b)))
      BY <2>1
  <2> HIDE DEF s
  <2>. QED BY <2>2, <2>3, FileExtends
<1>5. CASE WriteRequest(b)
  <2> DEFINE s == [build[b] EXCEPT !.pc = "tool"]
  <2>1. \E text : Close(b, s, text)
      BY <1>5 DEF WriteRequest
  <2>2. /\ s.pc = "tool" /\ s.log = build[b].log /\ s.at = build[b].at
        /\ s.written = build[b].written /\ s \in BuildState
      BY <1>1 DEF BuildState, Steps
  <2> HIDE DEF s
  <2>. QED BY <2>1, <2>2, FileExtends
<1>6. CASE ToolReads(b)
  <2>1. build'[b] = [build[b] EXCEPT !.pc = "answer", !.seen = fs[Temp(Pass(b))]]
      BY <1>6, BecomeGives DEF ToolReads
  <2>2. /\ build'[b].pc = "answer" /\ build'[b].log = build[b].log
        /\ build'[b].at = build[b].at /\ build'[b].written = build[b].written
      BY <1>1, <2>1 DEF BuildState
  <2>. QED BY <2>2, ExtendsSame
<1>7. CASE ToolFails(b)
  <2>1. build'[b] = [build[b] EXCEPT !.pc = "remove", !.seen = Absent]
      BY <1>7, BecomeGives DEF ToolFails
  <2>2. /\ build'[b].pc = "remove" /\ build'[b].log = build[b].log
        /\ build'[b].at = build[b].at /\ build'[b].written = build[b].written
      BY <1>1, <2>1 DEF BuildState
  <2>. QED BY <2>2, ExtendsSame
<1>8. CASE ToolSucceeds(b)
  <2>0. PICK rows, blank :
          Become(b, [build[b] EXCEPT !.pc = "outputs", !.ok = TRUE,
                                     !.rows = rows, !.todo = rows \ blank])
      BY <1>8 DEF ToolSucceeds
  <2>1. build'[b] = [build[b] EXCEPT !.pc = "outputs", !.ok = TRUE,
                       !.rows = rows, !.todo = rows \ blank]
      BY <2>0, BecomeGives
  <2>2. /\ build'[b].pc = "outputs" /\ build'[b].log = build[b].log
        /\ build'[b].at = build[b].at /\ build'[b].written = build[b].written
      BY <1>1, <2>1 DEF BuildState
  <2>. QED BY <2>2, ExtendsSame
<1>9. CASE OpenOutput(b)
  <2>1. PICK f \in build[b].todo :
          Open(b, [build[b] EXCEPT
                !.pc = "output", !.todo = @ \ {f}, !.written = @ \cup {f}, !.file = f],
               Out(build[b].req.project, world.dest[f]))
      BY <1>9 DEF OpenOutput
  <2> DEFINE s == [build[b] EXCEPT !.pc = "output", !.todo = @ \ {f},
                     !.written = @ \cup {f}, !.file = f]
  <2>2. f \in Files /\ build[b].req.project \in Projects
      BY <2>1, TypeOf
  <2>3. /\ s.pc = "output" /\ s.log = build[b].log /\ s.at = build[b].at
        /\ s.written = build[b].written \cup {f} /\ s.file = f
        /\ s.req = build[b].req /\ s.exit = build[b].exit /\ s.printed = build[b].printed
        /\ s.slips = build[b].slips /\ DOMAIN s = Fields
      BY <1>1 DEF BuildState, Fields
  <2>4. s \in BuildState
      BY <1>1, <2>2 DEF BuildState, Steps
  <2>5. PICK path : path = Path(b, f)
      OBVIOUS
  <2>6. Open(b, s, path) /\ build[b].pc # "ended"
      BY <1>9, <2>1, <2>5 DEF Path, OpenOutput
  <2>7. world' = world
      BY <1>9 DEF OpenOutput
  <2> HIDE DEF s
  <2>8. /\ build'[b].pc = "output" /\ build'[b].log = build[b].log /\ build'[b].file = f
        /\ build'[b].at = build[b].at /\ build'[b].written = build[b].written \cup {f}
      BY <2>3, <2>4, <2>6, FileStep
  <2>9. Extends(build[b], build'[b])
      BY <2>8 DEF Extends
  <2>10. \/ Goes(b, "output", build[b].at, path) /\ Truncate(path)
         \/ Goes(b, "output", build[b].at, Nowhere) /\ NowSlipped(b, "open", path)
      BY <2>3, <2>6, OpenGives
  <2>11. Path(b, build[b].file)' = path
      BY <2>5, <2>7, <2>8, <2>10 DEF Path, Goes
  <2>12. Truncate(path) => fs'[path] = Partial
    <3>1. path \in Paths
        BY <2>2, <2>5, PathTypes, WorldTypes DEF Path, TypeInv
    <3>. QED BY <3>1, WriteThere DEF Truncate, Writes
  <2>13. OpensOwn(b)'
      BY <2>10, <2>11, <2>12 DEF OpensOwn, Goes, Slipped, NowSlipped
  <2>. QED BY <2>9, <2>13
<1>10. CASE WriteOutput(b)
  <2> DEFINE s == [build[b] EXCEPT !.pc = "outputs", !.file = NoFile]
  <2>1. \E text : Close(b, s, text)
      BY <1>10 DEF WriteOutput
  <2>2. /\ s.pc = "outputs" /\ s.log = build[b].log /\ s.at = build[b].at
        /\ s.written = build[b].written /\ s \in BuildState
      BY <1>1 DEF BuildState, Steps
  <2> HIDE DEF s
  <2>. QED BY <2>1, <2>2, FileExtends
<1>. QED BY <1>3, <1>4, <1>5, <1>6, <1>7, <1>8, <1>9, <1>10, <1>11 DEF Transform

LEMMA ReportExtends ==
    ASSUME LocalInv, TypeInv, NEW b \in Builds, Report(b)
    PROVE  Extends(build[b], build'[b]) /\ build'[b].pc # "output"
<1>1. build[b] \in BuildState
    BY TypeOf
<1>2. Extends(build[b], AfterSidecar(b)) /\ AfterSidecar(b).pc # "output"
  <2>1. CASE build[b].at <= Len(Passes)
    <3> DEFINE s == [build[b] EXCEPT !.pc = "remove", !.handle = Nowhere]
    <3>1. /\ s.pc = "remove" /\ s.log = build[b].log
          /\ s.at = build[b].at /\ s.written = build[b].written
        BY <1>1 DEF BuildState
    <3>2. AfterSidecar(b) = s
        BY <2>1 DEF AfterSidecar
    <3> HIDE DEF s
    <3>. QED BY <3>1, <3>2, ExtendsSame
  <2>2. CASE ~(build[b].at <= Len(Passes))
      BY <2>2, ExtendsQuits DEF AfterSidecar
  <2>. QED BY <2>1, <2>2
<1>3. CASE OpenSidecar(b)
  <2> DEFINE s == [build[b] EXCEPT !.pc = "sidecar"]
  <2>1. \E path : Open(b, s, path)
      BY <1>3 DEF OpenSidecar
  <2>2. /\ s.pc = "sidecar" /\ s.log = build[b].log /\ s.at = build[b].at
        /\ s.written = build[b].written /\ s \in BuildState
      BY <1>1 DEF BuildState, Steps
  <2> HIDE DEF s
  <2>. QED BY <2>1, <2>2, FileExtends
<1>4. CASE WriteSidecar(b)
  <2> DEFINE s == [build[b] EXCEPT !.pc = "rename"]
  <2>1. \E text : Close(b, s, text)
      BY <1>4 DEF WriteSidecar
  <2>2. /\ s.pc = "rename" /\ s.log = build[b].log /\ s.at = build[b].at
        /\ s.written = build[b].written /\ s \in BuildState
      BY <1>1 DEF BuildState, Steps
  <2> HIDE DEF s
  <2>. QED BY <2>1, <2>2, FileExtends
<1>5. CASE NoSidecar(b) \/ RenameSidecar(b)
  <2>1. Become(b, AfterSidecar(b)) \/ \E moved : BecomeAndRename(b, AfterSidecar(b), moved)
      BY <1>5 DEF NoSidecar, RenameSidecar
  <2>2. build'[b] = AfterSidecar(b)
      BY <2>1, BecomeGives, RenameGives
  <2>. QED BY <1>2, <2>2
<1>. QED BY <1>3, <1>4, <1>5 DEF Report

LEMMA EndExtends ==
    ASSUME LocalInv, NEW b \in Builds, Kill(b) \/ Finish(b)
    PROVE  Extends(build[b], build'[b]) /\ build'[b].pc = "ended"
<1>1. \E code : build'[b] = Quits(b, code)
    BY BecomeGives DEF Kill, Finish, Exit
<1>. QED BY <1>1, ExtendsQuits

(* What b has written stays written: it is kept, or written again.         *)
LEMMA WroteKeeps ==
    ASSUME TypeInv, NEW b \in Builds, build'[b].req = build[b].req, UNCHANGED world,
           Grows(b), build'[b].exit # "killed", NEW f \in Files, NEW rank \in Nat,
           build[b].at \in Nat => rank <= build[b].at, Outcomes(b), Wrote(b, f, rank)
    PROVE  Wrote(b, f, rank)'
<1>1. build[b].req.project \in Projects /\ world.dest[f] \in Dests
    BY TypeOf, WorldTypes DEF TypeInv
<1>2. Path(b, f)' = Path(b, f)
    BY DEF Path
<1>3. Outcome(b, Path(b, f))
    BY <1>1 DEF Outcomes, Path
<1>4. PICK q : q = Path(b, f)
    OBVIOUS
<1>5. \A op, r : Slipped(b, op, r) => NowSlipped(b, op, r)
    BY DEF Slipped, NowSlipped, Grows
<1>6. Wrote(b, f, rank)' <=>
        \/ NowSlipped(b, "open", q)
        \/ /\ fs'[q].kind = "rewrite" /\ fs'[q].by = b
           /\ fs'[q].of = b \/ NowSlipped(b, "open", Temp(fs'[q].pass))
           /\ Rank(fs'[q].pass) >= rank
        \/ /\ fs'[q] = Partial
           /\ build'[b].handle = q \/ NowSlipped(b, "write", q)
    BY <1>2, <1>4 DEF Wrote, Slipped, NowSlipped
<1>7. CASE fs'[q] = fs[q] /\ build[b].handle # q
  <2>1. \/ Slipped(b, "open", q)
        \/ /\ fs[q].kind = "rewrite" /\ fs[q].by = b
           /\ fs[q].of = b \/ Slipped(b, "open", Temp(fs[q].pass))
           /\ Rank(fs[q].pass) >= rank
        \/ fs[q] = Partial /\ Slipped(b, "write", q)
      BY <1>4, <1>7 DEF Wrote
  <2>. QED BY <1>5, <1>6, <1>7, <2>1
<1>8. CASE fs'[q] = Partial /\ (build'[b].handle = q \/ NowSlipped(b, "write", q))
    BY <1>6, <1>8
<1>9. ASSUME build[b].at \in 1 .. 3, NEW of, of = b \/ NowSlipped(b, "open", Temp(Pass(b))),
             fs'[q] = Rewrite(b, of, Pass(b), build[b].file)
      PROVE  Wrote(b, f, rank)'
  <2>1. Rank(Pass(b)) = build[b].at
      BY <1>9, Ranks DEF Pass
  <2>2. /\ fs'[q].kind = "rewrite" /\ fs'[q].by = b /\ fs'[q].of = of
        /\ fs'[q].pass = Pass(b)
      BY <1>9 DEF Rewrite
  <2>3. Rank(fs'[q].pass) >= rank
      BY <1>9, <2>1, <2>2
  <2>. QED BY <1>6, <1>9, <2>2, <2>3
<1>. QED BY <1>3, <1>4, <1>7, <1>8, <1>9 DEF Outcome

LEMMA AppliedKeeps ==
    ASSUME LocalInv, TypeInv, OwnInv, LogInv, AppliedInv, NEW b \in Builds, Acts(b),
           build[b].pc = "idle" => UNCHANGED fs,
           Extends(build[b], build'[b]),
           ~world.overlap => Outcomes(b),
           build'[b].pc = "output" => OpensOwn(b)'
    PROVE  AppliedInv'
<1> SUFFICES ASSUME ~world.overlap, NEW c \in Builds
             PROVE  /\ build'[c].pc = "output" => OpensOwn(c)'
                    /\ Undisturbed(c)' =>
                         /\ \A x \in Range(Passes) : \A f \in build'[c].log[x].files :
                              Wrote(c, f, Rank(x))'
                         /\ \A f \in build'[c].written : Wrote(c, f, build[c].at)'
    BY DEF AppliedInv, Acts
<1>0. world' = world
    BY DEF Acts
<1>1. ASSUME NEW d \in Builds
      PROVE  /\ Logged(build[d]) /\ build[d].at \in Nat
             /\ build[d].written \subseteq Files
             /\ \A x \in Range(Passes) : build[d].log[x].files \subseteq Files
    BY TypeOf DEF LogInv, BuildState
<1>2. CASE c = b
  <2> SUFFICES ASSUME Undisturbed(b)'
               PROVE  /\ \A x \in Range(Passes) : \A f \in build'[b].log[x].files :
                           Wrote(b, f, Rank(x))'
                      /\ \A f \in build'[b].written : Wrote(b, f, build[b].at)'
      BY <1>2
  <2>1. build'[b].exit # "killed"
      BY DEF Undisturbed
  <2>2. Undisturbed(b)
    <3>1. build[b].exit = "none"
        BY Closed DEF Acts
    <3>2. Newest(b)
      <4>1. \A d \in Builds : d > b => d # b
          BY MaxBuildAssumption DEF Builds
      <4>. QED BY <4>1, OneActs DEF Newest
    <3>. QED BY <3>1, <3>2 DEF Undisturbed
  <2>3. ASSUME NEW f \in Files, NEW rank \in Nat, rank <= build[b].at, Wrote(b, f, rank),
               build[b].pc # "idle"
        PROVE  Wrote(b, f, rank)'
    <3>1. build'[b].req = build[b].req
        BY <2>3 DEF Acts
    <3>. QED BY <1>0, <2>1, <2>3, <3>1, WroteKeeps DEF Acts
  <2>4. ASSUME NEW x \in Range(Passes), NEW f \in build'[b].log[x].files
        PROVE  Wrote(b, f, Rank(x))'
    <3>1. PICK rank \in Nat : rank = Rank(x)
        BY Ranks
    <3>2. /\ f \in Files /\ build[b].pc # "idle" /\ rank <= build[b].at
          /\ Wrote(b, f, rank)
      <4>1. CASE f \in build[b].log[x].files
        <5>1. build[b].pc # "idle" /\ rank < build[b].at
            BY <1>1, <3>1, <4>1 DEF Logged, Acts
        <5>2. Wrote(b, f, rank)
            BY <2>2, <3>1, <4>1 DEF AppliedInv
        <5>. QED BY <1>1, <3>1, <4>1, <5>1, <5>2
      <4>2. CASE f \in build[b].written /\ rank = build[b].at
        <5>1. build[b].pc # "idle"
            BY <1>1, <4>2 DEF Logged
        <5>2. Wrote(b, f, rank)
            BY <2>2, <4>2 DEF AppliedInv
        <5>. QED BY <1>1, <4>2, <5>1, <5>2
      <4>. QED BY <2>4, <3>1, <4>1, <4>2 DEF Extends
    <3>3. Wrote(b, f, rank)'
        BY <2>3, <3>2
    <3>. QED BY <3>1, <3>3
  <2>5. ASSUME NEW f \in build'[b].written
        PROVE  Wrote(b, f, build[b].at)'
    <3>1. PICK rank \in Nat : rank = build[b].at
        BY <1>1
    <3>2. build'[b].at = rank
        BY <3>1 DEF Extends
    <3>3. Wrote(b, f, rank)'
      <4>1. CASE f \in build[b].written
        <5>1. f \in Files /\ build[b].pc # "idle" /\ Wrote(b, f, rank)
            BY <1>1, <2>2, <3>1, <4>1 DEF Logged, AppliedInv
        <5>. QED BY <2>3, <3>1, <5>1
      <4>2. CASE build'[b].pc = "output" /\ f = build'[b].file
          BY <4>2 DEF OpensOwn, Wrote, Slipped
      <4>. QED BY <4>1, <4>2 DEF Extends
    <3>. QED BY <3>2, <3>3
  <2>. QED BY <2>4, <2>5
<1>3. CASE c # b
  <2>1. /\ build'[c] = build[c] /\ build[c].pc \in {"idle", "ended"}
        /\ c > b => build[c].pc = "idle"
      BY <1>3, OneActs
  <2> SUFFICES ASSUME Undisturbed(c)', build[c].pc # "idle"
               PROVE  /\ \A x \in Range(Passes) : \A f \in build[c].log[x].files :
                           Wrote(c, f, Rank(x))'
                      /\ \A f \in build[c].written : Wrote(c, f, build[c].at)'
      BY <1>1, <2>1 DEF Logged
  <2>2. c < b
      BY <1>3, <2>1, MaxBuildAssumption DEF Builds
  <2>3. Undisturbed(c)
    <3>1. ASSUME NEW d \in Builds, d > c, build[d].pc # "idle"
          PROVE  build[d].req.project # build[c].req.project
      <4>1. build'[d].pc # "idle" /\ build'[d].req = build[d].req
          BY <3>1, OneActs DEF Acts
      <4>. QED BY <2>1, <3>1, <4>1 DEF Undisturbed, Newest
    <3>2. Newest(c)
        BY <3>1 DEF Newest
    <3>. QED BY <2>1, <3>2 DEF Undisturbed
  <2>4. ASSUME NEW f \in Files
        PROVE  fs'[Path(c, f)] = fs[Path(c, f)]
    <3>1. CASE build[b].pc = "idle"
        BY <3>1
    <3>2. CASE build[b].pc # "idle"
      <4>1. build[b].req.project # build[c].req.project
          BY <2>1, <2>2, <3>2 DEF Undisturbed, Newest, Acts
      <4>2. Path(c, f)[1] = build[c].req.project
          BY OutPaths DEF Path
      <4>3. Outcome(b, Path(c, f))
        <5>1. build[c].req.project \in Projects /\ world.dest[f] \in Dests
            BY TypeOf, WorldTypes DEF TypeInv
        <5>. QED BY <5>1 DEF Outcomes, Path
      <4>. QED BY <4>1, <4>2, <4>3 DEF Outcome
    <3>. QED BY <3>1, <3>2
  <2>5. ASSUME NEW f \in Files, NEW rank, Wrote(c, f, rank)
        PROVE  Wrote(c, f, rank)'
    <3>1. Path(c, f)' = Path(c, f)
        BY <1>0, <2>1 DEF Path
    <3>. QED BY <1>0, <2>1, <2>4, <2>5, <3>1 DEF Wrote, Slipped
  <2>6. ASSUME NEW x \in Range(Passes), NEW f \in build[c].log[x].files
        PROVE  Wrote(c, f, Rank(x))'
    <3>1. Wrote(c, f, Rank(x)) /\ f \in Files
        BY <1>1, <2>3 DEF AppliedInv
    <3>2. PICK rank : rank = Rank(x)
        OBVIOUS
    <3>3. Wrote(c, f, rank)'
        BY <2>5, <3>1, <3>2
    <3>. QED BY <3>2, <3>3
  <2>7. ASSUME NEW f \in build[c].written
        PROVE  Wrote(c, f, build[c].at)'
    <3>1. PICK rank : rank = build[c].at
        OBVIOUS
    <3>2. Wrote(c, f, rank) /\ f \in Files
        BY <1>1, <2>3, <3>1 DEF AppliedInv
    <3>3. Wrote(c, f, rank)'
        BY <2>5, <3>2
    <3>4. rank = build'[c].at
        BY <2>1, <3>1
    <3>. QED BY <3>3, <3>4
  <2>. QED BY <2>6, <2>7
<1>. QED BY <1>2, <1>3

LEMMA NextApplied ==
    ASSUME LocalInv, TypeInv, OwnInv, LogInv, AppliedInv, [Next]_vars
    PROVE  AppliedInv'
<1>1. CASE UNCHANGED vars
  <2>1. UNCHANGED build /\ UNCHANGED world /\ UNCHANGED fs
      BY <1>1 DEF vars
  <2>2. \A b, f, rank : Wrote(b, f, rank) => Wrote(b, f, rank)'
      BY <2>1 DEF Wrote, Path, Slipped
  <2>3. \A b : OpensOwn(b) => OpensOwn(b)'
      BY <2>1 DEF OpensOwn, Path, Slipped
  <2>4. SUFFICES ASSUME ~world.overlap, NEW b \in Builds
                 PROVE  /\ build'[b].pc = "output" => OpensOwn(b)'
                        /\ Undisturbed(b)' =>
                             /\ \A x \in Range(Passes) : \A f \in build'[b].log[x].files :
                                  Wrote(b, f, Rank(x))'
                             /\ \A f \in build'[b].written : Wrote(b, f, build[b].at)'
      BY <2>1 DEF AppliedInv
  <2>5. /\ build[b].pc = "output" => OpensOwn(b)
        /\ Undisturbed(b) =>
             /\ \A x \in Range(Passes) : \A f \in build[b].log[x].files : Wrote(b, f, Rank(x))
             /\ \A f \in build[b].written : Wrote(b, f, build[b].at)
      BY <2>4 DEF AppliedInv
  <2>6. build'[b] = build[b] /\ (Undisturbed(b)' => Undisturbed(b))
      BY <2>1 DEF Undisturbed, Newest
  <2>7. build'[b].pc = "output" => OpensOwn(b)'
      BY <2>3, <2>5, <2>6
  <2>8. ASSUME Undisturbed(b)', NEW x \in Range(Passes), NEW f \in build'[b].log[x].files
        PROVE  Wrote(b, f, Rank(x))'
    <3>1. PICK rank : rank = Rank(x)
        OBVIOUS
    <3>2. Wrote(b, f, rank)
        BY <2>5, <2>6, <2>8, <3>1
    <3>. QED BY <2>2, <3>1, <3>2
  <2>9. ASSUME Undisturbed(b)', NEW f \in build'[b].written
        PROVE  Wrote(b, f, build[b].at)'
    <3>1. PICK rank : rank = build[b].at
        OBVIOUS
    <3>2. Wrote(b, f, rank)
        BY <2>5, <2>6, <2>9, <3>1
    <3>. QED BY <2>2, <2>6, <3>1, <3>2
  <2>. QED BY <2>7, <2>8, <2>9
<1>2. ASSUME NEW b \in Builds, Verify(b)
      PROVE  AppliedInv'
  <2>1. /\ Acts(b) /\ UNCHANGED fs /\ build'[b].pc # "output"
        /\ Extends(build[b], build'[b])
      BY <1>2, VerifyActs, VerifyExtends
  <2>2. build[b].pc # "output"
      BY <1>2 DEF Verify, Start, Reject, Check, Gate, MayStart
  <2>3. Outcomes(b)
      BY <2>1, <2>2, QuietWrite
  <2>. QED BY <2>1, <2>3, AppliedKeeps
<1>3. ASSUME NEW b \in Builds, Kill(b) \/ Finish(b)
      PROVE  AppliedInv'
  <2>1. /\ Acts(b) /\ build[b].pc # "idle" /\ build'[b].pc # "output"
        /\ Extends(build[b], build'[b])
      BY <1>3, EndActs, EndExtends
  <2>2. ~world.overlap => Outcomes(b)
      BY <1>3, EndOutcomes
  <2>. QED BY <2>1, <2>2, AppliedKeeps
<1>4. ASSUME NEW b \in Builds, Report(b)
      PROVE  AppliedInv'
  <2>1. /\ Acts(b) /\ build[b].pc # "idle" /\ build'[b].pc # "output"
        /\ Extends(build[b], build'[b]) /\ Outcomes(b)
      BY <1>4, ReportActs, ReportExtends, ReportOutcomes
  <2>. QED BY <2>1, AppliedKeeps
<1>5. ASSUME NEW b \in Builds, NEW i \in 1 .. 3, Transform(b, i)
      PROVE  AppliedInv'
  <2>1. CASE Report(b)
      BY <1>4, <2>1
  <2>2. CASE ~Report(b)
    <3>1. /\ Acts(b) /\ build[b].pc # "idle"
          /\ Extends(build[b], build'[b])
          /\ build'[b].pc = "output" => OpensOwn(b)'
        BY <1>5, <2>2, TransformActs, TransformExtends
    <3>2. ~world.overlap => Outcomes(b)
        BY <1>5, <2>2, TransformOutcomes
    <3>. QED BY <3>1, <3>2, AppliedKeeps
  <2>. QED BY <2>1, <2>2
<1>6. ASSUME NEW b \in Builds, SourcemapLink(b)
      PROVE  AppliedInv'
    BY <1>3, <1>4, <1>6 DEF SourcemapLink
<1>. QED BY <1>1, <1>2, <1>3, <1>5, <1>6
         DEF Next, VisibilityPass, ContainmentGuardPass, StageAssertPass

-----------------------------------------------------------------------------
(* Sidecars are true of the disk.                                          *)

(* A build that is past its checks goes on, never back.                    *)
Advances(b) ==
    build[b].pc \notin {"idle", "check"} =>
        /\ build'[b].pc \notin {"idle", "check"}
        /\ build'[b].pc = "ended" \/ (build'[b].at \in Nat /\ build'[b].at >= build[b].at)

LEMMA RecentKeeps ==
    ASSUME LocalInv, TypeInv, OwnInv, ~world.overlap, NEW b \in Builds, Acts(b),
           build[b].pc = "idle" => UNCHANGED fs, Outcomes(b),
           NEW p \in Projects, NEW d \in Dests, NEW x \in Range(Passes), NEW record,
           record.by \in Builds, record.name = x,
           build[record.by].pc \notin {"idle", "check"},
           build[record.by].pc # "ended" => Rank(x) <= build[record.by].at,
           AsRecent(Out(p, d), record)
    PROVE  AsRecent(Out(p, d), record)'
<1> DEFINE q == Out(p, d)
<1>1. record.by <= b /\ record.by \in Nat /\ b \in Nat
  <2>1. record.by \in Nat /\ b \in Nat
      BY MaxBuildAssumption DEF Builds
  <2>2. record.by > b => build[record.by].pc = "idle"
      BY <2>1, OneActs
  <2>. QED BY <2>1, <2>2
<1>2. Outcome(b, q)
    BY DEF Outcomes
<1>3. q # Nowhere
    BY OutPaths
<1> HIDE DEF q
<1>4. AsRecent(q, record)' <=>
        \/ /\ fs'[q].kind = "rewrite"
           /\ \/ fs'[q].by > record.by
              \/ fs'[q].by = record.by /\ Rank(fs'[q].pass) >= Rank(record.name)
        \/ /\ fs'[q] = Partial
           /\ \E c \in Builds :
                 /\ c >= record.by
                 /\ \/ build'[c].exit = "killed" \/ build'[c].handle = q
                    \/ NowSlipped(c, "write", q)
    BY DEF AsRecent, Slipped, NowSlipped, q
<1>5. AsRecent(q, record)' => AsRecent(Out(p, d), record)'
    BY DEF q
<1>6. CASE fs'[q] = fs[q] /\ build[b].handle # q
  <2>1. CASE fs[q].kind = "rewrite"
      BY <1>4, <1>5, <1>6, <2>1 DEF AsRecent, q, Partial
  <2>2. CASE fs[q].kind # "rewrite"
    <3>1. fs[q] = Partial
        BY <2>2 DEF AsRecent, q
    <3>2. PICK c \in Builds : /\ c >= record.by
                             /\ \/ build[c].exit = "killed" \/ build[c].handle = q
                                \/ Slipped(c, "write", q)
        BY <2>2 DEF AsRecent, q
    <3>3. CASE Slipped(c, "write", q)
        BY <1>4, <1>5, <1>6, <3>1, <3>2, <3>3, SlipsStay
    <3>4. CASE build[c].exit = "killed" \/ build[c].handle = q
      <4>1. c # b
        <5>1. build[b].exit = "none"
            BY Closed DEF Acts
        <5>. QED BY <1>6, <3>4, <5>1
      <4>2. build'[c] = build[c]
          BY <4>1, OneActs
      <4>. QED BY <1>4, <1>5, <1>6, <3>1, <3>2, <3>4, <4>2
    <3>. QED BY <3>2, <3>3, <3>4
  <2>. QED BY <2>1, <2>2
<1>7. CASE /\ fs'[q] = Partial
           /\ build'[b].handle = q \/ build'[b].exit = "killed" \/ NowSlipped(b, "write", q)
    BY <1>1, <1>4, <1>5, <1>7
<1>8. ASSUME build[b].at \in 1 .. 3, NEW of, fs'[q] = Rewrite(b, of, Pass(b), build[b].file)
      PROVE  AsRecent(Out(p, d), record)'
  <2>1. Rank(Pass(b)) = build[b].at
      BY <1>8, Ranks DEF Pass
  <2>2. /\ fs'[q].kind = "rewrite" /\ fs'[q].by = b /\ fs'[q].pass = Pass(b)
      BY <1>8 DEF Rewrite
  <2>3. CASE b > record.by
      BY <1>4, <1>5, <2>2, <2>3
  <2>4. CASE b = record.by
    <3>1. Rank(x) <= build[b].at
        BY <2>4 DEF Acts
    <3>2. Rank(fs'[q].pass) >= Rank(record.name)
        BY <1>8, <2>1, <2>2, <3>1, Ranks
    <3>. QED BY <1>4, <1>5, <2>2, <2>4, <3>2
  <2>. QED BY <1>1, <2>3, <2>4
<1>. QED BY <1>2, <1>6, <1>7, <1>8 DEF Outcome

LEMMA TrueKeeps ==
    ASSUME LocalInv, TypeInv, OwnInv, ~world.overlap, NEW b \in Builds, Acts(b),
           build[b].pc = "idle" => UNCHANGED fs, Outcomes(b), Advances(b),
           NEW p \in Projects, NEW x \in Range(Passes), NEW record \in Contents,
           record.kind = "sidecar", IsTrue(p, x, record)
    PROVE  IsTrue(p, x, record)'
<1>1. record.rows \subseteq Files /\ record.by \in Builds /\ record.count \in Nat
    BY RecordRows
<1>2. world' = world
    BY DEF Acts
<1>3. Backing(p, record) \subseteq Backing(p, record)'
  <2>1. ASSUME NEW f \in record.rows, AsRecent(Out(p, world.dest[f]), record)
        PROVE  AsRecent(Out(p, world.dest[f]), record)'
    <3>1. PICK d \in Dests : d = world.dest[f]
        BY <1>1, WorldTypes DEF TypeInv
    <3>2. AsRecent(Out(p, d), record)
        BY <2>1, <3>1
    <3>3. AsRecent(Out(p, d), record)'
        BY <3>2, RecentKeeps DEF IsTrue
    <3>4. d = world'.dest[f]
        BY <1>2, <3>1
    <3>. QED BY <3>3, <3>4
  <2>2. ASSUME NEW f \in record.rows, Slipped(record.by, "open", Out(p, world.dest[f]))
        PROVE  Slipped(record.by, "open", Out(p, world.dest[f]))'
      BY <1>1, <1>2, <2>2, SlipsStay DEF Slipped, NowSlipped
  <2>. QED BY <1>2, <2>1, <2>2 DEF Backing
<1>4. Cardinality(Backing(p, record)') >= record.count
  <2>1. Backing(p, record)' \subseteq Files
      BY <1>1 DEF Backing
  <2>2. IsFiniteSet(Backing(p, record)')
      BY <2>1, FilesAssumption, FS_Subset
  <2>3. /\ Cardinality(Backing(p, record)) <= Cardinality(Backing(p, record)')
        /\ Cardinality(Backing(p, record)) \in Nat /\ Cardinality(Backing(p, record)') \in Nat
      BY <1>3, <2>2, FS_Subset, FS_CardinalityType
  <2>4. Cardinality(Backing(p, record)) >= record.count
      BY DEF IsTrue
  <2>. QED BY <1>1, <2>3, <2>4
<1>5. /\ build'[record.by].pc \notin {"idle", "check"}
      /\ build'[record.by].pc # "ended" => Rank(x) <= build'[record.by].at
  <2>1. CASE record.by = b
    <3>1. /\ build'[b].pc \notin {"idle", "check"}
          /\ build'[b].pc = "ended" \/ (build'[b].at \in Nat /\ build'[b].at >= build[b].at)
        BY <2>1 DEF IsTrue, Advances
    <3>2. Rank(x) <= build[b].at
        BY <2>1 DEF IsTrue, Acts
    <3>3. build[b].at \in Nat /\ Rank(x) \in Nat
        BY Ranks, TypeOf
    <3>. QED BY <2>1, <3>1, <3>2, <3>3
  <2>2. CASE record.by # b
      BY <1>1, <2>2, OneActs DEF IsTrue
  <2>. QED BY <2>1, <2>2
<1>. QED BY <1>1, <1>4, <1>5 DEF IsTrue

(* The sidecar that a pass writes is true: what it counts was written by   *)
(* this build, or could not be opened, and nothing has come in between.    *)
LEMMA FreshIsTrue ==
    ASSUME LocalInv, TypeInv, OwnInv, LogInv, AppliedInv, ~world.overlap,
           NEW b \in Builds, WriteSidecar(b),
           NEW p \in Projects, NEW x \in Range(Passes),
           p = build[b].req.project, x = Reported(b),
           \A d \in Dests : fs'[Out(p, d)] = fs[Out(p, d)],
           NEW record, record = Record(b, x, Cardinality(build[b].written), build[b].rows)
    PROVE  IsTrue(p, x, record)'
<1>1. /\ build[b].pc = "sidecar" /\ build[b].exit = "none" /\ Acts(b) /\ UNCHANGED world
      /\ build'[b].pc = "rename" /\ build'[b].at = build[b].at
    BY Closed, ReportActs, WriteSidecarGives DEF WriteSidecar, Report, Goes
<1>2. build[b].at \in 1 .. 3 /\ x = Passes[build[b].at] /\ Rank(x) = build[b].at
  <2>1. build[b].at \in 1 .. 4 /\ x # Link /\ Len(Passes) = 3
      BY <1>1, ShapeAt, Kinds DEF Link
  <2>2. build[b].at \in 1 .. 3 /\ x = Passes[build[b].at]
      BY <2>1 DEF Reported, Pass
  <2>. QED BY <2>2, Ranks
<1>3. /\ record.kind = "sidecar" /\ record.by = b /\ record.name = x
      /\ record.count = Cardinality(build[b].written) /\ record.rows = build[b].rows
    BY DEF Record
<1>4. Undisturbed(b)
  <2>1. ASSUME NEW c \in Builds, c > b
        PROVE  build[c].pc = "idle"
    <3>1. c # b
        BY <2>1, MaxBuildAssumption DEF Builds
    <3>. QED BY <1>1, <2>1, <3>1, OneActs
  <2>. QED BY <1>1, <2>1 DEF Undisturbed, Newest
<1>5. build[b].written \subseteq build[b].rows /\ build[b].rows \subseteq Files
    BY TypeOf DEF LogInv, Logged
<1>6. ASSUME NEW f \in build[b].written
      PROVE  f \in Backing(p, record)'
  <2>1. world.dest[f] \in Dests /\ f \in Files
      BY <1>5, WorldTypes DEF TypeInv
  <2>2. PICK q : q = Out(p, world.dest[f])
      OBVIOUS
  <2>3. q # Nowhere /\ q[2] = "out" /\ q = Path(b, f) /\ fs'[q] = fs[q]
      BY <2>1, <2>2, OutPaths DEF Path
  <2>4. build[b].handle # q
    <3>1. build[b].handle = Nowhere \/ build[b].handle[2] = "passes"
        BY <1>1 DEF LocalInv, Shape
    <3>. QED BY <2>3, <3>1
  <2>5. \/ Slipped(b, "open", q)
        \/ fs[q].kind = "rewrite" /\ fs[q].by = b /\ Rank(fs[q].pass) >= build[b].at
        \/ fs[q] = Partial /\ Slipped(b, "write", q)
    <3>1. Wrote(b, f, build[b].at)
        BY <1>4 DEF AppliedInv
    <3>. QED BY <2>3, <2>4, <3>1 DEF Wrote
  <2>6. \A op : Slipped(b, op, q) => NowSlipped(b, op, q)
      BY <1>1, SlipsStay
  <2>7. NowSlipped(b, "open", q) \/ AsRecent(q, record)'
    <3>1. CASE fs[q].kind = "rewrite" /\ fs[q].by = b /\ Rank(fs[q].pass) >= build[b].at
        BY <1>2, <1>3, <2>3, <3>1 DEF AsRecent
    <3>2. CASE fs[q] = Partial /\ NowSlipped(b, "write", q)
      <4>1. b >= record.by
          BY <1>3, MaxBuildAssumption DEF Builds
      <4>. QED BY <2>3, <3>2, <4>1 DEF AsRecent, Slipped, NowSlipped
    <3>. QED BY <2>5, <2>6, <3>1, <3>2
  <2>8. f \in record.rows /\ q = Out(p, world'.dest[f])
      BY <1>1, <1>3, <1>5, <2>2
  <2>. QED BY <1>3, <2>7, <2>8 DEF Backing, Slipped, NowSlipped
<1>7. Cardinality(Backing(p, record)') >= record.count
  <2>1. Backing(p, record)' \subseteq Files
      BY <1>3, <1>5 DEF Backing
  <2>2. IsFiniteSet(Backing(p, record)')
      BY <2>1, FilesAssumption, FS_Subset
  <2>3. build[b].written \subseteq Backing(p, record)'
      BY <1>6
  <2>. QED BY <1>3, <2>2, <2>3, FS_Subset, FS_CardinalityType
<1>8. Rank(x) <= build'[b].at
    BY <1>1, <1>2
<1>. QED BY <1>1, <1>3, <1>7, <1>8 DEF IsTrue

(* A step of b leaves the sidecars of passes, in their places or beside    *)
(* them, as they are, or moves one, or writes one that is true.            *)
Places(p, x) == {Sidecar(p, x), SidecarTmp(p, x)}

LEMMA BackedKeeps ==
    ASSUME LocalInv, TypeInv, OwnInv, BackedInv, NEW b \in Builds, Acts(b),
           build[b].pc = "idle" => UNCHANGED fs,
           ~world.overlap => Outcomes(b), Advances(b),
           ~world.overlap =>
             \A p \in Projects, x \in Range(Passes) : \A q \in Places(p, x) :
               fs'[q].kind = "sidecar" =>
                 \/ \E r \in Places(p, x) : fs'[q] = fs[r]
                 \/ \E record : fs'[q] = record /\ IsTrue(p, x, record)'
    PROVE  BackedInv'
<1> SUFFICES ASSUME ~world.overlap, NEW p \in Projects, NEW x \in Range(Passes),
                    NEW q \in Places(p, x),
                    fs'[q].kind = "sidecar", NEW record, record = fs'[q]
             PROVE  IsTrue(p, x, record)'
    BY DEF BackedInv, Acts, Places
<1>1. ASSUME NEW r \in Places(p, x), record = fs[r]
      PROVE  IsTrue(p, x, record)'
  <2>1. IsTrue(p, x, record)
      BY <1>1 DEF BackedInv, Places
  <2>2. record \in Contents /\ record.kind = "sidecar"
      BY <1>1, PathTypes DEF TypeInv, Places, Reports
  <2>. QED BY <2>1, <2>2, TrueKeeps
<1>. QED BY <1>1

LEMMA TransformAdvances ==
    ASSUME LocalInv, TypeInv, NEW b \in Builds, NEW i \in 1 .. 3, Transform(b, i), ~Report(b)
    PROVE  Advances(b)
<1> DEFINE at == build[b].at
<1>1. at \in Nat
    BY TypeOf
<1>2. ASSUME NEW pc, NEW n, NEW h, Goes(b, pc, n, h), n = at \/ n = at + 1,
             pc \notin {"idle", "check"}
      PROVE  Advances(b)
    BY <1>1, <1>2 DEF Goes, Advances
<1>3. ASSUME NEW code, Over(b, code)
      PROVE  Advances(b)
    BY <1>3 DEF Over, Advances
<1> HIDE DEF at
<1>4. CASE Skip(b) \/ Refuse(b) \/ RemoveRequest(b)
    BY <1>2, <1>3, <1>4, SkipGives, RefuseGives, RemoveRequestGives DEF at
<1>5. CASE OpenRequest(b)
  <2>1. PICK h : Goes(b, "request", at, h)
      BY <1>5, OpenRequestGives DEF at
  <2>. QED BY <1>2, <2>1
<1>9. CASE WriteRequest(b) \/ ToolReads(b)
    BY <1>2, <1>9, WriteRequestGives, ToolReadsGives DEF at
<1>10. CASE ToolFails(b) \/ ToolSucceeds(b)
    BY <1>2, <1>10, ToolFailsGives, ToolSucceedsGives DEF at
<1>6. CASE Abort(b)
    BY <1>3, <1>6, ExitGives DEF Abort
<1>7. CASE OpenOutput(b)
  <2>1. \E h : Goes(b, "output", at, h)
      BY <1>7, OpenOutputGives DEF at
  <2>. QED BY <1>2, <2>1
<1>8. CASE WriteOutput(b)
    BY <1>2, <1>8, WriteOutputGives DEF at
<1>. QED BY <1>4, <1>5, <1>6, <1>7, <1>8, <1>9, <1>10 DEF Transform

LEMMA ReportAdvances ==
    ASSUME LocalInv, TypeInv, NEW b \in Builds, Report(b)
    PROVE  Advances(b)
<1>1. build[b].at \in Nat
    BY TypeOf
<1>2. ASSUME AfterGives(b)
      PROVE  Advances(b)
    BY <1>1, <1>2 DEF AfterGives, Goes, Over, Advances
<1>3. CASE OpenSidecar(b)
  <2>1. PICK h : Goes(b, "sidecar", build[b].at, h)
      BY <1>3, OpenSidecarGives
  <2>. QED BY <1>1, <2>1 DEF Goes, Advances
<1>4. CASE WriteSidecar(b)
  <2>1. Goes(b, "rename", build[b].at, Nowhere)
      BY <1>4, WriteSidecarGives
  <2>. QED BY <1>1, <2>1 DEF Goes, Advances
<1>. QED BY <1>2, <1>3, <1>4, NoSidecarGives, RenameSidecarGives DEF Report

LEMMA ReportSidecars ==
    ASSUME LocalInv, TypeInv, OwnInv, LogInv, WholeInv, AppliedInv, ~world.overlap,
           NEW b \in Builds, Report(b), NEW p \in Projects, NEW x \in Range(Passes),
           NEW q \in Places(p, x), fs'[q].kind = "sidecar"
    PROVE  \/ \E r \in Places(p, x) : fs'[q] = fs[r]
           \/ \E record : fs'[q] = record /\ IsTrue(p, x, record)'
<1>1. x \in Reports /\ x # Link /\ Sidecar(p, x) \in Paths /\ SidecarTmp(p, x) \in Paths
    BY Kinds, PathTypes DEF Reports, Link
<1>2. q \in Paths
    BY <1>1 DEF Places
<1>3. PICK project \in Projects, name \in Reports :
        project = build[b].req.project /\ name = Reported(b)
    BY ReportPaths
<1> DEFINE path == Sidecar(project, name)
           tmp == SidecarTmp(project, name)
<1>4. Tmp(b) = tmp /\ path \in Paths /\ tmp \in Paths /\ path # tmp /\ tmp # Nowhere
    BY <1>3, ReportPaths, SidecarPaths
<1>5. q \in {path, tmp} => p = project /\ x = name
    BY SidecarPaths DEF Places
<1>6. p = project /\ x = name => Places(p, x) = {path, tmp}
    BY DEF Places
<1> HIDE DEF path
<1>7. (q \notin {path, tmp} => fs'[q] = fs[q])
        => (q \notin {path, tmp} => \E r \in Places(p, x) : fs'[q] = fs[r])
    OBVIOUS
<1>8. CASE OpenSidecar(b) \/ NoSidecar(b)
  <2>1. UNCHANGED fs \/ Writes(tmp, Partial)
      BY <1>3, <1>8, OpenSidecarGives DEF NoSidecar, Truncate, Writes
  <2> HIDE DEF tmp
  <2>2. q # tmp => fs'[q] = fs[q]
      BY <1>2, <1>4, <2>1, WriteStays
  <2>3. Writes(tmp, Partial) => q # tmp
      BY <1>4, WriteThere DEF Partial
  <2>. QED BY <2>1, <2>2, <2>3
<1>9. CASE WriteSidecar(b)
  <2>1. PICK count : LET h == build[b].handle
                         text == Record(b, Reported(b), count, build[b].rows) IN
          /\ Reported(b) # Link => count = Cardinality(build[b].written)
          /\ \/ Put(b, Onto(h, text))
             \/ /\ h # Nowhere /\ Put(b, Onto(h, Partial) \cup {fs[h]})
                /\ NowSlipped(b, "write", h)
      BY <1>9, WriteSidecarGives
  <2>2. PICK text : text = Record(b, name, count, build[b].rows)
      OBVIOUS
  <2> HIDE DEF tmp
  <2>3. \/ build[b].handle = tmp /\ fs[tmp] = Partial
        \/ build[b].handle = Nowhere
      BY <1>4, <1>9 DEF WholeInv, OnePerProject, Writing, WriteSidecar
  <2>4. UNCHANGED fs \/ Writes(tmp, Partial) \/ Writes(tmp, text)
    <3>1. CASE build[b].handle = Nowhere
        BY <2>1, <3>1, PutWrites
    <3>2. CASE build[b].handle = tmp /\ fs[tmp] = Partial
      <4>1. Onto(tmp, text) = {text} /\ Onto(tmp, Partial) \cup {fs[tmp]} = {Partial}
          BY <3>2 DEF Onto
      <4>. QED BY <1>3, <1>4, <2>1, <2>2, <3>2, <4>1, PutWrites
    <3>. QED BY <2>3, <3>1, <3>2
  <2>5. q # tmp => fs'[q] = fs[q]
      BY <1>2, <1>4, <2>4, WriteStays
  <2>6. Writes(tmp, Partial) => q # tmp
      BY <1>4, WriteThere DEF Partial
  <2>7. ASSUME q = tmp, Writes(tmp, text)
        PROVE  \E record : fs'[q] = record /\ IsTrue(p, x, record)'
    <3>1. p = build[b].req.project /\ x = Reported(b)
        BY <1>3, <1>5, <2>7
    <3>2. text = Record(b, x, Cardinality(build[b].written), build[b].rows)
        BY <1>1, <1>3, <2>1, <2>2, <3>1
    <3>3. ASSUME NEW d \in Dests PROVE fs'[Out(p, d)] = fs[Out(p, d)]
      <4>1. Out(p, d) # tmp /\ Out(p, d) \in Paths
          BY OutPaths, PathTypes, SidecarPaths DEF tmp
      <4>. QED BY <1>4, <2>7, <4>1, WriteStays
    <3>4. IsTrue(p, x, text)'
        BY <1>9, <3>1, <3>2, <3>3, FreshIsTrue
    <3>5. fs'[q] = text
        BY <1>4, <2>7, WriteThere
    <3>. QED BY <3>4, <3>5
  <2>. QED BY <2>4, <2>5, <2>6, <2>7
<1>10. CASE RenameSidecar(b)
  <2>1. UNCHANGED fs \/ fs' = [fs EXCEPT ![path] = fs[tmp], ![tmp] = Absent]
      BY <1>3, <1>10 DEF RenameSidecar, path
  <2>2. CASE UNCHANGED fs
      BY <2>2
  <2>3. CASE fs' = [fs EXCEPT ![path] = fs[tmp], ![tmp] = Absent]
    <3> HIDE DEF tmp
    <3>1. /\ fs'[path] = fs[tmp] /\ fs'[tmp] = Absent
          /\ q \notin {path, tmp} => fs'[q] = fs[q]
        BY <1>2, <1>4, <2>3 DEF TypeInv
    <3>2. q # tmp
        BY <3>1 DEF Absent
    <3>. QED BY <1>5, <1>6, <3>1, <3>2
  <2>. QED BY <2>1, <2>2, <2>3
<1>. QED BY <1>8, <1>9, <1>10 DEF Report

LEMMA NextBacked ==
    ASSUME LocalInv, TypeInv, OwnInv, LogInv, WholeInv, AppliedInv, BackedInv, [Next]_vars
    PROVE  BackedInv'
<1>1. CASE UNCHANGED vars
  <2>1. UNCHANGED build /\ UNCHANGED world /\ UNCHANGED fs
      BY <1>1 DEF vars
  <2>2. ASSUME NEW p, NEW x, NEW record, IsTrue(p, x, record)
        PROVE  IsTrue(p, x, record)'
    <3>1. Backing(p, record)' = Backing(p, record)
        BY <2>1 DEF Backing, AsRecent, Slipped
    <3>. QED BY <2>1, <2>2, <3>1 DEF IsTrue
  <2>. QED BY <2>1, <2>2 DEF BackedInv
<1>2. ASSUME NEW b \in Builds, Verify(b)
      PROVE  BackedInv'
  <2>1. Acts(b) /\ UNCHANGED fs /\ build[b].pc \in {"idle", "check"}
      BY <1>2, VerifyActs DEF Verify, Start, Reject, Check, Gate, MayStart
  <2>2. Outcomes(b) /\ Advances(b)
      BY <2>1, QuietWrite DEF Advances
  <2>. QED BY <2>1, <2>2, BackedKeeps
<1>3. ASSUME NEW b \in Builds, Kill(b) \/ Finish(b)
      PROVE  BackedInv'
  <2>1. Acts(b) /\ UNCHANGED fs /\ Advances(b)
      BY <1>3, EndActs DEF Advances
  <2>2. ~world.overlap => Outcomes(b)
      BY <1>3, EndOutcomes
  <2>. QED BY <2>1, <2>2, BackedKeeps
<1>4. ASSUME NEW b \in Builds, Report(b)
      PROVE  BackedInv'
  <2>1. Acts(b) /\ build[b].pc # "idle" /\ Advances(b) /\ Outcomes(b)
      BY <1>4, ReportActs, ReportAdvances, ReportOutcomes
  <2>2. ~world.overlap =>
          \A p \in Projects, x \in Range(Passes) : \A q \in Places(p, x) :
            fs'[q].kind = "sidecar" =>
              \/ \E r \in Places(p, x) : fs'[q] = fs[r]
              \/ \E record : fs'[q] = record /\ IsTrue(p, x, record)'
      BY <1>4, ReportSidecars
  <2>. QED BY <2>1, <2>2, BackedKeeps
<1>5. ASSUME NEW b \in Builds, NEW i \in 1 .. 3, Transform(b, i)
      PROVE  BackedInv'
  <2>1. CASE Report(b)
      BY <1>4, <2>1
  <2>2. CASE ~Report(b)
    <3>1. Acts(b) /\ build[b].pc # "idle" /\ Advances(b)
        BY <1>5, <2>2, TransformActs, TransformAdvances
    <3>2. ~world.overlap => Outcomes(b)
        BY <1>5, <2>2, TransformOutcomes
    <3>3. UNCHANGED fs \/ \E r, c : Writes(r, c) /\ r[2] # "passes"
        BY <1>5, <2>2, TransformFiles
    <3>4. ASSUME NEW p \in Projects, NEW x \in Range(Passes), NEW q \in Places(p, x)
          PROVE  fs'[q] = fs[q]
      <4>1. q \in Paths /\ q[2] = "passes"
          BY PathTypes, SidecarPaths DEF Places, Reports
      <4>. QED BY <3>3, <4>1, WriteStays
    <3>. QED BY <3>1, <3>2, <3>4, BackedKeeps
  <2>. QED BY <2>1, <2>2
<1>6. ASSUME NEW b \in Builds, SourcemapLink(b)
      PROVE  BackedInv'
    BY <1>3, <1>4, <1>6 DEF SourcemapLink
<1>. QED BY <1>1, <1>2, <1>3, <1>5, <1>6
         DEF Next, VisibilityPass, ContainmentGuardPass, StageAssertPass

-----------------------------------------------------------------------------
(* The theorems.                                                           *)

FilesInv == IInv /\ TypeInv /\ LogInv /\ WholeInv /\ AppliedInv /\ BackedInv

LEMMA InitFiles == ASSUME Init PROVE TypeInv /\ WholeInv /\ AppliedInv /\ BackedInv
<1>1. PICK r \in world.requests : build = [b \in Builds |-> Idle(r)]
  <2>1. world.requests # {}
      BY WorldTypes DEF Init
  <2>. QED BY <2>1 DEF Init
<1>2. TypeInv
    BY InitTypes
<1>3. \A b \in Builds : build[b] = Idle(r)
    BY <1>1
<1>4. \A b \in Builds : /\ build[b].pc = "idle" /\ build[b].written = {}
                        /\ \A x \in Range(Passes) : build[b].log[x].files = {}
    BY <1>3 DEF Idle, NotRun
<1>5. \A q \in Paths : fs[q].kind = "absent"
    BY DEF Init, Absent
<1>6. WholeInv
  <2>1. \A p \in Projects, n \in Reports : WholeAt(p, n)
      BY <1>5, PathTypes DEF WholeAt
  <2>. QED BY <1>4, <2>1 DEF WholeInv, Writing
<1>7. AppliedInv
    BY <1>4 DEF AppliedInv
<1>8. BackedInv
    BY <1>5, PathTypes DEF BackedInv, Reports
<1>. QED BY <1>2, <1>6, <1>7, <1>8

(* Types, the state of every sidecar and of every output that counts: what *)
(* the theorems below rest on, kept by every step of every build.          *)
THEOREM FilesInvariance == Spec => []FilesInv
<1>1. Init => FilesInv
    BY InitBuilds, InitLog, InitFiles DEF FilesInv
<1>2. FilesInv /\ [Next]_vars => FilesInv'
  <2>1. SUFFICES ASSUME LocalInv, TempInv, OwnInv, TypeInv, LogInv, WholeInv, AppliedInv,
                        BackedInv, [Next]_vars
                 PROVE  FilesInv'
      BY DEF FilesInv, IInv
  <2>2. LocalInv' /\ TempInv' /\ OwnInv'
      BY <2>1, NextLocal, NextTemp, NextOwn
  <2>3. TypeInv' /\ LogInv'
      BY <2>1, NextTypes, NextLog
  <2>4. WholeInv' /\ AppliedInv' /\ BackedInv'
      BY <2>1, <2>3, NextWhole, NextApplied, NextBacked
  <2>. QED BY <2>2, <2>3, <2>4 DEF FilesInv, IInv
<1>. QED BY <1>1, <1>2, PTL DEF Spec

(* The processes and the files hold what main.cpp can put there; the error *)
(* and warning counts stay within two for each of the six checks.          *)
THEOREM TypeCorrect == Spec => []TypeOK
<1>1. FilesInv => TypeOK
  <2>1. SUFFICES ASSUME LocalInv, TypeInv
                 PROVE  TypeOK
      BY DEF FilesInv, IInv
  <2>2. build = [b \in Builds |-> build[b]]
      BY <2>1 DEF LocalInv
  <2>3. \A b \in Builds : build[b] \in BuildState
      BY <2>1 DEF TypeInv, Typed
  <2>. QED BY <2>1, <2>2, <2>3 DEF TypeOK, TypeInv
<1>. QED BY <1>1, FilesInvariance, PTL

(* Whatever is killed and whenever, a sidecar is absent or complete, as    *)
(* long as no two builds of a project overlap: it is written beside and    *)
(* renamed (main.cpp:662-672).  Excepted is the sidecar of a pass whose    *)
(* temporary file a build of the project could not open or write whole:    *)
(* the code renames what is there.                                         *)
THEOREM NoHalfSidecar == Spec => []SidecarsAreWhole
<1>1. FilesInv => SidecarsAreWhole
    BY DEF FilesInv, WholeInv, WholeAt, SidecarsAreWhole
<1>. QED BY <1>1, FilesInvariance, PTL

(* An exit code of 0 means that the passes that were forced succeeded and  *)
(* their outputs are in place (isForce && !transformOk, main.cpp:699, 978, *)
(* 1287), except for an output that could not be opened or written whole   *)
(* (595-597), and made of this build's sources unless the request could    *)
(* not be opened (549-552).                                                *)
THEOREM ForcedPassesApplied == Spec => []ForcedIsApplied
<1>1. FilesInv => ForcedIsApplied
  <2>1. SUFFICES ASSUME FilesInv, NEW b \in Builds, NEW x \in Range(Passes),
                        build[b].exit = "0", build[b].log[x].mode = "force"
                 PROVE  /\ build[b].log[x].ok
                        /\ ~world.overlap /\ Newest(b) =>
                             \A f \in build[b].log[x].files :
                               LET path == Out(build[b].req.project, world.dest[f]) IN
                               \/ Slipped(b, "open", path) \/ Slipped(b, "write", path)
                               \/ /\ fs[path].kind = "rewrite"
                                  /\ fs[path].by = b
                                  /\ \/ fs[path].of = b
                                     \/ Slipped(b, "open", Temp(fs[path].pass))
                                  /\ Rank(fs[path].pass) >= Rank(x)
      BY DEF ForcedIsApplied
  <2>2. build[b].handle = Nowhere
      BY <2>1, Closed DEF FilesInv, IInv
  <2>3. build[b].log[x].ok
      BY <2>1 DEF FilesInv, LogInv, Logged
  <2>4. ASSUME ~world.overlap, Newest(b), NEW f \in build[b].log[x].files
        PROVE  \/ Slipped(b, "open", Path(b, f)) \/ Slipped(b, "write", Path(b, f))
               \/ /\ fs[Path(b, f)].kind = "rewrite"
                  /\ fs[Path(b, f)].by = b
                  /\ \/ fs[Path(b, f)].of = b
                     \/ Slipped(b, "open", Temp(fs[Path(b, f)].pass))
                  /\ Rank(fs[Path(b, f)].pass) >= Rank(x)
    <3>1. Wrote(b, f, Rank(x))
        BY <2>1, <2>4 DEF FilesInv, AppliedInv, Undisturbed
    <3>2. Path(b, f) # Nowhere
        BY OutPaths DEF Path
    <3>. QED BY <2>2, <3>1, <3>2 DEF Wrote
  <2>. QED BY <2>3, <2>4 DEF Path
<1>. QED BY <1>1, FilesInvariance, PTL

(* What a pass's sidecar counts is on the disk, whatever was killed or     *)
(* failed before or since, where builds do not overlap (main.cpp:570-695), *)
(* except for the outputs that its build could not open.                   *)
THEOREM SidecarsAreTrue == Spec => []SidecarIsBacked
<1>1. FilesInv => SidecarIsBacked
    BY DEF FilesInv, BackedInv, IsTrue, Backing, SidecarIsBacked
<1>. QED BY <1>1, FilesInvariance, PTL

=============================================================================
