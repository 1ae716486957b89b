---------------------------- MODULE DebugAdapter ----------------------------
(***************************************************************************)
(* topo-debug/adapter.mjs: the debug adapter that drives one Node target   *)
(* over the Chrome DevTools Protocol (CDP).  It spawns the target paused,  *)
(* connects to its inspector, sets one line breakpoint, resumes past every *)
(* other pause, and at the breakpoint writes a breakpoint_hit line and two *)
(* frames per variable on stdout.  It then holds the target until the      *)
(* control plane says continue, resumes it and waits for it to exit.       *)
(*                                                                         *)
(* The adapter is one async function: pc names the await it is suspended   *)
(* at, and an action is one event-loop task together with everything run() *)
(* does up to its next await.  The inspector, the target, the socket and   *)
(* the control plane are external and modelled from how the adapter uses   *)
(* them.  Time is a choice: an armed timer may fire at any moment.         *)
(***************************************************************************)
EXTENDS Naturals, Sequences

CONSTANTS
    NumVars,   \* how many variables --var names (parseArgs supplies one if none)
    Epochs,    \* pauses are numbered modulo Epochs, so a run may pause forever
    MaxLines   \* bound: unread lines on the adapter's stdin

ASSUME ConstantsAssumption ==
    /\ NumVars \in Nat \ {0}
    /\ Epochs \in Nat \ {0}
    /\ MaxLines \in Nat \ {0}

VARIABLES
    pc,         \* the await run() is suspended at
    exitCode,   \* the adapter's exit code, NotExited while it runs
    var,        \* index of the variable being extracted (args.vars)
    meta,       \* the pause at which var's probe was answered
    listener,   \* the current waitForPaused promise (its timer is armed with it)
    paused,     \* the params of the paused event that promise resolved with
    deadline,   \* overallDeadline of the breakpoint loop
    out,        \* records handed to process.stdout, in order
    flushed,    \* how many of them have reached the pipe
    ws,         \* the WebSocket as the adapter's event loop sees it
    request,    \* the CDP command on its way to the inspector
    answer,     \* its reply, composed by the inspector and not sent yet
    inbox,      \* messages on their way to the adapter
    target,     \* the Node child process
    site,       \* where the target is paused
    pauseNo,    \* number of its latest pause, modulo Epochs
    bpSet,      \* the inspector holds the line breakpoint
    banner,     \* "Debugger listening on ..." was printed on the child's stderr
    sigterm,    \* the adapter sent SIGTERM to the child
    exitSeen,   \* the child's 'exit' event was delivered
    stdin,      \* unread lines on the adapter's stdin
    stdinEnded  \* the control plane closed it

waitVars   == <<listener, paused, deadline>>
outVars    == <<out, flushed>>
chanVars   == <<request, answer, inbox>>
targetVars == <<target, site, pauseNo, bpSet, banner>>
childVars  == <<sigterm, exitSeen>>
stdinVars  == <<stdin, stdinEnded>>
vars == <<pc, exitCode, var, meta, waitVars, outVars, ws, chanVars,
          targetVars, childVars, stdinVars>>

-----------------------------------------------------------------------------
(* Awaits, exit codes, messages and wire records. *)

NotExited == 255

LaunchCalls  == {"EnableRuntime", "EnableDebugger", "SetBreakpoint"}
RuntimeCalls == {"RunIfWaiting", "ResumePast", "Probe", "Extract"}
\* The awaits of cdp.send: at most one command is ever outstanding.
Calls == LaunchCalls \cup RuntimeCalls \cup {"FinalResume"}
PausePcs == {"EntryPause", "NextPause"}
Pcs == Calls \cup PausePcs \cup
       {"Start", "Banner", "Connect", "DrainBytes", "DrainLayout",
        "AwaitContinue", "AwaitExit", "Exited"}

\* Mutant: every failed command is reported as a launch failure.
FailCodeLaunchOnly(call) == 2

\* A failed command ends the adapter with "launch failed" or "runtime error".
FailCode(call) == IF call \in LaunchCalls THEN 2 ELSE 3

\* Where a paused event's top frame is: the breakpoint's line and file, its
\* line in a script without a URL, anywhere else, or no frame at all.
Sites == {"bp", "anonymous", "elsewhere", "noFrames"}
\* Mutant: the first pause is taken for the breakpoint.
AtBreakpointAnywhere(p) == p.val \in Sites
AtBreakpoint(p) == p.val \in {"bp", "anonymous"}

\* What the probe expression tells of a variable, and what a byte pull gives.
RuntimeProbes     == {"exception", "noValue", "undefined"}
UnsupportedProbes == {"notTypedArray", "noDtype"}
ProbeResults   == {"ok", "error"} \cup RuntimeProbes \cup UnsupportedProbes
ExtractResults == {"ok", "error", "exception", "notArray"}

NoMsg     == [kind |-> "none", val |-> "none", at |-> 0]
Reply(r)  == [kind |-> "reply", val |-> r, at |-> pauseNo]
Paused(s) == [kind |-> "paused", val |-> s, at |-> (pauseNo + 1) % Epochs]
Stamps    == 0 .. Epochs - 1
Replies   == [kind : {"reply"}, val : ProbeResults \cup ExtractResults, at : Stamps]
Pauses    == [kind : {"paused"}, val : Sites, at : Stamps]

\* A record on the wire: its kind, its variable, the pause its content is from.
Record(k, v, s) == [kind |-> k, of |-> v, at |-> s]
Records == [kind : {"hit", "bytes", "layout"}, of : 0 .. NumVars, at : Stamps]
FullWire == 1 + 2 * NumVars

Init ==
    /\ pc = "Start"
    /\ exitCode = NotExited
    /\ var = 1
    /\ meta = 0
    /\ listener = "none"
    /\ paused = NoMsg
    /\ deadline = "unset"
    /\ out = <<>>
    /\ flushed = 0
    /\ ws = "none"
    /\ request = "none"
    /\ answer = NoMsg
    /\ inbox = <<>>
    /\ target = "none"
    /\ site = "none"
    /\ pauseNo = 0
    /\ bpSet = FALSE
    /\ banner = FALSE
    /\ sigterm = FALSE
    /\ exitSeen = FALSE
    /\ stdin = <<>>
    /\ stdinEnded = FALSE

-----------------------------------------------------------------------------
(* Steps the handlers share. *)

\* Mutant: the command is sent whatever the socket's state.
SendOnAnySocket(call) == pc' = call /\ request' = call

\* cdp.send: the promise is pending while pc stays here.  On a socket that is
\* closing or closed the command is dropped without an error.
Send(call) ==
    /\ pc' = call
    /\ request' = IF ws = "open" THEN call ELSE "none"

\* process.exit: the socket goes with the process, and a target that loses its
\* debugger runs on.
Exit(code) ==
    /\ pc' = "Exited"
    /\ exitCode' = code
    /\ ws' = IF ws = "none" THEN "none" ELSE "closed"
    /\ listener' = "none"
    /\ request' = "none"
    /\ answer' = NoMsg
    /\ inbox' = <<>>
    /\ target' = IF target = "paused" THEN "running" ELSE target
    /\ UNCHANGED <<var, meta, paused, deadline, outVars, site, pauseNo, bpSet,
                   banner, stdinVars>>

Quit(code) == Exit(code) /\ UNCHANGED childVars

\* Mutant: die(code) without child.kill.
DieWithoutKill(code) == Exit(code) /\ UNCHANGED childVars

\* cdp.close(); child.kill('SIGTERM'); die(code)
Die(code) == Exit(code) /\ sigterm' = TRUE /\ UNCHANGED exitSeen

\* The exit code of the child is known: it exited by itself and 'exit' fired.
ChildCodeKnown == exitSeen /\ target = "exited"

\* After the last resume: wait for the child unless it has already exited.
AwaitChild ==
    IF ChildCodeKnown
    THEN Quit(0)
    ELSE /\ pc' = "AwaitExit"
         /\ inbox' = IF inbox = <<>> THEN <<>> ELSE Tail(inbox)
         /\ ws' = IF inbox = <<>> THEN "closed" ELSE ws
         /\ UNCHANGED <<exitCode, var, meta, waitVars, outVars, request, answer,
                        targetVars, childVars, stdinVars>>

-----------------------------------------------------------------------------
(* Launch: arguments, spawn, banner, socket. *)

\* parseArgs, splitSite and the existence check: --help, bad usage and a missing
\* target end the adapter here; otherwise the target is spawned.
ParseArgs ==
    /\ pc = "Start"
    /\ \/ \E code \in {0, 1, 2} : Quit(code)
       \/ /\ pc' = "Banner"
          /\ target' = "starting"
          /\ UNCHANGED <<exitCode, var, meta, waitVars, outVars, ws, chanVars,
                         site, pauseNo, bpSet, banner, childVars, stdinVars>>

\* The stderr line handler finds the URL and the socket is opened.
BannerSeen ==
    /\ pc = "Banner"
    /\ banner
    /\ pc' = "Connect"
    /\ ws' = "connecting"
    /\ UNCHANGED <<exitCode, var, meta, waitVars, outVars, chanVars, targetVars,
                   childVars, stdinVars>>

\* The 15 s banner timer.
BannerTimeout ==
    /\ pc = "Banner"
    /\ Die(2)

\* The socket's 'open' event: CdpClient is built, Runtime.enable sent.
ConnectOpens ==
    /\ pc = "Connect"
    /\ target = "waiting"
    /\ ws' = "open"
    /\ pc' = "EnableRuntime"
    /\ request' = "EnableRuntime"
    /\ UNCHANGED <<exitCode, var, meta, waitVars, outVars, answer, inbox,
                   targetVars, childVars, stdinVars>>

\* The socket's 'error' event: nobody listens, or another client is attached.
ConnectFails ==
    /\ pc = "Connect"
    /\ Die(2)

-----------------------------------------------------------------------------
(* The breakpoint loop. *)

\* One turn of the loop on the pause p, whose event or whose reply is at the
\* head of the inbox: emit the hit, give up after the deadline, or register the
\* next listener and only then resume.
GoOnWith(p) ==
    /\ paused' = p
    /\ deadline' = IF deadline = "unset" THEN "running" ELSE deadline
    /\ inbox' = Tail(inbox)
    /\ UNCHANGED <<exitCode, var, meta, flushed, ws, answer, targetVars,
                   childVars, stdinVars>>

EmitHit(p) ==
    /\ AtBreakpoint(p)
    /\ out' = Append(out, Record("hit", 0, p.at))
    /\ listener' = "none"
    /\ Send("Probe")
    /\ GoOnWith(p)

\* Mutant: the loop resumes without looking at the clock.
ResumePastTheDeadline(p) ==
    /\ ~AtBreakpoint(p)
    /\ listener' = "armed"
    /\ Send("ResumePast")
    /\ UNCHANGED out
    /\ GoOnWith(p)

ResumePast(p) ==
    /\ ~AtBreakpoint(p)
    /\ deadline # "passed"
    /\ listener' = "armed"
    /\ Send("ResumePast")
    /\ UNCHANGED out
    /\ GoOnWith(p)

GiveUp(p) ==
    /\ ~AtBreakpoint(p)
    /\ deadline = "passed"
    /\ Die(3)

Turn(p) == EmitHit(p) \/ ResumePast(p) \/ GiveUp(p)

\* Date.now() reaches overallDeadline.
DeadlinePasses ==
    /\ deadline = "running"
    /\ pc # "Exited"
    /\ deadline' = "passed"
    /\ UNCHANGED <<pc, exitCode, var, meta, listener, paused, outVars, ws,
                   chanVars, targetVars, childVars, stdinVars>>

\* A Debugger.paused event.  The waiting run() goes on at once; a run() still
\* waiting for a reply finds the promise resolved later; without a listener
\* the event is dropped.
PausedArrives ==
    /\ inbox # <<>>
    /\ Head(inbox).kind = "paused"
    /\ IF listener = "armed" /\ pc \in PausePcs
       THEN Turn(Head(inbox))
       ELSE /\ inbox' = Tail(inbox)
            /\ IF listener = "armed"
               THEN /\ listener' = "resolved"
                    /\ paused' = Head(inbox)
               ELSE UNCHANGED <<listener, paused>>
            /\ UNCHANGED <<pc, exitCode, var, meta, deadline, outVars, ws, request,
                           answer, targetVars, childVars, stdinVars>>

\* The 30 s timer of waitForPaused.  Its rejection is caught where run() awaits
\* the promise; while run() still awaits the reply nothing handles it, and an
\* unhandled rejection ends the process with code 1 and no child.kill.
PauseTimeout ==
    /\ listener = "armed"
    /\ IF pc \in PausePcs THEN Die(3) ELSE Quit(1)

-----------------------------------------------------------------------------
(* Replies to CDP commands. *)

ReplyTo(call, r) ==
    /\ pc = call
    /\ inbox # <<>>
    /\ Head(inbox).kind = "reply"
    /\ Head(inbox).val = r

\* Mutant: the target is released before anybody listens for its entry pause.
LaunchReplyUnheard ==
    /\ \/ ReplyTo("EnableRuntime", "ok") /\ Send("EnableDebugger")
       \/ ReplyTo("EnableDebugger", "ok") /\ Send("SetBreakpoint")
       \/ ReplyTo("SetBreakpoint", "ok") /\ Send("RunIfWaiting")
    /\ inbox' = Tail(inbox)
    /\ UNCHANGED <<exitCode, var, meta, waitVars, outVars, ws, answer,
                   targetVars, childVars, stdinVars>>

\* Runtime.enable, Debugger.enable and setBreakpointByUrl lead to the next
\* command; the entry pause's listener is registered before the release.
LaunchReply ==
    /\ \/ ReplyTo("EnableRuntime", "ok") /\ Send("EnableDebugger") /\ UNCHANGED listener
       \/ ReplyTo("EnableDebugger", "ok") /\ Send("SetBreakpoint") /\ UNCHANGED listener
       \/ ReplyTo("SetBreakpoint", "ok") /\ Send("RunIfWaiting") /\ listener' = "armed"
    /\ inbox' = Tail(inbox)
    /\ UNCHANGED <<exitCode, var, meta, paused, deadline, outVars, ws, answer,
                   targetVars, childVars, stdinVars>>

\* runIfWaitingForDebugger and Debugger.resume: await the pause promise.
ReleaseReply ==
    /\ ReplyTo("RunIfWaiting", "ok") \/ ReplyTo("ResumePast", "ok")
    /\ IF listener = "resolved"
       THEN Turn(paused)
       ELSE /\ pc' = IF pc = "RunIfWaiting" THEN "EntryPause" ELSE "NextPause"
            /\ inbox' = Tail(inbox)
            /\ UNCHANGED <<exitCode, var, meta, waitVars, outVars, ws, request,
                           answer, targetVars, childVars, stdinVars>>

\* The probe's answer: refuse the variable, or ask for its bytes.
ProbeReply ==
    \/ /\ \E r \in RuntimeProbes : ReplyTo("Probe", r)
       /\ Die(3)
    \/ /\ \E r \in UnsupportedProbes : ReplyTo("Probe", r)
       /\ Die(4)
    \/ /\ ReplyTo("Probe", "ok")
       /\ meta' = Head(inbox).at
       /\ inbox' = Tail(inbox)
       /\ Send("Extract")
       /\ UNCHANGED <<exitCode, var, waitVars, outVars, ws, answer, targetVars,
                      childVars, stdinVars>>

\* Mutant: the loop over args.vars runs one variable too far.
AfterLayoutOneMore(o) ==
    /\ out' = o
    /\ IF var > NumVars
       THEN /\ pc' = "AwaitContinue"
            /\ UNCHANGED <<var, request>>
       ELSE /\ var' = var + 1
            /\ Send("Probe")

\* writeFrame comes back at once, or run() awaits the write's callback.
AfterLayout(o) ==
    /\ out' = o
    /\ IF var = NumVars
       THEN /\ pc' = "AwaitContinue"
            /\ UNCHANGED <<var, request>>
       ELSE /\ var' = var + 1
            /\ Send("Probe")

WriteLayout(o) ==
    LET written == Append(o, Record("layout", var, meta)) IN
    \/ AfterLayout(written)
    \/ /\ out' = written
       /\ pc' = "DrainLayout"
       /\ UNCHANGED <<var, request>>

\* Mutant: the layout frame is written before the bytes.
WriteBytesLast(o, at) ==
    AfterLayout(Append(Append(o, Record("layout", var, meta)), Record("bytes", var, at)))

WriteBytes(o, at) ==
    LET written == Append(o, Record("bytes", var, at)) IN
    \/ WriteLayout(written)
    \/ /\ out' = written
       /\ pc' = "DrainBytes"
       /\ UNCHANGED <<var, request>>

ExtractReply ==
    \/ /\ ReplyTo("Extract", "exception") \/ ReplyTo("Extract", "notArray")
       /\ Die(3)
    \/ /\ ReplyTo("Extract", "ok")
       /\ WriteBytes(out, Head(inbox).at)
       /\ inbox' = Tail(inbox)
       /\ UNCHANGED <<exitCode, meta, waitVars, flushed, ws, answer, targetVars,
                      childVars, stdinVars>>

\* The callback of an awaited write: everything handed over is in the pipe.
BytesDrained ==
    /\ pc = "DrainBytes"
    /\ flushed = Len(out)
    /\ WriteLayout(out)
    /\ UNCHANGED <<exitCode, meta, waitVars, flushed, ws, answer, inbox,
                   targetVars, childVars, stdinVars>>

LayoutDrained ==
    /\ pc = "DrainLayout"
    /\ flushed = Len(out)
    /\ AfterLayout(out)
    /\ UNCHANGED <<exitCode, meta, waitVars, flushed, ws, answer, inbox,
                   targetVars, childVars, stdinVars>>

\* The pipe accepts one more record.
Flush ==
    /\ pc # "Exited"
    /\ flushed < Len(out)
    /\ flushed' = flushed + 1
    /\ UNCHANGED <<pc, exitCode, var, meta, waitVars, out, ws, chanVars,
                   targetVars, childVars, stdinVars>>

\* The last resume: its errors are swallowed.
FinalReply ==
    /\ ReplyTo("FinalResume", "ok") \/ ReplyTo("FinalResume", "error")
    /\ AwaitChild

\* An error reply to any earlier command.
ErrorReply ==
    \E call \in LaunchCalls \cup RuntimeCalls :
        /\ ReplyTo(call, "error")
        /\ Die(FailCode(call))

\* The socket's 'close' event, behind every message: it rejects the command
\* that is pending at that moment, and nothing that is sent later.
CloseArrives ==
    /\ ws = "closing"
    /\ inbox = <<>>
    /\ \/ /\ pc \in LaunchCalls \cup RuntimeCalls
          /\ Die(FailCode(pc))
       \/ /\ pc = "FinalResume"
          /\ AwaitChild
       \/ /\ pc \notin Calls
          /\ ws' = "closed"
          /\ UNCHANGED <<pc, exitCode, var, meta, waitVars, outVars, chanVars,
                         targetVars, childVars, stdinVars>>

-----------------------------------------------------------------------------
(* Release: the control plane's line, the last resume, the child's exit. *)

\* Mutant: any line counts as continue.
ReadAnyLine ==
    /\ pc = "AwaitContinue"
    /\ stdin # <<>>
    /\ stdin' = Tail(stdin)
    /\ Send("FinalResume")
    /\ UNCHANGED <<exitCode, var, meta, waitVars, outVars, ws, answer, inbox,
                   targetVars, childVars, stdinEnded>>

\* A line of stdin: {"op":"continue"} ends the wait, any other is ignored.
ReadLine ==
    /\ pc = "AwaitContinue"
    /\ stdin # <<>>
    /\ stdin' = Tail(stdin)
    /\ IF Head(stdin) = "continue"
       THEN Send("FinalResume")
       ELSE UNCHANGED <<pc, request>>
    /\ UNCHANGED <<exitCode, var, meta, waitVars, outVars, ws, answer, inbox,
                   targetVars, childVars, stdinEnded>>

\* End of stdin counts as continue.
ReadEof ==
    /\ pc = "AwaitContinue"
    /\ stdin = <<>>
    /\ stdinEnded
    /\ Send("FinalResume")
    /\ UNCHANGED <<exitCode, var, meta, waitVars, outVars, ws, answer, inbox,
                   targetVars, childVars, stdinVars>>

\* The child's 'exit' (or 'error') event: before the banner it is a launch
\* failure, in the final wait it ends the adapter.
ChildExits ==
    /\ target \in {"exited", "killed"}
    /\ ~exitSeen
    /\ pc # "Exited"
    /\ exitSeen' = TRUE
    /\ \/ /\ pc = "Banner"
          /\ Exit(2)
          /\ sigterm' = TRUE
       \/ /\ pc = "AwaitExit"
          /\ Exit(0)
          /\ sigterm' = (sigterm \/ target = "killed")
       \/ /\ pc \notin {"Banner", "AwaitExit"}
          /\ UNCHANGED <<pc, exitCode, var, meta, waitVars, outVars, ws, chanVars,
                         targetVars, sigterm, stdinVars>>

\* Mutants: an inferior that does not end in time is an error; or the wait is
\* for the child and the timer (all), not for the first of the two (race).
ExitTimeoutFails ==
    /\ pc = "AwaitExit"
    /\ Exit(3)
    /\ sigterm' = (sigterm \/ ~ChildCodeKnown)
    /\ UNCHANGED exitSeen

ExitTimeoutAll ==
    /\ pc = "AwaitExit"
    /\ ChildCodeKnown
    /\ Exit(0)
    /\ UNCHANGED childVars

\* The 5 s timer of the final wait.
ExitTimeout ==
    /\ pc = "AwaitExit"
    /\ Exit(0)
    /\ sigterm' = (sigterm \/ ~ChildCodeKnown)
    /\ UNCHANGED exitSeen

\* Nothing keeps the event loop alive: run() awaits the reply to a command that
\* was dropped on a closed socket, the child is gone and no timer is armed.
\* Node then ends the process by itself, with code 0.
LoopDrains ==
    /\ pc \in Calls
    /\ ws = "closed"
    /\ exitSeen
    /\ listener # "armed"
    /\ flushed = Len(out)
    /\ Quit(0)

-----------------------------------------------------------------------------
(* The control plane, the inspector and the target (external). *)

CtlWrites ==
    /\ ~stdinEnded
    /\ Len(stdin) < MaxLines
    /\ pc # "Exited"
    /\ \E line \in {"continue", "other"} : stdin' = Append(stdin, line)
    /\ UNCHANGED <<pc, exitCode, var, meta, waitVars, outVars, ws, chanVars,
                   targetVars, childVars, stdinEnded>>

CtlCloses ==
    /\ ~stdinEnded
    /\ pc # "Exited"
    /\ stdinEnded' = TRUE
    /\ UNCHANGED <<pc, exitCode, var, meta, waitVars, outVars, ws, chanVars,
                   targetVars, childVars, stdin>>

\* A held target answers its debugger; a command it cannot obey is an error.
Results(call) ==
    IF call \in {"Probe", "Extract", "ResumePast", "FinalResume"} /\ target # "paused"
    THEN {"error"}
    ELSE IF call = "Probe" THEN ProbeResults
    ELSE IF call = "Extract" THEN ExtractResults
    ELSE IF call \in {"ResumePast", "FinalResume"} THEN {"ok"}
    ELSE {"ok", "error"}

\* The inspector carries a command out and composes its reply.
InspectorHandles ==
    /\ request # "none"
    /\ ws = "open"
    /\ request' = "none"
    /\ \E r \in Results(request) :
        /\ answer' = Reply(r)
        /\ bpSet' = (bpSet \/ (request = "SetBreakpoint" /\ r = "ok"))
        /\ target' = IF /\ request \in {"RunIfWaiting", "ResumePast", "FinalResume"}
                        /\ r = "ok"
                        /\ target \in {"waiting", "paused"}
                     THEN "running"
                     ELSE target
    /\ UNCHANGED <<pc, exitCode, var, meta, waitVars, outVars, ws, inbox, site,
                   pauseNo, banner, childVars, stdinVars>>

\* The reply leaves; a pause of the resumed target may be announced before it.
InspectorReplies ==
    /\ answer # NoMsg
    /\ inbox' = Append(inbox, answer)
    /\ answer' = NoMsg
    /\ UNCHANGED <<pc, exitCode, var, meta, waitVars, outVars, ws, request,
                   targetVars, childVars, stdinVars>>

TargetListens ==
    /\ target = "starting"
    /\ target' = "waiting"
    /\ banner' = TRUE
    /\ UNCHANGED <<pc, exitCode, var, meta, waitVars, outVars, ws, chanVars, site,
                   pauseNo, bpSet, childVars, stdinVars>>

\* The target stops at its entry, at a debugger statement, at an exception or
\* at the breakpoint; the debugger is told.
TargetPauses ==
    /\ target = "running"
    /\ ws = "open"
    /\ \E s \in Sites :
        /\ s = "bp" => bpSet
        /\ target' = "paused"
        /\ site' = s
        /\ pauseNo' = (pauseNo + 1) % Epochs
        /\ inbox' = Append(inbox, Paused(s))
    /\ UNCHANGED <<pc, exitCode, var, meta, waitVars, outVars, ws, request, answer,
                   bpSet, banner, childVars, stdinVars>>

\* Its code has run; with a debugger attached Node waits for the disconnect.
TargetFinishes ==
    /\ target = "running"
    /\ target' = "finished"
    /\ UNCHANGED <<pc, exitCode, var, meta, waitVars, outVars, ws, chanVars, site,
                   pauseNo, bpSet, banner, childVars, stdinVars>>

\* The peer of the socket is gone: commands and replies under way are lost.
Disconnect ==
    /\ ws' = IF ws = "open" THEN "closing" ELSE ws
    /\ request' = "none"
    /\ answer' = NoMsg

TargetExits ==
    /\ target = "running" \/ (target = "finished" /\ ws # "open")
    /\ target' = "exited"
    /\ Disconnect
    /\ UNCHANGED <<pc, exitCode, var, meta, waitVars, outVars, inbox, site, pauseNo,
                   bpSet, banner, childVars, stdinVars>>

\* A crash, a failed spawn, or a signal: the adapter's or somebody else's.
TargetDies ==
    /\ target \notin {"none", "exited", "killed"}
    /\ target' = "killed"
    /\ Disconnect
    /\ UNCHANGED <<pc, exitCode, var, meta, waitVars, outVars, inbox, site, pauseNo,
                   bpSet, banner, childVars, stdinVars>>

\* The connection is lost while the target lives on.
ConnectionDrops ==
    /\ ws = "open"
    /\ target' = IF target = "paused" THEN "running" ELSE target
    /\ Disconnect
    /\ UNCHANGED <<pc, exitCode, var, meta, waitVars, outVars, inbox, site, pauseNo,
                   bpSet, banner, childVars, stdinVars>>

-----------------------------------------------------------------------------

Messages == PausedArrives \/ LaunchReply \/ ReleaseReply \/ ProbeReply
            \/ ExtractReply \/ FinalReply \/ ErrorReply \/ CloseArrives
Drains   == BytesDrained \/ LayoutDrained
Stdin    == ReadLine \/ ReadEof
Timers   == BannerTimeout \/ PauseTimeout \/ DeadlinePasses \/ ExitTimeout
Adapter  == ParseArgs \/ BannerSeen \/ ConnectOpens \/ ConnectFails \/ Messages
            \/ Drains \/ Flush \/ Stdin \/ ChildExits \/ LoopDrains \/ Timers
Environment == CtlWrites \/ CtlCloses \/ InspectorHandles \/ InspectorReplies
               \/ TargetListens \/ TargetPauses \/ TargetFinishes \/ TargetExits
               \/ TargetDies \/ ConnectionDrops

Terminated == pc = "Exited" /\ UNCHANGED vars

Next == Adapter \/ Environment \/ Terminated

Spec == Init /\ [][Next]_vars

-----------------------------------------------------------------------------
(* Properties. *)

TypeOK ==
    /\ pc \in Pcs
    /\ exitCode \in 0 .. 4 \cup {NotExited}
    /\ var \in 1 .. NumVars
    /\ meta \in Stamps
    /\ listener \in {"none", "armed", "resolved"}
    /\ paused \in Pauses \cup {NoMsg}
    /\ listener = "resolved" => paused \in Pauses
    /\ deadline \in {"unset", "running", "passed"}
    /\ out \in Seq(Records)
    /\ flushed \in Nat
    /\ ws \in {"none", "connecting", "open", "closing", "closed"}
    /\ request \in Calls \cup {"none"}
    /\ answer \in Replies \cup {NoMsg}
    /\ inbox \in Seq(Replies \cup Pauses)
    /\ target \in {"none", "starting", "waiting", "running", "paused", "finished",
                   "exited", "killed"}
    /\ site \in Sites \cup {"none"}
    /\ pauseNo \in Stamps
    /\ bpSet \in BOOLEAN
    /\ banner \in BOOLEAN
    /\ sigterm \in BOOLEAN
    /\ exitSeen \in BOOLEAN
    /\ stdinEnded \in BOOLEAN
    /\ stdin \in Seq({"continue", "other"})

\* The hit has been announced and the control plane has not been obeyed yet.
Holding == out # <<>> /\ pc \notin {"FinalResume", "AwaitExit", "Exited"}

\* The wire protocol (lines 14-18): a hit, then per variable its bytes and its
\* layout, in the order of args.vars; and the hit, every shape and every byte
\* are of one and the same pause of the target, although each comes from a
\* round trip of its own.
OneSnapshot(o) ==
    \A i \in 1 .. Len(o) :
        o[i] = IF i = 1 THEN Record("hit", 0, o[1].at)
               ELSE Record(IF i % 2 = 0 THEN "bytes" ELSE "layout", i \div 2, o[1].at)

WireIsOneSnapshot == OneSnapshot(out)

\* The comment at 429-430, "so that no event is missed": as long as a
\* breakpoint is looked for, a pause announced to the adapter finds a listener
\* waiting for it, in whatever order it and the reply to the resume arrive.
NoPauseMissed ==
    \A i \in 1 .. Len(inbox) :
        inbox[i].kind = "paused" =>
            \/ listener = "armed"
            \/ pc \in {"FinalResume", "AwaitExit"}

\* While the adapter holds a hit it has announced, the target stands at that
\* very pause, on the breakpoint's line: it runs on only if the connection is
\* gone (or the target is).
TargetHeldAtHit ==
    Holding /\ ws = "open" =>
        /\ target = "paused"
        /\ site \in {"bp", "anonymous"}
        /\ pauseNo = out[1].at

\* However the adapter ends, a consumer that reads a bytes frame also reads its
\* layout: the records written before the end are none, or the hit and whole
\* pairs.  A refused variable (code 4) has no frame; a failed launch (code 2)
\* wrote nothing.
EndsBetweenVariables ==
    pc = "Exited" =>
        /\ Len(out) = 0 \/ Len(out) % 2 = 1
        /\ exitCode = 4 => Len(out) = 2 * var - 1
        /\ exitCode = 2 => out = <<>>

\* die() after spawn always follows child.kill: no way out of run() but the crash
\* of an unhandled rejection (code 1) leaves a live target nobody told to stop.
\* The last resort run().catch (617-620), which does not kill, is not modelled.
NoOrphan ==
    pc = "Exited" /\ target \notin {"none", "exited", "killed"} /\ exitCode # 1
        => sigterm

\* Nobody but the control plane releases a held target: the last resume is sent
\* after the whole wire was written, on a continue line or the end of stdin.
ResumeNeedsGo ==
    [][pc # "FinalResume" /\ pc' = "FinalResume" =>
          /\ pc = "AwaitContinue"
          /\ IF stdin = <<>> THEN stdinEnded ELSE Head(stdin) = "continue"
          /\ Len(out) = FullWire]_vars

\* The header's exit codes (24-29): 1 is for usage and IO errors, which end the
\* adapter before it starts the target.
UsageCodeIsUsage == exitCode = 1 => target = "none"

\* The header's exit codes (24-29): 0 is ok, so a launched session that ends
\* with 0 wrote the whole wire.
OkMeansWholeWire == exitCode = 0 /\ target # "none" => Len(out) = FullWire

\* "resumes the inferior to clean exit" (20-21): once it is released, the
\* target is not stopped again.
ReleasedForGood == pc = "AwaitExit" => target # "paused"

-----------------------------------------------------------------------------
(* The inductive invariant behind WireIsOneSnapshot, NoPauseMissed,          *)
(* TargetHeldAtHit and EndsBetweenVariables.                                 *)

Positions == 1 .. Len(inbox)
Absent(kind) == \A i \in Positions : inbox[i].kind # kind
AtMostOne(kind) ==
    \A i, j \in Positions : inbox[i].kind = kind /\ inbox[j].kind = kind => i = j

Releasing == pc \in {"FinalResume", "AwaitExit"}

\* How much has been written, from where run() stands.
OutAtPc ==
    /\ pc \in LaunchCalls \cup {"Start", "Banner", "Connect"} => out = <<>> /\ var = 1
    /\ pc \in {"RunIfWaiting", "ResumePast"} \cup PausePcs => out = <<>> /\ var = 1
    /\ pc \in {"Probe", "Extract"} => Len(out) = 2 * var - 1
    /\ pc = "DrainBytes" => Len(out) = 2 * var
    /\ pc = "DrainLayout" => Len(out) = 2 * var + 1
    /\ pc = "AwaitContinue" \/ Releasing => Len(out) = FullWire
    /\ EndsBetweenVariables

\* One command is outstanding at a time: on its way, answered, or its reply in
\* the inbox, and only while run() awaits it.
OneCommand ==
    /\ request # "none" => request = pc /\ answer = NoMsg /\ Absent("reply")
    /\ answer # NoMsg => pc \in Calls /\ Absent("reply")
    /\ pc \notin Calls => Absent("reply")
    /\ AtMostOne("reply")

\* Commands and replies are under way on an open socket only, and messages
\* wait only while run() can still receive them.
SocketState ==
    /\ ws # "open" => request = "none" /\ answer = NoMsg
    /\ ws \in {"none", "connecting"} => inbox = <<>>
    /\ pc \in {"Start", "Banner"} => ws = "none"
    /\ pc = "Connect" => ws = "connecting"
    /\ pc = "Exited" => ws \in {"none", "closed"} /\ inbox = <<>>

\* The target stands still until a command that releases it is carried out.
StoppedUntilAsked ==
    /\ pc \in LaunchCalls /\ ws = "open" => target = "waiting"
    /\ request = "RunIfWaiting" => target = "waiting"
    /\ request = "ResumePast" => target = "paused"

\* A pause that was announced and not yet examined is the current one, nobody
\* else was announced, and the target is still in it.
Current(p) == /\ p.at = pauseNo
              /\ p.val = site
              /\ ws = "open" => target = "paused"

PausesAreCurrent ==
    ~Releasing =>
        /\ \A i \in Positions :
               inbox[i].kind = "paused" => listener = "armed" /\ Current(inbox[i])
        /\ AtMostOne("paused")
        /\ listener = "resolved" =>
               /\ Current(paused)
               /\ Absent("paused")
               /\ pc \in {"RunIfWaiting", "ResumePast"}

\* The listener is there as long as the target runs, or is about to.
ListensWhileRunning ==
    /\ pc \in PausePcs => listener = "armed"
    /\ pc \in {"RunIfWaiting", "ResumePast"} => listener # "none"
    /\ pc \in {"RunIfWaiting", "ResumePast"} /\ request # "none" =>
           listener = "armed" /\ Absent("paused")
    /\ ~Releasing /\ target = "running" /\ ws = "open" => listener = "armed"
    /\ pc \notin {"RunIfWaiting", "ResumePast"} \cup PausePcs => listener = "none"

\* What was asked of a held target was answered in the pause of the hit.
AnswersAreOfTheHit ==
    /\ pc \in {"Probe", "Extract"} /\ answer # NoMsg /\ answer.val = "ok" =>
           answer.at = out[1].at
    /\ pc \in {"Probe", "Extract"} =>
           \A i \in Positions :
               inbox[i].kind = "reply" /\ inbox[i].val = "ok" => inbox[i].at = out[1].at
    /\ pc \in {"Extract", "DrainBytes"} => meta = out[1].at

IInv ==
    /\ TypeOK
    /\ OutAtPc
    /\ OneCommand
    /\ SocketState
    /\ StoppedUntilAsked
    /\ PausesAreCurrent
    /\ ListensWhileRunning
    /\ AnswersAreOfTheHit
    /\ WireIsOneSnapshot
    /\ TargetHeldAtHit

-----------------------------------------------------------------------------
(* The session the CLI sees: DebugAdapter implements ExtractSession. *)

Phase ==
    CASE pc \in LaunchCalls \cup {"Start", "Banner", "Connect"} -> "launch"
      [] pc \in {"RunIfWaiting", "ResumePast"} \cup PausePcs -> "seek"
      [] pc \in {"Probe", "Extract", "DrainBytes", "DrainLayout"} -> "emit"
      [] pc = "AwaitContinue" -> "hold"
      [] pc \in {"FinalResume", "AwaitExit"} -> "release"
      [] pc = "Exited" -> "done"

Session == INSTANCE ExtractSession
               WITH phase <- Phase, emitted <- Len(out), code <- exitCode

\* Every behaviour of the adapter is a session: records come in the phases'
\* order, it never ends while it holds the target or between the two frames of
\* a variable, and the exit code tells the phase it ended in.
ImplementsSession == Session!SessionSpec

-----------------------------------------------------------------------------
(* Fairness and liveness. *)

\* The event loop runs the tasks that are ready, timers fire, the consumer of
\* stdout reads, and the inspector of a connected target answers.  Nothing is
\* assumed of the target's own code, of the control plane, or of signals
\* nobody sent.
Fairness ==
    /\ WF_vars(ParseArgs)
    /\ WF_vars(BannerSeen)
    /\ WF_vars(BannerTimeout)
    /\ WF_vars(ConnectOpens \/ ConnectFails)
    /\ WF_vars(Messages)
    /\ WF_vars(PauseTimeout)
    /\ WF_vars(DeadlinePasses)
    /\ WF_vars(Drains)
    /\ WF_vars(Flush)
    /\ WF_vars(Stdin)
    /\ WF_vars(ChildExits)
    /\ WF_vars(ExitTimeout)
    /\ WF_vars(LoopDrains)
    /\ WF_vars(InspectorHandles)
    /\ WF_vars(InspectorReplies)

FairSpec == Spec /\ Fairness

\* "A wall-clock deadline bounds the total loop" (448-449): the search for the
\* breakpoint ends, even for a target that keeps stopping somewhere else.
SearchEnds ==
    pc \in {"RunIfWaiting", "EntryPause", "ResumePast", "NextPause"}
        ~> pc \notin {"RunIfWaiting", "EntryPause", "ResumePast", "NextPause"}

\* A command was sent on a socket whose close event had already been delivered.
Stranded == pc \in Calls /\ ws = "closed"

\* The adapter ends, or waits for ever for one of two things: a word of the
\* control plane, or the reply to a command it sent on a closed socket while
\* the target lives on.
EndsOrWaits ==
    \/ <>(pc = "Exited")
    \/ <>[](pc = "AwaitContinue" /\ ~stdinEnded)
    \/ <>[](Stranded /\ target \notin {"exited", "killed"})

=============================================================================
