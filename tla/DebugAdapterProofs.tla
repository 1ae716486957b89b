------------------------- MODULE DebugAdapterProofs -------------------------
(* Theorems about DebugAdapter, for every number of variables and epochs; *)
(* that it implements ExtractSession; and what the same invariant says    *)
(* about single steps.                                                    *)
EXTENDS DebugAdapter, SequenceTheorems, TLAPS

USE ConstantsAssumption DEF ConstantsAssumption
USE DEF Pcs, Calls, LaunchCalls, RuntimeCalls, PausePcs, Stamps, Sites, NotExited,
        ProbeResults, ExtractResults, RuntimeProbes, UnsupportedProbes,
        waitVars, outVars, chanVars, targetVars, childVars, stdinVars

-----------------------------------------------------------------------------
(* Type correctness. *)

LEMMA NoMsgNotMessage == NoMsg \notin Replies \cup Pauses
BY DEF NoMsg, Replies, Pauses

LEMMA InboxTail ==
    ASSUME TypeOK, inbox # <<>>
    PROVE  /\ Tail(inbox) \in Seq(Replies \cup Pauses)
           /\ Head(inbox) \in Replies \cup Pauses
BY HeadTailProperties DEF TypeOK

LEMMA ExitType ==
    ASSUME TypeOK, NEW c \in 0 .. 4, Exit(c), sigterm' \in BOOLEAN, exitSeen' \in BOOLEAN
    PROVE  TypeOK'
<1>1. UNCHANGED <<bpSet, banner, stdinEnded>>
    BY DEF Exit
<1>. QED BY <1>1 DEF TypeOK, Exit

LEMMA DieType == ASSUME TypeOK, NEW c \in 0 .. 4, Die(c) PROVE TypeOK'
<1>1. sigterm' \in BOOLEAN /\ exitSeen' \in BOOLEAN
    BY DEF Die, TypeOK
<1>. QED BY <1>1, ExitType DEF Die

LEMMA QuitType == ASSUME TypeOK, NEW c \in 0 .. 4, Quit(c) PROVE TypeOK'
<1>1. sigterm' \in BOOLEAN /\ exitSeen' \in BOOLEAN
    BY DEF Quit, TypeOK
<1>. QED BY <1>1, ExitType DEF Quit

LEMMA RecordType ==
    ASSUME NEW k \in {"hit", "bytes", "layout"}, NEW v \in 0 .. NumVars, NEW s \in Stamps
    PROVE  Record(k, v, s) \in Records
BY DEF Record, Records

\* What writing the frames changes.
LEMMA AfterLayoutType ==
    ASSUME TypeOK, NEW o \in Seq(Records), AfterLayout(o)
    PROVE  /\ out' \in Seq(Records)
           /\ pc' \in Pcs
           /\ var' \in 1 .. NumVars
           /\ request' \in Calls \cup {"none"}
BY DEF TypeOK, AfterLayout, Send

LEMMA WriteLayoutType ==
    ASSUME TypeOK, NEW o \in Seq(Records), WriteLayout(o)
    PROVE  /\ out' \in Seq(Records)
           /\ pc' \in Pcs
           /\ var' \in 1 .. NumVars
           /\ request' \in Calls \cup {"none"}
<1> DEFINE written == Append(o, Record("layout", var, meta))
<1>1. written \in Seq(Records)
    BY RecordType DEF TypeOK
<1>2. CASE AfterLayout(written)
    BY <1>1, <1>2, AfterLayoutType
<1>3. CASE /\ out' = written
           /\ pc' = "DrainLayout"
           /\ UNCHANGED <<var, request>>
    BY <1>1, <1>3 DEF TypeOK
<1>. QED BY <1>2, <1>3 DEF WriteLayout

LEMMA WriteBytesType ==
    ASSUME TypeOK, NEW o \in Seq(Records), NEW at \in Stamps, WriteBytes(o, at)
    PROVE  /\ out' \in Seq(Records)
           /\ pc' \in Pcs
           /\ var' \in 1 .. NumVars
           /\ request' \in Calls \cup {"none"}
<1> DEFINE written == Append(o, Record("bytes", var, at))
<1>1. written \in Seq(Records)
    BY RecordType DEF TypeOK
<1>2. CASE WriteLayout(written)
    BY <1>1, <1>2, WriteLayoutType
<1>3. CASE /\ out' = written
           /\ pc' = "DrainBytes"
           /\ UNCHANGED <<var, request>>
    BY <1>1, <1>3 DEF TypeOK
<1>. QED BY <1>2, <1>3 DEF WriteBytes

LEMMA TurnType ==
    ASSUME TypeOK, NEW p \in Pauses, inbox # <<>>, Turn(p)
    PROVE  TypeOK'
<1>1. CASE GiveUp(p)
    BY <1>1, DieType DEF GiveUp
<1>2. ASSUME GoOnWith(p)
      PROVE  /\ inbox' \in Seq(Replies \cup Pauses)
             /\ UNCHANGED <<bpSet, banner, sigterm, exitSeen, stdinEnded>>
    BY <1>2 DEF TypeOK, GoOnWith
<1>3. CASE EmitHit(p)
    <2>1. Record("hit", 0, p.at) \in Records
        BY RecordType DEF Pauses
    <2>2. out' \in Seq(Records)
        BY <1>3, <2>1 DEF EmitHit, TypeOK
    <2>. QED BY <1>2, <1>3, <2>2 DEF EmitHit, GoOnWith, Send, TypeOK
<1>4. CASE ResumePast(p)
    BY <1>2, <1>4 DEF ResumePast, GoOnWith, Send, TypeOK
<1>. QED BY <1>1, <1>3, <1>4 DEF Turn

LEMMA AwaitChildType ==
    ASSUME TypeOK, AwaitChild PROVE TypeOK'
<1>1. CASE ChildCodeKnown
    BY <1>1, QuitType DEF AwaitChild
<1>2. CASE ~ChildCodeKnown
    <2>1. inbox' \in Seq(Replies \cup Pauses)
        BY <1>2, InboxTail, EmptySeq DEF AwaitChild
    <2>2. UNCHANGED <<bpSet, banner, sigterm, exitSeen, stdinEnded>>
        BY <1>2 DEF AwaitChild
    <2>3. ws' \in {"none", "connecting", "open", "closing", "closed"}
        BY <1>2 DEF AwaitChild, TypeOK
    <2>. QED BY <1>2, <2>1, <2>2, <2>3 DEF TypeOK, AwaitChild
<1>. QED BY <1>1, <1>2

LEMMA TypeInit == Init => TypeOK
<1> SUFFICES ASSUME Init PROVE TypeOK
    OBVIOUS
<1>1. out \in Seq(Records) /\ inbox \in Seq(Replies \cup Pauses) /\ stdin \in Seq({"continue", "other"})
    BY EmptySeq DEF Init
<1>2. 0 \in Stamps /\ 1 \in 1 .. NumVars
    OBVIOUS
<1>. QED BY <1>1, <1>2 DEF Init, TypeOK

LEMMA TypeStep == TypeOK /\ [Next]_vars => TypeOK'
<1> SUFFICES ASSUME TypeOK, [Next]_vars PROVE TypeOK'
    OBVIOUS
<1>1. CASE ParseArgs
    <2>1. CASE \E code \in {0, 1, 2} : Quit(code)
        BY <2>1, QuitType
    <2>2. CASE /\ pc' = "Banner"
               /\ target' = "starting"
               /\ UNCHANGED <<exitCode, var, meta, waitVars, outVars, ws, chanVars,
                         site, pauseNo, bpSet, banner, childVars, stdinVars>>
        BY <2>2 DEF TypeOK
    <2>. QED BY <1>1, <2>1, <2>2 DEF ParseArgs
<1>2. CASE BannerSeen
    BY <1>2 DEF TypeOK, BannerSeen
<1>3. CASE BannerTimeout \/ ConnectFails
    BY <1>3, DieType DEF BannerTimeout, ConnectFails
<1>4. CASE ConnectOpens
    BY <1>4 DEF TypeOK, ConnectOpens
<1>5. CASE DeadlinePasses
    BY <1>5 DEF TypeOK, DeadlinePasses
<1>6. CASE PausedArrives
    <2>1. Head(inbox) \in Pauses /\ inbox # <<>>
        BY <1>6 DEF PausedArrives, TypeOK, Replies, Pauses
    <2>2. CASE listener = "armed" /\ pc \in PausePcs
        BY <1>6, <2>1, <2>2, TurnType DEF PausedArrives
    <2>3. CASE ~(listener = "armed" /\ pc \in PausePcs)
        <3>1. /\ inbox' \in Seq(Replies \cup Pauses)
              /\ UNCHANGED <<bpSet, banner, sigterm, exitSeen, stdinEnded>>
            BY <1>6, <2>3, InboxTail DEF PausedArrives
        <3>2. CASE listener = "armed"
            BY <1>6, <2>1, <2>3, <3>1, <3>2 DEF PausedArrives, TypeOK
        <3>3. CASE listener # "armed"
            BY <1>6, <2>1, <2>3, <3>1, <3>3 DEF PausedArrives, TypeOK
        <3>. QED BY <3>2, <3>3
    <2>. QED BY <2>2, <2>3
<1>7. CASE PauseTimeout
    BY <1>7, DieType, QuitType DEF PauseTimeout
<1>8. CASE LaunchReply
    BY <1>8 DEF TypeOK, LaunchReply, ReplyTo, Send
<1>9. CASE ReleaseReply
    <2>1. inbox # <<>>
        BY <1>9 DEF ReleaseReply, ReplyTo
    <2>2. CASE listener = "resolved"
        BY <1>9, <2>1, <2>2, TurnType DEF ReleaseReply, TypeOK
    <2>3. CASE listener # "resolved"
        <3>1. /\ inbox' \in Seq(Replies \cup Pauses)
              /\ UNCHANGED <<bpSet, banner, sigterm, exitSeen, stdinEnded>>
            BY <1>9, <2>1, <2>3, InboxTail DEF ReleaseReply
        <3>. QED BY <1>9, <2>3, <3>1 DEF ReleaseReply, ReplyTo, TypeOK
    <2>. QED BY <2>2, <2>3
<1>10. CASE ProbeReply
    <2>1. CASE Die(3) \/ Die(4)
        BY <2>1, DieType
    <2>2. CASE ~(Die(3) \/ Die(4))
        <3>1. /\ inbox # <<>>
              /\ Head(inbox) \in Replies
              /\ inbox' = Tail(inbox)
            BY <1>10, <2>2 DEF ProbeReply, ReplyTo, TypeOK, Replies, Pauses
        <3>2. meta' \in Stamps /\ inbox' \in Seq(Replies \cup Pauses)
            BY <1>10, <2>2, <3>1 DEF ProbeReply, TypeOK, Replies
        <3>3. /\ pc' \in Pcs
              /\ request' \in Calls \cup {"none"}
              /\ UNCHANGED <<bpSet, banner, sigterm, exitSeen, stdinEnded>>
              /\ UNCHANGED <<exitCode, var, waitVars, outVars, ws, answer, target, site, pauseNo, stdin>>
            BY <1>10, <2>2 DEF ProbeReply, Send
        <3>. QED BY <3>2, <3>3 DEF TypeOK
    <2>. QED BY <2>1, <2>2
<1>11. CASE ExtractReply
    <2>1. CASE Die(3)
        BY <2>1, DieType
    <2>2. CASE ~Die(3)
        <3>1. /\ inbox # <<>>
              /\ Head(inbox) \in Replies
              /\ WriteBytes(out, Head(inbox).at)
              /\ inbox' = Tail(inbox)
            BY <1>11, <2>2 DEF ExtractReply, ReplyTo, TypeOK, Replies, Pauses
        <3>2. /\ out' \in Seq(Records)
              /\ pc' \in Pcs
              /\ var' \in 1 .. NumVars
              /\ request' \in Calls \cup {"none"}
            BY <3>1, WriteBytesType DEF TypeOK, Replies
        <3>3. inbox' \in Seq(Replies \cup Pauses)
            BY <3>1 DEF TypeOK
        <3>4. UNCHANGED <<bpSet, banner, sigterm, exitSeen, stdinEnded>>
            BY <1>11, <2>2 DEF ExtractReply
        <3>5. UNCHANGED <<exitCode, meta, waitVars, flushed, ws, answer, target, site, pauseNo, stdin>>
            BY <1>11, <2>2 DEF ExtractReply
        <3>. QED BY <3>2, <3>3, <3>4, <3>5 DEF TypeOK
    <2>. QED BY <2>1, <2>2
<1>12. CASE BytesDrained
    <2>1. /\ out' \in Seq(Records)
          /\ pc' \in Pcs
          /\ var' \in 1 .. NumVars
          /\ request' \in Calls \cup {"none"}
        BY <1>12, WriteLayoutType DEF TypeOK, BytesDrained
    <2>2. UNCHANGED <<bpSet, banner, sigterm, exitSeen, stdinEnded>>
        BY <1>12 DEF BytesDrained
    <2>3. UNCHANGED <<exitCode, meta, waitVars, flushed, ws, answer, inbox, target, site, pauseNo, stdin>>
        BY <1>12 DEF BytesDrained
    <2>. QED BY <2>1, <2>2, <2>3 DEF TypeOK
<1>13. CASE LayoutDrained
    <2>1. /\ out' \in Seq(Records)
          /\ pc' \in Pcs
          /\ var' \in 1 .. NumVars
          /\ request' \in Calls \cup {"none"}
        BY <1>13, AfterLayoutType DEF TypeOK, LayoutDrained
    <2>2. UNCHANGED <<bpSet, banner, sigterm, exitSeen, stdinEnded>>
        BY <1>13 DEF LayoutDrained
    <2>3. UNCHANGED <<exitCode, meta, waitVars, flushed, ws, answer, inbox, target, site, pauseNo, stdin>>
        BY <1>13 DEF LayoutDrained
    <2>. QED BY <2>1, <2>2, <2>3 DEF TypeOK
<1>14. CASE Flush
    BY <1>14 DEF TypeOK, Flush
<1>15. CASE FinalReply
    BY <1>15, AwaitChildType DEF FinalReply
<1>16. CASE ErrorReply
    BY <1>16, DieType DEF ErrorReply, FailCode
<1>17. CASE CloseArrives
    <2>1. CASE pc \in LaunchCalls \cup RuntimeCalls
        BY <1>17, <2>1, DieType DEF CloseArrives, FailCode
    <2>2. CASE pc = "FinalResume"
        BY <1>17, <2>2, AwaitChildType DEF CloseArrives
    <2>3. CASE pc \notin Calls
        <3>1. UNCHANGED <<bpSet, banner, sigterm, exitSeen, stdinEnded>>
            BY <1>17, <2>3 DEF CloseArrives
        <3>2. ws' = "closed"
            BY <1>17, <2>3 DEF CloseArrives
        <3>3. UNCHANGED <<pc, exitCode, var, meta, waitVars, outVars, chanVars, target, site, pauseNo, stdin>>
            BY <1>17, <2>3 DEF CloseArrives
        <3>. QED BY <3>1, <3>2, <3>3 DEF TypeOK
    <2>. QED BY <2>1, <2>2, <2>3
<1>18. CASE ReadLine
    BY <1>18 DEF TypeOK, ReadLine, Send
<1>19. CASE ReadEof
    BY <1>19 DEF TypeOK, ReadEof, Send
<1>20. CASE ChildExits
    <2>1. exitSeen' = TRUE
        BY <1>20 DEF ChildExits
    <2>2. CASE pc \in {"Banner", "AwaitExit"}
        <3>1. sigterm' \in BOOLEAN
            BY <1>20, <2>2 DEF ChildExits
        <3>. QED BY <1>20, <2>1, <2>2, <3>1, ExitType DEF ChildExits
    <2>3. CASE pc \notin {"Banner", "AwaitExit"}
        <3>1. UNCHANGED <<bpSet, banner, sigterm, stdinEnded>>
            BY <1>20, <2>3 DEF ChildExits
        <3>. QED BY <1>20, <2>1, <2>3, <3>1 DEF TypeOK, ChildExits
    <2>. QED BY <2>2, <2>3
<1>21. CASE ExitTimeout
    <2>1. sigterm' \in BOOLEAN /\ exitSeen' \in BOOLEAN
        BY <1>21 DEF ExitTimeout, TypeOK
    <2>. QED BY <1>21, <2>1, ExitType DEF ExitTimeout
<1>22. CASE LoopDrains
    BY <1>22, QuitType DEF LoopDrains
<1>23. CASE CtlWrites
    BY <1>23 DEF TypeOK, CtlWrites
<1>24. CASE CtlCloses
    BY <1>24 DEF TypeOK, CtlCloses
<1>25. CASE InspectorHandles
    <2>1. PICK r \in Results(request) :
             /\ answer' = Reply(r)
             /\ bpSet' = (bpSet \/ (request = "SetBreakpoint" /\ r = "ok"))
             /\ target' = IF /\ request \in {"RunIfWaiting", "ResumePast", "FinalResume"}
                             /\ r = "ok"
                             /\ target \in {"waiting", "paused"}
                          THEN "running"
                          ELSE target
        BY <1>25 DEF InspectorHandles
    <2>2. r \in ProbeResults \cup ExtractResults
        BY <2>1 DEF Results
    <2>3. answer' \in Replies
        BY <2>1, <2>2 DEF Reply, Replies, TypeOK
    <2>4. bpSet' \in BOOLEAN
        BY <2>1
    <2>. QED BY <1>25, <2>1, <2>3, <2>4 DEF InspectorHandles, TypeOK
<1>26. CASE InspectorReplies
    BY <1>26 DEF TypeOK, InspectorReplies
<1>27. CASE TargetListens
    BY <1>27 DEF TypeOK, TargetListens
<1>28. CASE TargetPauses
    BY <1>28 DEF TypeOK, TargetPauses, Paused, Pauses
<1>29. CASE TargetFinishes
    BY <1>29 DEF TypeOK, TargetFinishes
<1>30. CASE TargetExits \/ TargetDies \/ ConnectionDrops
    BY <1>30 DEF TypeOK, TargetExits, TargetDies, ConnectionDrops, Disconnect
<1>31. CASE Terminated \/ UNCHANGED vars
    BY <1>31 DEF TypeOK, Terminated, vars
<1>. QED
    BY <1>1, <1>2, <1>3, <1>4, <1>5, <1>6, <1>7, <1>8, <1>9, <1>10, <1>11, <1>12,
       <1>13, <1>14, <1>15, <1>16, <1>17, <1>18, <1>19, <1>20, <1>21, <1>22, <1>23,
       <1>24, <1>25, <1>26, <1>27, <1>28, <1>29, <1>30, <1>31
       DEF Next, Adapter, Environment, Messages, Drains, Stdin, Timers

\* The adapter's state is well typed in every reachable state.
THEOREM TypeCorrect == Spec => []TypeOK
<1>. QED BY TypeInit, TypeStep, PTL DEF Spec

-----------------------------------------------------------------------------
(* The inductive invariant.  First what the inbox operations preserve. *)

LEMMA TailFacts ==
    ASSUME TypeOK, inbox # <<>>, inbox' = Tail(inbox)
    PROVE  /\ \A i \in Positions' : i + 1 \in Positions /\ inbox'[i] = inbox[i + 1]
           /\ \A k \in {"reply", "paused"} :
                 /\ Absent(k) => Absent(k)'
                 /\ AtMostOne(k) => AtMostOne(k)'
                 /\ AtMostOne(k) /\ Head(inbox).kind = k => Absent(k)'
<1>1. \A i \in Positions' : i + 1 \in Positions /\ inbox'[i] = inbox[i + 1]
    BY DEF TypeOK, Positions
<1>2. 1 \in Positions /\ Head(inbox) = inbox[1]
    BY DEF TypeOK, Positions
<1>. QED BY <1>1, <1>2 DEF Absent, AtMostOne, Positions

LEMMA AppendFacts ==
    ASSUME TypeOK, NEW m \in Replies \cup Pauses, inbox' = Append(inbox, m)
    PROVE  /\ \A i \in Positions' : \/ i \in Positions /\ inbox'[i] = inbox[i]
                                    \/ i = Len(inbox) + 1 /\ inbox'[i] = m
           /\ \A k \in {"reply", "paused"} :
                 /\ m.kind # k /\ Absent(k) => Absent(k)'
                 /\ m.kind # k /\ AtMostOne(k) => AtMostOne(k)'
                 /\ m.kind = k /\ Absent(k) => AtMostOne(k)'
<1>1. \A i \in Positions' : \/ i \in Positions /\ inbox'[i] = inbox[i]
                            \/ i = Len(inbox) + 1 /\ inbox'[i] = m
    BY DEF TypeOK, Positions
<1>. QED BY <1>1 DEF Absent, AtMostOne, Positions

LEMMA EmptyInbox ==
    ASSUME inbox = <<>>
    PROVE  Positions = {} /\ \A k \in {"reply", "paused"} : Absent(k) /\ AtMostOne(k)
BY DEF Positions, Absent, AtMostOne

\* The head of a non-empty inbox is a reply only if a command is outstanding,
\* and then nothing of that command is left elsewhere.
LEMMA HeadReply ==
    ASSUME IInv, inbox # <<>>, Head(inbox).kind = "reply"
    PROVE  /\ pc \in Calls
           /\ request = "none"
           /\ answer = NoMsg
           /\ 1 \in Positions
           /\ Head(inbox) = inbox[1]
<1>1. 1 \in Positions /\ Head(inbox) = inbox[1]
    BY DEF IInv, TypeOK, Positions
<1>2. ~Absent("reply")
    BY <1>1 DEF Absent
<1>. QED BY <1>1, <1>2 DEF IInv, OneCommand

\* Steps that touch nothing the invariant speaks of.
LEMMA Quiet ==
    ASSUME IInv, TypeOK',
           UNCHANGED <<pc, exitCode, var, meta, listener, paused, out, ws, request,
                       answer, inbox, target, site, pauseNo>>
    PROVE  IInv'
BY DEF IInv, OutAtPc, Releasing, EndsBetweenVariables, OneCommand, Absent, AtMostOne,
       Positions, SocketState, StoppedUntilAsked, Current, PausesAreCurrent,
       ListensWhileRunning, AnswersAreOfTheHit, WireIsOneSnapshot, OneSnapshot, TargetHeldAtHit, Holding

\* Every way to end keeps the invariant if it ends between two variables and
\* with a code that fits.
LEMMA ExitKeeps ==
    ASSUME IInv, TypeOK', NEW c \in 0 .. 4, Exit(c),
           out = <<>> \/ Len(out) % 2 = 1,
           c = 4 => Len(out) = 2 * var - 1,
           c = 2 => out = <<>>
    PROVE  IInv'
<1>1. /\ pc' = "Exited"
      /\ exitCode' = c
      /\ ws' \in {"none", "closed"}
      /\ listener' = "none"
      /\ request' = "none"
      /\ answer' = NoMsg
      /\ inbox' = <<>>
      /\ UNCHANGED <<var, meta, out>>
    BY DEF Exit, IInv, TypeOK
<1>2. OutAtPc'
    BY <1>1 DEF OutAtPc, EndsBetweenVariables, Releasing
<1>3. Positions' = {} /\ \A k \in {"reply", "paused"} : Absent(k)' /\ AtMostOne(k)'
    BY <1>1 DEF Positions, Absent, AtMostOne
<1>4. OneCommand' /\ SocketState' /\ StoppedUntilAsked'
    BY <1>1, <1>3 DEF OneCommand, SocketState, StoppedUntilAsked
<1>5. PausesAreCurrent' /\ ListensWhileRunning' /\ AnswersAreOfTheHit' /\ TargetHeldAtHit'
    BY <1>1, <1>3 DEF PausesAreCurrent, ListensWhileRunning, AnswersAreOfTheHit,
                      TargetHeldAtHit, Holding
<1>6. WireIsOneSnapshot'
    BY <1>1 DEF WireIsOneSnapshot, IInv
<1>. QED BY <1>2, <1>4, <1>5, <1>6 DEF IInv

\* What is written when run() stands at an await it can end from.
LEMMA WrittenBeforeExit ==
    ASSUME IInv
    PROVE  /\ pc \in LaunchCalls \cup PausePcs \cup
                {"Start", "Banner", "Connect", "RunIfWaiting", "ResumePast"} => out = <<>>
           /\ pc \in Calls \cup {"AwaitExit"} => out = <<>> \/ Len(out) % 2 = 1
           /\ pc \in {"Probe", "Extract"} => Len(out) = 2 * var - 1
           /\ listener # "none" => out = <<>>
<1>1. var \in Nat /\ Len(out) \in Nat /\ NumVars \in Nat
    BY DEF IInv, TypeOK
<1>2. (2 * var - 1) % 2 = 1 /\ FullWire % 2 = 1
    BY <1>1 DEF FullWire
<1>. QED BY <1>1, <1>2 DEF IInv, OutAtPc, Releasing, ListensWhileRunning

-----------------------------------------------------------------------------
(* Writing frames. *)

LEMMA AppendSnapshot ==
    ASSUME NEW o \in Seq(Records), OneSnapshot(o), o # <<>>,
           NEW v \in 1 .. NumVars, NEW k \in {"bytes", "layout"},
           Len(o) = IF k = "bytes" THEN 2 * v - 1 ELSE 2 * v,
           NEW w, w = Append(o, Record(k, v, o[1].at))
    PROVE  /\ w \in Seq(Records)
           /\ OneSnapshot(w)
           /\ Len(w) = Len(o) + 1
           /\ w[1] = o[1]
<1>1. Len(o) \in Nat /\ Len(o) >= 1 /\ v \in Nat
    OBVIOUS
<1>2. o[1] \in Records /\ o[1].at \in Stamps
    <2>1. o[1] \in Records
        BY <1>1
    <2>. QED BY <2>1 DEF Records
<1>3. w \in Seq(Records)
    BY <1>2, RecordType
<1>4. /\ Len(w) = Len(o) + 1
      /\ \A i \in 1 .. Len(o) : w[i] = o[i]
      /\ w[Len(o) + 1] = Record(k, v, o[1].at)
    BY <1>2, RecordType
<1>5. ASSUME NEW i \in 1 .. Len(w)
      PROVE  w[i] = IF i = 1 THEN Record("hit", 0, w[1].at)
                    ELSE Record(IF i % 2 = 0 THEN "bytes" ELSE "layout", i \div 2, w[1].at)
    <2>1. CASE i \in 1 .. Len(o)
        BY <1>1, <1>4, <2>1 DEF OneSnapshot
    <2>2. CASE i = Len(o) + 1
        <3>1. i # 1 /\ i \div 2 = v /\ (i % 2 = 0 <=> k = "bytes")
            BY <1>1, <2>2
        <3>. QED BY <1>1, <1>4, <2>2, <3>1
    <2>. QED BY <1>1, <1>4, <2>1, <2>2
<1>. QED BY <1>1, <1>3, <1>4, <1>5 DEF OneSnapshot

\* The situation in which frames are written: nothing is under way.
Writing ==
    /\ IInv /\ TypeOK'
    /\ pc \in {"Extract", "DrainBytes", "DrainLayout"}
    /\ request = "none" /\ answer = NoMsg
    /\ Absent("reply")' /\ Absent("paused")'
    /\ ws \in {"none", "connecting"} => inbox' = <<>>
    /\ UNCHANGED <<exitCode, meta, listener, paused, ws, answer, target, site, pauseNo>>

LEMMA AfterLayoutKeeps ==
    ASSUME Writing, NEW o, o # <<>>, OneSnapshot(o), Len(o) = 2 * var + 1,
           o[1] = out[1], AfterLayout(o)
    PROVE  IInv'
<1>1. var \in 1 .. NumVars /\ NumVars \in Nat
    BY DEF Writing, TypeOK, IInv
<1>2. out # <<>> /\ exitCode = exitCode'
    BY <1>1 DEF Writing, IInv, OutAtPc, TypeOK
<1>3. CASE var = NumVars
    BY <1>1, <1>2, <1>3
       DEF AfterLayout, Writing, IInv, OutAtPc, Releasing, EndsBetweenVariables, FullWire,
           OneCommand, Absent, AtMostOne, SocketState, StoppedUntilAsked, PausesAreCurrent,
           ListensWhileRunning, AnswersAreOfTheHit, WireIsOneSnapshot, TargetHeldAtHit, Holding
<1>4. CASE var # NumVars
    BY <1>1, <1>2, <1>4
       DEF AfterLayout, Send, Writing, IInv, OutAtPc, Releasing, EndsBetweenVariables,
           OneCommand, Absent, AtMostOne, SocketState, StoppedUntilAsked, PausesAreCurrent,
           ListensWhileRunning, AnswersAreOfTheHit, WireIsOneSnapshot, TargetHeldAtHit, Holding
<1>. QED BY <1>3, <1>4

LEMMA WriteLayoutKeeps ==
    ASSUME Writing, NEW o \in Seq(Records), o # <<>>, OneSnapshot(o), Len(o) = 2 * var,
           o[1] = out[1], meta = out[1].at, WriteLayout(o)
    PROVE  IInv'
<1> DEFINE w == Append(o, Record("layout", var, meta))
<1>1. var \in 1 .. NumVars /\ NumVars \in Nat
    BY DEF Writing, TypeOK, IInv
<1>2. w # <<>> /\ OneSnapshot(w) /\ Len(w) = 2 * var + 1 /\ w[1] = out[1]
    <2>1. w = Append(o, Record("layout", var, o[1].at))
        OBVIOUS
    <2> HIDE DEF w
    <2>2. w \in Seq(Records) /\ OneSnapshot(w) /\ Len(w) = Len(o) + 1 /\ w[1] = o[1]
        BY <1>1, <2>1, AppendSnapshot
    <2>. QED BY <1>1, <2>2
<1>3. out # <<>>
    BY <1>1 DEF Writing, IInv, OutAtPc, TypeOK
<1>4. CASE AfterLayout(w)
    BY <1>2, <1>4, AfterLayoutKeeps
<1>5. CASE /\ out' = w
           /\ pc' = "DrainLayout"
           /\ UNCHANGED <<var, request>>
    BY <1>1, <1>2, <1>3, <1>5
       DEF Writing, IInv, OutAtPc, Releasing, EndsBetweenVariables,
           OneCommand, Absent, AtMostOne, SocketState, StoppedUntilAsked, PausesAreCurrent,
           ListensWhileRunning, AnswersAreOfTheHit, WireIsOneSnapshot, TargetHeldAtHit, Holding
<1>. QED BY <1>4, <1>5 DEF WriteLayout

LEMMA WriteBytesKeeps ==
    ASSUME Writing, out # <<>>, Len(out) = 2 * var - 1, meta = out[1].at,
           NEW at, at = out[1].at, WriteBytes(out, at)
    PROVE  IInv'
<1> DEFINE w == Append(out, Record("bytes", var, at))
<1>1. var \in 1 .. NumVars /\ NumVars \in Nat /\ out \in Seq(Records)
    BY DEF Writing, TypeOK, IInv
<1>2. w \in Seq(Records) /\ w # <<>> /\ OneSnapshot(w) /\ Len(w) = 2 * var /\ w[1] = out[1]
    <2>1. w = Append(out, Record("bytes", var, out[1].at)) /\ OneSnapshot(out)
        BY DEF Writing, IInv, WireIsOneSnapshot
    <2> HIDE DEF w
    <2>2. w \in Seq(Records) /\ OneSnapshot(w) /\ Len(w) = Len(out) + 1 /\ w[1] = out[1]
        BY <1>1, <2>1, AppendSnapshot
    <2>. QED BY <1>1, <2>2
<1>3. CASE WriteLayout(w)
    BY <1>2, <1>3, WriteLayoutKeeps
<1>4. CASE /\ out' = w
           /\ pc' = "DrainBytes"
           /\ UNCHANGED <<var, request>>
    BY <1>1, <1>2, <1>4
       DEF Writing, IInv, OutAtPc, Releasing, EndsBetweenVariables,
           OneCommand, Absent, AtMostOne, SocketState, StoppedUntilAsked, PausesAreCurrent,
           ListensWhileRunning, AnswersAreOfTheHit, WireIsOneSnapshot, TargetHeldAtHit, Holding
<1>. QED BY <1>3, <1>4 DEF WriteBytes

-----------------------------------------------------------------------------
(* One turn of the breakpoint loop, and the wait for the child. *)

LEMMA TurnKeeps ==
    ASSUME IInv, TypeOK', NEW p \in Pauses, Turn(p), Current(p),
           pc \in {"RunIfWaiting", "ResumePast"} \cup PausePcs,
           inbox # <<>>, request = "none", answer = NoMsg,
           inbox' = Tail(inbox) => Absent("reply")' /\ Absent("paused")'
    PROVE  IInv'
<1>1. out = <<>> /\ var = 1
    BY DEF IInv, OutAtPc
<1>2. ws \notin {"none", "connecting"}
    BY DEF IInv, SocketState
<1>3. CASE GiveUp(p)
    BY <1>1, <1>3, ExitKeeps DEF GiveUp, Die
<1>4. CASE EmitHit(p)
    <2>1. /\ out' = <<Record("hit", 0, p.at)>>
          /\ Len(out') = 1
          /\ out'[1] = Record("hit", 0, p.at)
        BY <1>1, <1>4 DEF EmitHit
    <2>2. p.at = pauseNo /\ p.val = site /\ site \in {"bp", "anonymous"}
        BY <1>4 DEF EmitHit, AtBreakpoint, Current
    <2>3. out'[1].at = pauseNo
        BY <2>1, <2>2 DEF Record
    <2>4. /\ pc' = "Probe"
          /\ request' = IF ws = "open" THEN "Probe" ELSE "none"
          /\ listener' = "none"
          /\ Absent("reply")' /\ Absent("paused")'
          /\ UNCHANGED <<exitCode, var, meta, ws, answer, target, site, pauseNo>>
        BY <1>4 DEF EmitHit, GoOnWith, Send
    <2>5. OutAtPc'
        BY <1>1, <2>1, <2>4 DEF OutAtPc, Releasing, EndsBetweenVariables
    <2>6. WireIsOneSnapshot'
        BY <2>1 DEF WireIsOneSnapshot, OneSnapshot, Record
    <2>7. OneCommand' /\ AnswersAreOfTheHit'
        BY <2>4 DEF OneCommand, Absent, AtMostOne, AnswersAreOfTheHit
    <2>8. SocketState' /\ StoppedUntilAsked'
        BY <1>2, <2>4 DEF SocketState, StoppedUntilAsked, IInv
    <2>9. PausesAreCurrent' /\ ListensWhileRunning'
        BY <2>4 DEF PausesAreCurrent, ListensWhileRunning, Absent, AtMostOne, Current
    <2>10. TargetHeldAtHit'
        BY <2>2, <2>3, <2>4 DEF TargetHeldAtHit, Holding, Current
    <2>. QED BY <2>5, <2>6, <2>7, <2>8, <2>9, <2>10 DEF IInv
<1>5. CASE ResumePast(p)
    <2>1. /\ pc' = "ResumePast"
          /\ request' = IF ws = "open" THEN "ResumePast" ELSE "none"
          /\ listener' = "armed"
          /\ Absent("reply")' /\ Absent("paused")'
          /\ UNCHANGED <<exitCode, var, meta, out, ws, answer, target, site, pauseNo>>
        BY <1>5 DEF ResumePast, GoOnWith, Send
    <2>. QED BY <1>1, <1>2, <2>1
             DEF IInv, OutAtPc, Releasing, EndsBetweenVariables, OneCommand, Absent,
                 AtMostOne, SocketState, StoppedUntilAsked, PausesAreCurrent, Current,
                 ListensWhileRunning, AnswersAreOfTheHit, WireIsOneSnapshot,
                 TargetHeldAtHit, Holding
<1>. QED BY <1>3, <1>4, <1>5 DEF Turn

LEMMA AwaitChildKeeps ==
    ASSUME IInv, TypeOK', pc = "FinalResume", AwaitChild,
           \/ inbox # <<>> /\ Head(inbox).kind = "reply"
           \/ inbox = <<>> /\ ws = "closing"
    PROVE  IInv'
<1>1. CASE ChildCodeKnown
    BY <1>1, ExitKeeps, WrittenBeforeExit DEF AwaitChild, Quit
<1>2. CASE ~ChildCodeKnown
    <2>1. request = "none" /\ answer = NoMsg /\ ws \notin {"none", "connecting"}
        BY HeadReply DEF IInv, SocketState
    <2>2. Absent("reply")'
        BY <1>2, TailFacts DEF AwaitChild, IInv, OneCommand, Absent, Positions
    <2>3. /\ pc' = "AwaitExit"
          /\ ws' \in {ws, "closed"}
          /\ UNCHANGED <<exitCode, var, meta, listener, paused, out, request, answer,
                         target, site, pauseNo>>
        BY <1>2 DEF AwaitChild
    <2>. QED BY <2>1, <2>2, <2>3
             DEF IInv, OutAtPc, Releasing, EndsBetweenVariables, OneCommand, Absent,
                 AtMostOne, SocketState, StoppedUntilAsked, PausesAreCurrent, Current,
                 ListensWhileRunning, AnswersAreOfTheHit, WireIsOneSnapshot,
                 TargetHeldAtHit, Holding
<1>. QED BY <1>1, <1>2

-----------------------------------------------------------------------------
(* Every step keeps the invariant. *)

LEMMA InvStep == IInv /\ [Next]_vars => IInv'
<1> SUFFICES ASSUME IInv, [Next]_vars PROVE IInv'
    OBVIOUS
<1>0. TypeOK /\ TypeOK'
    BY TypeStep DEF IInv
<1>1. CASE ParseArgs
    <2>1. out = <<>>
        BY <1>1, WrittenBeforeExit DEF ParseArgs
    <2>2. CASE \E code \in {0, 1, 2} : Quit(code)
        BY <1>0, <2>1, <2>2, ExitKeeps DEF Quit
    <2>3. CASE ~ \E code \in {0, 1, 2} : Quit(code)
        BY <1>0, <1>1, <2>1, <2>3
           DEF ParseArgs, IInv, OutAtPc, Releasing, EndsBetweenVariables, OneCommand, Absent,
           AtMostOne, SocketState, StoppedUntilAsked, PausesAreCurrent, Current,
           ListensWhileRunning, AnswersAreOfTheHit, WireIsOneSnapshot, OneSnapshot,
           TargetHeldAtHit, Holding, Positions
    <2>. QED BY <2>2, <2>3
<1>2. CASE BannerTimeout \/ ConnectFails
    <2>1. out = <<>> /\ Exit(2)
        BY <1>2, WrittenBeforeExit DEF BannerTimeout, ConnectFails, Die
    <2>. QED BY <1>0, <2>1, ExitKeeps
<1>3. CASE PauseTimeout
    <2>1. out = <<>> /\ (Exit(3) \/ Exit(1))
        BY <1>3, WrittenBeforeExit DEF PauseTimeout, Die, Quit
    <2>. QED BY <1>0, <2>1, ExitKeeps
<1>4. CASE ExitTimeout
    BY <1>0, <1>4, WrittenBeforeExit, ExitKeeps DEF ExitTimeout
<1>5. CASE LoopDrains
    BY <1>0, <1>5, WrittenBeforeExit, ExitKeeps DEF LoopDrains, Quit
<1>6. CASE ErrorReply
    <2>1. PICK call \in LaunchCalls \cup RuntimeCalls : pc = call /\ Exit(FailCode(call))
        BY <1>6 DEF ErrorReply, ReplyTo, Die
    <2>2. CASE call \in LaunchCalls
        BY <1>0, <2>1, <2>2, WrittenBeforeExit, ExitKeeps DEF FailCode
    <2>3. CASE call \notin LaunchCalls
        BY <1>0, <2>1, <2>3, WrittenBeforeExit, ExitKeeps DEF FailCode
    <2>. QED BY <2>2, <2>3
<1>7. CASE ChildExits
    <2>1. CASE pc = "Banner"
        BY <1>0, <1>7, <2>1, WrittenBeforeExit, ExitKeeps DEF ChildExits
    <2>2. CASE pc = "AwaitExit"
        BY <1>0, <1>7, <2>2, WrittenBeforeExit, ExitKeeps DEF ChildExits
    <2>3. CASE pc \notin {"Banner", "AwaitExit"}
        BY <1>0, <1>7, <2>3, Quiet DEF ChildExits
    <2>. QED BY <2>1, <2>2, <2>3
<1>8. CASE FinalReply
    BY <1>0, <1>8, AwaitChildKeeps DEF FinalReply, ReplyTo
<1>9. CASE CloseArrives
    <2>1. CASE pc \in LaunchCalls
        BY <1>0, <1>9, <2>1, WrittenBeforeExit, ExitKeeps DEF CloseArrives, Die, FailCode
    <2>2. CASE pc \in RuntimeCalls
        BY <1>0, <1>9, <2>2, WrittenBeforeExit, ExitKeeps DEF CloseArrives, Die, FailCode
    <2>3. CASE pc = "FinalResume"
        BY <1>0, <1>9, <2>3, AwaitChildKeeps DEF CloseArrives
    <2>4. CASE pc \notin Calls
        BY <1>0, <1>9, <2>4
           DEF CloseArrives, IInv, OutAtPc, Releasing, EndsBetweenVariables, OneCommand, Absent,
           AtMostOne, SocketState, StoppedUntilAsked, PausesAreCurrent, Current,
           ListensWhileRunning, AnswersAreOfTheHit, WireIsOneSnapshot, OneSnapshot,
           TargetHeldAtHit, Holding, Positions
    <2>. QED BY <2>1, <2>2, <2>3, <2>4
<1>10. CASE PausedArrives
    <2>1. /\ inbox # <<>>
          /\ Head(inbox) \in Pauses
          /\ Head(inbox).kind = "paused"
          /\ 1 \in Positions
          /\ Head(inbox) = inbox[1]
        BY <1>0, <1>10 DEF PausedArrives, TypeOK, Replies, Pauses, Positions
    <2>2. ~Absent("paused")
        BY <2>1 DEF Absent
    <2>3. CASE listener = "armed" /\ pc \in PausePcs
        <3>1. Turn(Head(inbox)) /\ request = "none" /\ answer = NoMsg /\ Absent("reply")
            BY <1>0, <1>10, <2>3 DEF PausedArrives, IInv, OneCommand, TypeOK
        <3>2. Current(Head(inbox)) /\ AtMostOne("paused")
            BY <2>1, <2>3 DEF IInv, PausesAreCurrent, Releasing
        <3>3. inbox' = Tail(inbox) => Absent("reply")' /\ Absent("paused")'
            BY <1>0, <2>1, <3>1, <3>2, TailFacts
        <3>. QED BY <1>0, <2>1, <2>3, <3>1, <3>2, <3>3, TurnKeeps
    <2>4. CASE ~(listener = "armed" /\ pc \in PausePcs)
        <3>1. /\ inbox' = Tail(inbox)
              /\ UNCHANGED <<pc, exitCode, var, meta, out, ws, request, answer,
                             target, site, pauseNo>>
            BY <1>10, <2>4 DEF PausedArrives
        <3>2. /\ Absent("reply") => Absent("reply")'
              /\ AtMostOne("reply")'
              /\ AtMostOne("paused") => Absent("paused")'
              /\ \A i \in Positions' : i + 1 \in Positions /\ inbox'[i] = inbox[i + 1]
            BY <1>0, <2>1, <3>1, TailFacts DEF IInv, OneCommand
        <3>3. /\ OutAtPc' /\ OneCommand' /\ StoppedUntilAsked'
              /\ WireIsOneSnapshot' /\ TargetHeldAtHit'
            BY <1>0, <3>1, <3>2
               DEF IInv, OutAtPc, Releasing, EndsBetweenVariables, OneCommand,
                   StoppedUntilAsked, WireIsOneSnapshot, OneSnapshot, TargetHeldAtHit, Holding
        <3>4. SocketState' /\ AnswersAreOfTheHit'
            BY <2>1, <3>1, <3>2 DEF IInv, SocketState, AnswersAreOfTheHit
        <3>5. PausesAreCurrent' /\ ListensWhileRunning'
            <4>1. CASE Releasing
                BY <1>10, <2>4, <3>1, <4>1
                   DEF PausedArrives, IInv, Releasing, PausesAreCurrent, ListensWhileRunning
            <4>2. CASE ~Releasing
                <5>1. listener = "armed" /\ Current(Head(inbox)) /\ AtMostOne("paused")
                    BY <2>1, <4>2 DEF IInv, PausesAreCurrent
                <5>2. pc \in {"RunIfWaiting", "ResumePast"} /\ request = "none"
                    BY <1>0, <2>2, <2>4, <5>1 DEF IInv, ListensWhileRunning, OneCommand, TypeOK
                <5>3. listener' = "resolved" /\ paused' = Head(inbox)
                    BY <1>10, <2>4, <5>1 DEF PausedArrives
                <5>4. Absent("paused")'
                    BY <3>2, <5>1
                <5>5. PausesAreCurrent'
                    BY <3>1, <5>1, <5>2, <5>3, <5>4
                       DEF PausesAreCurrent, Current, Absent, AtMostOne
                <5>6. ListensWhileRunning'
                    BY <3>1, <5>1, <5>2, <5>3 DEF ListensWhileRunning, Current
                <5>. QED BY <5>5, <5>6
            <4>. QED BY <4>1, <4>2
        <3>. QED BY <1>0, <3>3, <3>4, <3>5 DEF IInv
    <2>. QED BY <2>3, <2>4
<1>11. CASE ReleaseReply
    <2>1. /\ inbox # <<>>
          /\ Head(inbox).kind = "reply"
          /\ pc \in {"RunIfWaiting", "ResumePast"}
        BY <1>11 DEF ReleaseReply, ReplyTo
    <2>2. request = "none" /\ answer = NoMsg /\ AtMostOne("reply")
        BY <2>1, HeadReply DEF IInv, OneCommand
    <2>3. inbox' = Tail(inbox) => Absent("reply")'
        BY <1>0, <2>1, <2>2, TailFacts
    <2>4. CASE listener = "resolved"
        <3>1. Turn(paused) /\ paused \in Pauses
            BY <1>0, <1>11, <2>4 DEF ReleaseReply, TypeOK
        <3>2. Current(paused) /\ Absent("paused")
            BY <2>1, <2>4 DEF IInv, PausesAreCurrent, Releasing
        <3>3. inbox' = Tail(inbox) => Absent("paused")'
            BY <1>0, <2>1, <3>2, TailFacts
        <3>. QED BY <1>0, <2>1, <2>2, <2>3, <3>1, <3>2, <3>3, TurnKeeps
    <2>5. CASE listener # "resolved"
        <3>1. /\ pc' \in PausePcs
              /\ inbox' = Tail(inbox)
              /\ UNCHANGED <<exitCode, var, meta, listener, paused, out, ws, request,
                             answer, target, site, pauseNo>>
            BY <1>11, <2>1, <2>5 DEF ReleaseReply
        <3>2. /\ \A i \in Positions' : i + 1 \in Positions /\ inbox'[i] = inbox[i + 1]
              /\ AtMostOne("paused") => AtMostOne("paused")'
            BY <1>0, <2>1, <3>1, TailFacts
        <3>3. OutAtPc' /\ WireIsOneSnapshot' /\ TargetHeldAtHit' /\ StoppedUntilAsked'
            BY <1>0, <2>1, <2>2, <3>1
               DEF IInv, OutAtPc, Releasing, EndsBetweenVariables, StoppedUntilAsked,
                   WireIsOneSnapshot, OneSnapshot, TargetHeldAtHit, Holding
        <3>4. OneCommand' /\ SocketState' /\ AnswersAreOfTheHit'
            BY <2>1, <2>2, <2>3, <3>1
               DEF IInv, OneCommand, SocketState, AnswersAreOfTheHit, Absent, AtMostOne
        <3>5. listener = "armed"
            BY <1>0, <2>1, <2>5 DEF IInv, ListensWhileRunning, TypeOK
        <3>6. PausesAreCurrent' /\ ListensWhileRunning'
            BY <2>1, <2>2, <3>1, <3>2, <3>5
               DEF IInv, PausesAreCurrent, ListensWhileRunning, Releasing, Current
        <3>. QED BY <1>0, <3>3, <3>4, <3>6 DEF IInv
    <2>. QED BY <2>4, <2>5
<1>12. CASE ProbeReply \/ ExtractReply
    <2>1. /\ inbox # <<>>
          /\ Head(inbox).kind = "reply"
          /\ pc \in {"Probe", "Extract"}
        BY <1>12 DEF ProbeReply, ExtractReply, ReplyTo
    <2>2. /\ request = "none" /\ answer = NoMsg /\ AtMostOne("reply")
          /\ 1 \in Positions /\ Head(inbox) = inbox[1]
        BY <2>1, HeadReply DEF IInv, OneCommand
    <2>3. Len(out) = 2 * var - 1 /\ (out = <<>> \/ Len(out) % 2 = 1) /\ out # <<>>
        BY <1>0, <2>1, WrittenBeforeExit DEF TypeOK
    <2>4. CASE Die(3) \/ Die(4)
        BY <1>0, <2>3, <2>4, ExitKeeps DEF Die
    <2>5. CASE ~(Die(3) \/ Die(4))
        <3>1. inbox' = Tail(inbox) /\ Head(inbox).val = "ok"
            BY <1>12, <2>5 DEF ProbeReply, ExtractReply, ReplyTo
        <3>2. Absent("reply")' /\ Head(inbox).at = out[1].at
            BY <1>0, <2>1, <2>2, <3>1, TailFacts DEF IInv, AnswersAreOfTheHit
        <3>3. listener = "none" /\ Absent("paused")
            BY <2>1 DEF IInv, ListensWhileRunning, PausesAreCurrent, Releasing, Absent
        <3>4. Absent("paused")'
            BY <1>0, <2>1, <3>1, <3>3, TailFacts
        <3>5. CASE ProbeReply
            BY <1>0, <2>1, <2>2, <2>3, <2>5, <3>1, <3>2, <3>3, <3>4, <3>5
               DEF ProbeReply, ReplyTo, Send, IInv, OutAtPc, Releasing, EndsBetweenVariables,
                   OneCommand, Absent, AtMostOne, SocketState, StoppedUntilAsked,
                   PausesAreCurrent, ListensWhileRunning, AnswersAreOfTheHit,
                   WireIsOneSnapshot, OneSnapshot, TargetHeldAtHit, Holding
        <3>6. CASE ExtractReply
            <4>1. /\ WriteBytes(out, Head(inbox).at)
                  /\ pc = "Extract"
                  /\ UNCHANGED <<exitCode, meta, listener, paused, ws, answer, target,
                                 site, pauseNo>>
                BY <2>5, <3>6 DEF ExtractReply, ReplyTo
            <4>2. Writing
                BY <1>0, <2>1, <2>2, <3>2, <3>4, <4>1 DEF Writing, IInv, SocketState
            <4>3. meta = out[1].at
                BY <4>1 DEF IInv, AnswersAreOfTheHit
            <4>. QED BY <2>3, <3>2, <4>1, <4>2, <4>3, WriteBytesKeeps
        <3>. QED BY <1>12, <3>5, <3>6
    <2>. QED BY <2>4, <2>5
<1>13. CASE Drains
    <2>1. /\ pc \in {"DrainBytes", "DrainLayout"}
          /\ UNCHANGED <<exitCode, meta, listener, paused, ws, answer, inbox, target,
                         site, pauseNo>>
        BY <1>13 DEF Drains, BytesDrained, LayoutDrained
    <2>2. /\ request = "none" /\ answer = NoMsg
          /\ Absent("reply") /\ listener = "none" /\ ~Releasing
        BY <1>0, <2>1 DEF IInv, OneCommand, ListensWhileRunning, TypeOK, Releasing
    <2>3. Absent("reply")' /\ Absent("paused")'
        BY <2>1, <2>2 DEF IInv, PausesAreCurrent, Absent, Positions
    <2>4. Writing
        BY <1>0, <2>1, <2>2, <2>3 DEF Writing, IInv, SocketState
    <2>5. out \in Seq(Records) /\ OneSnapshot(out) /\ var \in 1 .. NumVars
        BY <1>0 DEF IInv, TypeOK, WireIsOneSnapshot
    <2>6. CASE BytesDrained
        <3>1. WriteLayout(out) /\ Len(out) = 2 * var /\ meta = out[1].at
            BY <2>6 DEF BytesDrained, IInv, OutAtPc, AnswersAreOfTheHit
        <3>. QED BY <2>4, <2>5, <3>1, WriteLayoutKeeps
    <2>7. CASE LayoutDrained
        <3>1. AfterLayout(out) /\ Len(out) = 2 * var + 1
            BY <2>7 DEF LayoutDrained, IInv, OutAtPc
        <3>. QED BY <2>4, <2>5, <3>1, AfterLayoutKeeps
    <2>. QED BY <1>13, <2>6, <2>7 DEF Drains
<1>14. CASE InspectorHandles
    <2>1. PICK r \in Results(request) :
             /\ answer' = Reply(r)
             /\ target' = IF /\ request \in {"RunIfWaiting", "ResumePast", "FinalResume"}
                             /\ r = "ok"
                             /\ target \in {"waiting", "paused"}
                          THEN "running"
                          ELSE target
        BY <1>14 DEF InspectorHandles
    <2>2. /\ request = pc /\ pc \in Calls /\ answer = NoMsg /\ Absent("reply")
          /\ ws = "open" /\ request' = "none"
          /\ UNCHANGED <<pc, exitCode, var, meta, listener, paused, out, ws, inbox,
                         site, pauseNo>>
        BY <1>0, <1>14 DEF InspectorHandles, IInv, OneCommand, TypeOK
    <2>3. OutAtPc' /\ WireIsOneSnapshot'
        BY <2>2 DEF IInv, OutAtPc, Releasing, EndsBetweenVariables, WireIsOneSnapshot,
                    OneSnapshot
    <2>4. OneCommand' /\ SocketState'
        BY <2>2 DEF IInv, OneCommand, SocketState, Absent, AtMostOne, Positions
    <2>5. StoppedUntilAsked' /\ TargetHeldAtHit'
        BY <2>1, <2>2 DEF IInv, OutAtPc, StoppedUntilAsked, TargetHeldAtHit, Holding
    <2>6. ListensWhileRunning' /\ PausesAreCurrent'
        BY <2>1, <2>2 DEF IInv, ListensWhileRunning, PausesAreCurrent, Current, Absent,
                          AtMostOne, Positions, Releasing
    <2>7. AnswersAreOfTheHit'
        <3>1. CASE pc \in {"Probe", "Extract"}
            <4>1. out # <<>>
                BY <1>0, <3>1, WrittenBeforeExit DEF TypeOK
            <4>2. r = "ok" => pauseNo = out[1].at
                BY <2>1, <2>2, <3>1, <4>1 DEF Results, IInv, TargetHeldAtHit, Holding
            <4>3. answer'.val = r /\ answer'.at = pauseNo
                BY <2>1 DEF Reply
            <4>. QED BY <2>2, <3>1, <4>2, <4>3 DEF IInv, AnswersAreOfTheHit, Positions
        <3>2. CASE pc \notin {"Probe", "Extract"}
            BY <2>2, <3>2 DEF IInv, AnswersAreOfTheHit
        <3>. QED BY <3>1, <3>2
    <2>. QED BY <1>0, <2>3, <2>4, <2>5, <2>6, <2>7 DEF IInv
<1>15. CASE InspectorReplies
    <2>1. /\ answer \in Replies /\ answer.kind = "reply"
          /\ inbox' = Append(inbox, answer) /\ answer' = NoMsg
          /\ UNCHANGED <<pc, exitCode, var, meta, listener, paused, out, ws, request,
                         target, site, pauseNo>>
        BY <1>0, <1>15 DEF InspectorReplies, TypeOK, Replies
    <2>2. /\ \A i \in Positions' : \/ i \in Positions /\ inbox'[i] = inbox[i]
                                   \/ i = Len(inbox) + 1 /\ inbox'[i] = answer
          /\ Absent("reply") => AtMostOne("reply")'
          /\ Absent("paused") => Absent("paused")'
          /\ AtMostOne("paused") => AtMostOne("paused")'
        BY <1>0, <2>1, AppendFacts
    <2>3. pc \in Calls /\ Absent("reply") /\ request = "none" /\ ws = "open"
        BY <1>15, <1>0 DEF InspectorReplies, IInv, OneCommand, SocketState, TypeOK
    <2>4. OutAtPc' /\ WireIsOneSnapshot' /\ StoppedUntilAsked' /\ TargetHeldAtHit'
        BY <2>1, <2>3
           DEF IInv, OutAtPc, Releasing, EndsBetweenVariables, WireIsOneSnapshot,
               OneSnapshot, StoppedUntilAsked, TargetHeldAtHit, Holding
    <2>5. OneCommand' /\ SocketState'
        BY <2>1, <2>2, <2>3 DEF IInv, OneCommand, SocketState
    <2>6. PausesAreCurrent'
        BY <2>1, <2>2 DEF IInv, PausesAreCurrent, Releasing, Current
    <2>7. ListensWhileRunning'
        BY <2>1, <2>2, <2>3 DEF IInv, ListensWhileRunning, Releasing
    <2>8. AnswersAreOfTheHit'
        BY <1>15, <2>1, <2>2 DEF InspectorReplies, IInv, AnswersAreOfTheHit
    <2>. QED BY <1>0, <2>4, <2>5, <2>6, <2>7, <2>8 DEF IInv
<1>16. CASE BannerSeen
    BY <1>0, <1>16
       DEF BannerSeen, IInv, OutAtPc, Releasing, EndsBetweenVariables, OneCommand, Absent,
           AtMostOne, SocketState, StoppedUntilAsked, PausesAreCurrent, Current,
           ListensWhileRunning, AnswersAreOfTheHit, WireIsOneSnapshot, OneSnapshot,
           TargetHeldAtHit, Holding, Positions
<1>17. CASE ConnectOpens
    BY <1>0, <1>17
       DEF ConnectOpens, IInv, OutAtPc, Releasing, EndsBetweenVariables, OneCommand, Absent,
           AtMostOne, SocketState, StoppedUntilAsked, PausesAreCurrent, Current,
           ListensWhileRunning, AnswersAreOfTheHit, WireIsOneSnapshot, OneSnapshot,
           TargetHeldAtHit, Holding, Positions
<1>18. CASE LaunchReply
    BY <1>0, <1>18
       DEF LaunchReply, ReplyTo, Send, IInv, OutAtPc, Releasing, EndsBetweenVariables, OneCommand, Absent,
           AtMostOne, SocketState, StoppedUntilAsked, PausesAreCurrent, Current,
           ListensWhileRunning, AnswersAreOfTheHit, WireIsOneSnapshot, OneSnapshot,
           TargetHeldAtHit, Holding, Positions
<1>19. CASE ReadLine
    BY <1>0, <1>19
       DEF ReadLine, Send, IInv, OutAtPc, Releasing, EndsBetweenVariables, OneCommand, Absent,
           AtMostOne, SocketState, StoppedUntilAsked, PausesAreCurrent, Current,
           ListensWhileRunning, AnswersAreOfTheHit, WireIsOneSnapshot, OneSnapshot,
           TargetHeldAtHit, Holding, Positions
<1>20. CASE ReadEof
    BY <1>0, <1>20
       DEF ReadEof, Send, IInv, OutAtPc, Releasing, EndsBetweenVariables, OneCommand, Absent,
           AtMostOne, SocketState, StoppedUntilAsked, PausesAreCurrent, Current,
           ListensWhileRunning, AnswersAreOfTheHit, WireIsOneSnapshot, OneSnapshot,
           TargetHeldAtHit, Holding, Positions
<1>21. CASE TargetListens
    BY <1>0, <1>21
       DEF TargetListens, IInv, OutAtPc, Releasing, EndsBetweenVariables, OneCommand, Absent,
           AtMostOne, SocketState, StoppedUntilAsked, PausesAreCurrent, Current,
           ListensWhileRunning, AnswersAreOfTheHit, WireIsOneSnapshot, OneSnapshot,
           TargetHeldAtHit, Holding, Positions
<1>22. CASE TargetPauses
    BY <1>0, <1>22
       DEF TargetPauses, Paused, IInv, OutAtPc, Releasing, EndsBetweenVariables, OneCommand, Absent,
           AtMostOne, SocketState, StoppedUntilAsked, PausesAreCurrent, Current,
           ListensWhileRunning, AnswersAreOfTheHit, WireIsOneSnapshot, OneSnapshot,
           TargetHeldAtHit, Holding, Positions
<1>23. CASE TargetFinishes
    BY <1>0, <1>23
       DEF TargetFinishes, IInv, OutAtPc, Releasing, EndsBetweenVariables, OneCommand, Absent,
           AtMostOne, SocketState, StoppedUntilAsked, PausesAreCurrent, Current,
           ListensWhileRunning, AnswersAreOfTheHit, WireIsOneSnapshot, OneSnapshot,
           TargetHeldAtHit, Holding, Positions
<1>24. CASE TargetExits
    BY <1>0, <1>24
       DEF TargetExits, Disconnect, IInv, OutAtPc, Releasing, EndsBetweenVariables, OneCommand, Absent,
           AtMostOne, SocketState, StoppedUntilAsked, PausesAreCurrent, Current,
           ListensWhileRunning, AnswersAreOfTheHit, WireIsOneSnapshot, OneSnapshot,
           TargetHeldAtHit, Holding, Positions
<1>25. CASE TargetDies
    BY <1>0, <1>25
       DEF TargetDies, Disconnect, IInv, OutAtPc, Releasing, EndsBetweenVariables, OneCommand, Absent,
           AtMostOne, SocketState, StoppedUntilAsked, PausesAreCurrent, Current,
           ListensWhileRunning, AnswersAreOfTheHit, WireIsOneSnapshot, OneSnapshot,
           TargetHeldAtHit, Holding, Positions
<1>26. CASE ConnectionDrops
    BY <1>0, <1>26
       DEF ConnectionDrops, Disconnect, IInv, OutAtPc, Releasing, EndsBetweenVariables, OneCommand, Absent,
           AtMostOne, SocketState, StoppedUntilAsked, PausesAreCurrent, Current,
           ListensWhileRunning, AnswersAreOfTheHit, WireIsOneSnapshot, OneSnapshot,
           TargetHeldAtHit, Holding, Positions
<1>27. CASE DeadlinePasses \/ Flush \/ CtlWrites \/ CtlCloses
    BY <1>0, <1>27, Quiet DEF DeadlinePasses, Flush, CtlWrites, CtlCloses
<1>28. CASE Terminated \/ UNCHANGED vars
    BY <1>0, <1>28, Quiet DEF Terminated, vars
<1>. QED
    BY <1>1, <1>2, <1>3, <1>4, <1>5, <1>6, <1>7, <1>8, <1>9, <1>10, <1>11, <1>12, <1>13, <1>14, <1>15, <1>16, <1>17, <1>18, <1>19, <1>20, <1>21, <1>22, <1>23, <1>24, <1>25, <1>26, <1>27, <1>28
       DEF Next, Adapter, Environment, Messages, Drains, Stdin, Timers

LEMMA InvInit == Init => IInv
<1> SUFFICES ASSUME Init PROVE IInv
    OBVIOUS
<1>1. Positions = {}
    BY DEF Init, Positions
<1>2. TypeOK
    BY TypeInit
<1>3. OutAtPc /\ WireIsOneSnapshot
    BY DEF Init, OutAtPc, Releasing, EndsBetweenVariables, WireIsOneSnapshot, OneSnapshot
<1>4. OneCommand /\ SocketState /\ StoppedUntilAsked
    BY <1>1 DEF Init, OneCommand, Absent, AtMostOne, SocketState, StoppedUntilAsked
<1>5. PausesAreCurrent /\ ListensWhileRunning /\ AnswersAreOfTheHit /\ TargetHeldAtHit
    BY <1>1 DEF Init, PausesAreCurrent, Releasing, AtMostOne, ListensWhileRunning,
                AnswersAreOfTheHit, TargetHeldAtHit, Holding
<1>. QED BY <1>2, <1>3, <1>4, <1>5 DEF IInv

-----------------------------------------------------------------------------
(* The theorems. *)

\* IInv, the conjunction the safety properties rest on, holds in every
\* reachable state.
THEOREM Invariance == Spec => []IInv
<1>. QED BY InvInit, InvStep, PTL DEF Spec

\* The wire carries one snapshot, whatever the number of variables and however
\* the awaited writes interleave with the socket.
THEOREM WireCorrect == Spec => []WireIsOneSnapshot
<1>1. IInv => WireIsOneSnapshot
    BY DEF IInv
<1>. QED BY <1>1, Invariance, PTL

\* No pause is announced to an adapter that does not listen.
THEOREM NothingMissed == Spec => []NoPauseMissed
<1>1. IInv => NoPauseMissed
    BY DEF IInv, PausesAreCurrent, NoPauseMissed, Positions, Releasing
<1>. QED BY <1>1, Invariance, PTL

\* An announced hit holds the target at that pause.
THEOREM HitIsHeld == Spec => []TargetHeldAtHit
<1>1. IInv => TargetHeldAtHit
    BY DEF IInv
<1>. QED BY <1>1, Invariance, PTL

\* The adapter ends between two variables, with a code that fits what it wrote.
THEOREM EndsCleanly == Spec => []EndsBetweenVariables
<1>1. IInv => EndsBetweenVariables
    BY DEF IInv, OutAtPc
<1>. QED BY <1>1, Invariance, PTL

-----------------------------------------------------------------------------
(* The refinement. *)

\* A socket whose close event was delivered delivers nothing more, and no
\* command of the launch or the search is ever sent on it.
ClosedSocket ==
    /\ ws = "closed" => inbox = <<>>
    /\ pc \in LaunchCalls \cup {"RunIfWaiting", "ResumePast"} => ws # "closed"

LEMMA ClosedInit == Init => ClosedSocket
BY DEF Init, ClosedSocket

LEMMA ClosedTurn ==
    ASSUME ClosedSocket, NEW p, inbox # <<>>, Turn(p)
    PROVE  ClosedSocket'
<1>1. ws # "closed"
    BY DEF ClosedSocket
<1>2. CASE GiveUp(p)
    BY <1>2 DEF GiveUp, Die, Exit, ClosedSocket
<1>3. CASE EmitHit(p) \/ ResumePast(p)
    BY <1>1, <1>3 DEF EmitHit, ResumePast, GoOnWith, Send, ClosedSocket
<1>. QED BY <1>2, <1>3 DEF Turn

LEMMA ClosedExit == ASSUME NEW c, Exit(c) PROVE ClosedSocket'
BY DEF Exit, ClosedSocket

LEMMA ClosedStep == IInv /\ ClosedSocket /\ [Next]_vars => ClosedSocket'
<1> SUFFICES ASSUME IInv, ClosedSocket, [Next]_vars PROVE ClosedSocket'
    OBVIOUS
<1>1. CASE ParseArgs
    BY <1>1, ClosedExit DEF ParseArgs, Quit, ClosedSocket
<1>2. CASE BannerTimeout \/ ConnectFails \/ PauseTimeout \/ ExitTimeout \/ LoopDrains \/ ErrorReply
    BY <1>2, ClosedExit DEF BannerTimeout, ConnectFails, PauseTimeout, ExitTimeout, LoopDrains,
                            ErrorReply, Die, Quit
<1>3. CASE BannerSeen \/ ConnectOpens
    BY <1>3 DEF BannerSeen, ConnectOpens, ClosedSocket, IInv, SocketState
<1>4. CASE PausedArrives
    <2>1. CASE Turn(Head(inbox))
        BY <1>4, <2>1, ClosedTurn DEF PausedArrives
    <2>2. CASE ~Turn(Head(inbox))
        BY <1>4, <2>2 DEF PausedArrives, ClosedSocket
    <2>. QED BY <2>1, <2>2
<1>5. CASE ReleaseReply
    <2>1. CASE Turn(paused)
        BY <1>5, <2>1, ClosedTurn DEF ReleaseReply, ReplyTo
    <2>2. CASE ~Turn(paused)
        BY <1>5, <2>2 DEF ReleaseReply, ReplyTo, ClosedSocket
    <2>. QED BY <2>1, <2>2
<1>6. CASE LaunchReply
    BY <1>6 DEF LaunchReply, ReplyTo, Send, ClosedSocket
<1>7. CASE ProbeReply
    BY <1>7, ClosedExit DEF ProbeReply, ReplyTo, Die, Send, ClosedSocket
<1>8. CASE ExtractReply
    <2>1. CASE Die(3)
        BY <2>1, ClosedExit DEF Die
    <2>2. CASE ~Die(3)
        BY <1>8, <2>2 DEF ExtractReply, ReplyTo, WriteBytes, WriteLayout, AfterLayout, Send,
                          ClosedSocket
    <2>. QED BY <2>1, <2>2
<1>9. CASE BytesDrained \/ LayoutDrained
    BY <1>9 DEF BytesDrained, LayoutDrained, WriteLayout, AfterLayout, Send, ClosedSocket
<1>10. CASE FinalReply \/ CloseArrives
    <2>1. CASE AwaitChild
        BY <2>1, ClosedExit DEF AwaitChild, Quit, ClosedSocket
    <2>2. CASE ~AwaitChild
        BY <1>10, <2>2, ClosedExit DEF FinalReply, CloseArrives, Die, ClosedSocket
    <2>. QED BY <2>1, <2>2
<1>11. CASE ReadLine \/ ReadEof
    BY <1>11 DEF ReadLine, ReadEof, Send, ClosedSocket
<1>12. CASE ChildExits
    BY <1>12, ClosedExit DEF ChildExits, ClosedSocket
<1>13. CASE InspectorReplies \/ TargetPauses
    BY <1>13 DEF InspectorReplies, TargetPauses, ClosedSocket, IInv, SocketState
<1>14. CASE TargetExits \/ TargetDies \/ ConnectionDrops
    BY <1>14 DEF TargetExits, TargetDies, ConnectionDrops, Disconnect, ClosedSocket
<1>15. CASE \/ DeadlinePasses \/ Flush \/ CtlWrites \/ CtlCloses \/ InspectorHandles
            \/ TargetListens \/ TargetFinishes \/ Terminated \/ UNCHANGED vars
    BY <1>15 DEF DeadlinePasses, Flush, CtlWrites, CtlCloses, InspectorHandles, TargetListens,
                 TargetFinishes, Terminated, vars, ClosedSocket
<1>. QED
    BY <1>1, <1>2, <1>3, <1>4, <1>5, <1>6, <1>7, <1>8, <1>9, <1>10, <1>11, <1>12, <1>13,
       <1>14, <1>15
       DEF Next, Adapter, Environment, Messages, Drains, Stdin, Timers

-----------------------------------------------------------------------------
(* Steps of the session. *)

LEMMA SessionInitially == Init => Session!SessionInit
BY DEF Init, Session!SessionInit, Phase, Session!NotDone

\* A step that changes neither the phase, the wire nor the code is a stutter.
LEMMA SessionStutter ==
    ASSUME UNCHANGED <<out, exitCode>>, Phase' = Phase
    PROVE  UNCHANGED Session!svars
BY DEF Session!svars

LEMMA SessionSame ==
    ASSUME UNCHANGED <<pc, out, exitCode>>
    PROVE  UNCHANGED Session!svars
BY DEF Session!svars, Phase

\* Every way to end is an end of the session, with a code of its phase.
LEMMA SessionEnds ==
    ASSUME IInv, NEW c, Exit(c), pc \notin {"Exited", "AwaitContinue", "DrainBytes", "DrainLayout"},
           c \in Session!Codes[Phase]
    PROVE  Session!End
<1>1. /\ Phase \in DOMAIN Session!Codes
      /\ Phase = "emit" => pc \in {"Probe", "Extract"}
    BY DEF IInv, TypeOK, Phase, Session!Codes
<1>2. pc \in {"Probe", "Extract"} => Len(out) % 2 = 1 /\ Len(out) < Session!Full
    <2>1. var \in 1 .. NumVars /\ NumVars \in Nat
        BY DEF IInv, TypeOK
    <2>. QED BY <2>1, WrittenBeforeExit DEF Session!Full, IInv, TypeOK
<1>3. Phase' = "done" /\ exitCode' = c /\ out' = out
    BY DEF Exit, Phase, outVars
<1>. QED BY <1>1, <1>2, <1>3 DEF Session!End

LEMMA SessionTurn ==
    ASSUME IInv, NEW p, Turn(p), pc \in {"RunIfWaiting", "ResumePast"} \cup PausePcs
    PROVE  Session!SessionNext \/ UNCHANGED Session!svars
<1>1. Phase = "seek" /\ out = <<>>
    BY DEF Phase, IInv, OutAtPc
<1>2. CASE GiveUp(p)
    BY <1>1, <1>2, SessionEnds DEF GiveUp, Die, Session!Codes, Session!SessionNext
<1>3. CASE EmitHit(p)
    <2>1. Phase' = "emit" /\ exitCode' = exitCode
        BY <1>3 DEF EmitHit, GoOnWith, Send, Phase
    <2>2. Len(out') = 1 /\ Len(out) = 0
        BY <1>1, <1>3 DEF EmitHit
    <2>. QED BY <1>1, <2>1, <2>2 DEF Session!Hit, Session!SessionNext
<1>4. CASE ResumePast(p)
    <2>1. Phase' = "seek" /\ UNCHANGED <<out, exitCode>>
        BY <1>4 DEF ResumePast, GoOnWith, Send, Phase
    <2>. QED BY <1>1, <2>1, SessionStutter
<1>. QED BY <1>2, <1>3, <1>4 DEF Turn

LEMMA SessionAwaitsChild ==
    ASSUME IInv, pc = "FinalResume", AwaitChild
    PROVE  Session!SessionNext \/ UNCHANGED Session!svars
<1>1. Phase = "release"
    BY DEF Phase
<1>2. CASE ChildCodeKnown
    BY <1>1, <1>2, SessionEnds DEF AwaitChild, Quit, Session!Codes, Session!SessionNext
<1>3. CASE ~ChildCodeKnown
    <2>1. Phase' = "release" /\ UNCHANGED <<out, exitCode>>
        BY <1>3 DEF AwaitChild, Phase, outVars
    <2>. QED BY <1>1, <2>1, SessionStutter
<1>. QED BY <1>2, <1>3

\* Writing frames: one record more, or two, or (after an awaited layout) none.
LEMMA SessionWrites ==
    ASSUME IInv, IInv', UNCHANGED exitCode,
           pc \in {"Extract", "DrainBytes", "DrainLayout"},
           pc' \in {"Probe", "DrainBytes", "DrainLayout", "AwaitContinue"},
           Len(out') \in Len(out) .. Len(out) + 2,
           Len(out') = Len(out) => out' = out
    PROVE  Session!SessionNext \/ UNCHANGED Session!svars
<1>1. /\ Phase = "emit"
      /\ Phase' = IF pc' = "AwaitContinue" THEN "hold" ELSE "emit"
    BY DEF Phase
<1>2. /\ Len(out) \in Nat /\ Len(out') \in Nat
      /\ var' \in 1 .. NumVars /\ NumVars \in Nat
    BY DEF IInv, TypeOK
<1>3. /\ Len(out') <= Session!Full
      /\ pc' = "AwaitContinue" => Len(out') = Session!Full
    <2>1. /\ pc' = "Probe" => Len(out') = 2 * var' - 1
          /\ pc' = "DrainBytes" => Len(out') = 2 * var'
          /\ pc' = "DrainLayout" => Len(out') = 2 * var' + 1
          /\ pc' = "AwaitContinue" => Len(out') = 1 + 2 * NumVars
        BY DEF IInv, OutAtPc, FullWire
    <2>2. var' \in Nat /\ var' <= NumVars /\ Session!Full = 1 + 2 * NumVars
        BY <1>2 DEF Session!Full
    <2>3. CASE pc' = "Probe"
        BY <1>2, <2>1, <2>2, <2>3
    <2>4. CASE pc' = "DrainBytes"
        BY <1>2, <2>1, <2>2, <2>4
    <2>5. CASE pc' = "DrainLayout"
        BY <1>2, <2>1, <2>2, <2>5
    <2>6. CASE pc' = "AwaitContinue"
        BY <1>2, <2>1, <2>2, <2>6
    <2>. QED BY <2>3, <2>4, <2>5, <2>6
<1>4. CASE Len(out') = Len(out)
    <2>1. CASE pc' = "AwaitContinue"
        BY <1>1, <1>3, <1>4, <2>1 DEF Session!Hold, Session!SessionNext
    <2>2. CASE pc' # "AwaitContinue"
        BY <1>1, <1>4, <2>2, SessionStutter
    <2>. QED BY <2>1, <2>2
<1>5. CASE Len(out') # Len(out)
    BY <1>1, <1>2, <1>3, <1>5 DEF Session!Emit, Session!SessionNext
<1>. QED BY <1>4, <1>5

LEMMA FrameCounts ==
    ASSUME IInv, NEW o \in Seq(Records), WriteLayout(o)
    PROVE  /\ Len(out') = Len(o) + 1
           /\ pc' \in {"Probe", "DrainLayout", "AwaitContinue"}
<1>1. Append(o, Record("layout", var, meta)) \in Seq(Records)
    BY RecordType DEF IInv, TypeOK
<1>. QED BY <1>1 DEF WriteLayout, AfterLayout, Send

LEMMA SessionStep ==
    IInv /\ IInv' /\ ClosedSocket /\ [Next]_vars => [Session!SessionNext]_Session!svars
<1> SUFFICES ASSUME IInv, IInv', ClosedSocket, [Next]_vars
             PROVE  Session!SessionNext \/ UNCHANGED Session!svars
    OBVIOUS
<1>1. CASE ParseArgs
    <2>1. Phase = "launch"
        BY <1>1 DEF ParseArgs, Phase
    <2>2. CASE \E code \in {0, 1, 2} : Quit(code)
        BY <1>1, <2>1, <2>2, SessionEnds DEF ParseArgs, Quit, Session!Codes, Session!SessionNext
    <2>3. CASE ~ \E code \in {0, 1, 2} : Quit(code)
        <3>1. Phase' = "launch" /\ UNCHANGED <<out, exitCode>>
            BY <1>1, <2>3 DEF ParseArgs, Phase
        <3>. QED BY <2>1, <3>1, SessionStutter
    <2>. QED BY <2>2, <2>3
<1>2. CASE BannerSeen \/ ConnectOpens
    <2>1. Phase = "launch" /\ Phase' = "launch" /\ UNCHANGED <<out, exitCode>>
        BY <1>2 DEF BannerSeen, ConnectOpens, Phase
    <2>. QED BY <2>1, SessionStutter
<1>3. CASE BannerTimeout \/ ConnectFails
    <2>1. Exit(2) /\ Phase = "launch" /\ pc \in {"Banner", "Connect"}
        BY <1>3 DEF BannerTimeout, ConnectFails, Die, Phase
    <2>. QED BY <2>1, SessionEnds DEF Session!Codes, Session!SessionNext
<1>4. CASE PauseTimeout
    <2>1. pc \in {"RunIfWaiting", "ResumePast"} \cup PausePcs
        BY <1>4 DEF PauseTimeout, IInv, ListensWhileRunning
    <2>2. Phase = "seek" /\ (Exit(3) \/ Exit(1))
        BY <1>4, <2>1 DEF PauseTimeout, Die, Quit, Phase
    <2>. QED BY <2>1, <2>2, SessionEnds DEF Session!Codes, Session!SessionNext
<1>5. CASE ExitTimeout
    <2>1. Exit(0) /\ Phase = "release" /\ pc = "AwaitExit"
        BY <1>5 DEF ExitTimeout, Phase
    <2>. QED BY <2>1, SessionEnds DEF Session!Codes, Session!SessionNext
<1>6. CASE LoopDrains
    <2>1. pc \in {"Probe", "Extract", "FinalResume"}
        BY <1>6 DEF LoopDrains, ClosedSocket
    <2>2. Exit(0) /\ 0 \in Session!Codes[Phase]
        BY <1>6, <2>1 DEF LoopDrains, Quit, Phase, Session!Codes
    <2>. QED BY <2>1, <2>2, SessionEnds DEF Session!SessionNext
<1>7. CASE ErrorReply
    <2>1. PICK call \in LaunchCalls \cup RuntimeCalls : pc = call /\ Exit(FailCode(call))
        BY <1>7 DEF ErrorReply, ReplyTo, Die
    <2>2. FailCode(call) \in Session!Codes[Phase]
        BY <2>1 DEF FailCode, Phase, Session!Codes
    <2>. QED BY <2>1, <2>2, SessionEnds DEF Session!SessionNext
<1>8. CASE CloseArrives
    <2>1. CASE pc \in LaunchCalls \cup RuntimeCalls
        <3>1. Exit(FailCode(pc)) /\ FailCode(pc) \in Session!Codes[Phase]
            BY <1>8, <2>1 DEF CloseArrives, Die, FailCode, Phase, Session!Codes
        <3>. QED BY <2>1, <3>1, SessionEnds DEF Session!SessionNext
    <2>2. CASE pc = "FinalResume"
        BY <1>8, <2>2, SessionAwaitsChild DEF CloseArrives
    <2>3. CASE pc \notin Calls
        BY <1>8, <2>3, SessionSame DEF CloseArrives
    <2>. QED BY <2>1, <2>2, <2>3
<1>9. CASE PausedArrives
    <2>1. CASE listener = "armed" /\ pc \in PausePcs
        BY <1>9, <2>1, SessionTurn DEF PausedArrives
    <2>2. CASE ~(listener = "armed" /\ pc \in PausePcs)
        BY <1>9, <2>2, SessionSame DEF PausedArrives
    <2>. QED BY <2>1, <2>2
<1>10. CASE ReleaseReply
    <2>1. pc \in {"RunIfWaiting", "ResumePast"}
        BY <1>10 DEF ReleaseReply, ReplyTo
    <2>2. CASE listener = "resolved"
        BY <1>10, <2>1, <2>2, SessionTurn DEF ReleaseReply
    <2>3. CASE listener # "resolved"
        <3>1. Phase = "seek" /\ Phase' = "seek" /\ UNCHANGED <<out, exitCode>>
            BY <1>10, <2>1, <2>3 DEF ReleaseReply, Phase
        <3>. QED BY <3>1, SessionStutter
    <2>. QED BY <2>2, <2>3
<1>11. CASE LaunchReply
    <2>1. /\ Phase = "launch" /\ Phase' \in {"launch", "seek"}
          /\ UNCHANGED <<out, exitCode>>
        BY <1>11 DEF LaunchReply, ReplyTo, Send, Phase
    <2>. QED BY <2>1, SessionStutter DEF Session!Start, Session!SessionNext
<1>12. CASE ProbeReply
    <2>1. pc = "Probe" /\ Phase = "emit"
        BY <1>12 DEF ProbeReply, ReplyTo, Phase
    <2>2. CASE Exit(3) \/ Exit(4)
        BY <2>1, <2>2, SessionEnds DEF Session!Codes, Session!SessionNext
    <2>3. CASE ~(Exit(3) \/ Exit(4))
        <3>1. Phase' = "emit" /\ UNCHANGED <<out, exitCode>>
            BY <1>12, <2>3 DEF ProbeReply, Die, Send, Phase
        <3>. QED BY <2>1, <3>1, SessionStutter
    <2>. QED BY <2>2, <2>3
<1>13. CASE ExtractReply
    <2>1. pc = "Extract" /\ Phase = "emit"
        BY <1>13 DEF ExtractReply, ReplyTo, Phase
    <2>2. CASE Exit(3)
        BY <2>1, <2>2, SessionEnds DEF Session!Codes, Session!SessionNext
    <2>3. CASE ~Exit(3)
        <3>1. /\ WriteBytes(out, Head(inbox).at)
              /\ inbox # <<>>
              /\ Head(inbox).kind = "reply"
              /\ UNCHANGED exitCode
            BY <1>13, <2>3 DEF ExtractReply, ReplyTo, Die
        <3>2. Head(inbox).at \in Stamps
            BY <3>1, InboxTail DEF IInv, Replies, Pauses
        <3> DEFINE w == Append(out, Record("bytes", var, Head(inbox).at))
        <3>3. w \in Seq(Records) /\ Len(w) = Len(out) + 1
            BY <3>2, RecordType DEF IInv, TypeOK
        <3>4. CASE WriteLayout(w)
            <4> HIDE DEF w
            <4>1. /\ Len(out') = Len(out) + 2
                  /\ pc' \in {"Probe", "DrainLayout", "AwaitContinue"}
                  /\ Len(out) \in Nat
                BY <3>3, <3>4, FrameCounts DEF IInv, TypeOK
            <4>. QED BY <2>1, <3>1, <4>1, SessionWrites
        <3>5. CASE out' = w /\ pc' = "DrainBytes"
            BY <2>1, <3>1, <3>3, <3>5, SessionWrites DEF IInv, TypeOK
        <3>. QED BY <3>1, <3>4, <3>5 DEF WriteBytes
    <2>. QED BY <2>2, <2>3
<1>14. CASE BytesDrained
    <2>1. out \in Seq(Records) /\ WriteLayout(out) /\ pc = "DrainBytes" /\ UNCHANGED exitCode
        BY <1>14 DEF BytesDrained, IInv, TypeOK
    <2>. QED BY <2>1, FrameCounts, SessionWrites DEF IInv, TypeOK
<1>15. CASE LayoutDrained
    <2>1. /\ out' = out /\ pc = "DrainLayout" /\ pc' \in {"Probe", "AwaitContinue"}
          /\ UNCHANGED exitCode
        BY <1>15 DEF LayoutDrained, AfterLayout, Send
    <2>. QED BY <2>1, SessionWrites DEF IInv, TypeOK
<1>16. CASE FinalReply
    BY <1>16, SessionAwaitsChild DEF FinalReply, ReplyTo
<1>17. CASE ReadLine
    <2>1. /\ Phase = "hold" /\ Phase' \in {"hold", "release"}
          /\ UNCHANGED <<out, exitCode>>
        BY <1>17 DEF ReadLine, Send, Phase
    <2>. QED BY <2>1, SessionStutter DEF Session!Release, Session!SessionNext
<1>18. CASE ReadEof
    <2>1. Phase = "hold" /\ Phase' = "release" /\ UNCHANGED <<out, exitCode>>
        BY <1>18 DEF ReadEof, Send, Phase
    <2>. QED BY <2>1 DEF Session!Release, Session!SessionNext
<1>19. CASE ChildExits
    <2>1. CASE pc = "Banner"
        <3>1. Exit(2) /\ Phase = "launch"
            BY <1>19, <2>1 DEF ChildExits, Phase
        <3>. QED BY <2>1, <3>1, SessionEnds DEF Session!Codes, Session!SessionNext
    <2>2. CASE pc = "AwaitExit"
        <3>1. Exit(0) /\ Phase = "release"
            BY <1>19, <2>2 DEF ChildExits, Phase
        <3>. QED BY <2>2, <3>1, SessionEnds DEF Session!Codes, Session!SessionNext
    <2>3. CASE pc \notin {"Banner", "AwaitExit"}
        BY <1>19, <2>3, SessionSame DEF ChildExits
    <2>. QED BY <2>1, <2>2, <2>3
<1>20. CASE Flush
    BY <1>20, SessionSame DEF Flush
<1>21. CASE DeadlinePasses \/ Environment \/ Terminated \/ UNCHANGED vars
    BY <1>21, SessionSame
       DEF DeadlinePasses, Environment, CtlWrites, CtlCloses, InspectorHandles,
           InspectorReplies, TargetListens, TargetPauses, TargetFinishes, TargetExits,
           TargetDies, ConnectionDrops, Terminated, vars
<1>. QED
    BY <1>1, <1>2, <1>3, <1>4, <1>5, <1>6, <1>7, <1>8, <1>9, <1>10, <1>11, <1>12, <1>13,
       <1>14, <1>15, <1>16, <1>17, <1>18, <1>19, <1>20, <1>21
       DEF Next, Adapter, Messages, Drains, Stdin, Timers

\* Every behaviour of the adapter is a session of the CLI's protocol.
THEOREM Refinement == Spec => ImplementsSession
<1>1. Spec => []ClosedSocket
    BY ClosedInit, ClosedStep, Invariance, PTL DEF Spec
<1>. QED BY <1>1, Invariance, SessionInitially, SessionStep, PTL
         DEF Spec, ImplementsSession, Session!SessionSpec

-----------------------------------------------------------------------------
(* Single steps. *)

LEMMA TurnNeverReleases ==
    ASSUME NEW p, Turn(p)
    PROVE  pc' # "FinalResume"
BY DEF Turn, EmitHit, ResumePast, GiveUp, Die, Exit, Send

LEMMA OnlyStdinReleases ==
    ASSUME IInv, [Next]_vars, pc # "FinalResume", pc' = "FinalResume"
    PROVE  ReadLine \/ ReadEof
<1>1. ~ \E c : Exit(c)
    BY DEF Exit
<1>2. ~(PausedArrives \/ ReleaseReply)
    BY TurnNeverReleases DEF PausedArrives, ReleaseReply
<1>3. ~(ExtractReply \/ BytesDrained \/ LayoutDrained)
    BY <1>1 DEF ExtractReply, BytesDrained, LayoutDrained, Die, WriteBytes, WriteLayout,
                AfterLayout, Send
<1>4. ~(ParseArgs \/ BannerSeen \/ ConnectOpens \/ ConnectFails \/ BannerTimeout
        \/ LaunchReply \/ ProbeReply \/ PauseTimeout \/ DeadlinePasses \/ Flush)
    BY <1>1 DEF ParseArgs, BannerSeen, ConnectOpens, ConnectFails, BannerTimeout, LaunchReply,
                ProbeReply, PauseTimeout, DeadlinePasses, Flush, Die, Quit, Send
<1>5. ~(FinalReply \/ ErrorReply \/ CloseArrives \/ ChildExits \/ ExitTimeout \/ LoopDrains)
    BY <1>1 DEF FinalReply, ErrorReply, CloseArrives, ChildExits, ExitTimeout, LoopDrains,
                AwaitChild, Die, Quit, ReplyTo
<1>6. ~(Environment \/ Terminated \/ UNCHANGED vars)
    BY DEF Environment, CtlWrites, CtlCloses, InspectorHandles, InspectorReplies, TargetListens,
           TargetPauses, TargetFinishes, TargetExits, TargetDies, ConnectionDrops, Terminated, vars
<1>. QED BY <1>2, <1>3, <1>4, <1>5, <1>6
         DEF Next, Adapter, Messages, Drains, Stdin, Timers

\* Nobody but the control plane releases a held target.
THEOREM ReleasedByControlPlane == Spec => ResumeNeedsGo
<1>1. IInv /\ [Next]_vars =>
        [pc # "FinalResume" /\ pc' = "FinalResume" =>
            /\ pc = "AwaitContinue"
            /\ IF stdin = <<>> THEN stdinEnded ELSE Head(stdin) = "continue"
            /\ Len(out) = FullWire]_vars
    <2> SUFFICES ASSUME IInv, [Next]_vars, pc # "FinalResume", pc' = "FinalResume"
                 PROVE  /\ pc = "AwaitContinue"
                        /\ IF stdin = <<>> THEN stdinEnded ELSE Head(stdin) = "continue"
                        /\ Len(out) = FullWire
        OBVIOUS
    <2>1. ReadLine \/ ReadEof
        BY OnlyStdinReleases
    <2>. QED BY <2>1 DEF ReadLine, ReadEof, IInv, OutAtPc
<1>. QED BY <1>1, Invariance, PTL DEF Spec, ResumeNeedsGo

-----------------------------------------------------------------------------
(* No orphans. *)

\* What is known of the child when the adapter ends.
ChildKnown ==
    /\ NoOrphan
    /\ pc = "Start" => target = "none"
    /\ exitSeen => target \in {"exited", "killed"}

LEMMA ExitKnown ==
    ASSUME ChildKnown, NEW c, Exit(c),
           exitSeen' => exitSeen \/ target \in {"exited", "killed"},
           target \in {"none", "exited", "killed"} \/ c = 1 \/ sigterm'
    PROVE  ChildKnown'
BY DEF ChildKnown, NoOrphan, Exit

LEMMA DieKnown == ASSUME ChildKnown, NEW c, Die(c) PROVE ChildKnown'
BY ExitKnown DEF Die

\* A step that does not end the adapter and leaves the child as it is.
LEMMA KeepsChild ==
    ASSUME ChildKnown, pc' \notin {"Start", "Exited"}, UNCHANGED <<exitSeen, target>>
    PROVE  ChildKnown'
BY DEF ChildKnown, NoOrphan

LEMMA ChildInit == Init => ChildKnown
BY DEF Init, ChildKnown, NoOrphan

LEMMA ChildStep == TypeOK /\ ChildKnown /\ [Next]_vars => ChildKnown'
<1> SUFFICES ASSUME TypeOK, ChildKnown, [Next]_vars PROVE ChildKnown'
    OBVIOUS
<1>1. CASE ParseArgs
    <2>1. CASE \E code \in {0, 1, 2} : Quit(code)
        BY <1>1, <2>1, ExitKnown DEF ParseArgs, Quit, ChildKnown
    <2>2. CASE ~ \E code \in {0, 1, 2} : Quit(code)
        BY <1>1, <2>2 DEF ParseArgs, ChildKnown, NoOrphan
    <2>. QED BY <2>1, <2>2
<1>2. ASSUME NEW c, Die(c) PROVE ChildKnown'
    BY <1>2, DieKnown
<1>3. CASE BannerTimeout \/ ConnectFails \/ ErrorReply
    BY <1>2, <1>3 DEF BannerTimeout, ConnectFails, ErrorReply
<1>4. CASE PauseTimeout
    BY <1>2, <1>4, ExitKnown DEF PauseTimeout, Quit
<1>5. CASE LoopDrains
    BY <1>5, ExitKnown DEF LoopDrains, Quit, ChildKnown
<1>6. CASE ExitTimeout
    BY <1>6, ExitKnown DEF ExitTimeout, ChildCodeKnown
<1>7. CASE ChildExits
    <2>1. CASE pc \in {"Banner", "AwaitExit"}
        BY <1>7, <2>1, ExitKnown DEF ChildExits
    <2>2. CASE pc \notin {"Banner", "AwaitExit"}
        BY <1>7, <2>2 DEF ChildExits, ChildKnown, NoOrphan
    <2>. QED BY <2>1, <2>2
<1>8. CASE AwaitChild
    <2>1. CASE ChildCodeKnown
        BY <1>8, <2>1, ExitKnown DEF AwaitChild, Quit, ChildCodeKnown
    <2>2. CASE ~ChildCodeKnown
        BY <1>8, <2>2, KeepsChild DEF AwaitChild
    <2>. QED BY <2>1, <2>2
<1>9. CASE FinalReply \/ CloseArrives
    <2>1. CASE UNCHANGED <<pc, exitCode, target, sigterm, exitSeen>>
        BY <2>1 DEF ChildKnown, NoOrphan
    <2>. QED BY <1>2, <1>8, <1>9, <2>1 DEF FinalReply, CloseArrives
<1>10. ASSUME NEW p, Turn(p) PROVE ChildKnown'
    <2>1. CASE GiveUp(p)
        BY <1>2, <2>1 DEF GiveUp
    <2>2. CASE EmitHit(p) \/ ResumePast(p)
        BY <2>2, KeepsChild DEF EmitHit, ResumePast, GoOnWith, Send
    <2>. QED BY <1>10, <2>1, <2>2 DEF Turn
<1>11. CASE PausedArrives
    <2>1. CASE UNCHANGED <<pc, exitCode, target, sigterm, exitSeen>>
        BY <2>1 DEF ChildKnown, NoOrphan
    <2>. QED BY <1>10, <1>11, <2>1 DEF PausedArrives
<1>12. CASE ReleaseReply
    BY <1>10, <1>12, KeepsChild DEF ReleaseReply
<1>13. CASE ProbeReply
    BY <1>2, <1>13, KeepsChild DEF ProbeReply, Send
<1>14. CASE ExtractReply
    <2>1. CASE WriteBytes(out, Head(inbox).at) /\ UNCHANGED <<exitSeen, target>>
        BY <2>1, KeepsChild DEF WriteBytes, WriteLayout, AfterLayout, Send
    <2>. QED BY <1>2, <1>14, <2>1 DEF ExtractReply
<1>15. CASE BytesDrained \/ LayoutDrained
    BY <1>15, KeepsChild DEF BytesDrained, LayoutDrained, WriteLayout, AfterLayout, Send
<1>16. CASE BannerSeen \/ ConnectOpens \/ LaunchReply \/ ReadEof
    BY <1>16, KeepsChild DEF BannerSeen, ConnectOpens, LaunchReply, ReadEof, Send
<1>17. CASE ReadLine
    BY <1>17, KeepsChild DEF ReadLine, Send
<1>18. CASE InspectorHandles \/ TargetPauses \/ TargetFinishes \/ TargetListens
            \/ TargetExits \/ TargetDies \/ ConnectionDrops
    BY <1>18 DEF InspectorHandles, TargetPauses, TargetFinishes, TargetListens, TargetExits,
                 TargetDies, ConnectionDrops, ChildKnown, NoOrphan
<1>19. CASE \/ DeadlinePasses \/ Flush \/ CtlWrites \/ CtlCloses \/ InspectorReplies
            \/ Terminated \/ UNCHANGED vars
    BY <1>19 DEF DeadlinePasses, Flush, CtlWrites, CtlCloses, InspectorReplies, Terminated,
                 vars, ChildKnown, NoOrphan
<1>. QED
    BY <1>1, <1>3, <1>4, <1>5, <1>6, <1>7, <1>9, <1>11, <1>12, <1>13, <1>14, <1>15, <1>16,
       <1>17, <1>18, <1>19
       DEF Next, Adapter, Environment, Messages, Drains, Stdin, Timers

\* No end but the crash of code 1 leaves a live target nobody told to stop.
THEOREM NobodyOrphaned == Spec => []NoOrphan
<1>1. ChildKnown => NoOrphan
    BY DEF ChildKnown
<1>. QED BY <1>1, TypeCorrect, ChildInit, ChildStep, PTL DEF Spec

=============================================================================
