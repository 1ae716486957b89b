--------------------------- MODULE ExtractSession ---------------------------
(***************************************************************************)
(* What one run of the debug adapter promises the `topo debug` CLI that    *)
(* started it, seen only through its stdout and its exit code.  A session  *)
(* launches the target, seeks the breakpoint, emits the hit and a pair of  *)
(* records per variable, holds the target, releases it, and is done.  The  *)
(* exit code tells in which phase a session gave up.                       *)
(***************************************************************************)
EXTENDS Naturals

CONSTANT NumVars

VARIABLES phase, emitted, code

svars == <<phase, emitted, code>>

NotDone == 255
Full == 1 + 2 * NumVars

SessionInit == phase = "launch" /\ emitted = 0 /\ code = NotDone

Start ==
    /\ phase = "launch"
    /\ phase' = "seek"
    /\ UNCHANGED <<emitted, code>>

Hit ==
    /\ phase = "seek"
    /\ phase' = "emit"
    /\ emitted' = 1
    /\ UNCHANGED code

\* A record, or a variable's pair; the last one may close the emission.
Emit ==
    /\ phase = "emit"
    /\ emitted' \in emitted + 1 .. emitted + 2
    /\ emitted' <= Full
    /\ phase' = "emit" \/ (phase' = "hold" /\ emitted' = Full)
    /\ UNCHANGED code

Hold ==
    /\ phase = "emit"
    /\ emitted = Full
    /\ phase' = "hold"
    /\ UNCHANGED <<emitted, code>>

Release ==
    /\ phase = "hold"
    /\ phase' = "release"
    /\ UNCHANGED <<emitted, code>>

\* The codes a session may end with in each phase.  0 before the release is
\* --help, or a session whose connection and target were lost in the middle;
\* 1 is bad usage, or the crash of an unhandled rejection.
Codes == [launch  |-> {0, 1, 2},
          seek    |-> {1, 3},
          emit    |-> {0, 3, 4},
          release |-> {0}]

\* A session gives up between variables only, and never while it holds.
End ==
    /\ phase \in DOMAIN Codes
    /\ phase = "emit" => emitted % 2 = 1 /\ emitted < Full
    /\ phase' = "done"
    /\ code' \in Codes[phase]
    /\ UNCHANGED emitted

SessionNext == Start \/ Hit \/ Emit \/ Hold \/ Release \/ End

SessionSpec == SessionInit /\ [][SessionNext]_svars

=============================================================================
