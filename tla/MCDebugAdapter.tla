--------------------------- MODULE MCDebugAdapter ---------------------------
(* Values of the constants for checking DebugAdapter with TLC. *)
EXTENDS DebugAdapter
=============================================================================
