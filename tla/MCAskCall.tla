------------------------------ MODULE MCAskCall ------------------------------
(* Small instances of AskCall for TLC. *)
EXTENDS AskCall, TLC

CONSTANTS r1, r2
=============================================================================
