----------------------------- MODULE MCChatSession -----------------------------
(* Small instances of ChatSession for TLC. *)
EXTENDS ChatSession, TLC

CONSTANTS t1, t2
=============================================================================
