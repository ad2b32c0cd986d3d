------------------------------ MODULE MCLauncher ------------------------------
(* Small instances of Launcher for TLC. *)
EXTENDS Launcher

CONSTANTS w1, w2
=============================================================================
