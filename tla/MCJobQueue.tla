----------------------------- MODULE MCJobQueue -----------------------------
(* Small instances of JobQueue for TLC. *)
EXTENDS JobQueue, TLC

CONSTANTS w1, w2, d1

\* Workers are interchangeable: only safety runs use this.
Symmetry == Permutations(Workers)
=============================================================================
