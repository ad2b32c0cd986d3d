------------------------------ MODULE MCOutbox ------------------------------
(* Small instances of Outbox for TLC. *)
EXTENDS Outbox, TLC

CONSTANTS t1, t2, c1, c2, k1, k2, p1, p2

\* Backends, keys and payloads are interchangeable: safety runs only.
Symmetry ==
  Permutations(Txns) \cup Permutations(Keys) \cup Permutations(Payloads)
=============================================================================
