------------------------------- MODULE MCMemory -------------------------------
(* A small instance of Memory for TLC: a superuser who may act as the other    *)
(* role, as the job worker does, and an ordinary role with settings of its own. *)
EXTENDS Memory, TLC

CONSTANTS c1, c2, r1, r2, v1, v2, m1, m2

MCSessionUser == c1 :> r1 @@ c2 :> r2
MCAssumable == c1 :> {r1, r2} @@ c2 :> {r2}
MCItems == {m1, m2} \cup Key
MCGuc == c1 :> [k \in Key |-> Unset] @@ c2 :> [k \in Key |-> v1]

\* m1 is nearer to the query than m2, and m2 has the better score.
MCNear == [m \in Memories |-> IF m = m1 THEN 4 ELSE 3]
MCTextRank == [m \in Memories |-> IF m = m2 THEN 0 ELSE 1]
=============================================================================
