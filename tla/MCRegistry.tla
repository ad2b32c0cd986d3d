------------------------------ MODULE MCRegistry ------------------------------
(* A small instance of Registry for TLC: a superuser's backend that may act as *)
(* the other role, as the job worker does, and one of that role.               *)
EXTENDS Registry, TLC

CONSTANTS c1, c2, r1, r2, tool, rel

MCSessionUser == c1 :> r1 @@ c2 :> r2
MCAssumable == c1 :> {r1, r2} @@ c2 :> {r2}
=============================================================================
