--------------------------- MODULE ChatSessionProofs ---------------------------
(***************************************************************************)
(* Proofs about ChatSession, for any set of transactions, any length of a  *)
(* turn and any number of turns.                                           *)
(***************************************************************************)
EXTENDS ChatSession, FiniteSetTheorems, WellFoundedInduction, TLAPS

USE ChatAssumption DEF ChatAssumption

-----------------------------------------------------------------------------
(* The index of the next message. *)

LEMMA LeastNatural ==
  ASSUME NEW S \in SUBSET Nat, S # {}
  PROVE  \E n \in S : \A m \in S : n <= m
<1>1. PICK n \in S : \A m \in S : ~(<<m, n>> \in OpToRel(<, Nat))
  BY NatLessThanWellFounded, WFMin
<1>2. \A m \in S : ~(m < n)
  BY <1>1 DEF OpToRel
<1>3. QED
  BY <1>2

\* What t sees is bounded: the indices were given out one after the other.
Bounded(rows) == \E n \in Nat : \A r \in rows : r.idx < n

LEMMA NextIdxFollows ==
  ASSUME NEW t \in Txns, Visible(t) \subseteq Rows, Bounded(Visible(t))
  PROVE  /\ NextIdx(t) \in Nat
         /\ \A r \in Visible(t) : r.idx < NextIdx(t)
         /\ NextIdx(t) = 0 \/ \E r \in Visible(t) : NextIdx(t) = r.idx + 1
<1> DEFINE V == Visible(t)
           Above == {n \in Nat : \A r \in V : r.idx < n}
           Candidates == {0} \cup {r.idx + 1 : r \in V}
<1>1. \A r \in V : r.idx \in Nat
  BY DEF Rows
<1>2. PICK n \in Above : \A m \in Above : n <= m
  <2>1. Above # {} /\ Above \in SUBSET Nat
    BY DEF Bounded
  <2> HIDE DEF Above
  <2>2. QED
    BY <2>1, LeastNatural
<1>3. n \in Candidates
  <2>1. CASE n = 0
    BY <2>1
  <2>2. CASE n # 0
    <3>1. n - 1 \in Nat /\ n - 1 \notin Above
      BY <1>2, <2>2
    <3>2. PICK r \in V : ~(r.idx < n - 1)
      BY <3>1
    <3>3. n = r.idx + 1
      BY <1>1, <1>2, <3>2
    <3>4. QED
      BY <3>3
  <2>3. QED
    BY <2>1, <2>2
<1>4. NextIdx(t) \in Candidates /\ \A r \in V : r.idx < NextIdx(t)
  BY <1>2, <1>3 DEF NextIdx
<1>5. QED
  BY <1>1, <1>4

-----------------------------------------------------------------------------
(* Sets of whole turns. *)

Disjoint(A, B) == \A r \in A, s \in B : r.turn # s.turn

LEMMA WholeCup ==
  ASSUME NEW A, NEW B, Whole(A), Whole(B), Disjoint(A, B)
  PROVE  Whole(A \cup B)
BY DEF Whole, Disjoint

LEMMA WholeCap ==
  ASSUME NEW A, NEW B, Whole(A), Whole(B)
  PROVE  Whole(A \cap B)
BY DEF Whole

LEMMA WholeMinus ==
  ASSUME NEW A \in SUBSET Rows, NEW B \in SUBSET Rows, Whole(A), Whole(B)
  PROVE  Whole(A \ B)
<1>1. ASSUME NEW r \in A \ B, NEW p \in 1 .. TurnLen
      PROVE  [idx |-> r.idx + p - r.part, turn |-> r.turn, part |-> p] \notin B
  <2> DEFINE q == [idx |-> r.idx + p - r.part, turn |-> r.turn, part |-> p]
  <2>1. /\ r.idx \in Nat /\ r.part \in 1 .. TurnLen
        /\ r = [idx |-> r.idx, turn |-> r.turn, part |-> r.part]
    BY <1>1 DEF Rows
  <2>2. q.idx + r.part - q.part = r.idx
    BY <2>1
  <2>3. q \in B => [idx |-> q.idx + r.part - q.part, turn |-> q.turn, part |-> r.part] \in B
    BY <2>1 DEF Whole
  <2>4. QED
    BY <1>1, <2>1, <2>2, <2>3
<1>2. QED
  BY <1>1 DEF Whole

-----------------------------------------------------------------------------
(* The inductive invariant. *)

\* Who has inserted rows holds the advisory lock.
LockInv == \A t \in Txns : ins[t] # {} => lock = t

\* A row is deleted by one transaction.
DelInv == \A t, u \in Txns : t # u => del[t] \cap del[u] = {}

\* A transaction has a turn while it waits for the lock and while it appends.
PhaseInv ==
  \A t \in Txns : /\ turn[t] # 0 <=> phase[t] \in {"lock", "append"}
                  /\ phase[t] # "append" => part[t] = 0

\* Turns are new: no two transactions append the same one, nobody else has a
\* row of it, and none of the rows of t is of a turn that is in the table.
FreshInv ==
  /\ \A r \in table : r.turn <= turns
  /\ \A t \in Txns : turn[t] <= turns /\ \A r \in ins[t] : r.turn <= turns
  /\ \A t \in Txns : Disjoint(table, ins[t])
  /\ \A t, u \in Txns : turn[t] # 0 =>
       /\ \A r \in table : r.turn # turn[t]
       /\ u # t => turn[u] # turn[t] /\ \A r \in ins[u] : r.turn # turn[t]

\* The rows of t but those of the turn it is about to complete.
Done(t) == {r \in ins[t] : r.turn # turn[t]}

WholeInv ==
  /\ Whole(table)
  /\ \A t \in Txns : Whole(prior[t]) /\ Whole(target[t]) /\ Whole(del[t]) /\ Whole(Done(t))

\* The last message of the turn t appends: no row t sees comes after it, and the
\* messages before it are in a row.
IsLast(t, last) ==
  /\ last.turn = turn[t] /\ last.part = part[t]
  /\ \A v \in Visible(t) : v.idx <= last.idx
  /\ \A r \in ins[t] : r.turn = turn[t] =>
       r.part <= part[t] /\ r.idx - r.part = last.idx - last.part
  /\ \A p \in 1 .. part[t] :
       [idx |-> last.idx + p - last.part, turn |-> turn[t], part |-> p] \in ins[t]

PartInv ==
  \A t \in Txns :
    /\ part[t] = 0 => \A r \in ins[t] : r.turn # turn[t]
    /\ part[t] # 0 => \E last \in ins[t] : IsLast(t, last)

BoundInv ==
  \E n \in Nat : /\ \A r \in table : r.idx < n
                 /\ \A t \in Txns : \A r \in ins[t] : r.idx < n

RowsInv == LockInv /\ DelInv /\ BoundInv /\ NoKeyClash
TurnInv == PhaseInv /\ FreshInv /\ WholeInv /\ PartInv
SessionInv == TypeOK /\ RowsInv /\ TurnInv

LEMMA InitSessionInv == Init => SessionInv
<1> SUFFICES ASSUME Init PROVE SessionInv
  OBVIOUS
<1>1. TypeOK
  BY DEF Init, TypeOK
<1>2. RowsInv
  <2>1. BoundInv
    BY DEF Init, BoundInv
  <2>2. QED
    BY <2>1 DEF Init, RowsInv, LockInv, DelInv, NoKeyClash
<1>3. TurnInv
  BY DEF Init, TurnInv, PhaseInv, FreshInv, WholeInv, PartInv, Disjoint, Whole, Done
<1>4. QED
  BY <1>1, <1>2, <1>3 DEF SessionInv

\* The types that the actions, which take a transaction on, maintain.
LEMMA PhaseStep ==
  ASSUME TypeOK, NEW t \in Txns, NEW from, NEW to, Goes(t, from, to)
  PROVE  /\ phase[t] = from /\ phase'[t] = to
         /\ \A u \in Txns : u # t => phase'[u] = phase[u]
BY DEF Goes, TypeOK

\* Steps that change no row.
LEMMA QuietStep ==
  ASSUME SessionInv, NEW t \in Txns,
         Begin(t) \/ ChatBegin(t) \/ AgentReturns(t) \/ AppendLock(t) \/ ClearBegin(t)
  PROVE  SessionInv'
<1> USE DEF SessionInv
<1>1. UNCHANGED <<table, ins, del, part>>
  BY DEF Begin, ChatBegin, AgentReturns, AppendLock, ClearBegin, dbVars
<1>2. Visible(t) \subseteq Rows
  BY DEF Visible, TypeOK
<1>3. part[t] < TurnLen /\ part[t] \in Nat
  BY DEF Begin, ChatBegin, AgentReturns, AppendLock, ClearBegin, Goes, TurnInv, PhaseInv, TypeOK
<1>4. TypeOK'
  <2>1. CASE Begin(t)
    BY <2>1 DEF Begin, Goes, dbVars, TypeOK
  <2>2. CASE ChatBegin(t)
    BY <1>2, <2>2 DEF ChatBegin, Goes, dbVars, TypeOK
  <2>3. CASE AgentReturns(t)
    BY <2>3 DEF AgentReturns, Goes, dbVars, TypeOK
  <2>4. CASE AppendLock(t)
    BY <1>3, <2>4 DEF AppendLock, Goes, dbVars, TypeOK
  <2>5. CASE ClearBegin(t)
    BY <1>2, <2>5 DEF ClearBegin, Goes, dbVars, TypeOK
  <2>6. QED
    BY <2>1, <2>2, <2>3, <2>4, <2>5
<1>5. RowsInv'
  <2>1. LockInv'
    BY <1>1 DEF Begin, ChatBegin, AgentReturns, AppendLock, ClearBegin, dbVars, RowsInv, LockInv, TypeOK
  <2>2. DelInv' /\ BoundInv' /\ NoKeyClash'
    BY <1>1 DEF RowsInv, DelInv, BoundInv, NoKeyClash
  <2>3. QED
    BY <2>1, <2>2 DEF RowsInv
<1>6. PhaseInv'
  BY <1>4 DEF Begin, ChatBegin, AgentReturns, AppendLock, ClearBegin, Goes, TypeOK, TurnInv, PhaseInv
<1>7. ASSUME UNCHANGED <<turn, turns>> PROVE FreshInv' /\ PartInv' /\ \A u \in Txns : Done(u)' = Done(u)
  BY <1>1, <1>7 DEF TurnInv, FreshInv, PartInv, IsLast, Visible, Done
<1>8. ASSUME phase[t] = "open" PROVE Whole(Visible(t))
  <2>1. Done(t) = ins[t]
    BY <1>8 DEF Done, TurnInv, PhaseInv, TypeOK, Rows
  <2>2. Disjoint(table \ del[t], ins[t])
    BY DEF TurnInv, FreshInv, Disjoint
  <2>3. Whole(table \ del[t])
    BY WholeMinus DEF TurnInv, WholeInv, TypeOK
  <2>4. QED
    BY <2>1, <2>2, <2>3, WholeCup DEF TurnInv, WholeInv, Visible
<1>9. CASE AgentReturns(t)
  <2>1. /\ turns \in Nat /\ turns' = turns + 1
        /\ turn[t] = 0 /\ part[t] = 0 /\ turn'[t] = turns + 1
        /\ \A u \in Txns : u # t => turn'[u] = turn[u]
        /\ \A u \in Txns : turn[u] \in Nat
    BY <1>9 DEF AgentReturns, Goes, TypeOK, TurnInv, PhaseInv
  <2>2. /\ \A r \in table : r.turn \in Nat \ {0} /\ r.turn <= turns
        /\ \A u \in Txns : turn[u] <= turns
        /\ \A u \in Txns : \A r \in ins[u] : r.turn \in Nat \ {0} /\ r.turn <= turns
    BY DEF TypeOK, Rows, TurnInv, FreshInv
  <2>3. FreshInv'
    <3>1. \A r \in table : r.turn <= turns'
      BY <2>1, <2>2
    <3>2. \A u \in Txns : turn'[u] <= turns' /\ \A r \in ins[u] : r.turn <= turns'
      BY <2>1, <2>2
    <3>3. ASSUME NEW u \in Txns, NEW v \in Txns, turn'[u] # 0
          PROVE  /\ \A r \in table : r.turn # turn'[u]
                 /\ v # u => turn'[v] # turn'[u] /\ \A r \in ins[v] : r.turn # turn'[u]
      <4>1. CASE u = t
        BY <2>1, <2>2, <4>1
      <4>2. CASE u # t
        <5>1. /\ \A r \in table : r.turn # turn[u]
              /\ v # u => turn[v] # turn[u] /\ \A r \in ins[v] : r.turn # turn[u]
          BY <2>1, <3>3, <4>2 DEF TurnInv, FreshInv
        <5>2. QED
          BY <2>1, <2>2, <4>2, <5>1
      <4>3. QED
        BY <4>1, <4>2
    <3>4. QED
      BY <1>1, <3>1, <3>2, <3>3 DEF FreshInv, TurnInv
  <2>4. ASSUME NEW u \in Txns PROVE Done(u)' = Done(u)
    BY <1>1, <2>1, <2>2 DEF Done
  <2>5. WholeInv'
    <3>1. target' = target /\ \A u \in Txns : prior'[u] = prior[u] \/ prior'[u] = {}
      BY <1>9 DEF AgentReturns, TypeOK
    <3>2. Whole({})
      BY DEF Whole
    <3>3. QED
      BY <1>1, <2>4, <3>1, <3>2 DEF TurnInv, WholeInv
  <2>6. PartInv'
    <3>1. ASSUME NEW u \in Txns, u # t
          PROVE  /\ part'[u] = 0 => \A r \in ins'[u] : r.turn # turn'[u]
                 /\ part'[u] # 0 => \E last \in ins'[u] : IsLast(u, last)'
      BY <1>1, <2>1, <3>1 DEF TurnInv, PartInv, IsLast, Visible
    <3>2. part'[t] = 0 /\ \A r \in ins'[t] : r.turn # turn'[t]
      BY <1>1, <2>1, <2>2
    <3>3. QED
      BY <3>1, <3>2 DEF PartInv
  <2>7. QED
    BY <1>4, <1>5, <1>6, <2>3, <2>5, <2>6 DEF TurnInv
<1>10. CASE ~AgentReturns(t)
  <2>1. UNCHANGED <<turn, turns>>
    BY <1>10 DEF Begin, ChatBegin, AppendLock, ClearBegin, TypeOK
  <2>2. WholeInv'
    <3>1. ASSUME NEW u \in Txns PROVE Whole(prior'[u]) /\ Whole(target'[u])
      <4>1. prior'[u] = prior[u] \/ (u = t /\ prior'[u] = Visible(t) /\ phase[t] = "open")
        BY <1>10 DEF Begin, ChatBegin, AppendLock, ClearBegin, Goes, TypeOK
      <4>2. target'[u] = target[u] \/ (u = t /\ target'[u] = Visible(t) /\ phase[t] = "open")
        BY <1>10 DEF Begin, ChatBegin, AppendLock, ClearBegin, Goes, TypeOK
      <4>3. QED
        BY <1>8, <4>1, <4>2 DEF TurnInv, WholeInv
    <3>2. QED
      BY <1>1, <1>7, <2>1, <3>1 DEF TurnInv, WholeInv
  <2>3. QED
    BY <1>4, <1>5, <1>6, <1>7, <2>1, <2>2 DEF TurnInv
<1>11. QED
  BY <1>9, <1>10

\* The row that the holder of the lock appends follows all it sees, and nobody
\* else has a row that is not committed.
LEMMA NextRowFollows ==
  ASSUME SessionInv, NEW t \in Txns, phase[t] = "append"
  PROVE  /\ NextRow(t) \in Rows
         /\ \A r \in Visible(t) : r.idx < NextRow(t).idx
         /\ part[t] # 0 =>
              \A last \in ins[t] : IsLast(t, last) => NextRow(t).idx = last.idx + 1
<1> USE DEF SessionInv
<1>1. Visible(t) \subseteq Rows
  BY DEF Visible, TypeOK
<1>2. Bounded(Visible(t))
  BY DEF RowsInv, BoundInv, Bounded, Visible
<1>3. /\ NextIdx(t) \in Nat
      /\ \A r \in Visible(t) : r.idx < NextIdx(t)
      /\ NextIdx(t) = 0 \/ \E r \in Visible(t) : NextIdx(t) = r.idx + 1
  BY <1>1, <1>2, NextIdxFollows
<1>4. turn[t] \in 1 .. MaxTurns /\ part[t] + 1 \in 1 .. TurnLen
  BY DEF TypeOK, TurnInv, PhaseInv
<1>5. ASSUME NEW last \in ins[t], IsLast(t, last) PROVE NextIdx(t) = last.idx + 1
  <2>1. last \in Visible(t) /\ \A r \in Visible(t) : r.idx <= last.idx
    BY <1>5 DEF IsLast, Visible
  <2>2. \A r \in Visible(t) : r.idx \in Nat
    BY <1>1 DEF Rows
  <2>3. QED
    BY <1>3, <2>1, <2>2
<1>6. QED
  BY <1>3, <1>4, <1>5 DEF NextRow, Rows

LEMMA AppendStep ==
  ASSUME SessionInv, NEW t \in Txns, AppendMessage(t)
  PROVE  SessionInv'
<1> USE DEF SessionInv
<1> DEFINE new == NextRow(t)
<1>1. /\ phase[t] = "append" /\ lock = t
      /\ UNCHANGED <<table, del, lock, prior, target, turns>>
      /\ ins'[t] = ins[t] \cup {new}
      /\ \A u \in Txns : u # t => ins'[u] = ins[u] /\ ins[u] = {}
  BY DEF AppendMessage, TypeOK, RowsInv, LockInv
<1>2. /\ new \in Rows /\ new.turn = turn[t] /\ new.part = part[t] + 1
      /\ \A r \in Visible(t) : r.idx < new.idx
      /\ part[t] # 0 => \A last \in ins[t] : IsLast(t, last) => new.idx = last.idx + 1
  BY <1>1, NextRowFollows DEF NextRow
<1> HIDE DEF new
<1>3. \A u \in Txns : u # t => phase'[u] = phase[u] /\ part'[u] = part[u] /\ turn'[u] = turn[u]
  BY DEF AppendMessage, Appended, Goes, TypeOK
<1>4. /\ part[t] \in Nat /\ turn[t] \in Nat \ {0}
      /\ \/ part[t] + 1 < TurnLen /\ phase'[t] = "append" /\ turn'[t] = turn[t] /\ part'[t] = part[t] + 1
         \/ part[t] + 1 = TurnLen /\ phase'[t] = "open" /\ turn'[t] = 0 /\ part'[t] = 0
  BY DEF AppendMessage, Appended, Goes, TypeOK, TurnInv, PhaseInv
<1>5. TypeOK'
  <2>1. ins' \in [Txns -> SUBSET Rows]
    BY <1>2 DEF AppendMessage, new, TypeOK
  <2>2. /\ phase' \in [Txns -> {"none", "open", "agent", "lock", "append", "clear"}]
        /\ turn' \in [Txns -> 0 .. MaxTurns]
        /\ part' \in [Txns -> 0 .. TurnLen]
    BY DEF AppendMessage, Appended, Goes, TypeOK
  <2>3. \A u \in Txns : /\ phase'[u] = "none" => ins'[u] = {} /\ del'[u] = {} /\ lock' # u
                        /\ phase'[u] = "append" => lock' = u /\ part'[u] < TurnLen
    BY <1>1, <1>3, <1>4 DEF TypeOK
  <2>4. QED
    BY <1>1, <2>1, <2>2, <2>3 DEF TypeOK
<1>6. RowsInv'
  <2>1. LockInv' /\ DelInv'
    BY <1>1 DEF RowsInv, LockInv, DelInv
  <2>2. NoKeyClash'
    <3>1. ASSUME NEW r \in table \ del[t] PROVE r.idx # new.idx
      <4>1. r \in Visible(t) /\ r.idx \in Nat
        BY DEF Visible, TypeOK, Rows
      <4>2. QED
        BY <1>2, <4>1 DEF Rows
    <3>2. QED
      BY <1>1, <3>1 DEF RowsInv, NoKeyClash
  <2>3. BoundInv'
    <3>1. PICK n \in Nat : /\ \A r \in table : r.idx < n
                           /\ \A u \in Txns : \A r \in ins[u] : r.idx < n
      BY DEF RowsInv, BoundInv
    <3>2. /\ \A r \in table : r.idx \in Nat
          /\ \A u \in Txns : \A r \in ins[u] : r.idx \in Nat
          /\ new.idx \in Nat
      BY <1>2 DEF TypeOK, Rows
    <3>3. /\ \A r \in table : r.idx < n + new.idx + 1
          /\ \A u \in Txns : \A r \in ins'[u] : r.idx < n + new.idx + 1
      BY <1>1, <3>1, <3>2
    <3>4. n + new.idx + 1 \in Nat
      BY <3>2
    <3>5. QED
      BY <1>1, <3>3, <3>4 DEF BoundInv
  <2>4. QED
    BY <2>1, <2>2, <2>3 DEF RowsInv
<1>7. PhaseInv'
  BY <1>3, <1>4 DEF TurnInv, PhaseInv
<1>8. FreshInv'
  <2>1. /\ \A r \in table : r.turn <= turns' /\ r.turn # turn[t]
        /\ \A u \in Txns : turn'[u] <= turns' /\ \A r \in ins'[u] : r.turn <= turns'
    BY <1>1, <1>2, <1>3, <1>4 DEF TurnInv, FreshInv, TypeOK
  <2>2. \A u \in Txns : Disjoint(table, ins'[u])
    BY <1>1, <1>2, <2>1 DEF TurnInv, FreshInv, Disjoint
  <2>3. ASSUME NEW u \in Txns, NEW v \in Txns, turn'[u] # 0
        PROVE  /\ \A r \in table : r.turn # turn'[u]
               /\ v # u => turn'[v] # turn'[u] /\ \A r \in ins'[v] : r.turn # turn'[u]
    <3>1. turn'[u] = turn[u] /\ turn[u] # 0
      BY <1>3, <1>4, <2>3
    <3>2. /\ \A r \in table : r.turn # turn[u]
          /\ v # u => turn[v] # turn[u] /\ \A r \in ins[v] : r.turn # turn[u]
      BY <3>1 DEF TurnInv, FreshInv
    <3>3. turn'[v] = turn[v] \/ turn'[v] = 0
      BY <1>3, <1>4
    <3>4. v # u => \A r \in ins'[v] : r.turn # turn[u]
      BY <1>1, <1>2, <3>2
    <3>5. QED
      BY <3>1, <3>2, <3>3, <3>4
  <2>4. QED
    BY <1>1, <2>1, <2>2, <2>3 DEF FreshInv
<1>9. /\ \A r \in ins'[t] : r.turn = turn[t] =>
           r.part <= part[t] + 1 /\ r.idx - r.part = new.idx - new.part
      /\ \A p \in 1 .. part[t] + 1 :
           [idx |-> new.idx + p - new.part, turn |-> turn[t], part |-> p] \in ins'[t]
  <2>1. new.idx \in Nat /\ new = [idx |-> new.idx, turn |-> turn[t], part |-> part[t] + 1]
    BY <1>2 DEF Rows
  <2>2. new.idx + (part[t] + 1) - new.part = new.idx
    BY <1>2, <1>4, <2>1
  <2>3. CASE part[t] = 0
    <3>1. \A r \in ins'[t] : r.turn = turn[t] => r = new
      BY <1>1, <2>3 DEF TurnInv, PartInv
    <3>2. \A p \in 1 .. part[t] + 1 : p = part[t] + 1
      BY <2>3
    <3>3. \A p \in 1 .. part[t] + 1 :
            [idx |-> new.idx + p - new.part, turn |-> turn[t], part |-> p] = new
      BY <2>1, <2>2, <3>2
    <3>4. QED
      BY <1>1, <1>2, <2>3, <3>1, <3>3
  <2>4. CASE part[t] # 0
    <3>1. PICK last \in ins[t] : IsLast(t, last)
      BY <2>4 DEF TurnInv, PartInv
    <3>2. new.idx = last.idx + 1 /\ last.idx \in Nat /\ last.part = part[t]
      BY <1>2, <2>4, <3>1 DEF IsLast, TypeOK, Rows
    <3>3. last.idx - last.part = new.idx - new.part
      BY <1>2, <1>4, <3>2
    <3>4. \A r \in ins[t] : r.part \in Nat /\ r.idx \in Nat
      BY DEF TypeOK, Rows
    <3>5. \A r \in ins[t] : r.turn = turn[t] =>
            r.part <= part[t] + 1 /\ r.idx - r.part = new.idx - new.part
      BY <1>4, <3>1, <3>3, <3>4 DEF IsLast
    <3>6. ASSUME NEW p \in 1 .. part[t]
          PROVE  [idx |-> new.idx + p - new.part, turn |-> turn[t], part |-> p] \in ins[t]
      <4>1. last.idx + p - last.part = new.idx + p - new.part
        BY <1>2, <1>4, <3>2
      <4>2. [idx |-> last.idx + p - last.part, turn |-> turn[t], part |-> p] \in ins[t]
        BY <3>1 DEF IsLast
      <4>3. QED
        BY <4>1, <4>2
    <3>7. [idx |-> new.idx + (part[t] + 1) - new.part, turn |-> turn[t], part |-> part[t] + 1] = new
      BY <2>1, <2>2
    <3>8. \A p \in 1 .. part[t] + 1 : p = part[t] + 1 \/ p \in 1 .. part[t]
      BY <1>4
    <3>9. \A p \in 1 .. part[t] + 1 :
            [idx |-> new.idx + p - new.part, turn |-> turn[t], part |-> p] \in ins'[t]
      BY <1>1, <3>6, <3>7, <3>8
    <3>10. new.part <= part[t] + 1
      BY <1>2, <1>4
    <3>11. QED
      BY <1>1, <3>5, <3>9, <3>10
  <2>5. QED
    BY <2>3, <2>4
<1>10. PartInv'
  <2>1. ASSUME NEW u \in Txns, u # t
        PROVE  /\ part'[u] = 0 => \A r \in ins'[u] : r.turn # turn'[u]
               /\ part'[u] # 0 => \E last \in ins'[u] : IsLast(u, last)'
    BY <1>1, <1>3, <2>1 DEF TurnInv, PartInv, IsLast, Visible
  <2>2. CASE turn'[t] = 0
    BY <1>4, <1>5, <2>1, <2>2 DEF PartInv, TypeOK, Rows
  <2>3. CASE turn'[t] # 0
    <3>1. turn'[t] = turn[t] /\ part'[t] = part[t] + 1
      BY <1>4, <2>3
    <3>2. \A v \in Visible(t)' : v.idx <= new.idx
      <4>1. \A v \in Visible(t)' : v \in Visible(t) \/ v = new
        BY <1>1 DEF Visible
      <4>2. \A v \in Visible(t) : v.idx \in Nat
        BY DEF Visible, TypeOK, Rows
      <4>3. QED
        BY <1>2, <4>1, <4>2 DEF Rows
    <3>3. PICK last \in Rows : last = new
      BY <1>2
    <3>4. IsLast(t, last)'
      BY <1>2, <1>9, <3>1, <3>2, <3>3 DEF IsLast
    <3>5. last \in ins'[t] /\ part'[t] # 0
      BY <1>1, <1>4, <3>1, <3>3
    <3>6. QED
      BY <2>1, <3>4, <3>5 DEF PartInv
  <2>4. QED
    BY <2>2, <2>3
<1>11. WholeInv'
  <2>1. \A u \in Txns : u # t => Done(u)' = Done(u)
    BY <1>1, <1>3 DEF Done
  <2>2. CASE turn'[t] # 0
    <3>1. Done(t)' = Done(t)
      BY <1>1, <1>2, <1>4, <2>2 DEF Done
    <3>2. QED
      BY <1>1, <2>1, <3>1 DEF TurnInv, WholeInv
  <2>3. CASE turn'[t] = 0
    <3> DEFINE C == {r \in ins'[t] : r.turn = turn[t]}
    <3>1. Done(t)' = Done(t) \cup C
      <4>1. \A r \in ins'[t] : r.turn # 0
        BY <1>5 DEF TypeOK, Rows
      <4>2. QED
        BY <1>1, <1>2, <2>3, <4>1 DEF Done
    <3>2. part[t] + 1 = TurnLen
      BY <1>4, <2>3
    <3>3. Whole(C)
      <4>1. ASSUME NEW r \in C, NEW p \in 1 .. TurnLen
            PROVE  [idx |-> r.idx + p - r.part, turn |-> r.turn, part |-> p] \in C
        <5>1. r.idx - r.part = new.idx - new.part /\ r.turn = turn[t]
          BY <1>9, <4>1
        <5>2. r.idx \in Nat /\ r.part \in Nat /\ new.idx \in Nat /\ new.part \in Nat
          BY <1>2, <1>5, <4>1 DEF TypeOK, Rows
        <5>3. r.idx + p - r.part = new.idx + p - new.part
          BY <5>1, <5>2
        <5>4. [idx |-> new.idx + p - new.part, turn |-> turn[t], part |-> p] \in ins'[t]
          BY <1>9, <3>2
        <5>5. QED
          BY <5>1, <5>3, <5>4
      <4>2. \A r \in C, s \in C : s.idx - s.part = r.idx - r.part
        BY <1>9
      <4> HIDE DEF C
      <4>3. QED
        BY <4>1, <4>2 DEF Whole
    <3>4. Disjoint(Done(t), C)
      BY DEF Disjoint, Done
    <3>5. Whole(Done(t)')
      BY <3>1, <3>3, <3>4, WholeCup DEF TurnInv, WholeInv
    <3>6. QED
      BY <1>1, <2>1, <3>5 DEF TurnInv, WholeInv
  <2>4. QED
    BY <2>2, <2>3
<1>12. QED
  BY <1>5, <1>6, <1>7, <1>8, <1>10, <1>11 DEF TurnInv

LEMMA ClearStep ==
  ASSUME SessionInv, NEW t \in Txns, ClearEnd(t)
  PROVE  SessionInv'
<1> USE DEF SessionInv
<1>1. /\ phase[t] = "clear" /\ phase'[t] = "open"
      /\ \A u \in Txns : u # t => phase'[u] = phase[u]
      /\ turn[t] = 0 /\ part[t] = 0
      /\ UNCHANGED <<table, lock, prior, turn, part, turns>>
  BY DEF ClearEnd, Goes, TypeOK, TurnInv, PhaseInv
<1>2. /\ del'[t] = del[t] \cup (target[t] \cap table)
      /\ ins'[t] = ins[t] \ target[t]
      /\ target'[t] = {}
      /\ \A u \in Txns : u # t => del'[u] = del[u] /\ ins'[u] = ins[u] /\ target'[u] = target[u]
      /\ \A u \in Txns : ins'[u] \subseteq ins[u]
  BY DEF ClearEnd, TypeOK
<1>3. TypeOK'
  <2>1. /\ del' \in [Txns -> SUBSET table]
        /\ ins' \in [Txns -> SUBSET Rows]
        /\ target' \in [Txns -> SUBSET Rows]
        /\ phase' \in [Txns -> {"none", "open", "agent", "lock", "append", "clear"}]
    BY DEF ClearEnd, Goes, TypeOK
  <2>2. \A u \in Txns : /\ phase'[u] = "none" => ins'[u] = {} /\ del'[u] = {} /\ lock' # u
                        /\ phase'[u] = "append" => lock' = u /\ part'[u] < TurnLen
    BY <1>1, <1>2 DEF TypeOK
  <2>3. QED
    BY <1>1, <2>1, <2>2 DEF TypeOK
<1>4. RowsInv'
  <2>1. LockInv' /\ BoundInv'
    BY <1>1, <1>2 DEF RowsInv, LockInv, BoundInv
  <2>2. DelInv'
    <3>1. \A u \in Txns \ {t} : target[t] \cap del[u] = {}
      BY DEF ClearEnd
    <3>2. QED
      BY <1>2, <3>1 DEF RowsInv, DelInv
  <2>3. NoKeyClash'
    <3>1. \A u \in Txns : del[u] \subseteq del'[u]
      BY <1>2
    <3>2. QED
      BY <1>1, <1>2, <3>1 DEF RowsInv, NoKeyClash
  <2>4. QED
    BY <2>1, <2>2, <2>3 DEF RowsInv
<1>5. PhaseInv' /\ FreshInv'
  BY <1>1, <1>2 DEF TurnInv, PhaseInv, FreshInv, Disjoint
<1>6. PartInv'
  <2>1. ASSUME NEW u \in Txns, u # t, part'[u] # 0 PROVE \E last \in ins'[u] : IsLast(u, last)'
    BY <1>1, <1>2, <2>1 DEF TurnInv, PartInv, IsLast, Visible
  <2>2. QED
    BY <1>1, <1>2, <2>1 DEF TurnInv, PartInv
<1>7. WholeInv'
  <2>1. Done(t) = ins[t] /\ Done(t)' = ins'[t]
    BY <1>1, <1>3 DEF Done, TypeOK, Rows
  <2>2. Whole(ins'[t])
    BY <1>2, <2>1, WholeMinus DEF TurnInv, WholeInv, TypeOK
  <2>3. Whole(del'[t])
    <3>1. Whole(table \ del[t]) /\ Whole(table \ target[t])
      BY WholeMinus DEF TurnInv, WholeInv, TypeOK
    <3>2. Whole((table \ del[t]) \cap (table \ target[t]))
      BY <3>1, WholeCap
    <3>3. Whole(table \ ((table \ del[t]) \cap (table \ target[t])))
      BY <3>2, WholeMinus DEF TurnInv, WholeInv, TypeOK
    <3>4. del'[t] = table \ ((table \ del[t]) \cap (table \ target[t]))
      BY <1>2 DEF TypeOK
    <3>5. QED
      BY <3>3, <3>4
  <2>4. \A u \in Txns : u # t => Done(u)' = Done(u)
    BY <1>1, <1>2 DEF Done
  <2>5. Whole({})
    BY DEF Whole
  <2>6. QED
    BY <1>1, <1>2, <2>1, <2>2, <2>3, <2>4, <2>5 DEF TurnInv, WholeInv
<1>8. QED
  BY <1>3, <1>4, <1>5, <1>6, <1>7 DEF TurnInv

\* At the end of t the table keeps what it had, or has what t sees.
LEMMA OverStep ==
  ASSUME SessionInv, NEW t \in Txns, Commit(t) \/ Abort(t)
  PROVE  SessionInv'
<1> USE DEF SessionInv
<1>1. Over(t) /\ (table' = table \/ (phase[t] = "open" /\ table' = Visible(t)))
  BY DEF Commit, Abort
<1>2. /\ phase'[t] = "none" /\ ins'[t] = {} /\ del'[t] = {} /\ prior'[t] = {} /\ target'[t] = {}
      /\ turn'[t] = 0 /\ part'[t] = 0 /\ lock' # t
      /\ lock' = lock \/ (lock = t /\ lock' = NoTxn)
      /\ turns' = turns
  BY <1>1 DEF Over, TypeOK
<1>3. \A u \in Txns : u # t =>
        /\ phase'[u] = phase[u] /\ ins'[u] = ins[u] /\ del'[u] = del[u] /\ prior'[u] = prior[u]
        /\ target'[u] = target[u] /\ turn'[u] = turn[u] /\ part'[u] = part[u]
  BY <1>1 DEF Over, TypeOK
<1>4. table' = table \/ (turn[t] = 0 /\ table' = (table \ del[t]) \cup ins[t])
  BY <1>1 DEF Visible, TurnInv, PhaseInv
<1>5. table' \subseteq table \cup ins[t] /\ \A u \in Txns : u # t => del[u] \subseteq table'
  BY <1>4 DEF TypeOK, RowsInv, DelInv
<1>6. TypeOK'
  <2>1. table' \subseteq Rows
    BY <1>5 DEF TypeOK
  <2>2. /\ ins' \in [Txns -> SUBSET Rows] /\ prior' \in [Txns -> SUBSET Rows]
        /\ target' \in [Txns -> SUBSET Rows]
        /\ phase' \in [Txns -> {"none", "open", "agent", "lock", "append", "clear"}]
        /\ turn' \in [Txns -> 0 .. MaxTurns] /\ part' \in [Txns -> 0 .. TurnLen]
        /\ lock' \in Txns \cup {NoTxn} /\ turns' \in 0 .. MaxTurns
    BY <1>1 DEF Over, TypeOK
  <2>3. del' \in [Txns -> SUBSET table']
    BY <1>1, <1>2, <1>3, <1>5 DEF Over, TypeOK
  <2>4. \A u \in Txns : /\ phase'[u] = "none" => ins'[u] = {} /\ del'[u] = {} /\ lock' # u
                        /\ phase'[u] = "append" => lock' = u /\ part'[u] < TurnLen
    BY <1>2, <1>3 DEF TypeOK
  <2>5. QED
    BY <2>1, <2>2, <2>3, <2>4 DEF TypeOK
<1>7. RowsInv'
  <2>1. LockInv' /\ DelInv'
    BY <1>2, <1>3 DEF RowsInv, LockInv, DelInv
  <2>2. BoundInv'
    BY <1>2, <1>3, <1>5 DEF RowsInv, BoundInv
  <2>3. NoKeyClash'
    <3>1. \A u \in Txns : u # t => \A mine \in ins[u] :
            /\ \A r \in table \ del[u] : r.idx # mine.idx
            /\ \A v \in Txns \ {u} : \A r \in ins[v] : r.idx # mine.idx
      BY DEF RowsInv, NoKeyClash
    <3>2. \A u \in Txns : u # t => \A r \in table' \ del[u] : r \in table \ del[u] \/ r \in ins[t]
      BY <1>5
    <3>3. QED
      BY <1>2, <1>3, <3>1, <3>2 DEF NoKeyClash
  <2>4. QED
    BY <2>1, <2>2, <2>3 DEF RowsInv
<1>8. PhaseInv'
  BY <1>2, <1>3 DEF TurnInv, PhaseInv
<1>9. FreshInv'
  <2>1. \A u \in Txns : u # t => Disjoint(table', ins[u])
    <3>1. \A u \in Txns : u # t => ins[u] = {} \/ ins[t] = {}
      BY DEF RowsInv, LockInv
    <3>2. QED
      BY <1>5, <3>1 DEF TurnInv, FreshInv, Disjoint
  <2>2. /\ \A r \in table' : r.turn <= turns'
        /\ \A u \in Txns : turn'[u] <= turns' /\ \A r \in ins'[u] : r.turn <= turns'
    BY <1>2, <1>3, <1>5 DEF TurnInv, FreshInv, TypeOK
  <2>3. \A u \in Txns : Disjoint(table', ins'[u])
    BY <1>2, <1>3, <2>1 DEF Disjoint
  <2>4. ASSUME NEW u \in Txns, NEW v \in Txns, turn'[u] # 0
        PROVE  /\ \A r \in table' : r.turn # turn'[u]
               /\ v # u => turn'[v] # turn'[u] /\ \A r \in ins'[v] : r.turn # turn'[u]
    <3>1. u # t /\ turn'[u] = turn[u]
      BY <1>2, <1>3, <2>4
    <3>2. \A r \in table \cup ins[t] : r.turn # turn[u]
      BY <2>4, <3>1 DEF TurnInv, FreshInv
    <3>3. v # u => turn'[v] # turn'[u] /\ \A r \in ins'[v] : r.turn # turn'[u]
      BY <1>2, <1>3, <2>4, <3>1 DEF TurnInv, FreshInv
    <3>4. QED
      BY <1>5, <3>1, <3>2, <3>3
  <2>5. QED
    BY <2>2, <2>3, <2>4 DEF FreshInv
<1>10. PartInv'
  <2>1. ASSUME NEW u \in Txns, u # t, part'[u] # 0 PROVE \E last \in ins'[u] : IsLast(u, last)'
    <3>1. PICK last \in ins[u] : IsLast(u, last)
      BY <1>3, <2>1 DEF TurnInv, PartInv
    <3>2. lock = u /\ ins[t] = {}
      BY <2>1, <3>1 DEF RowsInv, LockInv
    <3>3. Visible(u)' \subseteq Visible(u)
      BY <1>3, <1>5, <2>1, <3>2 DEF Visible
    <3>4. IsLast(u, last)'
      BY <1>3, <2>1, <3>1, <3>3 DEF IsLast
    <3>5. QED
      BY <1>3, <2>1, <3>1, <3>4
  <2>2. QED
    BY <1>2, <1>3, <2>1 DEF TurnInv, PartInv
<1>11. WholeInv'
  <2>1. Whole({})
    BY DEF Whole
  <2>2. Whole(table')
    <3>1. CASE table' = table
      BY <3>1 DEF TurnInv, WholeInv
    <3>2. CASE turn[t] = 0 /\ table' = (table \ del[t]) \cup ins[t]
      <4>1. Done(t) = ins[t]
        BY <3>2 DEF Done, TypeOK, Rows
      <4>2. Whole(table \ del[t])
        BY WholeMinus DEF TurnInv, WholeInv, TypeOK
      <4>3. Disjoint(table \ del[t], ins[t])
        BY DEF TurnInv, FreshInv, Disjoint
      <4>4. QED
        BY <3>2, <4>1, <4>2, <4>3, WholeCup DEF TurnInv, WholeInv
    <3>3. QED
      BY <1>4, <3>1, <3>2
  <2>3. \A u \in Txns : Done(u)' = IF u = t THEN {} ELSE Done(u)
    BY <1>2, <1>3 DEF Done
  <2>4. QED
    BY <1>2, <1>3, <2>1, <2>2, <2>3 DEF TurnInv, WholeInv
<1>12. QED
  BY <1>6, <1>7, <1>8, <1>9, <1>10, <1>11 DEF TurnInv

LEMMA AlwaysSessionInv == Spec => []SessionInv
<1>1. ASSUME SessionInv, UNCHANGED vars PROVE SessionInv'
  <2>1. TypeOK'
    BY <1>1 DEF vars, SessionInv, TypeOK
  <2>2. RowsInv'
    BY <1>1 DEF vars, SessionInv, RowsInv, LockInv, DelInv, BoundInv, NoKeyClash
  <2>3. PhaseInv' /\ FreshInv'
    BY <1>1 DEF vars, SessionInv, TurnInv, PhaseInv, FreshInv
  <2>4. WholeInv' /\ PartInv'
    BY <1>1 DEF vars, SessionInv, TurnInv, WholeInv, PartInv, IsLast, Visible, Done
  <2>5. QED
    BY <2>1, <2>2, <2>3, <2>4 DEF SessionInv, TurnInv
<1>2. SessionInv /\ Next => SessionInv'
  BY QuietStep, AppendStep, ClearStep, OverStep
  DEF Next, LockStep, TxnStep, AgentFails, DeadlockRaises
<1>3. QED
  BY <1>1, <1>2, InitSessionInv, PTL DEF Spec

\* Every variable stays within its type; a transaction that is over keeps
\* nothing and who appends holds the advisory lock.
THEOREM TypeCorrect == Spec => []TypeOK
BY AlwaysSessionInv, PTL DEF SessionInv

\* The primary key of a session's messages never clashes, however chats and
\* clears of any number of transactions overlap.
THEOREM KeysAreUnique == Spec => []NoKeyClash
BY AlwaysSessionInv, PTL DEF SessionInv, RowsInv

\* A session holds whole turns, and so does the history handed to the agent.
THEOREM TurnsAreWhole == Spec => []TurnsWhole
<1>1. SessionInv => TurnsWhole
  BY DEF SessionInv, TurnInv, WholeInv, TurnsWhole
<1>2. QED
  BY <1>1, AlwaysSessionInv, PTL

-----------------------------------------------------------------------------
(* The order of the rows: appends go above what they see, and what a clear    *)
(* deletes, or is about to, is a prefix of the table.                         *)

Prefix(rows) == \A r \in rows, s \in table : s.idx <= r.idx => s \in rows

\* The index tells rows apart.
Keyed(rows) == \A r, s \in rows : r.idx = s.idx => r = s

AboveInv == \A t \in Txns : \A r \in ins[t], s \in table \ del[t] : s.idx < r.idx

UniqueInv == Keyed(table) /\ \A t \in Txns : Keyed(ins[t])

\* What a clear has found is older than what others are appending.
TargetInv ==
  \A t \in Txns : \A r \in target[t] :
    /\ r.turn <= turns
    /\ \A u \in Txns \ {t} : r \notin ins[u] /\ r.turn # turn[u]

PrefixInv ==
  \A t \in Txns : Prefix(del[t]) /\ Prefix(del[t] \cup (target[t] \cap table))

OrderInv == AboveInv /\ UniqueInv /\ TargetInv /\ PrefixInv

LEMMA InitOrderInv == Init => OrderInv
BY DEF Init, OrderInv, AboveInv, UniqueInv, TargetInv, PrefixInv, Keyed, Prefix

LEMMA QuietOrder ==
  ASSUME SessionInv, OrderInv, NEW t \in Txns,
         Begin(t) \/ ChatBegin(t) \/ AgentReturns(t) \/ AppendLock(t)
  PROVE  OrderInv'
<1>1. UNCHANGED <<table, ins, del, target>>
  BY DEF Begin, ChatBegin, AgentReturns, AppendLock, dbVars
<1>2. AboveInv' /\ UniqueInv' /\ PrefixInv'
  BY <1>1 DEF OrderInv, AboveInv, UniqueInv, PrefixInv, Keyed, Prefix
<1>3. \/ turns' = turns /\ turn' = turn
      \/ turns' = turns + 1 /\ turn' = [turn EXCEPT ![t] = turns + 1]
  BY DEF Begin, ChatBegin, AgentReturns, AppendLock
<1>4. turns \in Nat /\ \A u \in Txns : \A r \in target[u] : r.turn \in Nat
  BY DEF SessionInv, TypeOK, Rows
<1>5. TargetInv'
  <2>1. ASSUME NEW u \in Txns, NEW r \in target[u]
        PROVE  r.turn <= turns /\ \A v \in Txns \ {u} : r \notin ins[v] /\ r.turn # turn[v]
    BY DEF OrderInv, TargetInv
  <2>2. ASSUME NEW u \in Txns, NEW r \in target[u]
        PROVE  r.turn <= turns' /\ \A v \in Txns \ {u} : r.turn # turn'[v]
    <3>1. r.turn <= turns'
      BY <1>3, <1>4, <2>1
    <3>2. ASSUME NEW v \in Txns PROVE turn'[v] = turn[v] \/ turn'[v] = turns + 1
      BY <1>3 DEF SessionInv, TypeOK
    <3>3. QED
      BY <1>4, <2>1, <3>1, <3>2
  <2>3. QED
    BY <1>1, <2>1, <2>2 DEF TargetInv
<1>6. QED
  BY <1>2, <1>5 DEF OrderInv

LEMMA FindOrder ==
  ASSUME SessionInv, OrderInv, NEW t \in Txns, ClearBegin(t)
  PROVE  OrderInv'
<1>1. /\ UNCHANGED <<table, ins, del, turn, turns>> /\ turn[t] = 0
      /\ target'[t] = Visible(t)
      /\ \A u \in Txns : u # t => target'[u] = target[u]
  BY DEF ClearBegin, Goes, dbVars, SessionInv, TypeOK, TurnInv, PhaseInv
<1>2. AboveInv' /\ UniqueInv'
  BY <1>1 DEF OrderInv, AboveInv, UniqueInv, Keyed
<1>3. PrefixInv'
  <2>1. ins[t] \cap table = {}
    BY DEF SessionInv, TurnInv, FreshInv, Disjoint
  <2>2. del[t] \cup (Visible(t) \cap table) = table
    BY <2>1 DEF Visible, SessionInv, TypeOK
  <2>3. Prefix(table)
    BY DEF Prefix
  <2>4. \A u \in Txns : u # t => Prefix(del[u] \cup (target'[u] \cap table))
    BY <1>1 DEF OrderInv, PrefixInv
  <2>5. \A u \in Txns : Prefix(del[u] \cup (target'[u] \cap table)) /\ Prefix(del[u])
    BY <1>1, <2>2, <2>3, <2>4 DEF OrderInv, PrefixInv
  <2>6. QED
    BY <1>1, <2>5 DEF PrefixInv, Prefix
<1>4. TargetInv'
  <2>1. ASSUME NEW r \in Visible(t)
        PROVE  r.turn <= turns /\ \A u \in Txns \ {t} : r \notin ins[u] /\ r.turn # turn[u]
    <3>1. r.turn <= turns
      BY DEF Visible, SessionInv, TurnInv, FreshInv
    <3>2. ASSUME NEW u \in Txns \ {t} PROVE r \notin ins[u]
      BY DEF Visible, SessionInv, TurnInv, FreshInv, Disjoint, RowsInv, LockInv
    <3>3. ASSUME NEW u \in Txns \ {t} PROVE r.turn # turn[u]
      <4>1. r.turn # 0
        BY DEF Visible, SessionInv, TypeOK, Rows
      <4>2. QED
        BY <4>1 DEF Visible, SessionInv, TurnInv, FreshInv
    <3>4. QED
      BY <3>1, <3>2, <3>3
  <2>2. QED
    BY <1>1, <2>1 DEF OrderInv, TargetInv
<1>5. QED
  BY <1>2, <1>3, <1>4 DEF OrderInv

LEMMA AppendOrder ==
  ASSUME SessionInv, OrderInv, NEW t \in Txns, AppendMessage(t)
  PROVE  OrderInv'
<1> DEFINE new == NextRow(t)
<1>1. /\ phase[t] = "append"
      /\ UNCHANGED <<table, del, target, turns>>
      /\ ins'[t] = ins[t] \cup {new}
      /\ \A u \in Txns : u # t => ins'[u] = ins[u]
  BY DEF AppendMessage, SessionInv, TypeOK
<1>2. /\ new \in Rows /\ new.turn = turn[t]
      /\ \A r \in Visible(t) : r.idx < new.idx
  BY <1>1, NextRowFollows DEF NextRow
<1> HIDE DEF new
<1>3. \A u \in Txns : turn'[u] = turn[u] \/ turn'[u] = 0
  BY DEF AppendMessage, Appended, Goes, SessionInv, TypeOK
<1>4. AboveInv'
  BY <1>1, <1>2 DEF OrderInv, AboveInv, Visible
<1>5. UniqueInv'
  <2>1. \A r \in ins[t] : r.idx < new.idx /\ r.idx \in Nat
    BY <1>2 DEF Visible, SessionInv, TypeOK, Rows
  <2>2. Keyed(ins'[t])
    BY <1>1, <1>2, <2>1 DEF OrderInv, UniqueInv, Keyed, Rows
  <2>3. QED
    BY <1>1, <2>2 DEF OrderInv, UniqueInv, Keyed
<1>6. TargetInv'
  <2>1. \A u \in Txns : \A r \in target[u] : r.turn # 0
    BY DEF SessionInv, TypeOK, Rows
  <2>2. ASSUME NEW u \in Txns, NEW r \in target[u], NEW v \in Txns \ {u}
        PROVE  r \notin ins'[v] /\ r.turn # turn'[v]
    BY <1>1, <1>2, <1>3, <2>1 DEF OrderInv, TargetInv
  <2>3. QED
    BY <1>1, <2>2 DEF OrderInv, TargetInv
<1>7. PrefixInv'
  BY <1>1 DEF OrderInv, PrefixInv, Prefix
<1>8. QED
  BY <1>4, <1>5, <1>6, <1>7 DEF OrderInv

LEMMA ClearOrder ==
  ASSUME SessionInv, OrderInv, NEW t \in Txns, ClearEnd(t)
  PROVE  OrderInv'
<1>1. /\ UNCHANGED <<table, turn, turns>>
      /\ del'[t] = del[t] \cup (target[t] \cap table)
      /\ target'[t] = {}
      /\ \A u \in Txns : u # t => del'[u] = del[u] /\ target'[u] = target[u]
      /\ \A u \in Txns : ins'[u] \subseteq ins[u] /\ del[u] \subseteq del'[u]
  BY DEF ClearEnd, SessionInv, TypeOK
<1>2. AboveInv' /\ UniqueInv'
  BY <1>1 DEF OrderInv, AboveInv, UniqueInv, Keyed
<1>3. TargetInv'
  BY <1>1 DEF OrderInv, TargetInv
<1>4. PrefixInv'
  <2>1. del'[t] \cup (target'[t] \cap table) = del'[t]
    BY <1>1
  <2>2. \A u \in Txns : Prefix(del'[u]) /\ Prefix(del'[u] \cup (target'[u] \cap table))
    BY <1>1, <2>1 DEF OrderInv, PrefixInv
  <2>3. QED
    BY <1>1, <2>2 DEF PrefixInv, Prefix
<1>5. QED
  BY <1>2, <1>3, <1>4 DEF OrderInv

\* A commit puts what t has appended above all that others have deleted.
LEMMA OverOrder ==
  ASSUME SessionInv, OrderInv, NEW t \in Txns, Commit(t) \/ Abort(t)
  PROVE  OrderInv'
<1>1. Over(t) /\ (table' = table \/ table' = (table \ del[t]) \cup ins[t])
  BY DEF Commit, Abort, Visible
<1>2. /\ ins'[t] = {} /\ del'[t] = {} /\ target'[t] = {} /\ turn'[t] = 0 /\ turns' = turns
      /\ \A u \in Txns : u # t => /\ ins'[u] = ins[u] /\ del'[u] = del[u]
                                  /\ target'[u] = target[u] /\ turn'[u] = turn[u]
  BY <1>1 DEF Over, SessionInv, TypeOK
<1>3. AboveInv'
  <2>1. ASSUME NEW u \in Txns, u # t, NEW r \in ins[u], NEW s \in table' \ del[u]
        PROVE  s.idx < r.idx
    <3>1. ins[t] = {}
      BY <2>1 DEF SessionInv, RowsInv, LockInv
    <3>2. QED
      BY <1>1, <2>1, <3>1 DEF OrderInv, AboveInv
  <2>2. QED
    BY <1>2, <2>1 DEF AboveInv
<1>4. UniqueInv'
  <2>1. CASE table' = table
    BY <1>2, <2>1 DEF OrderInv, UniqueInv, Keyed
  <2>2. CASE table' = (table \ del[t]) \cup ins[t]
    <3>1. \A r \in ins[t], s \in table \ del[t] : r.idx # s.idx
      BY DEF SessionInv, RowsInv, NoKeyClash
    <3>2. Keyed(table')
      BY <2>2, <3>1 DEF OrderInv, UniqueInv, Keyed
    <3>3. QED
      BY <1>2, <3>2 DEF OrderInv, UniqueInv, Keyed
  <2>3. QED
    BY <1>1, <2>1, <2>2
<1>5. TargetInv'
  <2>1. \A u \in Txns : \A r \in target[u] : r.turn # 0
    BY DEF SessionInv, TypeOK, Rows
  <2>2. ASSUME NEW u \in Txns, NEW r \in target'[u], NEW v \in Txns \ {u}
        PROVE  r \notin ins'[v] /\ r.turn # turn'[v] /\ r.turn <= turns'
    BY <1>2, <2>1 DEF OrderInv, TargetInv
  <2>3. \A u \in Txns : \A r \in target'[u] : r.turn <= turns'
    BY <1>2 DEF OrderInv, TargetInv
  <2>4. QED
    BY <2>2, <2>3 DEF TargetInv
<1>6. ASSUME NEW u \in Txns, u # t, NEW D, D = del[u] \/ D = del[u] \cup (target[u] \cap table'),
             NEW r \in D, NEW s \in table', s.idx <= r.idx
      PROVE  s \in D
  <2>1. r \in table /\ (table' # table => r \notin del[t])
    <3>1. target[u] \cap ins[t] = {}
      BY <1>6 DEF OrderInv, TargetInv
    <3>2. del[u] \subseteq table /\ del[u] \cap del[t] = {}
      BY <1>6 DEF SessionInv, TypeOK, RowsInv, DelInv
    <3>3. ins[t] \cap table = {}
      BY DEF SessionInv, TurnInv, FreshInv, Disjoint
    <3>4. QED
      BY <1>1, <1>6, <3>1, <3>2, <3>3
  <2>2. r.idx \in Nat /\ s \in table \cup ins[t] /\ s.idx \in Nat
    BY <1>1, <1>6, <2>1 DEF SessionInv, TypeOK, Rows
  <2>3. s \in table
    <3>1. CASE table' = table
      BY <1>6, <3>1
    <3>2. CASE table' # table
      <4>1. \A q \in ins[t] : r.idx < q.idx /\ q.idx \in Nat
        BY <2>1, <3>2 DEF OrderInv, AboveInv, SessionInv, TypeOK, Rows
      <4>2. QED
        BY <1>6, <2>2, <4>1
    <3>3. QED
      BY <3>1, <3>2
  <2>4. CASE r \in del[u]
    BY <1>6, <2>3, <2>4 DEF OrderInv, PrefixInv, Prefix
  <2>5. CASE r \notin del[u]
    <3>1. D = del[u] \cup (target[u] \cap table') /\ r \in target[u] \cap table
      BY <1>6, <2>1, <2>5
    <3>2. s \in del[u] \cup (target[u] \cap table)
      BY <1>6, <2>3, <3>1 DEF OrderInv, PrefixInv, Prefix
    <3>3. QED
      BY <1>6, <3>1, <3>2
  <2>6. QED
    BY <2>4, <2>5
<1>7. PrefixInv'
  <2>1. ASSUME NEW u \in Txns
        PROVE  /\ \A r \in del'[u], s \in table' : s.idx <= r.idx => s \in del'[u]
               /\ \A r \in del'[u] \cup (target'[u] \cap table'), s \in table' :
                    s.idx <= r.idx => s \in del'[u] \cup (target'[u] \cap table')
    BY <1>2, <1>6
  <2>2. QED
    BY <2>1 DEF PrefixInv, Prefix
<1>8. QED
  BY <1>3, <1>4, <1>5, <1>7 DEF OrderInv

LEMMA AlwaysOrderInv == Spec => [](SessionInv /\ OrderInv)
<1>1. OrderInv /\ UNCHANGED vars => OrderInv'
  BY DEF vars, OrderInv, AboveInv, UniqueInv, TargetInv, PrefixInv, Keyed, Prefix
<1>2. SessionInv /\ OrderInv /\ Next => OrderInv'
  BY QuietOrder, FindOrder, AppendOrder, ClearOrder, OverOrder
  DEF Next, LockStep, TxnStep, AgentFails, DeadlockRaises
<1>3. QED
  BY <1>1, <1>2, InitOrderInv, AlwaysSessionInv, PTL DEF Spec

-----------------------------------------------------------------------------
(* Lists of the elements of a finite set in the order of their numbers, and   *)
(* what becomes of a list when the least elements go and greater ones come.   *)

UpTo(T, f, k) == {j \in T : f[j] <= f[k]}

Lists(l, T, f) ==
  /\ l \in [1 .. Cardinality(T) -> T]
  /\ \A i \in 1 .. Cardinality(T) : Cardinality(UpTo(T, f, l[i])) = i

Tells(f, T) == f \in [T -> Nat] /\ \A j, k \in T : f[j] = f[k] => j = k

LEMMA RankIs ==
  ASSUME NEW T, IsFiniteSet(T), NEW f, Tells(f, T), NEW k \in T
  PROVE  /\ IsFiniteSet(UpTo(T, f, k))
         /\ Cardinality(UpTo(T, f, k)) \in 1 .. Cardinality(T)
<1>1. UpTo(T, f, k) \in SUBSET T /\ k \in UpTo(T, f, k)
  BY DEF UpTo, Tells
<1>2. /\ IsFiniteSet(UpTo(T, f, k))
      /\ Cardinality(UpTo(T, f, k)) <= Cardinality(T)
  BY <1>1, FS_Subset
<1>3. Cardinality(UpTo(T, f, k)) \in Nat /\ Cardinality(T) \in Nat
  BY <1>2, FS_CardinalityType
<1>4. Cardinality(UpTo(T, f, k)) # 0
  BY <1>1, <1>2, FS_EmptySet
<1>5. QED
  BY <1>2, <1>3, <1>4

LEMMA RanksDiffer ==
  ASSUME NEW T, IsFiniteSet(T), NEW f, Tells(f, T), NEW k \in T, NEW m \in T,
         Cardinality(UpTo(T, f, k)) = Cardinality(UpTo(T, f, m))
  PROVE  k = m
<1>1. ASSUME NEW a \in T, NEW b \in T, f[a] <= f[b],
             Cardinality(UpTo(T, f, a)) = Cardinality(UpTo(T, f, b))
      PROVE  a = b
  <2>1. UpTo(T, f, a) \in SUBSET UpTo(T, f, b)
    BY <1>1 DEF UpTo, Tells
  <2>2. UpTo(T, f, a) = UpTo(T, f, b)
    BY <1>1, <2>1, RankIs, FS_Subset
  <2>3. f[b] <= f[a]
    BY <2>2 DEF UpTo, Tells
  <2>4. QED
    BY <1>1, <2>3 DEF Tells
<1>2. f[k] <= f[m] \/ f[m] <= f[k]
  BY DEF Tells
<1>3. QED
  BY <1>1, <1>2

LEMMA EveryRankTaken ==
  ASSUME NEW T, IsFiniteSet(T), NEW f, Tells(f, T), NEW n \in 1 .. Cardinality(T)
  PROVE  \E k \in T : Cardinality(UpTo(T, f, k)) = n
<1> DEFINE g == [k \in T |-> Cardinality(UpTo(T, f, k))]
           N == 1 .. Cardinality(T)
<1>1. Cardinality(T) \in Nat
  BY FS_CardinalityType
<1>2. IsFiniteSet(N) /\ Cardinality(N) = Cardinality(T)
  BY <1>1, FS_Interval
<1>3. g \in Injection(T, N)
  BY RankIs, RanksDiffer DEF Injection, IsInjective
<1>4. g \in Surjection(T, N)
  BY <1>2, <1>3, FS_Injection
<1>5. QED
  BY <1>4 DEF Surjection

\* What l2 is to l1: some of the first elements are gone, and new ones have come
\* at the end.
Extends(l1, l2) ==
  \E dropped \in 0 .. Len(l1) :
    LET kept == SubSeq(l1, dropped + 1, Len(l1))
        new  == SubSeq(l2, Len(kept) + 1, Len(l2))
    IN  /\ Len(kept) <= Len(l2)
        /\ SubSeq(l2, 1, Len(kept)) = kept
        /\ Log!Turns(new) \cap Log!Turns(l1) = {}

LEMMA SplitCardinality ==
  ASSUME NEW A, NEW B, IsFiniteSet(A), IsFiniteSet(B), A \cap B = {}
  PROVE  /\ Cardinality(A) \in Nat /\ Cardinality(B) \in Nat
         /\ IsFiniteSet(A \cup B)
         /\ Cardinality(A \cup B) = Cardinality(A) + Cardinality(B)
<1>1. Cardinality(A) \in Nat /\ Cardinality(B) \in Nat
  BY FS_CardinalityType
<1>2. Cardinality(A \cap B) = 0
  BY FS_EmptySet
<1>3. /\ IsFiniteSet(A \cup B)
      /\ Cardinality(A \cup B) = Cardinality(A) + Cardinality(B) - Cardinality(A \cap B)
  BY FS_Union
<1>4. QED
  BY <1>1, <1>2, <1>3

LEMMA ListsChange ==
  ASSUME NEW T, IsFiniteSet(T), NEW D \in SUBSET T, NEW N, IsFiniteSet(N), N \cap T = {},
         NEW f, Tells(f, T), NEW g, Tells(g, (T \ D) \cup N),
         \A k \in T \ D : g[k] = f[k],
         \A j \in D, k \in T \ D : f[j] < f[k],
         \A k \in T \ D, j \in N : g[k] < g[j],
         NEW l1, Lists(l1, T, f), NEW l2, Lists(l2, (T \ D) \cup N, g)
  PROVE  Extends(l1, l2)
<1> DEFINE K == T \ D
           U == K \cup N
           d == Cardinality(D)
           c == Cardinality(K)
           n == Cardinality(T)
           m == Cardinality(U)
<1>1. /\ IsFiniteSet(D) /\ IsFiniteSet(K) /\ IsFiniteSet(U)
      /\ d \in Nat /\ c \in Nat /\ n \in Nat /\ m \in Nat
      /\ n = d + c /\ c <= m
  <2>1. IsFiniteSet(D) /\ IsFiniteSet(K)
    BY FS_Subset
  <2>2. D \cup K = T
    OBVIOUS
  <2>3. d \in Nat /\ c \in Nat /\ n = d + c
    BY <2>1, <2>2, SplitCardinality
  <2>4. IsFiniteSet(U) /\ Cardinality(N) \in Nat /\ m = c + Cardinality(N)
    BY <2>1, SplitCardinality
  <2>5. QED
    BY <2>1, <2>3, <2>4
<1>2. /\ l1 \in [1 .. n -> T]
      /\ \A i \in 1 .. n : Cardinality(UpTo(T, f, l1[i])) = i
      /\ l2 \in [1 .. m -> U]
      /\ \A i \in 1 .. m : Cardinality(UpTo(U, g, l2[i])) = i
  BY DEF Lists
<1>3. /\ Tells(f, T) /\ Tells(g, U) /\ T = D \cup K /\ N \cap T = {}
      /\ \A k \in K : k \in T /\ k \in U /\ k \notin D /\ g[k] = f[k]
      /\ \A j \in D, k \in K : f[j] < f[k]
      /\ \A k \in K, j \in N : g[k] < g[j]
  OBVIOUS
<1>4. /\ \A k \in T : f[k] \in Nat
      /\ \A k \in U : g[k] \in Nat
  BY <1>3 DEF Tells
<1>5. U = K \cup N
  OBVIOUS
<1> HIDE DEF K, U, d, c, n, m
<1>6. ASSUME NEW i \in 1 .. c PROVE d + i \in 1 .. n /\ i \in 1 .. m /\ l2[i] = l1[d + i]
  <2> DEFINE k == l1[d + i]
  <2>1. d + i \in 1 .. n /\ i \in 1 .. m
    BY <1>1
  <2>2. k \in T /\ Cardinality(UpTo(T, f, k)) = d + i
    BY <1>2, <2>1
  <2> HIDE DEF k
  <2>3. k \in K
    <3>1. SUFFICES ASSUME k \in D PROVE FALSE
      BY <1>3, <2>2
    <3>2. UpTo(T, f, k) \in SUBSET D
      BY <1>3, <1>4, <2>2, <3>1 DEF UpTo
    <3>3. Cardinality(UpTo(T, f, k)) <= d
      BY <1>1, <3>2, FS_Subset DEF d
    <3>4. QED
      BY <1>1, <2>2, <3>3
  <2>4. UpTo(T, f, k) = D \cup UpTo(K, f, k) /\ D \cap UpTo(K, f, k) = {}
    BY <1>3, <1>4, <2>3 DEF UpTo
  <2>5. UpTo(U, g, k) = UpTo(K, f, k)
    BY <1>3, <1>4, <1>5, <2>3 DEF UpTo
  <2>6. IsFiniteSet(UpTo(K, f, k))
    <3>1. UpTo(K, f, k) \in SUBSET K
      BY DEF UpTo
    <3>2. QED
      BY <1>1, <3>1, FS_Subset
  <2>7. Cardinality(UpTo(K, f, k)) \in Nat /\ d + i = d + Cardinality(UpTo(K, f, k))
    BY <1>1, <2>2, <2>4, <2>6, SplitCardinality DEF d
  <2>8. Cardinality(UpTo(U, g, k)) = i
    BY <1>1, <2>5, <2>7
  <2>9. l2[i] \in U /\ Cardinality(UpTo(U, g, l2[i])) = i
    BY <1>2, <2>1
  <2>10. l2[i] = k
    BY <1>1, <1>3, <2>3, <2>8, <2>9, RanksDiffer
  <2>11. QED
    BY <2>1, <2>10 DEF k
<1>7. ASSUME NEW i \in c + 1 .. m PROVE i \in 1 .. m /\ l2[i] \in N
  <2>1. i \in 1 .. m /\ i > c
    BY <1>1
  <2>2. l2[i] \in U /\ Cardinality(UpTo(U, g, l2[i])) = i
    BY <1>2, <2>1
  <2>3. l2[i] \notin K
    <3>1. SUFFICES ASSUME l2[i] \in K PROVE FALSE
      OBVIOUS
    <3>2. UpTo(U, g, l2[i]) \in SUBSET K
      BY <1>3, <1>4, <1>5, <3>1 DEF UpTo
    <3>3. Cardinality(UpTo(U, g, l2[i])) <= c
      BY <1>1, <3>2, FS_Subset DEF c
    <3>4. QED
      BY <1>1, <2>1, <2>2, <3>3
  <2>4. QED
    BY <1>5, <2>1, <2>2, <2>3
<1>8. l1 \in Seq(T) /\ l2 \in Seq(U) /\ Len(l1) = n /\ Len(l2) = m
  BY <1>1, <1>2
<1> DEFINE kept == SubSeq(l1, d + 1, Len(l1))
<1>9. /\ kept = [i \in 1 .. c |-> l1[d + i]] /\ Len(kept) = c
  BY <1>1, <1>8
<1> DEFINE new == SubSeq(l2, c + 1, Len(l2))
<1>10. SubSeq(l2, 1, c) = kept
  <2>1. SubSeq(l2, 1, c) = [i \in 1 .. c |-> l2[i]]
    BY <1>1, <1>8
  <2>2. QED
    BY <1>6, <1>9, <2>1
<1>11. Log!Turns(new) \cap Log!Turns(l1) = {}
  <2>1. Len(new) = m - c /\ \A i \in 1 .. m - c : new[i] = l2[c + i] /\ c + i \in c + 1 .. m
    BY <1>1, <1>8
  <2>2. Log!Turns(new) \subseteq N
    <3>1. \A i \in 1 .. Len(new) : new[i] \in N
      BY <1>7, <2>1
    <3> HIDE DEF new
    <3>2. QED
      BY <3>1 DEF Log!Turns
  <2>3. Log!Turns(l1) \subseteq T
    BY <1>2, <1>8 DEF Log!Turns
  <2>4. QED
    BY <1>3, <2>2, <2>3
<1>12. d \in 0 .. Len(l1)
  BY <1>1, <1>8
<1> HIDE DEF kept
<1>13. QED
  BY <1>1, <1>8, <1>9, <1>10, <1>11, <1>12 DEF Extends, kept

-----------------------------------------------------------------------------
(* InOrder lists the turns by the indices of their first messages. *)

Starts == [k \in TurnsIn(table) |-> Start(k)]

ListInv ==
  /\ IsFiniteSet(TurnsIn(table))
  /\ Tells(Starts, TurnsIn(table))
  /\ \A r \in table : r.part = 1 => Starts[r.turn] = r.idx
  /\ Lists(InOrder, TurnsIn(table), Starts)

LEMMA FirstMessage ==
  ASSUME NEW A \in SUBSET Rows, Whole(A), NEW k \in TurnsIn(A)
  PROVE  \E r \in A : r.turn = k /\ r.part = 1
<1>1. PICK q \in A : q.turn = k
  BY DEF TurnsIn
<1>2. 1 \in 1 .. TurnLen
  OBVIOUS
<1>3. [idx |-> q.idx + 1 - q.part, turn |-> q.turn, part |-> 1] \in A
  BY <1>2 DEF Whole
<1>4. QED
  BY <1>1, <1>3

LEMMA StartIs ==
  ASSUME SessionInv, NEW r \in table, r.part = 1
  PROVE  Start(r.turn) = r.idx
<1> DEFINE I == {q.idx : q \in {p \in table : p.turn = r.turn}}
           P(i) == \A q \in table : q.turn = r.turn => i <= q.idx
<1>1. ASSUME NEW q \in table, q.turn = r.turn PROVE r.idx <= q.idx
  <2>1. q.idx - q.part = r.idx - r.part
    BY <1>1 DEF SessionInv, TurnInv, WholeInv, Whole
  <2>2. q.idx \in Nat /\ q.part \in Nat \ {0} /\ r.idx \in Nat
    BY DEF SessionInv, TypeOK, Rows
  <2>3. QED
    BY <2>1, <2>2
<1>2. r.idx \in I /\ P(r.idx)
  BY <1>1
<1>3. Start(r.turn) = CHOOSE i \in I : P(i)
  BY DEF Start
<1>4. Start(r.turn) \in I /\ P(Start(r.turn))
  <2> HIDE DEF I, P
  <2>1. QED
    BY <1>2, <1>3
<1>5. PICK q \in table : q.turn = r.turn /\ Start(r.turn) = q.idx
  BY <1>4
<1>6. q.idx \in Nat /\ r.idx \in Nat /\ r.idx <= q.idx /\ q.idx <= r.idx
  BY <1>1, <1>4, <1>5 DEF SessionInv, TypeOK, Rows
<1>7. QED
  BY <1>5, <1>6

LEMMA TurnsAreListed == SessionInv /\ OrderInv => ListInv
<1> SUFFICES ASSUME SessionInv, OrderInv PROVE ListInv
  OBVIOUS
<1> DEFINE T == TurnsIn(table)
<1>1. IsFiniteSet(T)
  <2>1. T \in SUBSET (1 .. MaxTurns)
    BY DEF TurnsIn, SessionInv, TypeOK, Rows
  <2>2. IsFiniteSet(1 .. MaxTurns)
    BY FS_Interval
  <2>3. QED
    BY <2>1, <2>2, FS_Subset
<1>2. \A k \in T : \E r \in table : r.turn = k /\ r.part = 1
  BY FirstMessage DEF SessionInv, TypeOK, TurnInv, WholeInv
<1>3. \A r \in table : r.part = 1 => r.turn \in T /\ Starts[r.turn] = r.idx
  BY StartIs DEF Starts, TurnsIn
<1>4. Tells(Starts, T)
  <2>1. ASSUME NEW k \in T PROVE \E r \in table : r.turn = k /\ r.idx = Starts[k] /\ r.idx \in Nat
    BY <1>2, <1>3 DEF SessionInv, TypeOK, Rows
  <2>2. Starts \in [T -> Nat]
    <3>1. \A k \in T : Starts[k] \in Nat
      BY <2>1
    <3>2. Starts = [k \in T |-> Starts[k]]
      BY DEF Starts
    <3>3. QED
      BY <3>1, <3>2
  <2>3. ASSUME NEW j \in T, NEW k \in T, Starts[j] = Starts[k] PROVE j = k
    BY <2>1, <2>3 DEF OrderInv, UniqueInv, Keyed
  <2>4. QED
    BY <2>2, <2>3 DEF Tells
<1>5. Lists(InOrder, T, Starts)
  <2>1. ASSUME NEW n \in 1 .. Cardinality(T)
        PROVE  InOrder[n] \in T /\ Cardinality(UpTo(T, Starts, InOrder[n])) = n
    <3>1. \A k \in T : UpTo(T, Starts, k) = {j \in T : Start(j) <= Start(k)}
      BY DEF UpTo, Starts
    <3> DEFINE R(k) == Cardinality({j \in T : Start(j) <= Start(k)}) = n
    <3>2. \E k \in T : R(k)
      BY <1>1, <1>4, <3>1, EveryRankTaken
    <3>3. InOrder[n] = CHOOSE k \in T : R(k)
      BY DEF InOrder
    <3>4. InOrder[n] \in T /\ R(InOrder[n])
      <4> HIDE DEF R, T
      <4>1. QED
        BY <3>2, <3>3
    <3>5. QED
      BY <3>1, <3>4
  <2>2. InOrder = [n \in 1 .. Cardinality(T) |-> InOrder[n]]
    BY DEF InOrder
  <2>3. QED
    BY <2>1, <2>2 DEF Lists
<1>6. QED
  BY <1>1, <1>3, <1>4, <1>5 DEF ListInv

\* A step that takes a prefix of whole turns out of the table and puts whole new
\* ones above the rest changes the log as ChatLog allows.
LEMMA TableChange ==
  ASSUME SessionInv, OrderInv, ListInv, SessionInv', ListInv',
         NEW D \in SUBSET table, Whole(D), Prefix(D),
         NEW A \in SUBSET Rows, Whole(A), Disjoint(table, A),
         \A r \in A, s \in table \ D : s.idx < r.idx,
         table' = (table \ D) \cup A
  PROVE  Log!Change
<1> DEFINE T == TurnsIn(table)
           C == TurnsIn(D)
           N == TurnsIn(A)
<1>1. table \in SUBSET Rows /\ Whole(table) /\ D \in SUBSET Rows
  BY DEF SessionInv, TypeOK, TurnInv, WholeInv
<1>2. C \in SUBSET T /\ N \cap T = {}
  BY DEF TurnsIn, Disjoint
<1>3. ASSUME NEW r \in table, r.turn \in C PROVE r \in D
  <2>1. PICK q \in D : q.turn = r.turn
    BY <1>3 DEF TurnsIn
  <2>2. r.idx - r.part = q.idx - q.part
    BY <1>1, <2>1 DEF Whole
  <2>3. /\ r.idx \in Nat /\ r.part \in 1 .. TurnLen /\ q.idx \in Nat /\ q.part \in Nat
        /\ r = [idx |-> r.idx, turn |-> r.turn, part |-> r.part]
    BY <1>1 DEF Rows
  <2>4. [idx |-> q.idx + r.part - q.part, turn |-> q.turn, part |-> r.part] \in D
    BY <2>3 DEF Whole
  <2>5. q.idx + r.part - q.part = r.idx
    BY <2>2, <2>3
  <2>6. QED
    BY <2>1, <2>3, <2>4, <2>5
<1>4. TurnsIn(table)' = (T \ C) \cup N
  <2>1. ASSUME NEW r \in table' PROVE r.turn \in (T \ C) \cup N
    BY <1>3 DEF TurnsIn
  <2>2. ASSUME NEW k \in (T \ C) \cup N PROVE \E r \in table' : r.turn = k
    BY DEF TurnsIn
  <2>3. QED
    BY <2>1, <2>2 DEF TurnsIn
<1>5. IsFiniteSet(T) /\ IsFiniteSet(N)
  <2>1. IsFiniteSet(T) /\ IsFiniteSet((T \ C) \cup N)
    BY <1>4 DEF ListInv
  <2>2. N \in SUBSET ((T \ C) \cup N)
    OBVIOUS
  <2>3. QED
    BY <2>1, <2>2, FS_Subset
<1>6. /\ Tells(Starts, T) /\ Lists(InOrder, T, Starts)
      /\ \A r \in table : r.part = 1 => Starts[r.turn] = r.idx
  BY DEF ListInv
<1>7. /\ Tells(Starts', (T \ C) \cup N) /\ Lists(InOrder', (T \ C) \cup N, Starts')
      /\ \A r \in table' : r.part = 1 => Starts'[r.turn] = r.idx
  BY <1>4 DEF ListInv, Tells, Lists, UpTo
<1>8. \A k \in T \ C : \E r \in table \ D :
        r.turn = k /\ r.part = 1 /\ Starts[k] = r.idx /\ Starts'[k] = r.idx
  <2>1. ASSUME NEW k \in T \ C
        PROVE  \E r \in table \ D : r.turn = k /\ r.part = 1
    <3>1. PICK r \in table : r.turn = k /\ r.part = 1
      BY <1>1, <2>1, FirstMessage
    <3>2. r \notin D
      BY <2>1, <3>1 DEF TurnsIn
    <3>3. QED
      BY <3>1, <3>2
  <2>2. QED
    BY <1>6, <1>7, <2>1
<1>9. \A j \in C : \E r \in D : r.turn = j /\ Starts[j] = r.idx
  BY <1>1, <1>6, FirstMessage
<1>10. \A j \in N : \E r \in A : r.turn = j /\ Starts'[j] = r.idx
  <2>1. \A j \in N : \E r \in A : r.turn = j /\ r.part = 1
    BY FirstMessage
  <2>2. QED
    BY <1>7, <2>1
<1>11. \A k \in T \ C : Starts'[k] = Starts[k]
  BY <1>8
<1>12. ASSUME NEW j \in C, NEW k \in T \ C PROVE Starts[j] < Starts[k]
  <2>1. PICK r \in D : r.turn = j /\ Starts[j] = r.idx
    BY <1>9
  <2>2. PICK s \in table \ D : s.turn = k /\ Starts[k] = s.idx
    BY <1>8
  <2>3. ~(s.idx <= r.idx) /\ s.idx \in Nat /\ r.idx \in Nat
    BY <1>1 DEF Prefix, Rows
  <2>4. QED
    BY <2>1, <2>2, <2>3
<1>13. ASSUME NEW k \in T \ C, NEW j \in N PROVE Starts'[k] < Starts'[j]
  BY <1>8, <1>10
<1>14. Extends(InOrder, InOrder')
  <2> HIDE DEF T, C, N
  <2>1. QED
    BY <1>2, <1>5, <1>6, <1>7, <1>11, <1>12, <1>13, ListsChange
<1>15. QED
  BY <1>14 DEF Extends, Log!Change, Log!Turns

LEMMA LogStep ==
  ASSUME SessionInv, OrderInv, ListInv, SessionInv', ListInv', [Next]_vars
  PROVE  Log!Change
<1>1. CASE table' = table
  <2>1. Whole({}) /\ Prefix({}) /\ Disjoint(table, {})
    BY DEF Whole, Prefix, Disjoint
  <2>2. table' = (table \ {}) \cup {}
    BY <1>1
  <2>3. QED
    BY <2>1, <2>2, TableChange
<1>2. CASE table' # table
  <2>1. PICK t \in Txns : Commit(t)
    BY <1>2 DEF Next, vars, Begin, ChatBegin, ClearBegin, LockStep, AppendLock, ClearEnd, TxnStep,
       AgentReturns, AgentFails, AppendMessage, DeadlockRaises, Abort, dbVars
  <2>2. table' = (table \ del[t]) \cup ins[t] /\ turn[t] = 0
    BY <2>1 DEF Commit, Visible, SessionInv, TurnInv, PhaseInv
  <2>3. Done(t) = ins[t]
    BY <2>2 DEF Done, SessionInv, TypeOK, Rows
  <2>4. Whole(del[t]) /\ Whole(ins[t]) /\ Disjoint(table, ins[t])
    BY <2>3 DEF SessionInv, TurnInv, WholeInv, FreshInv
  <2>5. del[t] \in SUBSET table /\ ins[t] \in SUBSET Rows
    BY DEF SessionInv, TypeOK
  <2>6. Prefix(del[t]) /\ \A r \in ins[t], s \in table \ del[t] : s.idx < r.idx
    BY DEF OrderInv, PrefixInv, AboveInv
  <2>7. QED
    BY <2>2, <2>4, <2>5, <2>6, TableChange
<1>3. QED
  BY <1>1, <1>2

\* However chats, clears and crashes of any number of transactions overlap, the
\* session is a sequence of turns that grows at its end and loses turns only
\* from its beginning, although clear_session takes no lock.
THEOREM SessionImplementsLog == Spec => ImplementsChatLog
<1>1. Init => Log!Init
  <2> SUFFICES ASSUME Init PROVE InOrder = <<>>
    BY DEF Log!Init
  <2>1. TurnsIn(table) = {}
    BY DEF Init, TurnsIn
  <2>2. Cardinality(TurnsIn(table)) = 0
    BY <2>1, FS_EmptySet
  <2>3. QED
    BY <2>2 DEF InOrder
<1>2. /\ SessionInv /\ OrderInv /\ ListInv
      /\ (SessionInv /\ OrderInv /\ ListInv)'
      /\ [Next]_vars
      => [Log!Change]_InOrder
  BY LogStep
<1>3. QED
  BY <1>1, <1>2, AlwaysOrderInv, TurnsAreListed, PTL DEF Spec, ImplementsChatLog, Log!Spec

===============================================================================
