----------------------------- MODULE OutboxProofs -----------------------------
(***************************************************************************)
(* Proofs about Outbox, for any sets of transactions, consumers, keys and  *)
(* payloads, any number of rows and any setting of the guards.             *)
(***************************************************************************)
EXTENDS Outbox, FiniteSetTheorems, TLAPS

USE OutboxAssumption DEF OutboxAssumption

-----------------------------------------------------------------------------
(* Type correctness, deliveries and stamps. *)

\* A stamp that was fresh has left its mark on the row.
FreshInv ==
  \A i \in Ids : /\ fresh[i] \in {0, 1}
                 /\ fresh[i] = 1 => row[i].state \in {"processed", "pruned"}

\* What a consumer holds it has delivered.
HandInv == \A c \in Consumers : hand[c] # NoId => hand[c] \in delivered

\* A call that waits for the lock has passed validation.
CallInv == \A t \in Txns : phase[t] = "calling" => call[t] \in Calls

TypeInv == TypeOK /\ CallInv /\ FreshInv /\ HandInv /\ DeliveredBeforePruned

LEMMA SomeConsumer == ASSUME NEW c \in Consumers PROVE 1 \in 0 .. Cardinality(Consumers)
<1>1. Cardinality(Consumers) \in Nat
  BY FS_CardinalityType
<1>2. Cardinality(Consumers) # 0
  BY FS_EmptySet
<1>3. QED
  BY <1>1, <1>2

LEMMA FreeIsRow == FreeRow \in Row
BY DEF FreeRow, Row

LEMMA InitTypeInv == Init => TypeInv
<1> SUFFICES ASSUME Init PROVE TypeInv
  OBVIOUS
<1>1. Cardinality(Consumers) \in Nat
  BY FS_CardinalityType
<1>2. TypeOK
  BY <1>1, FreeIsRow DEF Init, TypeOK, FreeRow
<1>3. CallInv /\ FreshInv /\ HandInv /\ DeliveredBeforePruned
  BY DEF Init, CallInv, FreshInv, HandInv, DeliveredBeforePruned, FreeRow
<1>4. QED
  BY <1>2, <1>3 DEF TypeInv

\* What a rollback does: stamped rows stay.
LEMMA UndoType ==
  ASSUME TypeInv, NEW t \in Txns, Undone(t)
  PROVE  /\ row' \in [Ids -> Row]
         /\ lock' \in [Keys -> Txns \cup {NoTxn}]
         /\ start' \in [Txns -> 0 .. MaxTime]
         /\ \A i \in Ids : row'[i].state = "written" =>
              row'[i] = row[i] /\ row[i].by # t
         /\ \A i \in Ids : row[i].state \in {"processed", "pruned"} => row'[i] = row[i]
         /\ \A i \in Ids : row'[i].state \in {"processed", "pruned"} => row'[i] = row[i]
<1>1. \A i \in Ids : row'[i] = IF row[i].state = "written" /\ row[i].by = t THEN FreeRow ELSE row[i]
  BY DEF Undone
<1>2. row' \in [Ids -> Row]
  BY FreeIsRow DEF Undone, TypeInv, TypeOK
<1>3. /\ lock' \in [Keys -> Txns \cup {NoTxn}]
      /\ start' \in [Txns -> 0 .. MaxTime]
  BY DEF Undone, TypeInv, TypeOK
<1>4. QED
  BY <1>1, <1>2, <1>3 DEF FreeRow

\* A step that leaves consumers, stamped rows and calls alone.
LEMMA TypeInvKept ==
  ASSUME TypeInv, TypeOK', CallInv', UNCHANGED consumerVars,
         \A i \in Ids : /\ row[i].state \in {"processed", "pruned"} => row'[i] = row[i]
                        /\ row'[i].state \in {"processed", "pruned"} => row'[i] = row[i]
  PROVE  TypeInv'
BY DEF TypeInv, FreshInv, HandInv, DeliveredBeforePruned, consumerVars

LEMMA EmittersTypeInv ==
  ASSUME TypeInv, NEW t \in Txns,
         \/ Begin(t)
         \/ \E c \in Calls : Emit(t, c)
         \/ EmitEnds(t)
         \/ EmitInvalid(t)
         \/ Commit(t)
         \/ Rollback(t)
  PROVE  TypeInv'
<1> USE DEF TypeInv
<1>1. CASE Begin(t)
  BY <1>1, TypeInvKept DEF Begin, TypeOK, CallInv, consumerVars
<1>2. ASSUME NEW c \in Calls, Emit(t, c) PROVE TypeInv'
  BY <1>2, TypeInvKept DEF Emit, TypeOK, CallInv, consumerVars
<1>3. ASSUME EmitReturns(t)
      PROVE  /\ UNCHANGED <<clock, start, consumerVars>>
             /\ lock' \in [Keys -> Txns \cup {NoTxn}]
             /\ phase' \in [Txns -> {"idle", "open", "calling", "failed"}]
             /\ call' \in [Txns -> Calls \cup {NoCall, BadCall}]
             /\ phase'[t] = "open" /\ \A u \in Txns : u # t => phase'[u] = phase[u]
             /\ CallInv'
  BY <1>3 DEF EmitReturns, TypeOK, CallInv
<1>4. CASE EmitSuppressed(t)
  <2>1. UNCHANGED row /\ EmitReturns(t)
    BY <1>4 DEF EmitSuppressed
  <2>2. TypeOK'
    BY <1>3, <2>1 DEF TypeOK, consumerVars
  <2>3. QED
    BY <1>3, <2>1, <2>2, TypeInvKept
<1>5. CASE EmitAppends(t)
  <2> DEFINE new == [state |-> "written", by |-> t, ts |-> start[t], done |-> 0, call |-> call[t]]
  <2>1. PICK n \in Ids : row[n].state = "free" /\ row' = [row EXCEPT ![n] = new]
    BY <1>5 DEF EmitAppends
  <2>2. EmitReturns(t) /\ call[t] \in Calls /\ start[t] \in 0 .. MaxTime
    BY <1>5 DEF EmitAppends, EmitReturns, CallInv, TypeOK
  <2>3. new \in Row /\ new.state = "written" /\ new.by = t
    BY <2>2 DEF Row
  <2> HIDE DEF new
  <2>4. /\ row' \in [Ids -> Row]
        /\ \A i \in Ids : row'[i] = IF i = n THEN new ELSE row[i]
    BY <2>1, <2>3 DEF TypeOK
  <2>5. \A i \in Ids : row'[i].state = "written" =>
          row'[i].by \in Txns /\ phase'[row'[i].by] \in {"open", "calling"}
    <3> SUFFICES ASSUME NEW i \in Ids, row'[i].state = "written"
                 PROVE  row'[i].by \in Txns /\ phase'[row'[i].by] \in {"open", "calling"}
      OBVIOUS
    <3>1. CASE i = n
      BY <1>3, <2>2, <2>3, <2>4, <3>1
    <3>2. CASE i # n
      <4>1. row[i].state = "written" /\ row'[i].by = row[i].by
        BY <2>4, <3>2
      <4>2. row[i].by \in Txns /\ phase[row[i].by] \in {"open", "calling"}
        BY <4>1 DEF TypeOK
      <4>3. QED
        BY <1>3, <2>2, <4>1, <4>2
    <3>3. QED
      BY <3>1, <3>2
  <2>6. TypeOK'
    BY <1>3, <2>2, <2>4, <2>5 DEF TypeOK, consumerVars
  <2>7. QED
    BY <1>3, <2>1, <2>2, <2>3, <2>4, <2>6, TypeInvKept
<1>6. ASSUME Undone(t), call' \in [Txns -> Calls \cup {NoCall, BadCall}], CallInv',
             phase' \in [Txns -> {"idle", "open", "calling", "failed"}],
             \A u \in Txns : u # t => phase'[u] = phase[u]
      PROVE  TypeInv'
  <2>1. UNCHANGED <<clock, consumerVars>>
    BY <1>6 DEF Undone
  <2>2. TypeOK'
    BY <1>6, <2>1, UndoType DEF TypeOK, consumerVars
  <2>3. QED
    BY <1>6, <2>1, <2>2, UndoType, TypeInvKept
<1>7. CASE EmitDeadlocks(t)
  BY <1>6, <1>7 DEF EmitDeadlocks, TypeOK, CallInv
<1>8. CASE EmitInvalid(t)
  BY <1>6, <1>8 DEF EmitInvalid, TypeOK, CallInv
<1>9. CASE Rollback(t)
  BY <1>6, <1>9 DEF Rollback, TypeOK, CallInv
<1>10. CASE Commit(t)
  <2>1. \A i \in Ids : row'[i] = IF row[i].state = "written" /\ row[i].by = t
                                 THEN [row[i] EXCEPT !.state = "pending"] ELSE row[i]
    BY <1>10 DEF Commit
  <2>2. \A i \in Ids : [row[i] EXCEPT !.state = "pending"] \in Row
    BY DEF TypeOK, Row
  <2>3. \A i \in Ids : [row[i] EXCEPT !.state = "pending"].state = "pending"
    BY DEF TypeOK, Row
  <2>4. row' \in [Ids -> Row]
    BY <1>10, <2>2 DEF Commit, TypeOK
  <2>5. lock' \in [Keys -> Txns \cup {NoTxn}] /\ start' \in [Txns -> 0 .. MaxTime]
    BY <1>10 DEF Commit, TypeOK
  <2>6. woken' \in [Consumers -> BOOLEAN] /\ UNCHANGED <<clock, call, pos, todo, hand, delivered, fresh, faults>>
    BY <1>10 DEF Commit, TypeOK
  <2>7. /\ phase' \in [Txns -> {"idle", "open", "calling", "failed"}]
        /\ \A u \in Txns : u # t => phase'[u] = phase[u]
        /\ phase'[t] = "idle"
    BY <1>10 DEF Commit, TypeOK
  <2>8. TypeOK'
    BY <2>1, <2>3, <2>4, <2>5, <2>6, <2>7 DEF TypeOK
  <2>9. FreshInv' /\ DeliveredBeforePruned'
    BY <2>1, <2>3, <2>6 DEF FreshInv, DeliveredBeforePruned
  <2>10. CallInv' /\ HandInv'
    BY <2>6, <2>7 DEF CallInv, HandInv
  <2>11. QED
    BY <2>8, <2>9, <2>10
<1>11. QED
  BY <1>1, <1>2, <1>4, <1>5, <1>7, <1>8, <1>9, <1>10 DEF EmitEnds

\* A row after a stamp at time d.
LEMMA StampedRow ==
  ASSUME NEW r \in Row, NEW d \in 0 .. MaxTime
  PROVE  LET s == [r EXCEPT !.state = "processed", !.done = d]
         IN  /\ s \in Row
             /\ s.state = "processed" /\ s.done = d
             /\ s.by = r.by /\ s.ts = r.ts /\ s.call = r.call
<1> DEFINE m == [r EXCEPT !.state = "processed"]
           s == [m EXCEPT !.done = d]
<1>1. /\ m \in Row /\ m.state = "processed"
      /\ m.by = r.by /\ m.ts = r.ts /\ m.call = r.call
  BY DEF Row
<1> HIDE DEF m
<1>2. /\ s \in Row /\ s.state = m.state /\ s.done = d
      /\ s.by = m.by /\ s.ts = m.ts /\ s.call = m.call
  BY <1>1 DEF Row
<1>3. QED
  BY <1>1, <1>2 DEF m

LEMMA ConsumersTypeInv ==
  ASSUME TypeInv, NEW c \in Consumers, ConsumerStep(c) \/ ConsumerCrash(c)
  PROVE  TypeInv'
<1> USE DEF TypeInv
<1>1. CASE Connect(c)
  BY <1>1 DEF Connect, TypeOK, txnVars, CallInv, FreshInv, HandInv, DeliveredBeforePruned
<1>2. CASE Drain(c)
  BY <1>2 DEF Drain, TypeOK, txnVars, CallInv, FreshInv, HandInv, DeliveredBeforePruned
<1>3. CASE Deliver(c)
  <2>1. PICK i \in todo[c] : hand' = [hand EXCEPT ![c] = i] /\ delivered' = delivered \cup {i}
    BY <1>3 DEF Deliver
  <2>2. TypeOK' /\ HandInv'
    BY <1>3, <2>1 DEF Deliver, TypeOK, txnVars, HandInv
  <2>3. CallInv' /\ FreshInv' /\ DeliveredBeforePruned'
    BY <1>3, <2>1 DEF Deliver, txnVars, CallInv, FreshInv, DeliveredBeforePruned
  <2>4. QED
    BY <2>2, <2>3
<1>4. CASE MarkProcessed(c)
  <2> DEFINE i == hand[c]
             stamped == [row[i] EXCEPT !.state = "processed", !.done = clock]
  <2>1. i \in Ids /\ i \in delivered
    BY <1>4 DEF MarkProcessed, TypeOK, HandInv
  <2>2. stamped \in Row /\ stamped.state = "processed"
    <3>1. row[i] \in Row /\ clock \in 0 .. MaxTime
      BY <2>1 DEF TypeOK
    <3> HIDE DEF i
    <3>2. QED
      BY <3>1, StampedRow
  <2>3. TypeOK' /\ FreshInv'
    <3>1. CASE row[i].state = "pending"
      <4>1. row' = [row EXCEPT ![i] = stamped] /\ fresh' = [fresh EXCEPT ![i] = @ + 1]
        BY <1>4, <3>1 DEF MarkProcessed
      <4>2. fresh[i] = 0
        BY <2>1, <3>1 DEF FreshInv
      <4>3. /\ row' \in [Ids -> Row]
            /\ \A j \in Ids : row'[j] = IF j = i THEN stamped ELSE row[j]
        BY <2>1, <2>2, <4>1 DEF TypeOK
      <4>4. /\ fresh' \in [Ids -> 0 .. Cardinality(Consumers)]
            /\ \A j \in Ids : fresh'[j] = IF j = i THEN 1 ELSE fresh[j]
        BY <2>1, <4>1, <4>2, SomeConsumer DEF TypeOK
      <4> HIDE DEF i, stamped
      <4>5. FreshInv'
        BY <2>2, <4>3, <4>4 DEF FreshInv
      <4>6. UNCHANGED <<clock, txnVars, pos, woken, delivered, faults>>
        BY <1>4 DEF MarkProcessed
      <4>7. todo' \in [Consumers -> SUBSET Ids] /\ hand' \in [Consumers -> Ids \cup {NoId}]
        BY <1>4 DEF MarkProcessed, TypeOK
      <4>8. QED
        BY <2>2, <4>3, <4>4, <4>5, <4>6, <4>7 DEF TypeOK, txnVars
    <3>2. CASE row[i].state # "pending"
      BY <1>4, <3>2 DEF MarkProcessed, TypeOK, FreshInv, txnVars
    <3>3. QED
      BY <3>1, <3>2
  <2>4. \A j \in Ids : row'[j] = row[j] \/ j \in delivered
    BY <1>4, <2>1 DEF MarkProcessed, TypeOK
  <2>5. DeliveredBeforePruned'
    BY <1>4, <2>4 DEF MarkProcessed, DeliveredBeforePruned
  <2>6. CallInv' /\ HandInv'
    BY <1>4 DEF MarkProcessed, CallInv, HandInv, txnVars, TypeOK
  <2>7. QED
    BY <2>3, <2>5, <2>6
<1>5. CASE DrainEnds(c)
  BY <1>5 DEF DrainEnds, TypeOK, txnVars, CallInv, FreshInv, HandInv, DeliveredBeforePruned
<1>6. CASE ConsumerCrash(c)
  BY <1>6 DEF ConsumerCrash, TypeOK, txnVars, CallInv, FreshInv, HandInv, DeliveredBeforePruned
<1>7. QED
  BY <1>1, <1>2, <1>3, <1>4, <1>5, <1>6 DEF ConsumerStep

LEMMA NextTypeInv == TypeInv /\ [Next]_vars => TypeInv'
<1> SUFFICES ASSUME TypeInv, [Next]_vars PROVE TypeInv'
  OBVIOUS
<1> USE DEF TypeInv
<1>1. CASE Tick
  BY <1>1 DEF Tick, TypeOK, txnVars, consumerVars, CallInv, FreshInv, HandInv, DeliveredBeforePruned
<1>2. CASE Prune
  <2>1. \A i \in Ids : row'[i] = IF row[i].state = "processed" /\ row[i].done + PruneAge < clock
                                 THEN [row[i] EXCEPT !.state = "pruned"] ELSE row[i]
    BY <1>2 DEF Prune
  <2>2. \A i \in Ids : /\ [row[i] EXCEPT !.state = "pruned"] \in Row
                       /\ [row[i] EXCEPT !.state = "pruned"].state = "pruned"
    BY DEF TypeOK, Row
  <2>3. row' \in [Ids -> Row]
    BY <1>2, <2>2 DEF Prune, TypeOK
  <2>4. UNCHANGED <<clock, txnVars, consumerVars>>
    BY <1>2 DEF Prune
  <2>5. TypeOK'
    BY <2>1, <2>2, <2>3, <2>4 DEF TypeOK, txnVars, consumerVars
  <2>6. CallInv' /\ FreshInv' /\ HandInv' /\ DeliveredBeforePruned'
    BY <2>1, <2>2, <2>4 DEF CallInv, FreshInv, HandInv, DeliveredBeforePruned, txnVars, consumerVars
  <2>7. QED
    BY <2>5, <2>6
<1>3. CASE UNCHANGED vars
  BY <1>3 DEF vars, TypeOK, txnVars, consumerVars, CallInv, FreshInv, HandInv, DeliveredBeforePruned
<1>4. QED
  BY <1>1, <1>2, <1>3, EmittersTypeInv, ConsumersTypeInv DEF Next

LEMMA AlwaysTypeInv == Spec => []TypeInv
BY InitTypeInv, NextTypeInv, PTL DEF Spec

\* Every variable stays within its type; a written row belongs to a transaction
\* that is open.
THEOREM TypeCorrect == Spec => []TypeOK
BY AlwaysTypeInv, PTL DEF TypeInv

\* No event is lost: a row is stamped and deleted only after a delivery, however
\* consumers crash between a delivery and its stamp.
THEOREM StampsFollowDeliveries == Spec => []DeliveredBeforePruned
BY AlwaysTypeInv, PTL DEF TypeInv

\* However many consumers race for a row, one stamp of it is fresh.
THEOREM OneStampIsFresh == Spec => []OneFreshDelivery
<1>1. TypeInv => OneFreshDelivery
  BY DEF TypeInv, FreshInv, OneFreshDelivery
<1>2. QED
  BY <1>1, AlwaysTypeInv, PTL

-----------------------------------------------------------------------------
(* The flood guards. *)

\* The rows that are there, in whatever state, and those that were deleted.
Recorded(i) == row[i].state # "free"

\* Nobody's now() is further back than the longest transaction.
ClockInv ==
  \A t \in Txns : phase[t] \in {"open", "calling"} =>
    start[t] <= clock /\ clock <= start[t] + MaxTxn

\* A row that is not committed is its writer's, who holds the lock of its key;
\* a row is deleted long after it was written.
RowInv ==
  \A i \in Ids : Recorded(i) =>
    /\ row[i].call \in Calls /\ row[i].ts <= clock
    /\ row[i].state = "written" =>
         /\ row[i].ts = start[row[i].by]
         /\ Guarded => lock[row[i].call.key] = row[i].by
    /\ row[i].state = "processed" => row[i].ts <= row[i].done
    /\ row[i].state = "pruned" => row[i].ts + PruneAge < clock

\* The rate cap and the dedup window for the rows that are not committed, too.
Before(i) == {j \in Ids : /\ Recorded(j)
                          /\ row[j].call.key = row[i].call.key
                          /\ row[j].ts <= row[i].ts
                          /\ row[j].ts + Minute > row[i].ts}

RateInv ==
  MaxPerMinute > 0 =>
    \A i \in Ids : Recorded(i) => Cardinality(Before(i)) <= MaxPerMinute

DedupInv ==
  \A i, j \in Ids :
    i # j /\ Recorded(i) /\ Recorded(j) /\ row[i].call = row[j].call =>
      row[i].ts + DedupWindow <= row[j].ts \/ row[j].ts + DedupWindow <= row[i].ts

SerialInv == TypeInv /\ ClockInv /\ RowInv

GuardInv == SerialInv /\ RateInv /\ DedupInv

LEMMA Numbers == Minute \in Nat /\ Minute > 0 /\ DedupWindow \in Nat /\ MaxPerMinute \in Nat
OBVIOUS

LEMMA Times ==
  ASSUME TypeOK
  PROVE  /\ clock \in Nat
         /\ \A t \in Txns : start[t] \in Nat
         /\ \A i \in Ids : row[i].ts \in Nat /\ row[i].done \in Nat
BY DEF TypeOK, Row

LEMMA InitGuardInv == Init => GuardInv
<1> SUFFICES ASSUME Init PROVE GuardInv
  OBVIOUS
<1>1. \A i \in Ids : ~Recorded(i)
  BY DEF Init, Recorded, FreeRow
<1>2. QED
  BY <1>1, InitTypeInv DEF Init, GuardInv, SerialInv, ClockInv, RowInv, RateInv, DedupInv

\* A row keeps what it says, whatever becomes of it.
Same(i) == /\ row'[i].call = row[i].call /\ row'[i].ts = row[i].ts

\* A step that appends no row leaves the guards' promises as they are.
LEMMA PromisesKept ==
  ASSUME RateInv, DedupInv, \A i \in Ids : Recorded(i)' => Recorded(i) /\ Same(i)
  PROVE  RateInv' /\ DedupInv'
<1>1. DedupInv'
  BY DEF DedupInv, Same
<1>2. ASSUME MaxPerMinute > 0, NEW i \in Ids, Recorded(i)'
      PROVE  Cardinality(Before(i)') <= MaxPerMinute
  <2>1. Before(i)' \subseteq Before(i)
    BY <1>2 DEF Before, Same
  <2>2. IsFiniteSet(Before(i))
    BY FS_Subset DEF Before
  <2>3. /\ Cardinality(Before(i)') <= Cardinality(Before(i))
        /\ Cardinality(Before(i)') \in Nat /\ Cardinality(Before(i)) \in Nat
    BY <2>1, <2>2, FS_Subset, FS_CardinalityType
  <2>4. Cardinality(Before(i)) <= MaxPerMinute
    BY <1>2 DEF RateInv
  <2>5. QED
    BY <2>3, <2>4
<1>3. QED
  BY <1>1, <1>2 DEF RateInv

\* A row at a stamp.
LEMMA MarkedRow ==
  ASSUME TypeOK, NEW c \in Consumers, MarkProcessed(c), NEW i \in Ids
  PROVE  \/ row'[i] = row[i]
         \/ /\ row'[i].state = "processed" /\ row'[i].done = clock
            /\ Recorded(i) /\ Same(i)
<1> DEFINE r == row[hand[c]]
           s == [r EXCEPT !.state = "processed", !.done = clock]
<1>1. row' = row \/ (r.state = "pending" /\ row' = [row EXCEPT ![hand[c]] = s])
  BY DEF MarkProcessed
<1>2. CASE hand[c] \in Ids
  <2>1. r \in Row /\ clock \in 0 .. MaxTime
    BY <1>2 DEF TypeOK
  <2> HIDE DEF r
  <2>2. s.state = "processed" /\ s.done = clock /\ s.call = r.call /\ s.ts = r.ts
    BY <2>1, StampedRow
  <2> HIDE DEF s
  <2>3. CASE i = hand[c]
    BY <1>1, <2>2, <2>3 DEF r, TypeOK, Recorded, Same
  <2>4. CASE i # hand[c]
    BY <1>1, <2>4 DEF TypeOK
  <2>5. QED
    BY <2>3, <2>4
<1>3. CASE hand[c] \notin Ids
  <2> HIDE DEF s
  <2>1. QED
    BY <1>1, <1>3 DEF TypeOK
<1>4. QED
  BY <1>2, <1>3

\* No step but an append makes a row that was not there.
LEMMA OthersAppendNothing ==
  ASSUME SerialInv, [Next]_vars, NEW i \in Ids,
         \A t \in Txns : ~EmitAppends(t)
  PROVE  Recorded(i)' => Recorded(i) /\ Same(i)
<1> USE DEF SerialInv, TypeInv, Recorded, Same
<1>1. row[i] \in Row /\ row \in [Ids -> Row]
  BY DEF TypeOK
<1>2. ASSUME NEW s \in {"pending", "pruned"}
      PROVE  LET r == [row[i] EXCEPT !.state = s]
             IN  r.state = s /\ r.call = row[i].call /\ r.ts = row[i].ts
  BY <1>1 DEF Row
<1>3. ASSUME NEW t \in Txns, Undone(t) PROVE Recorded(i)' => Recorded(i) /\ Same(i)
  BY <1>3 DEF Undone, FreeRow
<1>4. ASSUME NEW t \in Txns, EmitEnds(t) PROVE Recorded(i)' => Recorded(i) /\ Same(i)
  BY <1>3, <1>4 DEF EmitEnds, EmitSuppressed, EmitDeadlocks
<1>5. ASSUME NEW t \in Txns, Commit(t) PROVE Recorded(i)' => Recorded(i) /\ Same(i)
  BY <1>2, <1>5 DEF Commit
<1>6. ASSUME NEW c \in Consumers, MarkProcessed(c) PROVE Recorded(i)' => Recorded(i) /\ Same(i)
  BY <1>6, MarkedRow
<1>7. CASE Prune
  BY <1>2, <1>7 DEF Prune
<1>8. QED
  BY <1>3, <1>4, <1>5, <1>6, <1>7
  DEF Next, vars, Tick, Begin, Emit, EmitInvalid, Rollback, ConsumerStep, Connect, Drain,
      Deliver, DrainEnds, ConsumerCrash

LEMMA NextClockInv == SerialInv /\ [Next]_vars => ClockInv'
<1> SUFFICES ASSUME SerialInv, [Next]_vars, NEW u \in Txns, phase'[u] \in {"open", "calling"}
             PROVE  start'[u] <= clock' /\ clock' <= start'[u] + MaxTxn
  BY DEF ClockInv
<1> USE DEF SerialInv, TypeInv
<1>1. clock \in Nat /\ start[u] \in Nat
  BY Times
<1>2. phase[u] \in {"open", "calling"} => start[u] <= clock /\ clock <= start[u] + MaxTxn
  BY DEF ClockInv
<1>3. CASE Tick
  BY <1>1, <1>2, <1>3 DEF Tick, txnVars
<1>4. ASSUME UNCHANGED <<clock, start>>, phase'[u] \in {"open", "calling"} => phase[u] \in {"open", "calling"}
      PROVE  start'[u] <= clock' /\ clock' <= start'[u] + MaxTxn
  BY <1>2, <1>4
<1>5. ASSUME NEW t \in Txns, Begin(t) PROVE start'[u] <= clock' /\ clock' <= start'[u] + MaxTxn
  <2>1. start'[u] = (IF u = t THEN clock ELSE start[u]) /\ clock' = clock
    BY <1>5 DEF Begin, TypeOK
  <2>2. u # t => phase[u] = phase'[u]
    BY <1>5 DEF Begin, TypeOK
  <2>3. QED
    BY <1>1, <1>2, <2>1, <2>2
<1>6. ASSUME NEW t \in Txns, NEW c \in Calls, Emit(t, c)
      PROVE  start'[u] <= clock' /\ clock' <= start'[u] + MaxTxn
  BY <1>4, <1>6 DEF Emit, TypeOK
<1>7. ASSUME NEW t \in Txns, EmitReturns(t) PROVE start'[u] <= clock' /\ clock' <= start'[u] + MaxTxn
  BY <1>4, <1>7 DEF EmitReturns, TypeOK
<1>8. ASSUME NEW t \in Txns, start' = [start EXCEPT ![t] = 0], clock' = clock, phase'[t] \notin {"open", "calling"},
             \E p : phase' = [phase EXCEPT ![t] = p]
      PROVE  start'[u] <= clock' /\ clock' <= start'[u] + MaxTxn
  <2>1. u # t /\ start'[u] = start[u] /\ phase'[u] = phase[u]
    BY <1>8 DEF TypeOK
  <2>2. QED
    BY <1>2, <1>8, <2>1
<1>9. ASSUME NEW t \in Txns, EmitDeadlocks(t) \/ EmitInvalid(t) \/ Rollback(t) \/ Commit(t)
      PROVE  start'[u] <= clock' /\ clock' <= start'[u] + MaxTxn
  <2>1. start' = [start EXCEPT ![t] = 0] /\ clock' = clock
    BY <1>9 DEF EmitDeadlocks, EmitInvalid, Rollback, Commit, Undone
  <2>2. phase'[t] \notin {"open", "calling"} /\ \E p : phase' = [phase EXCEPT ![t] = p]
    BY <1>9 DEF EmitDeadlocks, EmitInvalid, Rollback, Commit, TypeOK
  <2>3. QED
    BY <1>8, <2>1, <2>2
<1>10. ASSUME NEW c \in Consumers, ConsumerStep(c) \/ ConsumerCrash(c)
       PROVE  UNCHANGED <<clock, txnVars>>
  BY <1>10 DEF ConsumerStep, Connect, Drain, Deliver, MarkProcessed, DrainEnds, ConsumerCrash
<1>11. CASE UNCHANGED <<clock, txnVars>>
  BY <1>4, <1>11 DEF txnVars
<1>12. Prune \/ UNCHANGED vars => UNCHANGED <<clock, txnVars>>
  BY DEF Prune, vars
<1>13. QED
  BY <1>3, <1>5, <1>6, <1>7, <1>9, <1>10, <1>11, <1>12
  DEF Next, EmitEnds, EmitSuppressed, EmitAppends

\* A row that stays as it is keeps its promise if its writer's lock and now() do.
LEMMA RowKept ==
  ASSUME SerialInv, NEW i \in Ids, row'[i] = row[i], clock' \in Nat, clock <= clock',
         row[i].state = "written" =>
           /\ start'[row[i].by] = start[row[i].by]
           /\ Guarded => lock'[row[i].call.key] = row[i].by
  PROVE  Recorded(i)' =>
           /\ row'[i].call \in Calls /\ row'[i].ts <= clock'
           /\ row'[i].state = "written" =>
                /\ row'[i].ts = start'[row'[i].by]
                /\ Guarded => lock'[row'[i].call.key] = row'[i].by
           /\ row'[i].state = "processed" => row'[i].ts <= row'[i].done
           /\ row'[i].state = "pruned" => row'[i].ts + PruneAge < clock'
<1>1. clock \in Nat /\ row[i].ts \in Nat
  BY Times DEF SerialInv, TypeInv
<1>2. QED
  BY <1>1 DEF SerialInv, RowInv, Recorded

LEMMA NextRowInv == SerialInv /\ [Next]_vars => RowInv'
<1> DEFINE Good(i) ==
             Recorded(i) =>
               /\ row[i].call \in Calls /\ row[i].ts <= clock
               /\ row[i].state = "written" =>
                    /\ row[i].ts = start[row[i].by]
                    /\ Guarded => lock[row[i].call.key] = row[i].by
               /\ row[i].state = "processed" => row[i].ts <= row[i].done
               /\ row[i].state = "pruned" => row[i].ts + PruneAge < clock
<1> SUFFICES ASSUME SerialInv, [Next]_vars, NEW i \in Ids PROVE Good(i)'
  BY DEF RowInv
<1> USE DEF SerialInv, TypeInv
<1>1. clock \in Nat /\ row[i].ts \in Nat /\ row[i].done \in Nat /\ row[i] \in Row
  BY Times DEF TypeOK
<1>2. Good(i)
  BY DEF RowInv
<1>3. row[i].state = "written" => row[i].by \in Txns /\ phase[row[i].by] \in {"open", "calling"}
  BY DEF TypeOK
<1>4. row[i].state = "written" /\ Guarded => lock[row[i].call.key] = row[i].by
  BY DEF RowInv, Recorded
<1>5. CASE row'[i] = row[i] /\ UNCHANGED <<lock, start>> /\ clock' \in Nat /\ clock <= clock'
  <2>1. row[i].state = "written" =>
          /\ start'[row[i].by] = start[row[i].by]
          /\ Guarded => lock'[row[i].call.key] = row[i].by
    BY <1>4, <1>5
  <2>2. QED
    BY <1>5, <2>1, RowKept
<1>6. CASE Tick
  BY <1>1, <1>5, <1>6 DEF Tick, txnVars
<1>7. ASSUME NEW t \in Txns, Begin(t) PROVE Good(i)'
  <2>1. row[i].state = "written" => row[i].by # t /\ start'[row[i].by] = start[row[i].by]
    BY <1>3, <1>7 DEF Begin, TypeOK
  <2>2. QED
    BY <1>1, <1>4, <1>7, <2>1, RowKept DEF Begin
<1>8. ASSUME NEW t \in Txns, NEW c \in Calls, Emit(t, c) PROVE Good(i)'
  BY <1>1, <1>5, <1>8 DEF Emit
<1>9. ASSUME NEW t \in Txns, EmitReturns(t), row'[i] = row[i] PROVE Good(i)'
  <2>1. ASSUME row[i].state = "written", Guarded PROVE lock'[row[i].call.key] = row[i].by
    <3>1. row[i].call \in Calls /\ lock[row[i].call.key] = row[i].by
      BY <1>2, <1>4, <2>1 DEF Recorded
    <3>2. row[i].call.key \in Keys /\ row[i].by # NoTxn
      BY <1>3, <2>1, <3>1 DEF Calls
    <3>3. call[t] \in Calls /\ LockFree(t, call[t].key) /\ lock' = [lock EXCEPT ![call[t].key] = t]
      BY <1>9, <2>1 DEF EmitReturns, CallInv
    <3>4. QED
      BY <3>1, <3>2, <3>3 DEF LockFree, TypeOK
  <2>2. UNCHANGED <<clock, start>>
    BY <1>9 DEF EmitReturns
  <2>3. QED
    BY <1>1, <1>9, <2>1, <2>2, RowKept
<1>10. ASSUME NEW t \in Txns, EmitAppends(t) PROVE Good(i)'
  <2> DEFINE new == [state |-> "written", by |-> t, ts |-> start[t], done |-> 0, call |-> call[t]]
  <2>1. PICK n \in Ids : row' = [row EXCEPT ![n] = new]
    BY <1>10 DEF EmitAppends
  <2>2. /\ EmitReturns(t) /\ call[t] \in Calls /\ call[t].key \in Keys
        /\ start[t] \in Nat /\ start[t] <= clock
    BY <1>10, Times DEF EmitAppends, EmitReturns, CallInv, ClockInv, Calls
  <2>3. CASE i # n
    BY <1>9, <2>1, <2>2, <2>3 DEF TypeOK
  <2>4. CASE i = n
    <3>1. row'[i] = new
      BY <2>1, <2>4 DEF TypeOK
    <3>2. UNCHANGED <<clock, start>> /\ (Guarded => lock'[call[t].key] = t)
      BY <2>2 DEF EmitReturns, TypeOK
    <3>3. QED
      BY <2>2, <3>1, <3>2
  <2>5. QED
    BY <2>3, <2>4
<1>11. ASSUME NEW t \in Txns, start' = [start EXCEPT ![t] = 0], clock' = clock,
              lock' = [k \in Keys |-> IF lock[k] = t THEN NoTxn ELSE lock[k]],
              row'[i] = row[i], row[i].state = "written" => row[i].by # t
       PROVE  Good(i)'
  <2>1. row[i].state = "written" => start'[row[i].by] = start[row[i].by]
    BY <1>3, <1>11 DEF TypeOK
  <2>2. row[i].state = "written" => row[i].call.key \in Keys
    BY <1>2 DEF Calls, Recorded
  <2>3. row[i].state = "written" /\ Guarded => lock'[row[i].call.key] = row[i].by
    BY <1>4, <1>11, <2>2
  <2>4. QED
    BY <1>1, <1>11, <2>1, <2>3, RowKept
<1>12. ASSUME NEW t \in Txns, Undone(t) PROVE Good(i)'
  <2>1. CASE row[i].state = "written" /\ row[i].by = t
    BY <1>12, <2>1 DEF Undone, Recorded, FreeRow
  <2>2. CASE ~(row[i].state = "written" /\ row[i].by = t)
    BY <1>11, <1>12, <2>2 DEF Undone
  <2>3. QED
    BY <2>1, <2>2
<1>13. ASSUME NEW t \in Txns, Commit(t) PROVE Good(i)'
  <2>1. CASE row[i].state = "written" /\ row[i].by = t
    <3>1. row'[i] = [row[i] EXCEPT !.state = "pending"] /\ clock' = clock
      BY <1>13, <2>1 DEF Commit
    <3>2. row'[i].state = "pending" /\ Same(i)
      BY <1>1, <3>1 DEF Row, Same
    <3>3. QED
      BY <1>2, <2>1, <3>1, <3>2 DEF Same, Recorded
  <2>2. CASE ~(row[i].state = "written" /\ row[i].by = t)
    BY <1>11, <1>13, <2>2 DEF Commit
  <2>3. QED
    BY <2>1, <2>2
<1>14. ASSUME NEW t \in Txns, EmitEnds(t) \/ EmitInvalid(t) \/ Rollback(t) PROVE Good(i)'
  BY <1>9, <1>10, <1>12, <1>14 DEF EmitEnds, EmitSuppressed, EmitDeadlocks, EmitInvalid, Rollback
<1>15. ASSUME NEW c \in Consumers, MarkProcessed(c) PROVE Good(i)'
  <2>1. UNCHANGED <<clock, lock, start>>
    BY <1>15 DEF MarkProcessed, txnVars
  <2>2. CASE row'[i] = row[i]
    BY <1>1, <1>5, <2>1, <2>2
  <2>3. CASE row'[i].state = "processed" /\ row'[i].done = clock /\ Recorded(i) /\ Same(i)
    BY <1>2, <2>1, <2>3 DEF Recorded, Same
  <2>4. QED
    BY <1>15, <2>2, <2>3, MarkedRow
<1>16. CASE Prune
  <2>1. UNCHANGED <<clock, lock, start>>
    BY <1>16 DEF Prune, txnVars
  <2>2. CASE row'[i] = row[i]
    BY <1>1, <1>5, <2>1, <2>2
  <2>3. CASE /\ row[i].state = "processed" /\ row[i].done + PruneAge < clock
             /\ row'[i] = [row[i] EXCEPT !.state = "pruned"]
    <3>1. row'[i].state = "pruned" /\ Same(i)
      BY <1>1, <2>3 DEF Row, Same
    <3>2. row[i].ts <= row[i].done
      BY <1>2, <2>3 DEF Recorded
    <3>3. row'[i].ts + PruneAge < clock'
      BY <1>1, <2>1, <2>3, <3>1, <3>2 DEF Same
    <3>4. QED
      BY <1>2, <2>1, <2>3, <3>1, <3>3 DEF Same, Recorded
  <2>4. QED
    BY <1>16, <2>2, <2>3 DEF Prune
<1>17. ASSUME NEW c \in Consumers, ConsumerStep(c) \/ ConsumerCrash(c) PROVE Good(i)'
  BY <1>1, <1>5, <1>15, <1>17
  DEF ConsumerStep, Connect, Drain, Deliver, DrainEnds, ConsumerCrash, txnVars
<1>18. CASE UNCHANGED vars
  BY <1>1, <1>5, <1>18 DEF vars, txnVars
<1>19. QED
  BY <1>6, <1>7, <1>8, <1>13, <1>14, <1>16, <1>17, <1>18 DEF Next

\* While t appends under the lock of its key, it sees every row of the key that
\* a guard may look back on: those it does not see are deleted, and too old.
LEMMA AppendSeesAll ==
  ASSUME SerialInv, NEW t \in Txns, EmitAppends(t), Guarded,
         NEW i \in Ids, Recorded(i), row[i].call.key = call[t].key,
         NEW window \in Nat, PruneAge >= MaxTxn + window,
         row[i].ts + window > start[t]
  PROVE  i \in Recent(t, call[t].key, window)
<1> USE DEF SerialInv, TypeInv
<1>1. clock \in Nat /\ start[t] \in Nat /\ row[i].ts \in Nat
  BY Times
<1>2. clock <= start[t] + MaxTxn /\ LockFree(t, call[t].key)
  BY DEF EmitAppends, EmitReturns, ClockInv
<1>3. row[i].state # "pruned"
  <2>1. row[i].state = "pruned" => row[i].ts + PruneAge < clock
    BY DEF RowInv
  <2>2. QED
    BY <1>1, <1>2, <2>1
<1>4. row[i].state = "written" => row[i].by = t
  <2>1. row[i].state = "written" => lock[call[t].key] = row[i].by /\ row[i].by # NoTxn
    BY DEF RowInv, TypeOK
  <2>2. QED
    BY <1>2, <2>1 DEF LockFree
<1>5. row[i].state \in {"written", "pending", "processed", "pruned"}
  BY DEF TypeOK, Row, Recorded
<1>6. QED
  BY <1>3, <1>4, <1>5 DEF Recent, Visible

LEMMA AppendKeepsPromises ==
  ASSUME GuardInv, NEW t \in Txns, EmitAppends(t)
  PROVE  RateInv' /\ DedupInv'
<1> USE DEF GuardInv, SerialInv, TypeInv
<1> DEFINE k == call[t].key
           new == [state |-> "written", by |-> t, ts |-> start[t], done |-> 0, call |-> call[t]]
<1>1. PICK n \in Ids : row[n].state = "free" /\ row' = [row EXCEPT ![n] = new]
  BY DEF EmitAppends
<1>2. /\ \A i \in Ids \ {n} : row'[i] = row[i]
      /\ row'[n].state = "written" /\ row'[n].ts = start[t] /\ row'[n].call = call[t]
  BY <1>1 DEF TypeOK
<1>3. /\ start[t] \in Nat
      /\ \A i \in Ids : row[i].ts \in Nat /\ row'[i].ts \in Nat
  BY <1>2, Times
<1>4. \A i \in Ids : Recorded(i)' <=> Recorded(i) \/ i = n
  BY <1>2 DEF Recorded
<1>5. ~Recorded(n)
  BY <1>1 DEF Recorded
<1>6. DedupInv'
  <2>1. CASE DedupWindow = 0
    BY <1>3, <2>1 DEF DedupInv
  <2>2. CASE DedupWindow > 0
    <3>1. ASSUME NEW i \in Ids, i # n, Recorded(i), row[i].call = call[t]
          PROVE  row[i].ts + DedupWindow <= start[t]
      <4>1. Guarded
        BY <2>2 DEF Guarded
      <4>2. row[i].ts + DedupWindow > start[t] => i \in Recent(t, k, DedupWindow)
        BY <3>1, <4>1, AppendSeesAll, RetentionAssumption
      <4>3. i \notin Recent(t, k, DedupWindow)
        BY <2>2, <3>1 DEF EmitAppends, Suppressed
      <4>4. QED
        BY <1>3, <3>1, <4>2, <4>3, Numbers
    <3>2. QED
      BY <1>2, <1>4, <3>1 DEF DedupInv
  <2>3. QED
    BY <2>1, <2>2
<1>7. ASSUME MaxPerMinute > 0, NEW i \in Ids, Recorded(i)'
      PROVE  Cardinality(Before(i)') <= MaxPerMinute
  <2> DEFINE R == Recent(t, k, Minute)
  <2>1. /\ IsFiniteSet(R) /\ IsFiniteSet(Before(i)) /\ IsFiniteSet(Before(i)')
        /\ Cardinality(R) \in Nat /\ Cardinality(Before(i)') \in Nat
    <3>1. R \subseteq Ids /\ Before(i) \subseteq Ids /\ Before(i)' \subseteq Ids
      BY DEF Recent, Visible, Before
    <3>2. QED
      BY <3>1, FS_Subset, FS_CardinalityType
  <2>2. Guarded /\ Cardinality(R) < MaxPerMinute
    BY <1>7, <2>1 DEF EmitAppends, Suppressed, Guarded
  <2>3. CASE n \notin Before(i)'
    <3>1. i # n
      <4>1. row'[n].ts <= row'[n].ts /\ row'[n].ts + Minute > row'[n].ts
        BY <1>3, Numbers
      <4>2. QED
        BY <1>4, <2>3, <4>1 DEF Before
    <3>2. Before(i)' \subseteq Before(i)
      BY <1>2, <1>4, <2>3, <3>1 DEF Before
    <3>3. Cardinality(Before(i)) <= MaxPerMinute
      BY <1>4, <1>7, <3>1 DEF RateInv
    <3>4. QED
      BY <2>1, <3>2, <3>3, FS_Subset, FS_CardinalityType
  <2>4. CASE n \in Before(i)'
    <3>1. row'[i].call.key = k /\ start[t] <= row'[i].ts
      BY <1>2, <2>4 DEF Before
    <3>2. Before(i)' \subseteq R \cup {n}
      <4> SUFFICES ASSUME NEW j \in Before(i)', j # n PROVE j \in R
        OBVIOUS
      <4>1. /\ j \in Ids /\ Recorded(j) /\ row[j].call.key = k
            /\ row[j].ts + Minute > row'[i].ts
        BY <1>2, <1>4, <3>1 DEF Before
      <4>2. row[j].ts + Minute > start[t]
        BY <1>3, <3>1, <4>1
      <4>3. QED
        BY <2>2, <4>1, <4>2, AppendSeesAll, RetentionAssumption
    <3>3. /\ IsFiniteSet(R \cup {n})
          /\ Cardinality(R \cup {n}) \in Nat /\ Cardinality(R \cup {n}) <= Cardinality(R) + 1
      <4>1. /\ IsFiniteSet(R \cup {n})
            /\ Cardinality(R \cup {n}) = IF n \in R THEN Cardinality(R) ELSE Cardinality(R) + 1
        BY <2>1, FS_AddElement
      <4> HIDE DEF R
      <4>2. QED
        BY <2>1, <4>1
    <3>4. Cardinality(Before(i)') <= Cardinality(R \cup {n})
      BY <3>2, <3>3, FS_Subset
    <3>5. QED
      BY <2>1, <2>2, <3>3, <3>4
  <2>5. QED
    BY <2>3, <2>4
<1>8. QED
  BY <1>6, <1>7 DEF RateInv

LEMMA AlwaysGuardInv == Spec => []GuardInv
<1>1. ASSUME GuardInv, [Next]_vars PROVE GuardInv'
  <2>1. SerialInv'
    BY <1>1, NextTypeInv, NextClockInv, NextRowInv DEF GuardInv, SerialInv
  <2>2. RateInv' /\ DedupInv'
    BY <1>1, OthersAppendNothing, PromisesKept, AppendKeepsPromises DEF GuardInv
  <2>3. QED
    BY <2>1, <2>2 DEF GuardInv
<1>2. QED
  BY <1>1, InitGuardInv, PTL DEF Spec

\* The rate cap holds for the committed rows of a key, whatever their order,
\* however transactions overlap, roll back and deadlock, and though rows are
\* pruned: in a minute that ends with one of them at most MaxPerMinute begin.
THEOREM RateIsCapped == Spec => []RateCap
<1>1. ASSUME GuardInv PROVE RateCap
  <2>1. SUFFICES ASSUME MaxPerMinute > 0, NEW i \in Ids, Committed(i)
                 PROVE  Cardinality({j \in Ids : /\ Committed(j)
                                                 /\ row[j].call.key = row[i].call.key
                                                 /\ row[j].ts <= row[i].ts
                                                 /\ row[j].ts + Minute > row[i].ts}) <= MaxPerMinute
    BY DEF RateCap
  <2> DEFINE C == {j \in Ids : /\ Committed(j)
                               /\ row[j].call.key = row[i].call.key
                               /\ row[j].ts <= row[i].ts
                               /\ row[j].ts + Minute > row[i].ts}
  <2>2. C \subseteq Before(i) /\ Before(i) \subseteq Ids /\ Recorded(i)
    BY <2>1 DEF Before, Committed, Recorded
  <2>3. Cardinality(Before(i)) <= MaxPerMinute
    BY <1>1, <2>1, <2>2 DEF GuardInv, RateInv
  <2>4. IsFiniteSet(Before(i))
    BY <2>2, FS_Subset
  <2>5. Cardinality(C) <= Cardinality(Before(i)) /\ Cardinality(C) \in Nat /\ Cardinality(Before(i)) \in Nat
    BY <2>2, <2>4, FS_Subset, FS_CardinalityType
  <2>6. Cardinality(C) <= MaxPerMinute
    BY <2>3, <2>5
  <2>7. QED
    BY <2>6
<1>2. QED
  BY <1>1, AlwaysGuardInv, PTL

\* No two committed rows with one key and payload are less than the dedup
\* window apart.
THEOREM NoDuplicates == Spec => []NoDuplicateInWindow
<1>1. ASSUME GuardInv PROVE NoDuplicateInWindow
  <2>1. \A i \in Ids : row[i].ts \in Nat
    BY <1>1, Times DEF GuardInv, SerialInv, TypeInv
  <2>2. \A i \in Ids : Committed(i) => Recorded(i)
    BY DEF Committed, Recorded
  <2>3. ASSUME NEW i \in Ids, NEW j \in Ids, i # j, Committed(i), Committed(j),
               row[i].call = row[j].call, row[i].ts <= row[j].ts
        PROVE  row[i].ts + DedupWindow <= row[j].ts
    <3>1. row[i].ts + DedupWindow <= row[j].ts \/ row[j].ts + DedupWindow <= row[i].ts
      BY <1>1, <2>2, <2>3 DEF GuardInv, DedupInv
    <3>2. QED
      BY <2>1, <2>3, <3>1, Numbers
  <2>4. QED
    BY <2>3 DEF NoDuplicateInWindow
<1>2. QED
  BY <1>1, AlwaysGuardInv, PTL
=============================================================================
