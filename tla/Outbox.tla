-------------------------------- MODULE Outbox --------------------------------
(***************************************************************************)
(* The event outbox of pg_ask: ask.emit() appends a row to ask._outbox in  *)
(* the caller's transaction and notifies listeners at its commit; flood    *)
(* guards (a rate cap and a dedup window) suppress the append; an external *)
(* consumer delivers pending rows and stamps them; ask.prune_events()      *)
(* deletes stamped rows.                                                   *)
(*                                                                         *)
(* ts is now(), the start of the emitting transaction, and so is the now() *)
(* of the guards: rows with later stamps may be there first.  Two guarded  *)
(* emits of a key (emitter, event) are serialized by a transaction-scoped  *)
(* advisory lock.  Events are enabled; while they are not, emit does       *)
(* nothing.  The consumer is external code that follows the protocol the   *)
(* repository documents: LISTEN, drain, stamp, drain again when notified.  *)
(***************************************************************************)
EXTENDS Naturals, FiniteSets

CONSTANTS
  Txns,          \* backends that run transactions with emits, one at a time
  Consumers,     \* connections that drain the outbox
  Ids,           \* rows there is room for (bound)
  Keys,          \* pairs (emitter, event)
  Payloads,
  NoTxn, NoId, NoCall,
  BadCall,       \* an emit that does not pass validation
  MaxPerMinute,  \* pg_ask.events_max_per_minute, 0 = off
  Minute,        \* one minute, in ticks
  DedupWindow,   \* pg_ask.events_dedup_window_ms in ticks, 0 = off
  PruneAge,      \* the older_than the operator prunes with, in ticks
  MaxTxn,        \* the longest a transaction lasts, in ticks
  MaxTime,       \* bound: the clock
  MaxFaults      \* bound: consumer crashes

Calls == [key : Keys, payload : Payloads]

ASSUME OutboxAssumption ==
  /\ Ids \subseteq Nat /\ IsFiniteSet(Ids)
  /\ IsFiniteSet(Consumers)
  /\ NoTxn \notin Txns
  /\ NoId \notin Ids
  /\ NoCall \notin Calls
  /\ BadCall \notin Calls
  /\ NoCall # BadCall
  /\ {MaxPerMinute, Minute, DedupWindow, PruneAge, MaxTxn, MaxTime, MaxFaults} \subseteq Nat
  /\ Minute > 0

\* The operator keeps delivered rows for as long as a guard of the longest
\* transaction may look back.
ASSUME RetentionAssumption ==
  PruneAge >= MaxTxn + Minute /\ PruneAge >= MaxTxn + DedupWindow

VARIABLES
  clock,      \* now, in ticks
  row,        \* ask._outbox, the rows not committed yet and the deleted ones included
  lock,       \* which transaction holds the advisory lock of a key
  phase,      \* where each transaction is
  call,       \* the emit it is in
  start,      \* its now(), 0 while it has none
  pos,        \* where each consumer is
  todo,       \* the ids it has read and not stamped
  hand,       \* the id it has delivered and not stamped
  woken,      \* it has a notification to act on
  delivered,  \* ids that were delivered at least once
  fresh,      \* how many stamps of an id returned true
  faults

txnVars == <<lock, phase, call, start>>
consumerVars == <<pos, todo, hand, woken, delivered, fresh, faults>>
vars == <<clock, row, txnVars, consumerVars>>

Row == [state : {"free", "written", "pending", "processed", "pruned"},
        by : Txns \cup {NoTxn}, ts : 0 .. MaxTime, done : 0 .. MaxTime,
        call : Calls \cup {NoCall}]

FreeRow == [state |-> "free", by |-> NoTxn, ts |-> 0, done |-> 0, call |-> NoCall]

Committed(i) == row[i].state \in {"pending", "processed", "pruned"}

\* The type invariant; a written row belongs to a transaction that is open.
TypeOK ==
  /\ clock \in 0 .. MaxTime
  /\ row \in [Ids -> Row]
  /\ \A i \in Ids : row[i].state = "written" =>
       row[i].by \in Txns /\ phase[row[i].by] \in {"open", "calling"}
  /\ lock \in [Keys -> Txns \cup {NoTxn}]
  /\ phase \in [Txns -> {"idle", "open", "calling", "failed"}]
  /\ call \in [Txns -> Calls \cup {NoCall, BadCall}]
  /\ start \in [Txns -> 0 .. MaxTime]
  /\ pos \in [Consumers -> {"offline", "listening", "draining"}]
  /\ todo \in [Consumers -> SUBSET Ids]
  /\ hand \in [Consumers -> Ids \cup {NoId}]
  /\ woken \in [Consumers -> BOOLEAN]
  /\ delivered \subseteq Ids
  /\ fresh \in [Ids -> 0 .. Cardinality(Consumers)]
  /\ faults \in 0 .. MaxFaults

Init ==
  /\ clock = 0
  /\ row = [i \in Ids |-> FreeRow]
  /\ lock = [k \in Keys |-> NoTxn]
  /\ phase = [t \in Txns |-> "idle"]
  /\ call = [t \in Txns |-> NoCall]
  /\ start = [t \in Txns |-> 0]
  /\ pos = [c \in Consumers |-> "offline"]
  /\ todo = [c \in Consumers |-> {}]
  /\ hand = [c \in Consumers |-> NoId]
  /\ woken = [c \in Consumers |-> FALSE]
  /\ delivered = {}
  /\ fresh = [i \in Ids |-> 0]
  /\ faults = 0

\* Time passes, but no transaction outlasts MaxTxn.
Tick ==
  /\ clock < MaxTime
  /\ \A t \in Txns : phase[t] \in {"open", "calling"} => clock - start[t] < MaxTxn
  /\ clock' = clock + 1
  /\ UNCHANGED <<row, txnVars, consumerVars>>

-----------------------------------------------------------------------------
(* Emitting. *)

Begin(t) ==
  /\ phase[t] = "idle"
  /\ phase' = [phase EXCEPT ![t] = "open"]
  /\ start' = [start EXCEPT ![t] = clock]
  /\ UNCHANGED <<clock, row, lock, call, consumerVars>>

\* Mutant: a statement of t does not see what t itself has written.
VisibleCommitted(t) ==
  {i \in Ids : row[i].state \in {"pending", "processed"}}

\* The rows a statement of t sees: the committed ones, under a snapshot that
\* READ COMMITTED takes anew for each statement, and those t has written.
Visible(t) ==
  {i \in Ids : \/ row[i].state \in {"pending", "processed"}
               \/ row[i].state = "written" /\ row[i].by = t}

\* The rows of key k among them that are less than window old.
Recent(t, k, window) ==
  {i \in Visible(t) : row[i].call.key = k /\ row[i].ts + window > start[t]}

Guarded == MaxPerMinute > 0 \/ DedupWindow > 0

Suppressed(t, c) ==
  \/ /\ DedupWindow > 0
     /\ \E i \in Recent(t, c.key, DedupWindow) : row[i].call.payload = c.payload
  \/ /\ MaxPerMinute > 0
     /\ Cardinality(Recent(t, c.key, Minute)) >= MaxPerMinute

\* The call passes validation and arrives at the advisory lock.  It is made
\* only while there is room for its row (bound Ids).
Emit(t, c) ==
  /\ phase[t] = "open"
  /\ Cardinality({i \in Ids : row[i].state = "free"})
       > Cardinality({u \in Txns : phase[u] = "calling"})
  /\ phase' = [phase EXCEPT ![t] = "calling"]
  /\ call' = [call EXCEPT ![t] = c]
  /\ UNCHANGED <<clock, row, lock, start, consumerVars>>

\* Mutant: the guards are checked without the lock.
LockIgnored(t, k) == TRUE

LockFree(t, k) == lock[k] \in {NoTxn, t}

\* t gets the lock, if a guard is on, and the call returns.
EmitReturns(t) ==
  /\ phase[t] = "calling"
  /\ Guarded => LockFree(t, call[t].key)
  /\ lock' = IF Guarded THEN [lock EXCEPT ![call[t].key] = t] ELSE lock
  /\ phase' = [phase EXCEPT ![t] = "open"]
  /\ call' = [call EXCEPT ![t] = NoCall]
  /\ UNCHANGED <<clock, start, consumerVars>>

EmitSuppressed(t) ==
  /\ EmitReturns(t)
  /\ Suppressed(t, call[t])
  /\ UNCHANGED row

EmitAppends(t) ==
  /\ EmitReturns(t)
  /\ ~Suppressed(t, call[t])
  /\ \E i \in Ids :
       /\ row[i].state = "free"
       /\ \A j \in Ids : row[j].state = "free" => i <= j
       /\ row' = [row EXCEPT ![i] =
            [state |-> "written", by |-> t, ts |-> start[t], done |-> 0, call |-> call[t]]]

\* Mutant: the locks are released and the rows stay.
UndoneHalf(t) ==
  /\ lock' = [k \in Keys |-> IF lock[k] = t THEN NoTxn ELSE lock[k]]
  /\ start' = [start EXCEPT ![t] = 0]
  /\ UNCHANGED <<clock, row, consumerVars>>

\* The transaction is undone and its locks are released.
Undone(t) ==
  /\ row' = [i \in Ids |-> IF row[i].state = "written" /\ row[i].by = t
                           THEN FreeRow ELSE row[i]]
  /\ lock' = [k \in Keys |-> IF lock[k] = t THEN NoTxn ELSE lock[k]]
  /\ start' = [start EXCEPT ![t] = 0]
  /\ UNCHANGED <<clock, consumerVars>>

\* Validation raises.
EmitInvalid(t) ==
  /\ phase[t] = "open"
  /\ phase' = [phase EXCEPT ![t] = "failed"]
  /\ call' = [call EXCEPT ![t] = BadCall]
  /\ Undone(t)

\* PostgreSQL finds t in a cycle of transactions that wait for each other's
\* advisory locks and raises an ERROR in it.
Deadlocked(t) ==
  \E S \in SUBSET Txns :
    /\ t \in S
    /\ \A u \in S : phase[u] = "calling" /\ lock[call[u].key] \in S \ {u}

EmitDeadlocks(t) ==
  /\ Guarded
  /\ Deadlocked(t)
  /\ phase' = [phase EXCEPT ![t] = "failed"]
  /\ Undone(t)
  /\ UNCHANGED call

\* Mutant: the row is appended and nobody is notified.
CommitQuietly(t) ==
  /\ phase[t] = "open"
  /\ phase' = [phase EXCEPT ![t] = "idle"]
  /\ row' = [i \in Ids |-> IF row[i].state = "written" /\ row[i].by = t
                           THEN [row[i] EXCEPT !.state = "pending"] ELSE row[i]]
  /\ lock' = [k \in Keys |-> IF lock[k] = t THEN NoTxn ELSE lock[k]]
  /\ start' = [start EXCEPT ![t] = 0]
  /\ UNCHANGED <<clock, call, consumerVars>>

\* The rows become visible and the listeners are notified.
Commit(t) ==
  /\ phase[t] = "open"
  /\ phase' = [phase EXCEPT ![t] = "idle"]
  /\ row' = [i \in Ids |-> IF row[i].state = "written" /\ row[i].by = t
                           THEN [row[i] EXCEPT !.state = "pending"] ELSE row[i]]
  /\ lock' = [k \in Keys |-> IF lock[k] = t THEN NoTxn ELSE lock[k]]
  /\ woken' = [c \in Consumers |->
       \/ woken[c]
       \/ pos[c] # "offline" /\ \E i \in Ids : row[i].state = "written" /\ row[i].by = t]
  /\ start' = [start EXCEPT ![t] = 0]
  /\ UNCHANGED <<clock, call, pos, todo, hand, delivered, fresh, faults>>

\* The caller gives up, perhaps while it waits for the lock.
Rollback(t) ==
  /\ phase[t] # "idle"
  /\ phase' = [phase EXCEPT ![t] = "idle"]
  /\ call' = [call EXCEPT ![t] = NoCall]
  /\ Undone(t)

-----------------------------------------------------------------------------
(* Consuming and pruning. *)

\* LISTEN; the backlog is drained on every connection.
Connect(c) ==
  /\ pos[c] = "offline"
  /\ pos' = [pos EXCEPT ![c] = "listening"]
  /\ woken' = [woken EXCEPT ![c] = TRUE]
  /\ UNCHANGED <<clock, row, txnVars, todo, hand, delivered, fresh, faults>>

\* Notified: read the pending rows.
Drain(c) ==
  /\ pos[c] = "listening"
  /\ woken[c]
  /\ pos' = [pos EXCEPT ![c] = "draining"]
  /\ todo' = [todo EXCEPT ![c] = {i \in Ids : row[i].state = "pending"}]
  /\ woken' = [woken EXCEPT ![c] = FALSE]
  /\ UNCHANGED <<clock, row, txnVars, hand, delivered, fresh, faults>>

\* The oldest row read is routed onward.
Deliver(c) ==
  /\ pos[c] = "draining"
  /\ hand[c] = NoId
  /\ \E i \in todo[c] :
       /\ \A j \in todo[c] : row[i].ts <= row[j].ts
       /\ hand' = [hand EXCEPT ![c] = i]
       /\ delivered' = delivered \cup {i}
  /\ UNCHANGED <<clock, row, txnVars, pos, todo, woken, fresh, faults>>

\* Mutant: the stamp does not look whether the row is stamped already.
MarkAlways(c) ==
  LET i == hand[c] IN
  /\ i # NoId
  /\ row' = [row EXCEPT ![i] = [@ EXCEPT !.state = "processed", !.done = clock]]
  /\ fresh' = [fresh EXCEPT ![i] = @ + 1]
  /\ hand' = [hand EXCEPT ![c] = NoId]
  /\ todo' = [todo EXCEPT ![c] = @ \ {i}]
  /\ UNCHANGED <<clock, txnVars, pos, woken, delivered, faults>>

\* _outbox_mark_processed: true for the stamp that finds the row pending.
MarkProcessed(c) ==
  LET i == hand[c] IN
  /\ i # NoId
  /\ IF row[i].state = "pending"
     THEN /\ row' = [row EXCEPT ![i] = [@ EXCEPT !.state = "processed", !.done = clock]]
          /\ fresh' = [fresh EXCEPT ![i] = @ + 1]
     ELSE UNCHANGED <<row, fresh>>
  /\ hand' = [hand EXCEPT ![c] = NoId]
  /\ todo' = [todo EXCEPT ![c] = @ \ {i}]
  /\ UNCHANGED <<clock, txnVars, pos, woken, delivered, faults>>

DrainEnds(c) ==
  /\ pos[c] = "draining"
  /\ todo[c] = {}
  /\ pos' = [pos EXCEPT ![c] = "listening"]
  /\ UNCHANGED <<clock, row, txnVars, todo, hand, woken, delivered, fresh, faults>>

\* The connection is lost, perhaps between a delivery and its stamp.
ConsumerCrash(c) ==
  /\ pos[c] # "offline"
  /\ faults < MaxFaults
  /\ faults' = faults + 1
  /\ pos' = [pos EXCEPT ![c] = "offline"]
  /\ todo' = [todo EXCEPT ![c] = {}]
  /\ hand' = [hand EXCEPT ![c] = NoId]
  /\ woken' = [woken EXCEPT ![c] = FALSE]
  /\ UNCHANGED <<clock, row, txnVars, delivered, fresh>>

\* Mutant: the age is that of the event, delivered or not.
PruneByAge ==
  LET old == {i \in Ids : row[i].state \in {"pending", "processed"}
                            /\ row[i].ts + PruneAge < clock}
  IN  /\ old # {}
      /\ row' = [i \in Ids |-> IF i \in old THEN [row[i] EXCEPT !.state = "pruned"] ELSE row[i]]
      /\ UNCHANGED <<clock, txnVars, consumerVars>>

\* Mutant: older_than is left out.
PruneSoon ==
  LET old == {i \in Ids : row[i].state = "processed"}
  IN  /\ old # {}
      /\ row' = [i \in Ids |-> IF i \in old THEN [row[i] EXCEPT !.state = "pruned"] ELSE row[i]]
      /\ UNCHANGED <<clock, txnVars, consumerVars>>

\* _outbox_prune: all batches, in one transaction.
Prune ==
  LET old == {i \in Ids : row[i].state = "processed" /\ row[i].done + PruneAge < clock}
  IN  /\ old # {}
      /\ row' = [i \in Ids |-> IF i \in old THEN [row[i] EXCEPT !.state = "pruned"] ELSE row[i]]
      /\ UNCHANGED <<clock, txnVars, consumerVars>>

-----------------------------------------------------------------------------
EmitEnds(t) ==
  \/ EmitSuppressed(t)
  \/ EmitAppends(t)
  \/ EmitDeadlocks(t)

ConsumerStep(c) ==
  \/ Connect(c)
  \/ Drain(c)
  \/ Deliver(c)
  \/ MarkProcessed(c)
  \/ DrainEnds(c)

Next ==
  \/ Tick
  \/ \E t \in Txns : \/ Begin(t)
                     \/ \E c \in Calls : Emit(t, c)
                     \/ EmitEnds(t)
                     \/ EmitInvalid(t)
                     \/ Commit(t)
                     \/ Rollback(t)
  \/ \E c \in Consumers : ConsumerStep(c) \/ ConsumerCrash(c)
  \/ Prune

Spec == Init /\ [][Next]_vars

\* A consumer reconnects and keeps draining.  Nobody has to emit or to commit.
FairSpec == Spec /\ \A c \in Consumers : WF_vars(ConsumerStep(c))

-----------------------------------------------------------------------------
(* Properties. *)

\* The rate cap: among the rows ever committed, those a minute may look back on
\* from any of them are at most MaxPerMinute, in whatever order overlapping
\* transactions emitted and committed them, and although rows are pruned.
RateCap ==
  MaxPerMinute > 0 =>
    \A i \in Ids : Committed(i) =>
      Cardinality({j \in Ids : /\ Committed(j)
                               /\ row[j].call.key = row[i].call.key
                               /\ row[j].ts <= row[i].ts
                               /\ row[j].ts + Minute > row[i].ts}) <= MaxPerMinute

\* The dedup window: two rows ever committed with the same key and payload are
\* at least the window apart.
NoDuplicateInWindow ==
  \A i, j \in Ids :
    i # j /\ Committed(i) /\ Committed(j) /\ row[i].call = row[j].call
      /\ row[i].ts <= row[j].ts
        => row[i].ts + DedupWindow <= row[j].ts

\* No event is lost: a row is stamped, and deleted, only after it was delivered.
DeliveredBeforePruned ==
  \A i \in Ids : row[i].state \in {"processed", "pruned"} => i \in delivered

\* At most one stamp of a row tells its consumer that the delivery was fresh,
\* however many consumers race for it.
OneFreshDelivery == \A i \in Ids : fresh[i] <= 1

\* Every committed event is eventually delivered and stamped: a notification
\* missed while the consumer is offline is made up for by the backlog.
EveryEventDelivered ==
  \A i \in Ids : row[i].state = "pending" ~> row[i].state \in {"processed", "pruned"}
==============================================================================
