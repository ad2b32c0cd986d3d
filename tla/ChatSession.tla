------------------------------ MODULE ChatSession ------------------------------
(***************************************************************************)
(* One chat session: ask.chat() and ask.clear_session() of several         *)
(* transactions over the rows of ask._messages.                            *)
(*                                                                         *)
(* A chat loads the history, runs the agent, which may take minutes, and   *)
(* then appends its turn message by message under an advisory lock that is *)
(* kept to the end of the transaction.  Clearing takes no such lock, but   *)
(* the row locks of what it deletes.  Transactions are READ COMMITTED: a   *)
(* statement sees the committed rows and those of its own transaction.     *)
(***************************************************************************)
EXTENDS Integers, FiniteSets, Sequences

CONSTANTS
  Txns,     \* transactions of the session's owner
  NoTxn,
  TurnLen,  \* messages in a turn
  MaxTurns  \* bound: turns the agent completes

ASSUME ChatAssumption ==
  /\ NoTxn \notin Txns
  /\ TurnLen \in Nat \ {0}
  /\ MaxTurns \in Nat

VARIABLES
  table,   \* committed rows
  ins,     \* rows a transaction inserted
  del,     \* rows a transaction deleted
  phase,   \* where a transaction is
  prior,   \* the history its chat runs with
  target,  \* the rows its clear_session found
  turn,    \* the turn it appends
  part,    \* messages of that turn it has appended
  lock,    \* holder of the session's advisory lock
  turns    \* turns completed so far

vars == <<table, ins, del, phase, prior, target, turn, part, lock, turns>>
dbVars == <<table, ins, del, lock>>

Rows == [idx : Nat, turn : 1 .. MaxTurns, part : 1 .. TurnLen]

\* The type invariant; a transaction that is over keeps nothing.
TypeOK ==
  /\ table \subseteq Rows
  /\ ins \in [Txns -> SUBSET Rows]
  /\ del \in [Txns -> SUBSET table]
  /\ phase \in [Txns -> {"none", "open", "agent", "lock", "append", "clear"}]
  /\ prior \in [Txns -> SUBSET Rows]
  /\ target \in [Txns -> SUBSET Rows]
  /\ turn \in [Txns -> 0 .. MaxTurns]
  /\ part \in [Txns -> 0 .. TurnLen]
  /\ lock \in Txns \cup {NoTxn}
  /\ turns \in 0 .. MaxTurns
  /\ \A t \in Txns :
       /\ phase[t] = "none" => ins[t] = {} /\ del[t] = {} /\ lock # t
       /\ phase[t] = "append" => lock = t /\ part[t] < TurnLen

Init ==
  /\ table = {}
  /\ ins = [t \in Txns |-> {}]
  /\ del = [t \in Txns |-> {}]
  /\ phase = [t \in Txns |-> "none"]
  /\ prior = [t \in Txns |-> {}]
  /\ target = [t \in Txns |-> {}]
  /\ turn = [t \in Txns |-> 0]
  /\ part = [t \in Txns |-> 0]
  /\ lock = NoTxn
  /\ turns = 0

\* What a statement of t sees.
Visible(t) == (table \ del[t]) \cup ins[t]

Goes(t, from, to) == phase[t] = from /\ phase' = [phase EXCEPT ![t] = to]

Begin(t) ==
  /\ Goes(t, "none", "open")
  /\ UNCHANGED <<dbVars, prior, target, turn, part, turns>>

-----------------------------------------------------------------------------
(* ask.chat() *)

\* load_history
ChatBegin(t) ==
  /\ Goes(t, "open", "agent")
  /\ prior' = [prior EXCEPT ![t] = Visible(t)]
  /\ UNCHANGED <<dbVars, target, turn, part, turns>>

\* run_with_cfg returns new_turns.
AgentReturns(t) ==
  /\ turns < MaxTurns
  /\ Goes(t, "agent", "lock")
  /\ turns' = turns + 1
  /\ turn' = [turn EXCEPT ![t] = turns + 1]
  /\ prior' = [prior EXCEPT ![t] = {}]
  /\ UNCHANGED <<dbVars, target, part>>

\* Mutant: chats append without the advisory lock.
AppendUnlocked(t) ==
  /\ Goes(t, "lock", "append")
  /\ lock' = t
  /\ UNCHANGED <<table, ins, del, prior, target, turn, part, turns>>

\* _session_lock_for_append
AppendLock(t) ==
  /\ lock \in {NoTxn, t}
  /\ Goes(t, "lock", "append")
  /\ lock' = t
  /\ UNCHANGED <<table, ins, del, prior, target, turn, part, turns>>

\* Mutant: the index is the first that is free.
FreeIdx(t) ==
  CHOOSE i \in 0 .. TurnLen * MaxTurns :
    /\ \A r \in Visible(t) : r.idx # i
    /\ \A j \in 0 .. i - 1 : \E r \in Visible(t) : r.idx = j

\* COALESCE(MAX(idx), -1) + 1
NextIdx(t) ==
  CHOOSE i \in {0} \cup {r.idx + 1 : r \in Visible(t)} :
    \A r \in Visible(t) : r.idx < i

NextRow(t) == [idx |-> NextIdx(t), turn |-> turn[t], part |-> part[t] + 1]

\* The loop of store::append goes on, or the chat returns.
Appended(t) ==
  IF part[t] + 1 < TurnLen
  THEN part' = [part EXCEPT ![t] = @ + 1] /\ UNCHANGED <<phase, turn>>
  ELSE /\ Goes(t, "append", "open")
       /\ part' = [part EXCEPT ![t] = 0]
       /\ turn' = [turn EXCEPT ![t] = 0]

\* Mutant: each message is committed by itself.
AppendCommitted(t) ==
  /\ phase[t] = "append"
  /\ table' = table \cup {NextRow(t)}
  /\ Appended(t)
  /\ UNCHANGED <<ins, del, lock, prior, target, turns>>

\* _session_append_message
AppendMessage(t) ==
  /\ phase[t] = "append"
  /\ ins' = [ins EXCEPT ![t] = @ \cup {NextRow(t)}]
  /\ Appended(t)
  /\ UNCHANGED <<table, del, lock, prior, target, turns>>

-----------------------------------------------------------------------------
(* ask.clear_session() *)

\* The DELETE finds its rows ...
ClearBegin(t) ==
  /\ Goes(t, "open", "clear")
  /\ target' = [target EXCEPT ![t] = Visible(t)]
  /\ UNCHANGED <<dbVars, prior, turn, part, turns>>

\* ... waits while another transaction has deleted one of them, and takes those
\* that are left.
ClearEnd(t) ==
  /\ \A u \in Txns \ {t} : target[t] \cap del[u] = {}
  /\ Goes(t, "clear", "open")
  /\ del' = [del EXCEPT ![t] = @ \cup (target[t] \cap table)]
  /\ ins' = [ins EXCEPT ![t] = @ \ target[t]]
  /\ target' = [target EXCEPT ![t] = {}]
  /\ UNCHANGED <<table, lock, prior, turn, part, turns>>

-----------------------------------------------------------------------------
(* The end of a transaction. *)

\* Mutant: the advisory lock is not released.
OverLocked(t) ==
  /\ phase' = [phase EXCEPT ![t] = "none"]
  /\ ins' = [ins EXCEPT ![t] = {}]
  /\ del' = [del EXCEPT ![t] = {}]
  /\ prior' = [prior EXCEPT ![t] = {}]
  /\ target' = [target EXCEPT ![t] = {}]
  /\ turn' = [turn EXCEPT ![t] = 0]
  /\ part' = [part EXCEPT ![t] = 0]
  /\ UNCHANGED <<lock, turns>>

Over(t) ==
  /\ phase' = [phase EXCEPT ![t] = "none"]
  /\ ins' = [ins EXCEPT ![t] = {}]
  /\ del' = [del EXCEPT ![t] = {}]
  /\ prior' = [prior EXCEPT ![t] = {}]
  /\ target' = [target EXCEPT ![t] = {}]
  /\ turn' = [turn EXCEPT ![t] = 0]
  /\ part' = [part EXCEPT ![t] = 0]
  /\ lock' = IF lock = t THEN NoTxn ELSE lock
  /\ UNCHANGED turns

Commit(t) ==
  /\ phase[t] = "open"
  /\ table' = Visible(t)
  /\ Over(t)

\* A rollback, a crash, a cancel, or an ERROR.
Abort(t) ==
  /\ phase[t] # "none"
  /\ Over(t)
  /\ UNCHANGED table

\* An Err of the agent is raised as an ERROR.
AgentFails(t) == phase[t] = "agent" /\ Abort(t)

WaitsFor(t, u) ==
  /\ t # u
  /\ \/ phase[t] = "lock" /\ lock = u
     \/ phase[t] = "clear" /\ target[t] \cap del[u] # {}

\* Mutant: nobody looks for deadlocks.
NeverDeadlocked(t) == FALSE

\* t is in a circle of transactions that wait for each other.
Deadlocked(t) ==
  \E circle \in SUBSET Txns :
    /\ t \in circle
    /\ \A u \in circle :
         \E v, w \in circle : WaitsFor(u, v) /\ WaitsFor(w, u)

\* PostgreSQL raises in one of them.
DeadlockRaises(t) == Deadlocked(t) /\ Abort(t)

-----------------------------------------------------------------------------
TxnStep(t) ==
  \/ AgentReturns(t)
  \/ AgentFails(t)
  \/ AppendMessage(t)
  \/ DeadlockRaises(t)

LockStep(t) == AppendLock(t) \/ ClearEnd(t)

Next ==
  \E t \in Txns :
    \/ Begin(t)
    \/ ChatBegin(t)
    \/ ClearBegin(t)
    \/ LockStep(t)
    \/ TxnStep(t)
    \/ Commit(t)
    \/ Abort(t)

Spec == Init /\ [][Next]_vars

\* The agent ends, a deadlock is found, locks are granted in the order they are
\* asked for, and a transaction does not go on making calls for ever.
FairSpec ==
  /\ Spec
  /\ \A t \in Txns :
       /\ WF_vars(TxnStep(t))
       /\ SF_vars(LockStep(t))
       /\ SF_vars(Commit(t))

-----------------------------------------------------------------------------
(* Properties. *)

\* No append meets a row with its index that another transaction, committed or
\* not, has there: the primary key (session_id, idx) neither raises nor blocks.
NoKeyClash ==
  \A t \in Txns : \A mine \in ins[t] :
    /\ \A r \in table \ del[t] : r.idx # mine.idx
    /\ \A u \in Txns \ {t} : \A r \in ins[u] : r.idx # mine.idx

\* Chats, clears and crashes leave whole turns in the session, each of them in
\* one piece, and so does the history a chat hands to the agent consist of whole
\* turns: a tool call is never without its result.
Whole(rows) ==
  \A r \in rows :
    /\ \A p \in 1 .. TurnLen :
         [idx |-> r.idx + p - r.part, turn |-> r.turn, part |-> p] \in rows
    /\ \A s \in rows : s.turn = r.turn => s.idx - s.part = r.idx - r.part

TurnsWhole == Whole(table) /\ \A t \in Txns : Whole(prior[t])

\* The session is a ChatLog, however chats and clears overlap: turns stay in
\* the order they were appended in, and a clear drops a prefix of them.
TurnsIn(rows) == {r.turn : r \in rows}
Start(k) == CHOOSE i \in {r.idx : r \in {q \in table : q.turn = k}} :
              \A r \in table : r.turn = k => i <= r.idx
InOrder ==
  [n \in 1 .. Cardinality(TurnsIn(table)) |->
     CHOOSE k \in TurnsIn(table) :
       Cardinality({j \in TurnsIn(table) : Start(j) <= Start(k)}) = n]

Log == INSTANCE ChatLog WITH log <- InOrder

ImplementsChatLog == Log!Spec

\* No chat and no clear waits for ever, although they take their locks in
\* either order.
CallsEnd ==
  \A t \in Txns :
    phase[t] \notin {"none", "open"} ~> phase[t] \in {"none", "open"}
==============================================================================
