------------------------------- MODULE AskCall -------------------------------
(***************************************************************************)
(* A backend that runs ask.ask(), ask.ask_stream(), ask.sql() and          *)
(* ask.preview() inside a client's transaction: the agent loop, the tool   *)
(* calls it dispatches, their subtransactions, settings and audit rows,    *)
(* the backend's cache of user-defined tools, the subtransaction in which  *)
(* preview() explains the answer, and the trace row of the call.           *)
(*                                                                         *)
(* db is what the backend sees: tables and transaction-scoped settings.    *)
(* stack holds the db to go back to, one per open level: stack[1] that of  *)
(* the client's transaction, stack[2] that of a tool's subtransaction.     *)
(* An Err is a value the code handles; an ERROR unwinds to the innermost   *)
(* handler, a subtransaction's or the client's.  An ERROR that reaches the *)
(* client aborts its transaction.  The audit rows and writes in db are     *)
(* those of the last reply's tool calls: no property looks further back.   *)
(***************************************************************************)
EXTENDS Naturals, Sequences

CONSTANTS
  Roles,
  NoRole,
  MaxIterations,  \* pg_ask.max_iterations
  MaxCalls,       \* bound: tool calls in one reply of the model
  MaxAsks,        \* bound: calls the client makes
  SetInTxn        \* bound: whether the client makes settings inside a transaction

ASSUME AskAssumption ==
  /\ NoRole \notin Roles
  /\ MaxIterations \in Nat \ {0}
  /\ MaxCalls \in Nat
  /\ MaxAsks \in Nat
  /\ SetInTxn \in BOOLEAN

VARIABLES
  db,         \* tables and settings, as the backend sees them now
  stack,      \* what the open transaction levels go back to
  txnRead,    \* the client's transaction is READ ONLY
  cache,      \* TOOL_CACHE: the user tools that were loaded last
  ask,        \* the number of the call, counted over the session
  mode,       \* which entry point it is
  phase,      \* where it is
  cfg,        \* the snapshot of pg_ask.readonly it runs with
  offered,    \* the user tools it offers to the model
  iteration,  \* turns of the loop so far
  turns,      \* requests to the provider so far
  history,    \* the messages since the question
  pending,    \* tool calls of the last reply not answered yet
  tool,       \* the tool that runs
  told,       \* how the tools of the last reply that ran ended
  wrote,      \* history: the calls of the last reply that had a side effect
  result,     \* how the call ends
  cancelled,  \* pg_cancel_backend was called and has not taken effect
  outcome     \* what the client got from the last call

sessionVars == <<txnRead, cache>>
loopVars == <<iteration, turns, history>>
callVars == <<ask, mode, cfg, offered>>
vars == <<db, stack, sessionVars, callVars, phase, loopVars, pending, tool, told, wrote,
          result, cancelled, outcome>>

Modes == {"ask", "sql", "preview", "stream"}

\* AgentMode::GenerateOnly: the model has no tools.
GenerateOnly == {"sql", "preview"}
QueryTools == {"sql_query", "sample_table"}
Query == 1 .. MaxCalls
Message == [role : {"user", "assistant", "tool"}, calls : 0 .. MaxCalls]
UserTools == [role : Roles \cup {NoRole}, readonly : BOOLEAN]
NoTools == [role |-> NoRole, readonly |-> TRUE]
Db == [audit : SUBSET (Query \X {"in flight", "ok", "error"}),
       writes : SUBSET Query,
       traced : 0 .. MaxAsks,
       role : Roles,
       readonly : BOOLEAN,
       path : {"client", "call"},
       writable : BOOLEAN]

\* The type invariant; it says how deep the transaction is in each phase, and
\* that a call makes at most one request beyond its budget of iterations.
TypeOK ==
  /\ db \in Db
  /\ stack \in Seq(Db)
  /\ phase \in {"idle", "turn", "dispatch", "explain", "body", "finish", "trace"}
  /\ phase # "idle" => Len(stack) = IF phase = "body" THEN 2 ELSE 1
  /\ phase = "idle" => Len(stack) \in {0, 1}
  /\ {txnRead, cfg, cancelled} \subseteq BOOLEAN
  /\ {cache, offered} \subseteq UserTools
  /\ ask \in 0 .. MaxAsks
  /\ mode \in Modes
  /\ iteration \in 0 .. MaxIterations
  /\ turns \in 0 .. MaxIterations + 1
  /\ history \in Seq(Message)
  /\ pending \in 0 .. MaxCalls
  /\ phase \in {"body", "finish"} => tool = "explain" \/ (tool # "none" /\ pending > 0)
  /\ tool \in QueryTools \cup {"user", "explain", "none"}
  /\ told \subseteq Query \X (QueryTools \cup {"user"}) \X {"ok", "err", "raised"}
  /\ wrote \subseteq Query
  /\ result \in {"none", "ok", "err", "raised", "answered", "unanswered", "failed"}
  /\ outcome \in {"none", "answered", "unanswered", "failed", "raised"}

Init ==
  /\ \E r \in Roles :
       db = [audit |-> {}, writes |-> {}, traced |-> 0, role |-> r, readonly |-> TRUE,
             path |-> "client", writable |-> TRUE]
  /\ stack = <<>>
  /\ txnRead = FALSE
  /\ cache = NoTools
  /\ ask = 0
  /\ mode = "ask"
  /\ phase = "idle"
  /\ cfg = TRUE
  /\ offered = NoTools
  /\ iteration = 0
  /\ turns = 0
  /\ history = <<>>
  /\ pending = 0
  /\ tool = "none"
  /\ told = {}
  /\ wrote = {}
  /\ result = "none"
  /\ cancelled = FALSE
  /\ outcome = "none"

\* The call that runs ends, and its client gets o.
Ended(o) ==
  /\ phase' = "idle"
  /\ outcome' = o
  /\ mode' = "ask"
  /\ cfg' = TRUE
  /\ offered' = NoTools
  /\ iteration' = 0
  /\ turns' = 0
  /\ history' = <<>>
  /\ pending' = 0
  /\ tool' = "none"
  /\ told' = {}
  /\ wrote' = {}
  /\ result' = "none"
  /\ cancelled' = FALSE
  /\ UNCHANGED <<cache, ask>>

\* An ERROR reaches the client and aborts its transaction.
Aborted(o) ==
  /\ db' = stack[1]
  /\ stack' = <<>>
  /\ txnRead' = FALSE
  /\ Ended(o)

Say(r, n) == [role |-> r, calls |-> n]

-----------------------------------------------------------------------------
(* The client between calls. *)

BeginTxn(ro) ==
  /\ phase = "idle"
  /\ stack = <<>>
  /\ stack' = <<db>>
  /\ db' = [db EXCEPT !.writable = ~ro]
  /\ txnRead' = ro
  /\ UNCHANGED <<cache, callVars, phase, loopVars, pending, tool,
                 told, wrote, result, cancelled, outcome>>

\* Settings made with SET LOCAL end with the transaction.
CommitTxn ==
  /\ phase = "idle"
  /\ stack # <<>>
  /\ stack' = <<>>
  /\ db' = [db EXCEPT !.path = stack[1].path, !.writable = stack[1].writable]
  /\ txnRead' = FALSE
  /\ UNCHANGED <<cache, callVars, phase, loopVars, pending, tool, told, wrote,
                 result, cancelled, outcome>>

SetReadonly ==
  /\ phase = "idle"
  /\ stack # <<>> => SetInTxn
  /\ db' = [db EXCEPT !.readonly = ~@]
  /\ UNCHANGED <<stack, sessionVars, callVars, phase, loopVars, pending, tool, told, wrote,
                 result, cancelled, outcome>>

SetRole(r) ==
  /\ phase = "idle"
  /\ stack # <<>> => SetInTxn
  /\ r # db.role
  /\ db' = [db EXCEPT !.role = r]
  /\ UNCHANGED <<stack, sessionVars, callVars, phase, loopVars, pending, tool, told, wrote,
                 result, cancelled, outcome>>

\* TOOL_CACHE_TTL_SECS pass.
CacheExpires ==
  /\ phase = "idle"
  /\ cache # NoTools
  /\ cache' = NoTools
  /\ UNCHANGED <<db, stack, txnRead, callVars, phase, loopVars, pending,
                 tool, told, wrote, result, cancelled, outcome>>

-----------------------------------------------------------------------------
(* The call begins: with_trace loads the configuration. *)

\* load_user_tools: a hit if the entry is the current user's.
Loaded ==
  IF cache.role = db.role THEN cache ELSE [role |-> db.role, readonly |-> db.readonly]

\* RuntimeConfig::load: the settings as they are now.
Snapshot == db.readonly

Enter(m) ==
  /\ phase = "idle"
  /\ stack # <<>>
  /\ ask < MaxAsks
  /\ ask' = ask + 1
  /\ mode' = m
  /\ cfg' = Snapshot
  /\ iteration' = 0
  /\ turns' = 0
  /\ history' = <<Say("user", 0)>>
  /\ told' = {}
  /\ wrote' = {}
  /\ outcome' = "none"
  /\ UNCHANGED <<db, stack, txnRead, pending, tool, cancelled>>

\* run_with_cfg, run_stream_with_cfg: provider, schema and tools are ready.
Ask(m) ==
  /\ Enter(m)
  /\ phase' = "turn"
  /\ result' = "none"
  /\ IF m \in GenerateOnly THEN offered' = NoTools /\ UNCHANGED cache
                           ELSE offered' = Loaded /\ cache' = Loaded

\* The configuration is invalid, or there is no provider.
AskUnconfigured(m) ==
  /\ Enter(m)
  /\ phase' = "trace"
  /\ result' = "failed"
  /\ offered' = NoTools
  /\ UNCHANGED cache

-----------------------------------------------------------------------------
(* The agent loop.  A pending cancel is noticed before each request. *)

Request ==
  /\ phase = "turn"
  /\ iteration < MaxIterations
  /\ ~cancelled
  /\ turns' = turns + 1
  /\ UNCHANGED <<stack, sessionVars, callVars, tool, cancelled, outcome>>

ProviderFails ==
  /\ Request
  /\ phase' = "trace"
  /\ result' = "failed"
  /\ UNCHANGED <<db, told, wrote, iteration, history, pending>>

\* The model has answered; preview() goes on to explain the answer.
Answers ==
  /\ phase' = IF mode = "preview" THEN "explain" ELSE "trace"
  /\ result' = "answered"

ReplyFinal ==
  /\ Request
  /\ iteration' = iteration + 1
  /\ history' = Append(history, Say("assistant", 0))
  /\ Answers
  /\ UNCHANGED <<db, told, wrote, pending>>

\* No tool calls but a text: it is the answer, except to the streaming loop,
\* to which it is a thought.
ReplyText ==
  /\ Request
  /\ iteration' = iteration + 1
  /\ IF mode = "stream"
     THEN /\ history' = Append(history, Say("assistant", 0))
          /\ UNCHANGED <<phase, result>>
     ELSE /\ history' = history \o <<Say("assistant", 0), Say("assistant", 0)>>
          /\ Answers
  /\ UNCHANGED <<db, told, wrote, pending>>

\* Neither calls nor text: the model is nudged, and the turn is charged.
ReplyNothing ==
  /\ Request
  /\ iteration' = iteration + 1
  /\ history' = IF mode = "stream" THEN Append(history, Say("assistant", 0))
                ELSE history \o <<Say("assistant", 0), Say("user", 0)>>
  /\ UNCHANGED <<db, told, wrote, phase, pending, result>>

ReplyCalls(n) ==
  /\ Request
  /\ n > 0
  /\ iteration' = iteration + 1
  /\ history' = Append(history, Say("assistant", n))
  /\ pending' = n
  /\ db' = [db EXCEPT !.audit = {}, !.writes = {}]
  /\ told' = {}
  /\ wrote' = {}
  /\ phase' = "dispatch"
  /\ UNCHANGED result

\* The budget is used up: one more request, without tools.
LastRequest ==
  /\ phase = "turn"
  /\ iteration = MaxIterations
  /\ mode # "stream"
  /\ turns' = turns + 1
  /\ UNCHANGED <<db, stack, sessionVars, callVars, iteration, pending, tool, told, wrote,
                 cancelled, outcome>>

LastReplyText ==
  /\ LastRequest
  /\ history' = history \o <<Say("user", 0), Say("assistant", 0)>>
  /\ Answers

\* Mutant: a question the model did not answer is asked again.
LastReplyAgain ==
  /\ phase = "turn"
  /\ iteration = MaxIterations
  /\ mode # "stream"
  /\ iteration' = 0
  /\ turns' = 0
  /\ history' = <<Say("user", 0)>>
  /\ UNCHANGED <<db, stack, sessionVars, callVars, phase, pending, tool, told, wrote,
                 result,
                 cancelled, outcome>>

LastReplyNothing ==
  /\ LastRequest
  /\ history' = Append(history, Say("user", 0))
  /\ phase' = "trace"
  /\ result' = "failed"

\* The streaming loop just ends.
StreamEnds ==
  /\ phase = "turn"
  /\ iteration = MaxIterations
  /\ mode = "stream"
  /\ phase' = "trace"
  /\ result' = "unanswered"
  /\ UNCHANGED <<db, stack, sessionVars, callVars, loopVars, pending, tool, told, wrote,
                 cancelled, outcome>>

-----------------------------------------------------------------------------
(* Tool calls. *)

\* Mutant: an error ends the round, and the calls after it are dropped.
ToolReturnsLast(ok) ==
  /\ history' = Append(history, Say("tool", 0))
  /\ pending' = IF ok THEN pending - 1 ELSE 0
  /\ phase' = IF pending' = 0 THEN "turn" ELSE "dispatch"
  /\ tool' = "none"
  /\ result' = "none"

\* The model gets a result for the call, whether it went well or not.
ToolReturns(ok) ==
  /\ history' = Append(history, Say("tool", 0))
  /\ pending' = pending - 1
  /\ phase' = IF pending = 1 THEN "turn" ELSE "dispatch"
  /\ tool' = "none"
  /\ result' = "none"

\* A call that runs no subtransaction, and so changes nothing but the history.
Replied(ok) ==
  /\ phase = "dispatch"
  /\ ToolReturns(ok)
  /\ UNCHANGED <<db, stack, sessionVars, callVars, iteration, turns, told, wrote,
                 cancelled, outcome>>

UnknownTool == Replied(FALSE)

\* The query is missing, or the SQL guard refuses it.
QueryRefused == mode \notin GenerateOnly /\ Replied(FALSE)

\* An argument that the body names is missing, or the body is malformed.
UserToolRefused == offered # NoTools /\ Replied(FALSE)

\* describe_table, recall, http_fetch.
PlainTool(ok) == mode \notin GenerateOnly /\ Replied(ok)

\* An ERROR in such a tool is not caught.
PlainToolRaises ==
  /\ phase = "dispatch"
  /\ mode \notin GenerateOnly
  /\ Aborted("raised")

\* Mutant: the settings are made before the subtransaction begins.
OpenedLate(before, after) == stack' = Append(stack, after) /\ db' = after

\* run_in_subtransaction begins a level and its body makes the settings.
Opened(before, after) == stack' = Append(stack, before) /\ db' = after

\* A query tool: the audit row in the client's transaction, then the
\* subtransaction with the settings.
StartQuery(t) ==
  LET row == [db EXCEPT !.audit = @ \cup {<<pending, "in flight">>}]
  IN  /\ phase = "dispatch"
      /\ mode \notin GenerateOnly
      /\ db.writable
      /\ Opened(row, [row EXCEPT !.path = "call", !.writable = ~cfg])
      /\ phase' = "body"
      /\ tool' = t
      /\ UNCHANGED <<sessionVars, callVars, loopVars, pending, told, wrote, result,
                     cancelled, outcome>>

StartSql == StartQuery("sql_query")
StartSample == StartQuery("sample_table")

\* The INSERT into the audit table is an ERROR in a READ ONLY transaction.
AuditRaises ==
  /\ phase = "dispatch"
  /\ mode \notin GenerateOnly
  /\ ~db.writable
  /\ Aborted("raised")

\* A user tool: no audit row, and the flag it was loaded with.
StartUserTool ==
  /\ phase = "dispatch"
  /\ offered # NoTools
  /\ Opened(db, [db EXCEPT !.writable = @ /\ ~offered.readonly])
  /\ phase' = "body"
  /\ tool' = "user"
  /\ UNCHANGED <<sessionVars, callVars, loopVars, pending, told, wrote, result,
                 cancelled, outcome>>

\* The statement has a side effect, which PostgreSQL refuses if it is read only.
BodyWrites ==
  /\ phase = "body"
  /\ db.writable
  /\ pending \notin db.writes
  /\ db' = [db EXCEPT !.writes = @ \cup {pending}]
  /\ wrote' = wrote \cup {pending}
  /\ UNCHANGED <<stack, sessionVars, callVars, phase, loopVars, pending, tool, told,
                 result, cancelled, outcome>>

\* The body returns, an Err perhaps: the subtransaction is released.  Its
\* settings stay until the transaction ends; only read-only is restored.
BodyReturns(r) ==
  /\ phase = "body"
  /\ db' = [db EXCEPT !.writable = stack[2].writable]
  /\ stack' = SubSeq(stack, 1, 1)
  /\ phase' = "finish"
  /\ result' = r
  /\ UNCHANGED <<sessionVars, callVars, loopVars, pending, tool, told, wrote,
                 cancelled, outcome>>

\* Mutant: the ERROR is caught and the subtransaction left open.
BodyRaisesOpen ==
  /\ phase = "body"
  /\ db' = stack[2]
  /\ phase' = "finish"
  /\ result' = "raised"
  /\ cancelled' \in {cancelled, FALSE}
  /\ UNCHANGED <<stack, sessionVars, callVars, loopVars, pending, tool, told, wrote,
                 outcome>>

\* Mutant: the subtransaction is released although the body raised.
BodyRaisesReleased ==
  /\ phase = "body"
  /\ db' = [db EXCEPT !.writable = stack[2].writable]
  /\ stack' = SubSeq(stack, 1, 1)
  /\ phase' = "finish"
  /\ result' = "raised"
  /\ cancelled' \in {cancelled, FALSE}
  /\ UNCHANGED <<sessionVars, callVars, loopVars, pending, tool, told, wrote, outcome>>

\* Mutant: all the call wrote is rolled back, and the call goes on.
BodyRaisesWhole ==
  /\ phase = "body"
  /\ db' = stack[1]
  /\ stack' = SubSeq(stack, 1, 1)
  /\ phase' = "finish"
  /\ result' = "raised"
  /\ cancelled' \in {cancelled, FALSE}
  /\ UNCHANGED <<sessionVars, callVars, loopVars, pending, tool, told, wrote, outcome>>

\* An ERROR in the body, that of a cancel among them, is caught and the
\* subtransaction rolled back.
BodyRaises ==
  /\ phase = "body"
  /\ db' = stack[2]
  /\ stack' = SubSeq(stack, 1, 1)
  /\ phase' = "finish"
  /\ result' = "raised"
  /\ cancelled' \in {cancelled, FALSE}
  /\ UNCHANGED <<sessionVars, callVars, loopVars, pending, tool, told, wrote, outcome>>

\* Mutant: the audit row of a query that failed is not updated.
FinishedIfOk(r) ==
  IF r = "ok" THEN (db.audit \ {<<pending, "in flight">>}) \cup {<<pending, "ok">>}
              ELSE db.audit

\* audit_finish
Finished(r) ==
  (db.audit \ {<<pending, "in flight">>})
    \cup {<<pending, IF r = "ok" THEN "ok" ELSE "error">>}

ToolFinishes ==
  /\ phase = "finish"
  /\ tool # "explain"
  /\ IF tool = "sql_query" /\ ~cfg
     THEN db' = [db EXCEPT !.audit = Finished(result)]
     ELSE UNCHANGED db
  /\ told' = told \cup {<<pending, tool, result>>}
  /\ ToolReturns(result = "ok")
  /\ UNCHANGED <<stack, sessionVars, callVars, iteration, turns, wrote, cancelled, outcome>>

-----------------------------------------------------------------------------
(* preview(): the answer is explained in a subtransaction of its own. *)

Explained(r) ==
  /\ phase' = "trace"
  /\ result' = r
  /\ tool' = "none"
  /\ UNCHANGED <<db, stack, sessionVars, callVars, loopVars, pending, told, wrote,
                 cancelled, outcome>>

\* The SQL guard refuses the answer.
ExplainRefused ==
  /\ phase = "explain"
  /\ Explained("failed")

\* EXPLAIN begins, read only and with a statement_timeout of its own.
StartExplain ==
  /\ phase = "explain"
  /\ Opened(db, [db EXCEPT !.path = "call", !.writable = FALSE])
  /\ phase' = "body"
  /\ tool' = "explain"
  /\ UNCHANGED <<sessionVars, callVars, loopVars, pending, told, wrote, result,
                 cancelled, outcome>>

\* There is a plan, or there is none, or it cannot be read.
ExplainEnds ==
  /\ phase = "finish"
  /\ tool = "explain"
  /\ Explained(IF result = "ok" THEN "answered" ELSE "failed")

-----------------------------------------------------------------------------
(* The call ends: telemetry::write, then the result is returned or raised. *)

Traced == [db EXCEPT !.traced = ask, !.audit = {}, !.writes = {}]

AskReturns ==
  /\ phase = "trace"
  /\ db.writable
  /\ result # "failed" \/ mode = "stream"
  /\ db' = Traced
  /\ UNCHANGED <<stack, txnRead>>
  /\ Ended(result)

\* raise_as_pg_error: the trace row goes with the transaction.
AskRaises ==
  /\ phase = "trace"
  /\ db.writable
  /\ result = "failed"
  /\ mode # "stream"
  /\ Aborted("failed")

\* The INSERT of the trace row is an ERROR in a READ ONLY transaction.
TraceRaises ==
  /\ phase = "trace"
  /\ ~db.writable
  /\ Aborted("raised")

\* pg_cancel_backend, at any time during the call.
Cancel ==
  /\ phase # "idle"
  /\ ~cancelled
  /\ cancelled' = TRUE
  /\ UNCHANGED <<db, stack, sessionVars, callVars, phase, loopVars, pending, tool,
                 told, wrote,
                 result, outcome>>

\* A pending cancel is noticed where the loop looks for one, and by the
\* statements that run outside a subtransaction.
Interrupted ==
  /\ cancelled
  /\ phase \in {"turn", "dispatch", "finish", "trace"}
  /\ phase = "turn" => iteration < MaxIterations
  /\ phase = "finish" => tool = "sql_query" /\ ~cfg
  /\ Aborted("raised")

-----------------------------------------------------------------------------
AskStep ==
  \/ ProviderFails
  \/ ReplyFinal
  \/ ReplyText
  \/ ReplyNothing
  \/ \E n \in 1 .. MaxCalls : ReplyCalls(n)
  \/ LastReplyText
  \/ LastReplyNothing
  \/ StreamEnds
  \/ UnknownTool
  \/ QueryRefused
  \/ UserToolRefused
  \/ \E ok \in BOOLEAN : PlainTool(ok)
  \/ PlainToolRaises
  \/ StartSql \/ StartSample
  \/ AuditRaises
  \/ StartUserTool
  \/ \E r \in {"ok", "err"} : BodyReturns(r)
  \/ BodyRaises
  \/ ToolFinishes
  \/ ExplainRefused
  \/ StartExplain
  \/ ExplainEnds
  \/ AskReturns
  \/ AskRaises
  \/ TraceRaises
  \/ Interrupted

Next ==
  \/ \E ro \in BOOLEAN : BeginTxn(ro)
  \/ CommitTxn
  \/ SetReadonly
  \/ \E r \in Roles : SetRole(r)
  \/ CacheExpires
  \/ \E m \in Modes : Ask(m) \/ AskUnconfigured(m)
  \/ AskStep
  \/ BodyWrites
  \/ Cancel

Spec == Init /\ [][Next]_vars

\* The provider answers or times out (http_total_timeout_ms), statements end
\* (tool_statement_timeout_ms), and the backend goes on with its call.
FairSpec == Spec /\ WF_vars(AskStep)

-----------------------------------------------------------------------------
(* Properties. *)

\* Each request the loop makes, and the history it hands to a session, answers
\* every tool call: a message with n calls is followed by n results before the
\* next message of another kind.
CallsAnswered ==
  phase \in {"turn", "trace"} =>
    \A i \in 1 .. Len(history) :
      history[i].calls > 0 =>
        /\ i + history[i].calls <= Len(history)
        /\ \A j \in 1 .. history[i].calls : history[i + j].role = "tool"

\* The read-only flag of a tool ends with the tool: outside of one, the
\* transaction is as writable as the client made it, so that audit rows,
\* session messages and the trace row can be written.
ReadOnlyScoped ==
  stack # <<>> /\ phase # "body" => db.writable = ~txnRead

\* A query that ran is on record, even if it failed and was rolled back, and
\* with pg_ask.readonly off the record of a sql_query says how it ended.
QueriesAudited ==
  \A q \in told : q[2] \in QueryTools =>
    /\ \E a \in db.audit : a[1] = q[1]
    /\ q[2] = "sql_query" /\ ~cfg =>
         /\ <<q[1], IF q[3] = "ok" THEN "ok" ELSE "error">> \in db.audit
         /\ <<q[1], "in flight">> \notin db.audit

\* What a tool wrote before it raised an ERROR is undone, and nothing else: what
\* the other tools of the reply wrote is still there, a user tool's and one's
\* that returned an Err too.
RaisedMeansUndone ==
  \A q \in told : q[1] \in db.writes <=> q[1] \in wrote /\ q[3] # "raised"

\* Every call comes to an end.
CallEnds == phase # "idle" ~> phase = "idle"
==============================================================================
