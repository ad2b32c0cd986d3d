# Verification of pg_ask

pg_ask is a PostgreSQL extension (Rust, pgrx) that answers questions in natural
language by running an LLM agent loop inside a backend, with tools that read the
database.  This directory holds TLA+ modules that model its core logic, the TLC
configurations that check them on small instances, and proofs checked by TLAPS.

Line references are to the repository: `sql/bootstrap.sql`, `src/jobs/mod.rs`, ...

## Inventory

Every component runs inside PostgreSQL backends: client sessions, one launcher
process and one background worker per database.  They share tables in schema
`ask`; per-backend state is thread-local.

| component | state it keeps | operations | what is hard |
|---|---|---|---|
| Async job queue (`ask._jobs`, `jobs/mod.rs`, `api/jobs.rs`) | one row per job: status, attempts, worker_pid, started_at, answer | submit, claim, complete, fail, release, recover orphans, cancel, prune; `run_pending_jobs()` | claims race with recovery and cancel; a worker dies between claim and completion; the synchronous drain does a whole batch in one transaction |
| Background workers (`bgworker.rs`) | launcher: map of worker handles; worker: latch, batch position | reconcile, spawn, respawn, terminate; wake, claim, execute | crashes, launcher restarts, duplicate workers |
| Event outbox (`ask._outbox_*`, `infra/events.rs`, `api/emit.rs`) | one row per event, processed_at | emit with dedup and rate guards, mark processed, prune | the guards count under an advisory lock over MVCC snapshots; consumers crash |
| Chat sessions (`session/`, `api/chat.rs`, `ask._session_*`) | sessions and messages with a per-session idx | create, load history, append turn, clear | history is read before the LLM round trip and appended after it; concurrent turns of one session |
| Agent loop (`agent/`) | the message list, iterations, token counts, tool calls | provider turn, tool dispatch, nudge, final turn, streaming variant | budgets, empty turns, tool errors that must not end the loop |
| Tool execution (`tools/`, `infra/subtxn.rs`, `planner/`, `ask._sql_audit_*`) | subtransaction nesting, SET LOCAL GUCs, audit row | guard, plan, execute, audit, roll back | a tool's ERROR must not abort the caller; settings must not leak |
| SQL guard (`sql_guard/`) | none | lex, classify, reject, rewrite | lexical corner cases |
| Schema cache (`schema/`) and user tool cache (`tools/user_defined.rs`) | thread-local entry, key, expiry | lookup, fill, invalidate | stale entries after a role change or a DDL |
| Tool registry (`ask._tools`, `_tool_register`) | one row per tool | register, unregister | names are global while rows belong to a role; the check and the write are two statements |
| Memory (`memory/`, `embeddings/`) | rows with embedding and owner | remember, recall (hybrid search), forget, bootstrap | dimension of the vector column, retries, ranking |
| Configuration (`infra/config.rs`, `ask._config`) | GUCs and a table | layered lookup, clamps | precedence, out-of-range values, one load over several snapshots |
| Telemetry (`telemetry/`, `api/trace.rs`, `_write_trace`) | `ask._traces` | with_trace, write | rows that vanish with the caller's transaction |
| HTTP (`infra/http.rs`, `tools/http_fetch.rs`) | none | fetch with an allow list, timeouts, interrupts | redirects, size limits |
| Providers (`providers/`) | none (fixture: a cursor) | encode a request, decode a reply | three protocols for one history; ids and names of calls when a session changes its provider |
| Schema introspection and rendering, result rendering | none | budgeted text | layout |
| SQL upgrade scripts, packaging, docker, tests | - | - | - |

### What makes the components correct

* **Job queue**: an answer is the one of the job's last claim; an outcome is
  final; no job is lost to a crash; claims are bounded by the retry limit and
  the faults; two backends do not run one job at once if the orphan timeout is
  as long as the configuration comment asks; a synchronous pass is fair.
* **Background workers**: a database with the extension eventually has a
  worker, and not two for ever.
* **Outbox**: no more than the cap per minute and no duplicate within the
  window per emitter and event; an event is not pruned before it is processed.
* **Chat**: message indices of a session are dense and unique, turns are not
  interleaved, a failed turn leaves no trace in the history.
* **Agent loop**: at most max_iterations tool turns and one final turn, every
  tool call of a turn is answered before the next turn, no answer is lost.
* **Tool execution**: subtransactions are balanced, an error undoes exactly
  what the tool did, settings made for a tool end with it, every audit row is
  finished.
* **Providers**: whichever one is asked next, each call in the history is followed
  by its result under the key that this provider pairs by.
* **Memory**: a recall finds the best of the caller's memories, as far as its
  first stage sees them.
* **Configuration**: the key of a call is one that its provider issued.
* **Tool registry**: a name stays with its owner, and so does the body under it.
* **Caches**: an entry of one role is never served to another, and an entry is
  at most its time-to-live old.

## The job queue: `JobQueue`, `AsyncJobs`

### How it models the code

A job is a number, its place in `ORDER BY ts, id`.  `jobs` holds the committed
rows of `ask._jobs`; `draft` and `lock` hold the uncommitted version and the row
lock of a synchronous drain, which works in its caller's one transaction.  Every
other transaction that touches the table is short (a single `_job_*` call) and is
one atomic step; it reads the committed version, skips locked rows when it
claims (`FOR UPDATE SKIP LOCKED`) and is disabled while it would wait for a row
lock.  An answer is abstracted to the number of the claim whose execution
produced it, which is what a reader needs to tell a stale answer from a fresh
one.  Time is counted in ticks: `age` is `now() - started_at` of a running row,
`ran` how long a worker has been executing; `MaxRun` is the longest execution.

| code | action |
|---|---|
| `ask.ask_async`, `_job_submit` | `Submit` |
| `ask.cancel_job`, `_job_cancel` | `Cancel` |
| `ask.prune_jobs`, `_jobs_prune` | `Prune` |
| `pg_ask.jobs_enabled` | `SetEnabled` |
| `drain_once`: preamble | `WorkerWake`, `WorkerWakeBadConfig` |
| `drain_once`: claim transaction, `claim_one` | `WorkerClaim` |
| `drain_once`: execute transaction, `execute_claimed` | `WorkerComplete`, `WorkerFail`, `WorkerError` |
| end of a batch | `WorkerPassEnds` |
| process death, respawn by the launcher | `WorkerCrash`, `WorkerStart` |
| `run_pending_jobs` | `DrainBegin`, `DrainClaim`, `DrainReclaim`, `DrainComplete`, `DrainFail`, `DrainPassEnds`, then `DrainCommit`, `DrainAbort` or `DrainError` |

A respawned worker has the pid it had: pid reuse is the worst case for the
`worker_pid` guard, and the properties hold all the same.  `Raising` is the set
of jobs whose execution raises a PostgreSQL ERROR rather than returning an
`Err`: `set_config('role', owner)` does when the owner role is gone.  Such an
ERROR ends a worker process and aborts a drain's transaction.  Nothing stops such a
job: recovery does not look at `attempts`, so it is claimed for ever.  `Orderly` are
the others.  `MaxClaims` stops the claims of an orderly job in the model, and only
stops counting those of a raising one, so that its endless claims are part of it.

`AsyncJobs` is what a client is promised: a job is open from submission until
one outcome is published, and an outcome is not revised until it is pruned.
`JobQueue` implements it under the mapping `Phase`.

### Runs

* `job_race` (two jobs, two workers, one drain, one fault, one job that raises).
  The orphan timeout is *shorter* than an execution, so recovery takes claims
  from live workers; this is the situation the `worker_pid` guard exists for.
  `MaxClaims = 3` lets a job be claimed, recovered, re-claimed and re-claimed
  again, the shortest scenario in which a stale result meets a fresh claim of
  the same pid, with one more round.
* `job_live` (two jobs, one worker, one drain, one fault).  The timeout is as
  long as the longest execution, which is what `infra/config.rs:76-80` asks of
  the operator.  The job at the head of the queue raises (`Raising = {1}`), if it is
  submitted at all: it is claimed, ends its worker or rolls back the batch of a
  drain, comes back after the orphan timeout, and so on for ever unless it is
  cancelled.  `AttemptBudget` and `EveryJobSettles` are about the job behind it.
  `MaxClaims = 5` stops no claim of that job (`AttemptBudget` bounds it by 4).

Fairness (`FairSpec`): a live process keeps running its own loop, a drain's
statement returns and commits, an execution ends (`http_total_timeout_ms` and
`max_iterations` bound it), and time passes.  `WorkerStart` is fair because the
launcher respawns workers at every reconcile.  No client has to submit, cancel,
prune or drain.  `EveryJobSettles` is conditional on `jobs_enabled` staying on:
while it is off neither worker nor drain touches the table.  It is conditional on
raising jobs too: `<>[]` none of them is open.  With one that stays open TLC finds two
ways in which another job waits for ever.  A drain that is called again and again
finishes the other job, claims the raising one, and is rolled back.  And if the
orphan timeout passes before the respawned worker wakes, the raising job, being older,
is recovered and claimed first each time.  (With the defaults, 1 h against 30 s and
5 s, the second takes very slow respawns; the first takes `run_pending_jobs` without a
background worker.)

`AttemptBudget` allows one claim more than the limit and the faults: a pass that
re-claims a job it has run releases it, and `_job_release` does not take back the
attempt `_job_claim` charged, although `jobs/mod.rs:232-235` calls it free.

### Proofs (`JobQueueProofs`)

For any sets of jobs, workers and drains and any limits:

* `TypeCorrect`, by the inductive invariant `TypeInv`: `TypeOK` strengthened by
  *an executing backend has a job in hand and a worker has a claim left*, without
  which the batch counter could go below zero.
* `AnswerIsCurrent`: `AnswerFromLastClaim` is not inductive.  `OutcomeInv` adds
  `SoundInv` (a row that is not done has no answer), `ClaimInv` (a worker that
  still owns its row made the row's latest claim: this is where the
  `worker_pid` guard is needed) and `DraftInv` (a drain's draft replaces an open
  row, is sound, and is running exactly while its drain executes it, so a commit
  never publishes a running row).
* `OutcomesAreFinal` and `QueueImplementsPromise` follow from `OutcomeInv` and one lemma,
  `StepWorksOnOpenRows`: a step that neither submits nor prunes changes open
  rows only.

* `RunsAreExclusive` (`SingleLiveRun`) for `MaxRun <= OrphanTimeout`, which is what
  the configuration comment asks for.  `LiveInv` says why that is enough: the row
  of the job a worker executes is its own claim, as old as the execution, and no
  drain has it, or it has an outcome (the owner has cancelled it).  Recovery takes
  no claim as young as that.
* `AttemptsAreBounded` (`AttemptBudget`) under the same assumption, for the orderly
  jobs, whatever raising ones there are besides: at most `MaxAttempts + 1 + faults`
  claims.  `BudgetInv`: a row that waits has no more attempts than the limit and the
  faults so far allow, one whose claim is in flight may have one more, and so with the
  drafts of a drain; a pass that releases a job it has run before, which costs the
  job an attempt, only does so when the failure had left it one.

The other proofs assume only `JobQueueAssumption`.  `EveryJobSettles` is a liveness
property, which the prover cannot reach, and stays with TLC.
## The event outbox: `Outbox`

### How it models the code

`row` holds every row there is room for, whatever its fate: free, written by an
open transaction, pending, processed, pruned.  Emitting transactions are explicit
(`Begin`, any number of emits, `Commit` or `Rollback`), since the guards of
`_outbox_emit` read through MVCC: `Visible(t)` is what a statement of `t` sees, its
own rows and the committed ones (READ COMMITTED, the default; under REPEATABLE
READ a guard's snapshot is older than its lock, see the hazards).  `ts` is `now()`, the
start of the transaction, so rows may carry stamps that are out of commit order,
and a guard may meet rows from its future.  A transaction holds the advisory lock
of each key (emitter, event) it emitted under a guard until it ends.

| code | action |
|---|---|
| `ask.emit`, `events::emit`, `_outbox_emit` up to the lock | `Emit`, `EmitInvalid` |
| lock, dedup window, rate cap, INSERT + `pg_notify` | `EmitSuppressed`, `EmitAppends`, `EmitDeadlocks` |
| the caller's transaction | `Begin`, `Commit`, `Rollback` |
| `_outbox_mark_processed` | `MarkProcessed` |
| `ask.prune_events`, `_outbox_prune` | `Prune` |
| the consumer of `README.md:504-514` (external) | `Connect`, `Drain`, `Deliver`, `DrainEnds`, `ConsumerCrash` |

`pg_ask.events_enabled = off` makes `emit` return at once and is not modelled.
`RetentionAssumption` says that delivered rows are kept for as long as a guard of
the longest transaction looks back; the repository's advice is `'30 days'`, and
pruning younger rows would reopen the guards' windows.

### Runs

* `outbox_guards`: two transactions of up to one tick, two keys
  and two payloads, a rate cap of one per two ticks and a dedup window of three,
  so that each guard rejects what the other accepts; four rows.  Two
  transactions are the smallest race, two keys the smallest deadlock, and three
  ticks let a window pass.
* `outbox_delivery`: two consumers, one of which may crash once, two events, a
  rate cap, and pruning at the smallest age `RetentionAssumption` allows.
  Fairness: a consumer reconnects and goes on draining; nobody has to emit or to
  commit.

With two keys the transactions of `outbox_guards` may deadlock (`EmitDeadlocks`), so
a valid emit may raise, which `api/emit.rs:22-23` does not mention.

### Proofs (`OutboxProofs`)

For any transactions, consumers, keys and payloads, finitely many rows and any
caps and windows (`OutboxAssumption`), all five invariants of the runs hold:

* `TypeCorrect`, `StampsFollowDeliveries` (`DeliveredBeforePruned`) and `OneStampIsFresh`
  (`OneFreshDelivery`) by `TypeInv`: what a consumer holds it has delivered, and a
  stamp that was fresh has left its mark on the row.
* `RateIsCapped` (`RateCap`) and `NoDuplicates` (`NoDuplicateInWindow`) by `GuardInv`.
  The properties are about committed rows and are not inductive; `RateInv` and
  `DedupInv` say the same of the rows nobody has committed yet and of those pruned
  since.  They hold because of `RowInv`: an uncommitted row's writer holds the lock
  of its key, so that who has the lock sees every row that counts, and a pruned
  row is out of every window (`RetentionAssumption`).  An
  emit adds one row to the windows that contain it, and the guard has seen these
  below the cap.

`EveryEventDelivered` stays with TLC: liveness.

## A call and its tools: `AskCall`

### How it models the code

One backend runs `ask.ask`, `ask.ask_stream`, `ask.sql` and `ask.preview` for a client that
opens and commits transactions, READ ONLY ones among them, changes
`pg_ask.readonly` and its role, and may cancel.  `db` is what the backend sees,
tables and transaction-scoped settings, and `stack` the values to go back to, one
per transaction level.  This is all the module needs to know of PostgreSQL: an
ERROR restores the innermost level that somebody handles, a release keeps
everything except read-only, which `CommitSubTransaction` restores.  The
difference between an `Err`, a value the code handles, and an ERROR, which
unwinds, is the heart of the component and visible in every action.

The provider is its possible replies; a message is its role and the number of
calls in it.  Of audit rows and writes the module keeps those of the last reply's
round.  `wrote` is a history variable: which of its calls had a side effect, whatever
became of it.  A writing body that returns an `Err` is one whose rows cannot be
read back (`render.rs:147-148`, a number beyond the range of `serde_json`, say).  `pg_ask.trace_enabled` is on, its default.

| code | action |
|---|---|
| `with_trace`, set-up of `run_with_cfg`, `load_user_tools` | `Ask`, `AskUnconfigured` |
| the loop of `run_with_cfg` and `run_stream_with_cfg` | `ProviderFails`, `ReplyFinal`, `ReplyText`, `ReplyNothing`, `ReplyCalls` |
| the turn after the budget | `LastReplyText`, `LastReplyNothing`; `StreamEnds` in the streaming loop, which has none |
| `dispatch`: calls that are refused | `UnknownTool`, `QueryRefused`, `UserToolRefused` |
| tools without a subtransaction | `PlainTool`, `PlainToolRaises` |
| `sql_query`, `sample_table` | `StartSql`, `StartSample`, `AuditRaises`, then the body, then `ToolFinishes` |
| user-defined tools | `StartUserTool`, then the body, then `ToolFinishes` |
| `run_in_subtransaction` | `Opened` in the starts, `BodyReturns` (release), `BodyRaises` (roll back) |
| `planner::preview`, `explain::run` | `ExplainRefused`, `StartExplain`, then the body, then `ExplainEnds` |
| `telemetry::write`, `raise_as_pg_error` | `AskReturns`, `AskRaises`, `TraceRaises` |
| `pg_cancel_backend` | `Cancel`, then `Interrupted` or `BodyRaises` |

### Runs

* `ask_call`: two calls, so that a cache filled by one meets the other, two
  rounds of two tool calls, so that a round meets an earlier one and a failed
  call has one after it, and two roles.  `SetInTxn = FALSE`: the client makes
  its settings between transactions; inside them they only multiply states.
  Fairness: the backend goes on with its call.  The provider and the
  statements are bounded by `http_total_timeout_ms` and
  `tool_statement_timeout_ms`; nobody has to cancel.

A user tool from the cache runs under the read-only flag of the call that filled
the cache (`Loaded`), whatever `pg_ask.readonly` is by then; `Registry` bounds for
how long.  `ReadOnlyScoped` holds because PostgreSQL restores read-only with the
subtransaction.  `QueriesAudited` asks for a record of every query, and for its end
only if `pg_ask.readonly` is off and the tool is `sql_query`: the other audit rows
the code leaves in flight.  The budget of requests is a conjunct of `TypeOK`.

`RaisedMeansUndone` is an equivalence: of the tools of a reply, built in or user-defined,
those that raised an ERROR have left nothing and each of the others all it wrote.
`subtxn.rs:89-90` says that an `Err` is rolled back as well; lines 152-161 release it, on
purpose, and the property follows them.  One of its two mutants releases the
subtransaction that raised, the other rolls back too much.

No property is about a cancel that a tool's subtransaction swallows (`BodyRaises`): the
code does so, the call goes on after it and ends as any other, as `CallEnds` says.  Nor
is one about `search_path`, which `db.path` has in the model: the code leaves a tool's
in force when the subtransaction is released.  Both are under Findings.

### Proofs (`AskCallProofs`)

For any roles, any budget of iterations and any number of calls, of replies and of
tool calls in them, all five invariants hold:

* `TypeCorrect` by `CoreInv`: the loop counts an iteration with each request
  (`BudgetInv`) and has calls pending exactly while it dispatches them
  (`PendingInv`).
* `SettingsAreScoped` (`ReadOnlyScoped`) by `ScopeInv`: the level to go back to has the
  client's own read-only flag, whichever way the body ends.
* `CallsAreAnswered` (`CallsAnswered`) by `HistoryInv`: the calls of a message are
  answered but the last `pending`, which are at the end of the history.
* `QueriesAreAudited` (`QueriesAudited`) and `FailedQueriesAreUndone`
  (`RaisedMeansUndone`) by `AuditInv`, which relates what is written and recorded
  now to what the subtransaction would go back to: the audit rows are older than
  it, the running call's writes are not in it, and every other call's are.  The
  comparison with `wrote` makes it an equality (`LevelInv`, `WritesInv`).

`CallEnds` is a liveness property and stays with TLC.

## Chat sessions: `ChatSession`, `ChatLog`

### How it models the code

One session and the transactions of its owner.  Sessions share nothing, so one is
enough, except for deadlocks between them, which PostgreSQL ends like those of
one session.  A message is its index, its turn and its place in the turn; `table`
holds the committed ones, `ins` and `del` what a transaction has inserted and
deleted, and `Visible(t)` what its next statement sees under READ COMMITTED.

| code | action |
|---|---|
| `chat`: `load_history` | `ChatBegin` |
| `chat`: `run_with_cfg` (`AskCall` in detail) | `AgentReturns`, `AgentFails` |
| `store::append`, `_session_lock_for_append`, `_session_append_message` | `AppendLock`, `AppendMessage` once per message |
| `clear_session`, `_session_clear_messages` | `ClearBegin` (the rows it finds), `ClearEnd` (after waiting for row locks) |
| the caller's transaction | `Begin`, `Commit`, `Abort`, `DeadlockRaises` |

A turn has the same number of messages each time: what can break is a turn's
wholeness, not its length.

`ChatLog` is what a session promises: a sequence of turns that grows at its end
and loses a prefix when it is cleared.  `InOrder`, the turns in the order of
their indices, is the refinement mapping.  It is not obvious that a clear drops a
prefix, since it takes no lock: a turn appended while the clear is uncommitted
survives it, and its index is above everything the clear removes.

### Runs

* `chat_session`: two transactions, two messages a turn, four turns, any number
  of clears.  Two transactions are the smallest race and the smallest deadlock
  (one clears and then chats, the other chats and then clears); four turns let
  each transaction append after the other and after a clear that left a gap.
  Three transactions with two turns pass as well and add only longer
  circles of waiting.
  Fairness: the agent ends, PostgreSQL finds deadlocks and grants locks in the
  order of the requests (strong fairness of `LockStep`), and a client does not
  go on making calls in one transaction for ever (strong fairness of `Commit`).

The history that a chat hands to the agent may be stale by the time its turn is
appended: the session's lock is taken by the append and not by the read before
it, and the code promises nothing about it.

### Proofs (`ChatSessionProofs`)

For any transactions, any length of a turn and any number of turns, by `SessionInv`:

* `KeysAreUnique` (`NoKeyClash`) needs `RowsInv`: who has inserted rows holds the
  advisory lock and so is alone, and `NextIdx`, one more than the greatest index it
  sees, is above everything committed, since the rows it does not see are those
  it has deleted itself (`NextRowFollows`).  That a greatest index exists is proved
  from the well-foundedness of the naturals (`LeastNatural`).
* `TurnsAreWhole` (`TurnsWhole`) needs `TurnInv`: turns are new, what is deleted is
  deleted by whole turns, and the messages of the turn being appended are in a row,
  the last of them above all else (`PartInv`).
* `TypeCorrect`.
* `SessionImplementsLog` (`ImplementsChatLog`): every step is a `Change` of the log.
  `OrderInv` is why a clear drops a prefix: what a transaction appends is above all
  it sees (`AboveInv`), indices are unique, and what it has deleted, with what its
  clear has found and not deleted yet, is a prefix of the table whatever others
  commit meanwhile (`PrefixInv`), since a clear never finds a turn that is still
  being appended (`TargetInv`).  `InOrder` picks the turn of each rank; ranks are a
  bijection because turns start at different indices (`EveryRankTaken`), and
  `ListsChange` says what a rank becomes when the least elements go and greater ones
  come.

## The launcher: `Launcher`, `LauncherProofs`

### How it models the code

`worker` is the table of slots for dynamic background workers; a slot goes from
registered (by the launcher) over started (by the postmaster) and connected (in
`pg_stat_activity` from then on) to polling and draining, and is free again when
the worker ends.  `handle` is the launcher's `HashMap`; a handle of an ended worker
is `Gone`, whoever has its slot by then.  `pc` and `todo` are the launcher's place
in its loop: each database's presence check and spawn are steps of their own, so
that workers move in between.

| code | action |
|---|---|
| `wait_latch`, `workers.retain` | `Wake` |
| `list_pgask_databases`, with dblink or without | `Scan`, `ScanFails` |
| the loop over databases | `Skip`, `CheckFindsNone`, `CheckFails`, `Spawn`, `SpawnFails` |
| SIGTERM | `Shutdown` |
| death and restart of the launcher | `LauncherCrash`, `LauncherRestart` |
| `pg_ask_db_worker_main` | `Start`, `Connect`, `VerifyExtension`, `Poll`, `DrainEnds`, `DrainRaises`, `Stop`, `WorkerCrash` |

`drain_once` is one step here and is what `JobQueue` is about; `WorkerStart` there is
what `InstalledServed` promises here.  A launcher that is shut down ends with
status 0, and PostgreSQL does not restart it.

`Wake` may happen at any time.  Mostly every worker is in view by then, the launcher
having slept 30 s; a wake before that (`wait_latch` returns on SIGHUP and on any
interrupt that sets the latch, and a worker may be slow to start) counts against
`MaxFaults` like a crash.  `handle.pid()` is an error for a worker that has not
started, so such a wake drops its handle, and the presence check does not see it
either: the database gets a second worker.  A launcher that dies then has the same
effect on its successor.  `lost` keeps the live workers whose handle the launcher
has lost, `unseen` those it lost before they came into `pg_stat_activity`; both are
history, no guard reads them.  Two workers of one database do no harm to the queue
(`JobQueue` is checked with several), but each holds a slot for good.

### Runs

* `launcher`: two databases, which may have the extension from the start or not,
  two slots, two faults (early wake, crash of a worker or the launcher, failure of a
  probe, of the scan, of a presence check, of a spawn), two CREATE or DROP EXTENSION,
  with dblink and without.  Two faults let the launcher die or wake early and a second
  failure meet what it left; two changes drop an extension and create it again.  With
  two slots a second worker can leave none for the other database: `InstalledServed`
  names that exemption, an attempt to spawn that finds no slot (`NoSlot`) again and
  again.  `OneWorkerPerDatabase` is proved for any number of slots and faults.
  Fairness: PostgreSQL starts a registered worker and restarts the launcher, and
  both go on by themselves; nobody has to create or drop anything.  The system
  may stop (after a shutdown), so deadlock is not checked.
* `launcher_duplicate`: expected to be violated (a finding, below): an early wake starts
  a duplicate, which the comments at `bgworker.rs:73-76` and `115-116` exclude.

### Proofs

`TypeCorrect` and `OneWorker` (`[]OneWorkerPerDatabase`) hold for any databases, slots
and bounds, and assume nothing of how fast a worker starts.  `OneWorkerPerDatabase`
is not inductive: it does not say whom the launcher knows.  `StrayInv` adds that a
live worker has its handle in the map or is in `lost`, that one lost after it came
into view is still in view, and hence that where the launcher is about to start a
worker (`pc = "spawn"`) all those the database has are `unseen`.  Every step of a worker
is an `Ages` step: workers end and come into view, none begins or changes its
database, and the map loses nobody who lives.
## Providers and what a session says to them: `Wire`, `Dialogue`

`Wire` is pure: the canonical messages of `providers/wire.rs`, the request that
each of `providers/{anthropic,openai,gemini}.rs` builds from a history, the
response it makes of what the provider sends, and the rows of `ask._messages`
that a history is stored in and loaded from.  A text is empty or not, absent
(`Null`) or there; an id carries the function's name if Gemini's translation
made it (`"name::call_idx"`) and none if the provider issued it.  Arguments,
URLs, headers and token counts are left out.

`Dialogue` runs a session over it.  The client sets `pg_ask.provider` between
chats, chats and clears; a chat loads the rows, appends the question and asks
the provider; `Iterate` and `LastTurn` take one of the responses of the
configuration through the provider's translation into the branches of
`run_with_cfg`, `CallTool` and `Embed` answer the calls one after the other, and
`Succeed` stores what `split_off(prior_len)` returns.  A recall sends embedding
requests until one succeeds or `embed_with_retry` gives up; `Outcomes` is what
`post_json` can make of a request; a body that does not parse is a transport
error there and is retried, against `embeddings/openai.rs:129-130`.  `said` is a ghost: the successful turns as
the agent had them, before they were encoded.

| run | what it shows |
|---|---|
| `dialogue` | whichever provider a stored conversation is continued with, each turn's calls are followed by their results in order, keyed alike and without clashes (`AnswersFollowCalls`), except that Gemini is told `sql_query` for a call it did not make, as `extract_function_name` documents; the model is never asked after its own message and is told of the last turn (`UserSpeaksLast`); a loaded history makes the request that the agent's own would have made (`StoredIsSaid`); a recall sends at most `MAX_RETRIES + 1` requests (`TypeOK`) |

Bounds: two chats, so that a history is continued by the same or by another
provider and itself has a past; two iterations, so that a nudge, the next
iteration and the step limit meet; `MAX_RETRIES = 3`, the code's; eight
responses, which are all the shapes the translations tell apart (no part, a
text, an empty text, one call with an empty text before it, two calls of one
function after a text, and tool use announced without a call).  There is no
liveness property and no fairness: a request takes as long as `infra/http.rs`
allows, and what happens to a cancelled one is `AskCall`'s subject.

### Proofs (`DialogueProofs`)

All four invariants hold for any responses, tools and bounds.  The assumptions on
the constants say that `Null` is not a text, a tool or a list of calls and that a
response is a list of parts.  `SessionsAreSound` is the inductive invariant:

* `StoreInv`: the rows are the encodings of what was said, message by message, and
  what a chat loads is what the agent had, but for an empty text next to calls, which
  comes back as none; every request sends the two alike (`StoreIsFaithful`).
* `ShapeInv`: in the history and in what is stored, the calls of a turn have
  different ids and are followed by their results in order, except for those still
  pending.  The ids differ because a position is part of each (`GeminiIds`,
  `IssuedIds`).  `AnswersAreInPlace` (`AnswersFollowCalls`) says it of the requests of
  each provider, whose translations keep the number of messages and, but for
  OpenAI's system message, their places.
* `UserSpeaksLast` is inductive with the types (`UserIsLast`).

The calls of a response are in the order of their parts.  `InOrder` writes the order
down as the increasing enumeration of their positions; that it exists is proved by
induction on cardinality, through a least counterexample.

## Tools of the users, and the caches: `Rows`, `Registry`

### How it models the code

`Rows` is what PostgreSQL gives to the READ COMMITTED transactions of several
clients that share a table: what a statement sees (`Visible`), whom a write waits
for (`Free`), what a commit and a rollback leave.  `Registry` keeps `ask._tools`
and the catalog there.  A row has an owner and a value; the value of a tool is
the role whose body it has, which is all that a reader can get wrong about it.

| code | action |
|---|---|
| `ask.register_tool`, `_tool_register` | `RegisterChecks` (its SELECT), then `RegisterUpserts` (its INSERT, which may have to wait in between), or `RegisterRefused` |
| `ask.unregister_tool`, `_tool_unregister` | `Unregister` |
| `ask.list_tools` | `OwnTools` |
| `load_user_tools`, `TOOL_CACHE` | `ToolsServed` in `StartCall` |
| `summarize_within`, `CACHE`, `compute_summary` | `SchemaServed` in `StartCall` |
| the clients | `CreateTable`, `DropTable`, `Transact`, `Reconnect` |

The caches are thread-locals of a backend: they survive the transactions that
fill them, rolled back or not, and go with the connection.  `shift`, `called`
and `contested` are ghosts: when a row last changed for a client, when it last
called under a policy, which names two transactions registered at once.

### What is checked

* `CachesLagBounded`: a call is offered a name exactly as `ask.list_tools()`
  shows it if the row has looked the same for the time to live; a policy that is
  not the call's own is that of a call within the time to live; the summary is
  that of the tables, in the render that fits the call's own budget, if these
  have been the same for the time to live.  Roles, budgets, rollbacks and other
  clients' commits are all in between.
* `NameStaysWithOwner`: a committed name changes hands only by way of nobody's.
* `BodyOfOwner`: a tool has its owner's body, unless two registrations of the
  name overlapped.  The exception is real: both see no row, the second INSERT
  waits and then takes its `ON CONFLICT` branch, which has no owner filter
  although the comment on the helper (`bootstrap.sql:1085-1087`) says that only
  the owner's row is updated.  `BodyOfOwner` says that this is the only way.

Bounds (run `registry`): two clients, one of them a superuser who may act as the
other's role, as the job worker does; one tool and one table; two writes, which
is what a contested registration or a change under a cache needs; three ticks
with times to live of two, so that an entry can be young, old and renewed.
There is no liveness property: nothing here has to happen.

### Proofs (`RegistryProofs`)

For any clients, roles, names, tables, budgets and times to live: `TypeCorrect`,
`BodyBelongsToOwner`, `NameBelongsToOwner` and `CachesLag` (`CachesLagBounded`).  The
invariant behind the second and the third has three parts.  `Kept`: a transaction that has written over a committed row has
deleted one of its own or kept the owner.  `Alone`: who has checked an uncontested
name may still write it, nobody else has checked it, and another transaction can
only have deleted it.  `Bodies`: uncontested rows and drafts have their owner's
body.  `Alone` is what the window between the two statements of a registration
needs, and the reason for the exception above.

`CachesLagBounded` speaks of what a call was served.  `CacheInv` speaks of the cache
entries, which outlive calls: an entry offers its role each row as the client sees
it now, unless the row has changed for the client since the entry was made
(`ToolsInv`), and likewise the summary for its role and budget (`SchemaInv`).  A call
that is served from an entry finds it no older than the time to live, and so what it
is served differs only in rows that changed within that time.

## Settings and memory: `Settings`, `Memory`

### How it models the code

`Settings` is `RuntimeConfig::load`: the keys `provider`, `api_key`,
`embedding_provider` and `embedding_api_key`, each resolved by a statement of its
own (`Resolve`), from a GUC or else from the row of `ask._config` as that
statement sees it; then the fallback of the embedding key (`WithFallback`).  An
ERROR, a missing key's or the refusal of a secret row (`Refused`), undoes the
client's transaction (`LoadFails`).  `Config` is one call of `ask.config(key, value)`
and writes one row; an operator's transaction has one such call or several, in any
order.  `views` is a history: the settings as the client would have found them at
each moment of its load.

`Memory` runs `ask.remember`, `ask.recall` and `ask.forget` with it, over the rows
of `ask._memories` in `Rows`.  A row is written for the `session_user` and shown
to the `current_user` (`Shown`).  `Found` is `hybrid_search`: of the memories `P` that
the scan of the first stage comes by, those shown, the nearest `Fetch(limit)` of
them, and of these the best by the blended score; ties are broken either way.  With
the ivfflat index `P` is what is in the lists it probes, whoever owns it, and the
query filters by owner afterwards, so that recall may return fewer than there are;
the properties take `P` as any set of memories.  Similarities and scores are whole
numbers, scaled.

### What is checked

* `KeysMatch`: a call has a key its provider did not issue only if the settings
  changed during its load or were mixed themselves, between two calls of
  `ask.config` or in the client's own GUCs; and a call for which no embedding key is
  set embeds with its chat's vendor and key or not at all, also after a load that
  mixed two states.
* `RecallFindsBest`: recall returns the client's own, as many as asked for if the
  scan comes by so many; it misses a better one of these only if the first stage was
  full of others as near, and if the first stage has room for all of them it ranks
  as one stage would.
* `TableServesEveryone` (run `config_load`): see Findings.

Bounds (run `memory`): two vendors; a superuser's client, who configures and reads the
table, also as an ordinary role, and one of an ordinary role, who has the keys as GUCs;
three rows written, which let a load begin with the provider of one vendor and find the
key of another, in the table or after a transaction that changed both; two memories
whose order by nearness is not that by score; limits of one and two.  The first stage
takes as many as the limit (the code: five times the limit, at least fifty) and the cap
is one (the code: a hundred): at limit one the first stage cuts off the memory with the
best score, and at limit two the first stage takes both and the cap keeps that one.
More memories would be cut off in more ways, but not in another, and `RecallFinds` is
proved for any number.  Nothing has to happen: no fairness.

### Proofs (`MemoryProofs`)

* `RecallFinds` (`RecallFindsBest`) holds for any finite set of memories, any part of
  it that the index comes by, and any similarities, text ranks and limits.  It is
  not about a step but about the two-stage ranking as an algorithm, in every state:
  what the first stage leaves out is at most as near as all it takes, and what it
  takes holds the second stage's choice.
* `KeysAreMatched` (`KeysMatch`), with no assumption on who sets what, by `LoadInv`: each
  value that a call has loaded is the settings' at some moment of its load, and what
  it runs with is the fallback applied to such values, which need not be of one
  moment.  If there was only one state of the settings they are that state; if none
  of them had an embedding key there was none to load, and the fallback gives the
  chat's to the same vendor only.

That a load mixes two states is not exempted silently: the model contains such loads,
`KeysMatch` says what still holds after one, and Findings quotes the comment that
excludes them.

## Findings

Each is a run that TLC finds violated; `PROJECT.json` quotes the lines.

* `config_load`: `_config_get` refuses the rows of `api_key` and
  `embedding_api_key` to everyone but superusers, and `RuntimeConfig::load` always
  looks them up, so that every synchronous call of an ordinary role whose keys are
  not GUCs fails; the comments on both say that the internal path sees them.
* `launcher_duplicate`: a launcher that is woken before the worker it has just
  registered is started drops the handle and registers a second one.

Further divergences that the models contain and no run asserts:

* A job whose execution raises an ERROR (its owner's role is gone) ends its worker and is
  re-queued without a look at `attempts`, for ever, although `infra/config.rs:69-71` says
  that a failed job whose attempts reach the limit is terminal and `jobs/mod.rs:123-124`
  that a failed run is routed to `_job_fail` (`RecoverOrphans`, `WorkerError`).
* `run_in_subtransaction` releases the subtransaction of a body that returns an `Err`
  (`infra/subtxn.rs:152-161`), which lines 89-90 say is rolled back (`BodyReturns`).
* A tool's `search_path` and `statement_timeout` stay in force when its subtransaction is
  released, until the client's transaction ends, although `tools/sql_query.rs:241-243`
  says that they revert then (`BodyReturns`, `db.path`).
* A cancel that meets a tool's statement becomes a tool error, and the loop goes on,
  although `README.md:86-87` says that `pg_cancel_backend` works (`BodyRaises`).
* Two registrations of a name at once can leave the body of one role in the tool of the
  other: the `ON CONFLICT` branch has no owner filter, which `bootstrap.sql:1085-1087`
  says it has (`Upserted`).
* `RuntimeConfig::load`, "a snapshot" (`infra/config.rs:203-204`), reads its keys with a
  statement each, and a call can run with the provider of before a change and the key
  of after (`Resolve`).
* The text part of the score of a recall is 1 / (1 + rank) and falls as the match
  improves (`memory/store.rs:309`), against `memory/mod.rs:7` and `store.rs:225-227`
  (`Score`).
* A synchronous pass that re-claims the job it re-queued releases it and charges
  it a second attempt (`jobs/mod.rs:282`), which `jobs/mod.rs:232-235` says it does
  not (`DrainReclaim`).
* The trace row of a call that fails is undone by the ERROR that reports the
  failure (`api/ask.rs:57`), so that not "every invocation lands in `ask._traces`"
  (`AskRaises`).
* A response that does not parse is a retriable transport error (`infra/http.rs`), so
  that an embedding request is repeated although `embeddings/openai.rs:129-130` says
  that "JSON parse failures" surface immediately (`Embed`).
* The first stage of a recall filters by owner and namespace after the scan of the
  index, which other owners' rows take part in, although `memory/store.rs:257-258` says
  that it "is still owner/namespace filtered so we don't waste ANN slots" (`Found`).
* Tools and memories are written for the `session_user` and read for the
  `current_user`: after SET ROLE, and so in asynchronous jobs, a caller does not find
  what it has just written (`OwnTools`, `Shown`).
* `ask.config()` accepts keys of numbers and flags (`infra/config.rs:358-392`), which
  `load()` takes from GUCs only.
* Under REPEATABLE READ the guards of `ask.emit` count in a snapshot older than
  their lock (`bootstrap.sql:621-641`); `Outbox` is READ COMMITTED.

## Plan

In this order; each module gets its MC module, runs and mutants as it is written.
Each invariant that a passing run checks is proved for all values of the
constants, in the module named here.

1. `JobQueue`, `AsyncJobs`, `JobQueueProofs`: done, the refinement included.
2. `Outbox`, `OutboxProofs`: done.
3. `ChatSession`, `ChatLog`, `ChatSessionProofs`: done, the refinement included.
4. `AskCall`, `AskCallProofs`: the agent loop with the tool calls it dispatches, in
   one module, since what can go wrong is between the two.  Done.
5. `Launcher`, `LauncherProofs`: reconciliation of databases and worker handles
   with the workers' life cycle: done.
6. `Wire`, `Dialogue`, `DialogueProofs`: done.
7. `Rows`, `Registry`, `RegistryProofs`: done.
8. `Settings`, `Memory`, `MemoryProofs`: done.
9. Not begun: the SQL guard's rules, as operators over sequences of tokens.

### What stays with TLC

Liveness: `EveryJobSettles`, `EveryEventDelivered`, `CallEnds`, `CallsEnd`,
`InstalledServed`, `DroppedReleased`, `ShutdownStopsWorkers`.  The provers handle
neither fairness nor ENABLED.

Each proof is for READ COMMITTED as the modules have it, and under the assumptions
on the constants that the modules state; a theorem with a further hypothesis
(`RunsAreExclusive`, `AttemptsAreBounded`) names it.

## What is not modelled

Formatting and rendering, read-only views, installation scripts: they keep no
state or only produce text.  The SQL guard is a filter over text with unit tests
of its own; what the callers do with a refusal is in `AskCall`.  What `preview()`
reads out of a plan is text as well.  The HTTP client is I/O: what it can return is in
`Dialogue`, how long it can take is `MaxRun` of `JobQueue`.  Embedding vectors: `Memory` takes
nearness as a number, and an approximate index may come by any part of the table.  Privileges (GRANT, SECURITY DEFINER) are modelled where the code decides
by them (owners, `session_user`, secret rows) and not otherwise.
