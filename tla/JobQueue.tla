------------------------------- MODULE JobQueue -------------------------------
(***************************************************************************)
(* The async job queue of pg_ask: the table ask._jobs, the SQL helpers     *)
(* ask._job_* that change it, and everything that calls them - clients,    *)
(* the per-database background worker (claim and execution each in a       *)
(* transaction of its own) and ask.run_pending_jobs() (a whole batch in    *)
(* the caller's one transaction).                                          *)
(*                                                                         *)
(* Committed rows are in jobs.  A drain's uncommitted version of a row is  *)
(* in draft, and the row lock that goes with it in lock: every other       *)
(* transaction reads the committed version, skips the row (SKIP LOCKED) or *)
(* waits for the lock.  Worker and client transactions that touch the      *)
(* table are short and are one step each.                                  *)
(*                                                                         *)
(* A job is a number: its place in the ORDER BY ts, id of _job_claim.  ts  *)
(* is the start of the submitting transaction, so jobs may become visible  *)
(* in another order.  An answer is the number of the claim whose execution *)
(* produced it (attempts at claim time), 0 when there is none.             *)
(***************************************************************************)
EXTENDS Naturals, FiniteSets

CONSTANTS
  Jobs,           \* job ids, ordered as the claim query orders them
  Workers,        \* pids of background workers of this database
  Drains,         \* pids of client backends that call run_pending_jobs()
  NoPid, NoJob,   \* SQL NULL of worker_pid; no job in hand
  Raising,        \* jobs whose execution raises a PostgreSQL ERROR (owner role dropped)
  MaxAttempts,    \* pg_ask.jobs_max_attempts
  JobsBatch,      \* pg_ask.jobs_batch
  OrphanTimeout,  \* pg_ask.jobs_orphan_timeout_ms, in ticks
  MaxRun,         \* the longest a worker's execution lasts, in ticks
  MaxClaims,      \* bound: claims of one job; those of a raising job are counted so far
  MaxFaults       \* bound: processes killed and transactions aborted

ASSUME JobQueueAssumption ==
  /\ Jobs \subseteq Nat
  /\ Workers \cap Drains = {}
  /\ NoPid \notin Workers \cup Drains
  /\ NoJob \notin Jobs
  /\ Raising \subseteq Jobs
  /\ MaxAttempts \in Nat \ {0}
  /\ JobsBatch \in Nat \ {0}
  /\ OrphanTimeout \in Nat
  /\ MaxRun \in Nat
  /\ MaxClaims \in Nat
  /\ MaxFaults \in Nat

VARIABLES
  jobs,       \* committed rows of ask._jobs
  lock,       \* which drain's transaction has locked (and rewritten) the row
  draft,      \* that transaction's version of the row
  pc,         \* where each backend is
  cur,        \* the job a backend executes
  claimNo,    \* attempts returned by the claim being executed
  ran,        \* how long a worker has been executing, in ticks
  left,       \* claims a worker may still make in this pass
  attempted,  \* the ids a drain has run in this pass
  enabled,    \* pg_ask.jobs_enabled
  faults      \* how many faults have happened

tableVars == <<jobs, lock, draft>>
vars == <<jobs, lock, draft, pc, cur, claimNo, ran, left, attempted, enabled, faults>>

Backends == Workers \cup Drains
Terminal == {"done", "failed", "cancelled"}
Status   == {"absent", "pending", "running", "pruned"} \cup Terminal

\* A row.  age is now() - started_at of a running row, as far as the orphan
\* test can tell ages apart, and 0 in every other row.
Row == [status : Status, attempts : Nat, pid : Backends \cup {NoPid},
        age : 0 .. OrphanTimeout + 1, answer : Nat]

NoRow(status) ==
  [status |-> status, attempts |-> 0, pid |-> NoPid, age |-> 0, answer |-> 0]

TypeOK ==
  /\ jobs  \in [Jobs -> Row]
  /\ draft \in [Jobs -> Row]
  /\ lock  \in [Jobs -> Drains \cup {NoPid}]
  /\ pc \in [Backends -> {"down", "latch", "idle", "draining", "executing", "returned"}]
  /\ cur \in [Backends -> Jobs \cup {NoJob}]
  /\ claimNo \in [Backends -> Nat]
  /\ ran  \in [Workers -> 0 .. MaxRun]
  /\ left \in [Workers -> 0 .. JobsBatch]
  /\ attempted \in [Drains -> SUBSET Jobs]
  /\ enabled \in BOOLEAN
  /\ faults \in 0 .. MaxFaults

Init ==
  /\ jobs  = [j \in Jobs |-> NoRow("absent")]
  /\ draft = [j \in Jobs |-> NoRow("absent")]
  /\ lock  = [j \in Jobs |-> NoPid]
  /\ pc = [b \in Backends |-> IF b \in Workers THEN "latch" ELSE "idle"]
  /\ cur = [b \in Backends |-> NoJob]
  /\ claimNo = [b \in Backends |-> 0]
  /\ ran  = [w \in Workers |-> 0]
  /\ left = [w \in Workers |-> 0]
  /\ attempted = [d \in Drains |-> {}]
  /\ enabled = TRUE
  /\ faults = 0

-----------------------------------------------------------------------------
(* What the SQL helpers do to one row. *)

\* Attempts after one more.  Only those of a raising job, which never come to
\* an end by themselves, reach the bound.
Counted(n) == IF n < MaxClaims THEN n + 1 ELSE n

Claimed(r, b) == [r EXCEPT !.status = "running", !.pid = b,
                           !.attempts = Counted(@), !.age = 0]

\* Shared by _job_recover_orphans, _job_release and the retry of _job_fail.
Requeued(r) == [r EXCEPT !.status = "pending", !.pid = NoPid, !.age = 0]

Completed(r, answer) == [r EXCEPT !.status = "done", !.answer = answer, !.age = 0]

\* Mutant: the retry limit is compared with > instead of >=.
FailedOrRequeuedLate(r) ==
  IF r.attempts > MaxAttempts THEN [r EXCEPT !.status = "failed", !.age = 0]
                              ELSE Requeued(r)

FailedOrRequeued(r) ==
  IF r.attempts >= MaxAttempts THEN [r EXCEPT !.status = "failed", !.age = 0]
                               ELSE Requeued(r)

Cancelled(r) == [r EXCEPT !.status = "cancelled", !.age = 0]

\* Mutants: completion guarded by the status alone, or by the pid alone.
OwnsByStatus(r, b) == r.status = "running"
OwnsByPid(r, b)    == r.pid = b

\* The guard of _job_complete, _job_fail and _job_release.
Owns(r, b) == r.status = "running" /\ r.pid = b

\* Mutant: the orphan test compares with >= instead of >.
StaleEarly(r) == r.status = "running" /\ r.age >= OrphanTimeout

\* The WHERE clause of _job_recover_orphans.
Stale(r) == r.status = "running" /\ r.age > OrphanTimeout

Unlocked(j) == lock[j] = NoPid

\* The version of row j that backend b reads: its own, else the committed one.
View(b, j) == IF lock[j] = b THEN draft[j] ELSE jobs[j]

\* The rows FOR UPDATE SKIP LOCKED leaves to b, and the first of them.
Claimable(b) ==
  {j \in Jobs : View(b, j).status = "pending" /\ lock[j] \in {b, NoPid}}

IsNext(b, j) == j \in Claimable(b) /\ \A k \in Claimable(b) : j <= k

\* The jobs whose execution returns, with an answer or an Err.
Orderly == Jobs \ Raising

WithinBound(b, j) == j \in Orderly => View(b, j).attempts < MaxClaims

-----------------------------------------------------------------------------
(* Clients and the operator. *)

Submit(j) ==
  /\ enabled
  /\ jobs[j].status = "absent"
  /\ jobs' = [jobs EXCEPT ![j] = NoRow("pending")]
  /\ UNCHANGED <<lock, draft, pc, cur, claimNo, ran, left, attempted, enabled, faults>>

\* The owner cancels.  An UPDATE of a row a drain has locked waits.
Cancel(j) ==
  /\ jobs[j].status \in {"pending", "running"}
  /\ Unlocked(j)
  /\ jobs' = [jobs EXCEPT ![j] = Cancelled(@)]
  /\ UNCHANGED <<lock, draft, pc, cur, claimNo, ran, left, attempted, enabled, faults>>

\* Mutant: retention forgets the status filter.
PruneAny(S) ==
  /\ S # {}
  /\ jobs' = [j \in Jobs |-> IF j \in S THEN NoRow("pruned") ELSE jobs[j]]
  /\ UNCHANGED <<lock, draft, pc, cur, claimNo, ran, left, attempted, enabled, faults>>

\* prune_jobs: the terminal rows that are old enough, in one transaction.
Prune(S) ==
  /\ S # {}
  /\ \A j \in S : jobs[j].status \in Terminal
  /\ jobs' = [j \in Jobs |-> IF j \in S THEN NoRow("pruned") ELSE jobs[j]]
  /\ UNCHANGED <<lock, draft, pc, cur, claimNo, ran, left, attempted, enabled, faults>>

SetEnabled ==
  /\ enabled' = ~enabled
  /\ UNCHANGED <<tableVars, pc, cur, claimNo, ran, left, attempted, faults>>

\* Time passes: claims grow older, executions advance to their limit.
Tick ==
  /\ \A w \in Workers : pc[w] = "executing" => ran[w] < MaxRun
  /\ jobs' = [j \in Jobs |->
                IF jobs[j].status = "running" /\ jobs[j].age <= OrphanTimeout
                THEN [jobs[j] EXCEPT !.age = @ + 1] ELSE jobs[j]]
  /\ ran' = [w \in Workers |-> IF pc[w] = "executing" THEN ran[w] + 1 ELSE ran[w]]
  /\ UNCHANGED <<lock, draft, pc, cur, claimNo, left, attempted, enabled, faults>>

-----------------------------------------------------------------------------
(* The background worker. *)

\* Mutant: the preamble does not recover orphans.
RecoverNothing == UNCHANGED jobs

\* The preamble's recovery: an UPDATE of the stale rows, which waits for a
\* row lock a drain holds on one of them.
RecoverOrphans ==
  /\ \A j \in Jobs : Stale(jobs[j]) => Unlocked(j)
  /\ jobs' = [j \in Jobs |-> IF Stale(jobs[j]) THEN Requeued(jobs[j]) ELSE jobs[j]]

\* wait_latch times out; the preamble transaction recovers orphans and loads
\* the configuration.  A configuration that does not load ends the pass, but
\* the recovery is committed all the same.
WorkerWake(w) ==
  /\ pc[w] = "latch"
  /\ enabled
  /\ RecoverOrphans
  /\ pc' = [pc EXCEPT ![w] = "draining"]
  /\ left' = [left EXCEPT ![w] = JobsBatch]
  /\ UNCHANGED <<lock, draft, cur, claimNo, ran, attempted, enabled, faults>>

WorkerWakeBadConfig(w) ==
  /\ pc[w] = "latch"
  /\ enabled
  /\ RecoverOrphans
  /\ UNCHANGED <<lock, draft, pc, cur, claimNo, ran, left, attempted, enabled, faults>>

\* Mutant: the loop over the batch has no bound.
WorkerClaimUnbounded(w) ==
  /\ pc[w] = "draining"
  /\ \E j \in Jobs :
       /\ IsNext(w, j)
       /\ WithinBound(w, j)
       /\ jobs' = [jobs EXCEPT ![j] = Claimed(@, w)]
       /\ cur' = [cur EXCEPT ![w] = j]
       /\ claimNo' = [claimNo EXCEPT ![w] = Counted(jobs[j].attempts)]
  /\ pc' = [pc EXCEPT ![w] = "executing"]
  /\ ran' = [ran EXCEPT ![w] = 0]
  /\ UNCHANGED <<lock, draft, left, attempted, enabled, faults>>

\* The claim commits on its own, before the execution.
WorkerClaim(w) ==
  /\ pc[w] = "draining"
  /\ left[w] > 0
  /\ \E j \in Jobs :
       /\ IsNext(w, j)
       /\ WithinBound(w, j)
       /\ jobs' = [jobs EXCEPT ![j] = Claimed(@, w)]
       /\ cur' = [cur EXCEPT ![w] = j]
       /\ claimNo' = [claimNo EXCEPT ![w] = Counted(jobs[j].attempts)]
  /\ pc' = [pc EXCEPT ![w] = "executing"]
  /\ ran' = [ran EXCEPT ![w] = 0]
  /\ UNCHANGED <<lock, draft, left, attempted, enabled, faults>>

\* The queue is empty or the batch is used up: back to the latch.
WorkerPassEnds(w) ==
  /\ pc[w] = "draining"
  /\ left[w] = 0 \/ Claimable(w) = {}
  /\ pc' = [pc EXCEPT ![w] = "latch"]
  /\ left' = [left EXCEPT ![w] = 0]
  /\ UNCHANGED <<tableVars, cur, claimNo, ran, attempted, enabled, faults>>

\* The agent loop has ended and _job_complete or _job_fail rewrites the row,
\* if it is still this worker's; if a drain has locked the row it waits.
WorkerFinish(w, newRow) ==
  LET j == cur[w] IN
  /\ pc[w] = "executing"
  /\ j \notin Raising
  /\ IF Owns(jobs[j], w)
     THEN Unlocked(j) /\ jobs' = [jobs EXCEPT ![j] = newRow]
     ELSE UNCHANGED jobs
  /\ pc' = [pc EXCEPT ![w] = "draining"]
  /\ cur' = [cur EXCEPT ![w] = NoJob]
  /\ claimNo' = [claimNo EXCEPT ![w] = 0]
  /\ left' = [left EXCEPT ![w] = @ - 1]
  /\ ran' = [ran EXCEPT ![w] = 0]
  /\ UNCHANGED <<lock, draft, attempted, enabled, faults>>

WorkerComplete(w) == WorkerFinish(w, Completed(jobs[cur[w]], claimNo[w]))
WorkerFail(w)     == WorkerFinish(w, FailedOrRequeued(jobs[cur[w]]))

\* The process is gone; its committed claim stays behind.
WorkerDies(w) ==
  /\ pc' = [pc EXCEPT ![w] = "down"]
  /\ cur' = [cur EXCEPT ![w] = NoJob]
  /\ claimNo' = [claimNo EXCEPT ![w] = 0]
  /\ left' = [left EXCEPT ![w] = 0]
  /\ ran' = [ran EXCEPT ![w] = 0]
  /\ UNCHANGED <<tableVars, attempted, enabled>>

\* Killed at any point.
WorkerCrash(w) ==
  /\ pc[w] \in {"latch", "draining", "executing"}
  /\ faults < MaxFaults
  /\ faults' = faults + 1
  /\ WorkerDies(w)

\* An ERROR in the execution ends a background worker process.
WorkerError(w) ==
  /\ pc[w] = "executing"
  /\ cur[w] \in Raising
  /\ WorkerDies(w)
  /\ UNCHANGED faults

\* The launcher respawns it; the operating system may reuse the pid.
WorkerStart(w) ==
  /\ pc[w] = "down"
  /\ pc' = [pc EXCEPT ![w] = "latch"]
  /\ UNCHANGED <<tableVars, cur, claimNo, ran, left, attempted, enabled, faults>>

-----------------------------------------------------------------------------
(* ask.run_pending_jobs() in a client backend, one transaction throughout. *)

\* d writes version row of j: the row is locked until d's transaction ends.
Write(d, j, row) ==
  /\ draft' = [draft EXCEPT ![j] = row]
  /\ lock'  = [lock EXCEPT ![j] = d]

DrainBegin(d) ==
  LET stale == {j \in Jobs : Stale(jobs[j])} IN
  /\ pc[d] = "idle"
  /\ enabled
  /\ \A j \in stale : Unlocked(j)
  /\ draft' = [j \in Jobs |-> IF j \in stale THEN Requeued(jobs[j]) ELSE draft[j]]
  /\ lock'  = [j \in Jobs |-> IF j \in stale THEN d ELSE lock[j]]
  /\ pc' = [pc EXCEPT ![d] = "draining"]
  /\ attempted' = [attempted EXCEPT ![d] = {}]
  /\ UNCHANGED <<jobs, cur, claimNo, ran, left, enabled, faults>>

\* The pass may make one more claim: j is what it gets.
DrainGets(d, j) ==
  /\ pc[d] = "draining"
  /\ Cardinality(attempted[d]) < JobsBatch
  /\ IsNext(d, j)
  /\ WithinBound(d, j)

DrainClaim(d) ==
  /\ \E j \in Jobs \ attempted[d] :
       /\ DrainGets(d, j)
       /\ Write(d, j, Claimed(View(d, j), d))
       /\ cur' = [cur EXCEPT ![d] = j]
       /\ claimNo' = [claimNo EXCEPT ![d] = Counted(View(d, j).attempts)]
       /\ attempted' = [attempted EXCEPT ![d] = @ \cup {j}]
  /\ pc' = [pc EXCEPT ![d] = "executing"]
  /\ UNCHANGED <<jobs, ran, left, enabled, faults>>

\* The claim returned a job this pass has run: release it and stop.
DrainReclaim(d) ==
  /\ \E j \in attempted[d] :
       /\ DrainGets(d, j)
       /\ Write(d, j, Requeued(Claimed(View(d, j), d)))
  /\ pc' = [pc EXCEPT ![d] = "returned"]
  /\ UNCHANGED <<jobs, cur, claimNo, ran, left, attempted, enabled, faults>>

DrainPassEnds(d) ==
  /\ pc[d] = "draining"
  /\ Cardinality(attempted[d]) = JobsBatch \/ Claimable(d) = {}
  /\ pc' = [pc EXCEPT ![d] = "returned"]
  /\ UNCHANGED <<tableVars, cur, claimNo, ran, left, attempted, enabled, faults>>

\* _job_complete or _job_fail in the drain's own transaction.
DrainFinish(d, newRow) ==
  LET j == cur[d] IN
  /\ pc[d] = "executing"
  /\ j \notin Raising
  /\ IF Owns(View(d, j), d) THEN Write(d, j, newRow) ELSE UNCHANGED <<draft, lock>>
  /\ pc' = [pc EXCEPT ![d] = "draining"]
  /\ cur' = [cur EXCEPT ![d] = NoJob]
  /\ claimNo' = [claimNo EXCEPT ![d] = 0]
  /\ UNCHANGED <<jobs, ran, left, attempted, enabled, faults>>

DrainComplete(d) == DrainFinish(d, Completed(View(d, cur[d]), claimNo[d]))
DrainFail(d)     == DrainFinish(d, FailedOrRequeued(View(d, cur[d])))

\* The transaction ends: locks go, drafts are published or dropped.
DrainEnds(d) ==
  /\ lock'  = [j \in Jobs |-> IF lock[j] = d THEN NoPid ELSE lock[j]]
  /\ draft' = [j \in Jobs |-> IF lock[j] = d THEN NoRow("absent") ELSE draft[j]]
  /\ pc' = [pc EXCEPT ![d] = "idle"]
  /\ cur' = [cur EXCEPT ![d] = NoJob]
  /\ claimNo' = [claimNo EXCEPT ![d] = 0]
  /\ attempted' = [attempted EXCEPT ![d] = {}]
  /\ UNCHANGED <<ran, left, enabled>>

DrainCommit(d) ==
  /\ pc[d] = "returned"
  /\ jobs' = [j \in Jobs |-> View(d, j)]
  /\ DrainEnds(d)
  /\ UNCHANGED faults

\* The caller rolls back, the statement is cancelled or the backend dies.
DrainAbort(d) ==
  /\ pc[d] # "idle"
  /\ faults < MaxFaults
  /\ faults' = faults + 1
  /\ DrainEnds(d)
  /\ UNCHANGED jobs

\* An ERROR in one execution aborts the whole batch.
DrainError(d) ==
  /\ pc[d] = "executing"
  /\ cur[d] \in Raising
  /\ DrainEnds(d)
  /\ UNCHANGED <<jobs, faults>>

-----------------------------------------------------------------------------
WorkerStep(w) ==
  \/ WorkerWake(w)
  \/ WorkerClaim(w)
  \/ WorkerPassEnds(w)
  \/ WorkerComplete(w)
  \/ WorkerFail(w)
  \/ WorkerError(w)
  \/ WorkerStart(w)

DrainStep(d) ==
  \/ DrainClaim(d)
  \/ DrainReclaim(d)
  \/ DrainPassEnds(d)
  \/ DrainComplete(d)
  \/ DrainFail(d)
  \/ DrainError(d)
  \/ DrainCommit(d)

Next ==
  \/ \E j \in Jobs : Submit(j) \/ Cancel(j)
  \/ \E S \in SUBSET Jobs : Prune(S)
  \/ SetEnabled
  \/ Tick
  \/ \E w \in Workers : WorkerStep(w) \/ WorkerWakeBadConfig(w) \/ WorkerCrash(w)
  \/ \E d \in Drains : DrainBegin(d) \/ DrainStep(d) \/ DrainAbort(d)

Spec == Init /\ [][Next]_vars

\* A process keeps running its own loop until it is killed, an execution ends
\* (the HTTP timeouts bound it), a call of run_pending_jobs() returns and its
\* statement commits, and time passes.  Nobody has to submit, cancel, prune,
\* or begin a drain.
FairSpec ==
  /\ Spec
  /\ WF_vars(Tick)
  /\ \A w \in Workers : WF_vars(WorkerStep(w))
  /\ \A d \in Drains : WF_vars(DrainStep(d))

-----------------------------------------------------------------------------
(* Properties. *)

\* The answer a client reads is the one the job's most recent claim produced:
\* a worker whose job was recovered and claimed again never publishes its late
\* result (the worker_pid guard, B1), even if a new process has its pid.
AnswerFromLastClaim ==
  \A j \in Jobs : jobs[j].status = "done" => jobs[j].answer = jobs[j].attempts

\* Once a job is done, failed or cancelled its row does not change until it is
\* pruned: a cancel wins over the execution it interrupts, and neither a late
\* worker nor the commit of a drain rewrites an outcome.
TerminalIsFinal ==
  [][\A j \in Jobs : jobs[j].status \in Terminal =>
       jobs'[j] \in {jobs[j], NoRow("pruned")}]_vars

\* If no execution outlasts the orphan timeout, no two backends execute the
\* same job at the same time, whatever crashes, respawns and pid reuse occur.
SingleLiveRun ==
  \A a, b \in Backends :
    a # b /\ pc[a] = "executing" /\ pc[b] = "executing" => cur[a] # cur[b]

\* A job whose execution returns is claimed at most MaxAttempts times, plus
\* once for each process that died or transaction that aborted, plus once for a
\* re-claim that its pass released (jobs/mod.rs:232-235 says that one is free);
\* so it is in the eyes of the pass itself before it commits.
AttemptBudget ==
  LET limit == MaxAttempts + 1 + faults IN
  \A j \in Orderly : /\ jobs[j].attempts <= limit
                     /\ lock[j] # NoPid => draft[j].attempts <= limit

Open(j) == jobs[j].status \in {"pending", "running"}

\* A submitted job whose execution returns gets an outcome, crashes included,
\* if the queue is switched on for good and no raising job stays open.  One that
\* does is claimed for ever, ending its worker or undoing the batch of its drain
\* each time, and others may wait behind it for ever; only a cancel ends it.
EveryJobSettles ==
  <>[]enabled /\ <>[](\A j \in Raising : ~Open(j)) => \A j \in Orderly : Open(j) ~> ~Open(j)

\* The promise to the client: the committed rows are an AsyncJobs.
Phase(r) == IF r.status \in {"pending", "running"} THEN "open" ELSE r.status

Promise == INSTANCE AsyncJobs WITH
  phase  <- [j \in Jobs |-> Phase(jobs[j])],
  answer <- [j \in Jobs |-> jobs[j].answer]

ImplementsAsyncJobs == Promise!Spec
==============================================================================
