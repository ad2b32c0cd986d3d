---------------------------- MODULE JobQueueProofs ----------------------------
(***************************************************************************)
(* Proofs about JobQueue, for any sets of jobs, workers and drains and any *)
(* limits.                                                                 *)
(***************************************************************************)
EXTENDS JobQueue, TLAPS

-----------------------------------------------------------------------------
(* Rows. *)

\* What the helpers write is a row again.
LEMMA ZeroAge == 0 \in 0 .. OrphanTimeout + 1
BY JobQueueAssumption DEF JobQueueAssumption

LEMMA RequeuedRow == ASSUME NEW r \in Row PROVE Requeued(r) \in Row
BY ZeroAge DEF Requeued, Row, Status, Terminal, Backends

LEMMA CancelledRow == ASSUME NEW r \in Row PROVE Cancelled(r) \in Row
BY ZeroAge DEF Cancelled, Row, Status, Terminal, Backends

LEMMA CompletedRow ==
  ASSUME NEW r \in Row, NEW n \in Nat PROVE Completed(r, n) \in Row
BY ZeroAge DEF Completed, Row, Status, Terminal, Backends

LEMMA CountedNat ==
  ASSUME NEW n \in Nat PROVE Counted(n) \in Nat /\ Counted(n) <= n + 1
BY DEF Counted

LEMMA ClaimedRow ==
  ASSUME NEW r \in Row, NEW b \in Backends PROVE Claimed(r, b) \in Row
<1>1. Counted(r.attempts) \in Nat
  BY CountedNat DEF Row
<1>2. "running" \in Status
  BY DEF Status
<1>3. QED
  BY <1>1, <1>2, ZeroAge DEF Claimed, Row

LEMMA FailedOrRequeuedRow ==
  ASSUME NEW r \in Row PROVE FailedOrRequeued(r) \in Row
<1>1. [r EXCEPT !.status = "failed", !.age = 0] \in Row
  BY ZeroAge DEF Row, Status, Terminal, Backends
<1>2. QED
  BY <1>1, RequeuedRow, Zenon DEF FailedOrRequeued

\* A claim grows older by one tick.
LEMMA OlderRow ==
  ASSUME NEW r \in Row, r.age <= OrphanTimeout PROVE [r EXCEPT !.age = @ + 1] \in Row
<1>1. r.age + 1 \in 0 .. OrphanTimeout + 1
  BY JobQueueAssumption DEF JobQueueAssumption, Row
<1>2. QED
  BY <1>1 DEF Row

\* The row of a job that has none is a row.
LEMMA NoRowType ==
  ASSUME NEW s \in Status
  PROVE  NoRow(s) \in Row
BY ZeroAge DEF NoRow, Row

USE JobQueueAssumption DEF JobQueueAssumption

-----------------------------------------------------------------------------
(* Type correctness. *)

\* An executing backend has a job in hand, and a worker a claim left to use.
ExecutingInv ==
  /\ \A b \in Backends : pc[b] = "executing" => cur[b] \in Jobs
  /\ \A w \in Workers : pc[w] = "executing" => left[w] > 0

TypeInv == TypeOK /\ ExecutingInv

\* A backend reads rows.
LEMMA ViewType ==
  ASSUME TypeOK, NEW b \in Backends, NEW j \in Jobs
  PROVE  View(b, j) \in Row
BY DEF TypeOK, View

LEMMA InitTypeInv == Init => TypeInv
<1> SUFFICES ASSUME Init PROVE TypeInv
  OBVIOUS
<1>1. NoRow("absent") \in Row
  BY NoRowType DEF Status
<1>2. QED
  BY <1>1 DEF Init, TypeInv, TypeOK, ExecutingInv, Backends

LEMMA NextTypeInv == TypeInv /\ [Next]_vars => TypeInv'
<1> SUFFICES ASSUME TypeInv, [Next]_vars PROVE TypeInv'
  OBVIOUS
<1> USE DEF TypeInv, ExecutingInv
<1>1. ASSUME NEW j \in Jobs, Submit(j) PROVE TypeInv'
  <2>1. NoRow("pending") \in Row
    BY NoRowType DEF Status
  <2>2. QED
    BY <1>1, <2>1 DEF Submit, TypeOK, Backends
<1>2. ASSUME NEW j \in Jobs, Cancel(j) PROVE TypeInv'
  <2>1. Cancelled(jobs[j]) \in Row
    BY CancelledRow DEF TypeOK
  <2>2. QED
    BY <1>2, <2>1 DEF Cancel, TypeOK, Backends
<1>3. ASSUME NEW S \in SUBSET Jobs, Prune(S) PROVE TypeInv'
  <2>1. NoRow("pruned") \in Row
    BY NoRowType DEF Status
  <2>2. QED
    BY <1>3, <2>1 DEF Prune, TypeOK, Backends
<1>4. CASE SetEnabled
  BY <1>4 DEF SetEnabled, tableVars, TypeOK, Backends
<1>5. CASE Tick
  <2>1. ASSUME NEW j \in Jobs, jobs[j].age <= OrphanTimeout
        PROVE  [jobs[j] EXCEPT !.age = @ + 1] \in Row
    BY <2>1, OlderRow DEF TypeOK
  <2>2. jobs' \in [Jobs -> Row]
    BY <1>5, <2>1 DEF Tick, TypeOK
  <2>3. ran' \in [Workers -> 0 .. MaxRun]
    BY <1>5 DEF Tick, TypeOK
  <2>4. QED
    BY <1>5, <2>2, <2>3 DEF Tick, TypeOK, Backends
<1>6. ASSUME RecoverOrphans PROVE jobs' \in [Jobs -> Row]
  <2>1. \A j \in Jobs : Requeued(jobs[j]) \in Row
    BY RequeuedRow DEF TypeOK
  <2>2. QED
    BY <1>6, <2>1 DEF RecoverOrphans, TypeOK
<1>7. ASSUME NEW w \in Workers, WorkerStep(w) \/ WorkerWakeBadConfig(w) \/ WorkerCrash(w)
      PROVE TypeInv'
  <2>1. CASE WorkerWake(w)
    BY <2>1, <1>6 DEF WorkerWake, TypeOK, Backends
  <2>2. CASE WorkerWakeBadConfig(w)
    BY <2>2, <1>6 DEF WorkerWakeBadConfig, TypeOK, Backends
  <2>3. CASE WorkerClaim(w)
    <3>1. PICK j \in Jobs :
            /\ jobs' = [jobs EXCEPT ![j] = Claimed(@, w)]
            /\ cur' = [cur EXCEPT ![w] = j]
            /\ claimNo' = [claimNo EXCEPT ![w] = Counted(jobs[j].attempts)]
      BY <2>3 DEF WorkerClaim
    <3>2. Claimed(jobs[j], w) \in Row
      BY ClaimedRow DEF TypeOK, Backends
    <3>3. Counted(jobs[j].attempts) \in Nat
      BY CountedNat DEF TypeOK, Row
    <3>4. QED
      BY <2>3, <3>1, <3>2, <3>3 DEF WorkerClaim, TypeOK, Backends
  <2>4. CASE WorkerPassEnds(w)
    BY <2>4 DEF WorkerPassEnds, tableVars, TypeOK, Backends
  <2>5. ASSUME NEW row \in Row, WorkerFinish(w, row) PROVE TypeInv'
    <3>1. jobs' \in [Jobs -> Row]
      BY <2>5 DEF WorkerFinish, TypeOK
    <3>2. left[w] - 1 \in 0 .. JobsBatch
      BY <2>5 DEF WorkerFinish, TypeOK
    <3>3. QED
      BY <2>5, <3>1, <3>2 DEF WorkerFinish, TypeOK, Backends
  <2>6. CASE WorkerComplete(w)
    <3>1. cur[w] \in Jobs /\ claimNo[w] \in Nat
      BY <2>6 DEF WorkerComplete, WorkerFinish, TypeOK, Backends
    <3>2. Completed(jobs[cur[w]], claimNo[w]) \in Row
      BY <3>1, CompletedRow DEF TypeOK
    <3>3. QED
      BY <2>5, <2>6, <3>2 DEF WorkerComplete
  <2>7. CASE WorkerFail(w)
    <3>1. cur[w] \in Jobs
      BY <2>7 DEF WorkerFail, WorkerFinish, Backends
    <3>2. FailedOrRequeued(jobs[cur[w]]) \in Row
      BY <3>1, FailedOrRequeuedRow DEF TypeOK, Backends
    <3>3. QED
      BY <2>5, <2>7, <3>2 DEF WorkerFail
  <2>8. CASE WorkerError(w)
    BY <2>8 DEF WorkerError, WorkerDies, tableVars, TypeOK, Backends
  <2>9. CASE WorkerCrash(w)
    BY <2>9 DEF WorkerCrash, WorkerDies, tableVars, TypeOK, Backends
  <2>10. CASE WorkerStart(w)
    BY <2>10 DEF WorkerStart, tableVars, TypeOK, Backends
  <2>11. QED
    BY <1>7, <2>1, <2>2, <2>3, <2>4, <2>6, <2>7, <2>8, <2>9, <2>10 DEF WorkerStep
<1>8. ASSUME NEW d \in Drains, DrainBegin(d) \/ DrainStep(d) \/ DrainAbort(d)
      PROVE TypeInv'
  <2>1. CASE DrainBegin(d)
    <3>1. \A j \in Jobs : Requeued(jobs[j]) \in Row
      BY RequeuedRow DEF TypeOK
    <3>2. draft' \in [Jobs -> Row]
      BY <2>1, <3>1 DEF DrainBegin, TypeOK
    <3>3. lock' \in [Jobs -> Drains \cup {NoPid}]
      BY <2>1 DEF DrainBegin, TypeOK
    <3>4. QED
      BY <2>1, <3>2, <3>3 DEF DrainBegin, TypeOK, Backends
  <2>2. ASSUME NEW j \in Jobs, NEW row \in Row, Write(d, j, row)
        PROVE  draft' \in [Jobs -> Row] /\ lock' \in [Jobs -> Drains \cup {NoPid}]
    BY <2>2 DEF Write, TypeOK
  <2>3. CASE DrainClaim(d)
    <3>1. PICK j \in Jobs :
            /\ Write(d, j, Claimed(View(d, j), d))
            /\ cur' = [cur EXCEPT ![d] = j]
            /\ claimNo' = [claimNo EXCEPT ![d] = Counted(View(d, j).attempts)]
            /\ attempted' = [attempted EXCEPT ![d] = @ \cup {j}]
      BY <2>3 DEF DrainClaim
    <3>2. View(d, j) \in Row
      BY ViewType DEF Backends
    <3>3. Claimed(View(d, j), d) \in Row /\ Counted(View(d, j).attempts) \in Nat
      BY <3>2, ClaimedRow, CountedNat DEF Row, Backends
    <3>4. QED
      BY <2>2, <2>3, <3>1, <3>3 DEF DrainClaim, TypeOK, Backends
  <2>4. CASE DrainReclaim(d)
    <3>1. PICK j \in attempted[d] :
            Write(d, j, Requeued(Claimed(View(d, j), d)))
      BY <2>4 DEF DrainReclaim
    <3>2. j \in Jobs
      BY DEF TypeOK
    <3>3. Claimed(View(d, j), d) \in Row
      BY <3>2, ViewType, ClaimedRow DEF Backends
    <3>4. Requeued(Claimed(View(d, j), d)) \in Row
      BY <3>3, RequeuedRow
    <3>5. QED
      BY <2>2, <2>4, <3>1, <3>2, <3>4 DEF DrainReclaim, TypeOK, Backends
  <2>5. CASE DrainPassEnds(d)
    BY <2>5 DEF DrainPassEnds, tableVars, TypeOK, Backends
  <2>6. ASSUME NEW row \in Row, DrainFinish(d, row) PROVE TypeInv'
    <3>1. cur[d] \in Jobs
      BY <2>6 DEF DrainFinish, Backends
    <3>2. draft' \in [Jobs -> Row] /\ lock' \in [Jobs -> Drains \cup {NoPid}]
      BY <2>2, <2>6, <3>1 DEF DrainFinish, TypeOK
    <3>3. QED
      BY <2>6, <3>2 DEF DrainFinish, TypeOK, Backends
  <2>7. CASE DrainComplete(d)
    <3>1. cur[d] \in Jobs /\ claimNo[d] \in Nat
      BY <2>7 DEF DrainComplete, DrainFinish, TypeOK, Backends
    <3>2. View(d, cur[d]) \in Row
      BY <3>1, ViewType DEF Backends
    <3>3. Completed(View(d, cur[d]), claimNo[d]) \in Row
      BY <3>1, <3>2, CompletedRow
    <3>4. QED
      BY <2>6, <2>7, <3>3 DEF DrainComplete
  <2>8. CASE DrainFail(d)
    <3>1. cur[d] \in Jobs
      BY <2>8 DEF DrainFail, DrainFinish, Backends
    <3>2. FailedOrRequeued(View(d, cur[d])) \in Row
      BY <3>1, ViewType, FailedOrRequeuedRow DEF Backends
    <3>3. QED
      BY <2>6, <2>8, <3>2 DEF DrainFail
  <2>9. ASSUME DrainEnds(d), jobs' \in [Jobs -> Row], faults' \in 0 .. MaxFaults
        PROVE  TypeInv'
    <3>1. NoRow("absent") \in Row
      BY NoRowType DEF Status
    <3>2. draft' \in [Jobs -> Row]
      BY <2>9, <3>1 DEF DrainEnds, TypeOK
    <3>3. lock' \in [Jobs -> Drains \cup {NoPid}]
      BY <2>9 DEF DrainEnds, TypeOK
    <3>4. QED
      BY <2>9, <3>2, <3>3 DEF DrainEnds, TypeOK, Backends
  <2>10. CASE DrainCommit(d)
    <3>1. \A j \in Jobs : View(d, j) \in Row
      BY ViewType DEF Backends
    <3>2. jobs' \in [Jobs -> Row] /\ faults' \in 0 .. MaxFaults
      BY <2>10, <3>1 DEF DrainCommit, TypeOK
    <3>3. QED
      BY <2>9, <2>10, <3>2 DEF DrainCommit
  <2>11. CASE DrainAbort(d)
    <3>1. jobs' \in [Jobs -> Row] /\ faults' \in 0 .. MaxFaults
      BY <2>11 DEF DrainAbort, TypeOK
    <3>2. QED
      BY <2>9, <2>11, <3>1 DEF DrainAbort
  <2>12. CASE DrainError(d)
    <3>1. jobs' \in [Jobs -> Row] /\ faults' \in 0 .. MaxFaults
      BY <2>12 DEF DrainError, TypeOK
    <3>2. QED
      BY <2>9, <2>12, <3>1 DEF DrainError
  <2>13. QED
    BY <1>8, <2>1, <2>3, <2>4, <2>5, <2>7, <2>8, <2>10, <2>11, <2>12 DEF DrainStep
<1>9. CASE UNCHANGED vars
  BY <1>9 DEF vars, TypeOK
<1>10. QED
  BY <1>1, <1>2, <1>3, <1>4, <1>5, <1>7, <1>8, <1>9 DEF Next

\* Every reachable state is well typed; in particular a worker never makes more
\* claims in a pass than jobs_batch allows.
THEOREM TypeCorrect == Spec => []TypeOK
<1>1. Spec => []TypeInv
  BY InitTypeInv, NextTypeInv, PTL DEF Spec
<1>2. TypeInv => TypeOK
  BY DEF TypeInv
<1>3. QED
  BY <1>1, <1>2, PTL

-----------------------------------------------------------------------------
(* Answers and outcomes. *)

\* A row without an outcome "done" has no answer; a done row has the answer of
\* its latest claim.
Sound(r) == r.answer = IF r.status = "done" THEN r.attempts ELSE 0

\* A worker that still owns its row made the row's latest claim.
ClaimInv ==
  \A w \in Workers : pc[w] = "executing" /\ Owns(jobs[cur[w]], w)
                       => jobs[cur[w]].attempts = claimNo[w]

\* A draft of job j replaces an open row and is sound.  It is running exactly
\* while its drain executes j, under the claim it records.
DraftInv ==
  /\ \A j \in Jobs : lock[j] # NoPid =>
       /\ jobs[j].status \in {"pending", "running"}
       /\ draft[j].status \in {"pending", "running", "done", "failed"}
       /\ Sound(draft[j])
       /\ draft[j].status = "running" =>
            /\ draft[j].pid = lock[j]
            /\ pc[lock[j]] = "executing"
            /\ cur[lock[j]] = j
            /\ draft[j].attempts = claimNo[lock[j]]
  /\ \A d \in Drains : pc[d] = "executing" =>
       lock[cur[d]] = d /\ draft[cur[d]].status = "running"

SoundInv == \A j \in Jobs : Sound(jobs[j])

OutcomeInv == TypeInv /\ ClaimInv /\ DraftInv /\ SoundInv

\* The operations keep a row that has no outcome sound, and say what they leave.
LEMMA SoundOperations ==
  ASSUME NEW r \in Row, Sound(r), r.status \in {"pending", "running"}
  PROVE  /\ Sound(Requeued(r)) /\ Requeued(r).status = "pending"
         /\ Sound(Cancelled(r)) /\ Cancelled(r).status = "cancelled"
         /\ Sound(FailedOrRequeued(r))
         /\ FailedOrRequeued(r).status \in {"pending", "failed"}
         /\ Sound(Completed(r, r.attempts))
         /\ Completed(r, r.attempts).status = "done"
<1> USE DEF Sound, Row
<1>1. Sound(Requeued(r)) /\ Requeued(r).status = "pending"
  BY DEF Requeued
<1>2. Sound(Cancelled(r)) /\ Cancelled(r).status = "cancelled"
  BY DEF Cancelled
<1>4. Sound(FailedOrRequeued(r)) /\ FailedOrRequeued(r).status \in {"pending", "failed"}
  <2>1. CASE r.attempts >= MaxAttempts
    BY <2>1 DEF FailedOrRequeued
  <2>2. CASE ~(r.attempts >= MaxAttempts)
    BY <2>2, <1>1 DEF FailedOrRequeued
  <2>3. QED
    BY <2>1, <2>2
<1>5. Sound(Completed(r, r.attempts)) /\ Completed(r, r.attempts).status = "done"
  BY DEF Completed
<1>6. QED
  BY <1>1, <1>2, <1>4, <1>5

LEMMA SoundClaimed ==
  ASSUME NEW r \in Row, Sound(r), r.status \in {"pending", "running"},
         NEW b \in Backends
  PROVE  /\ Sound(Claimed(r, b))
         /\ Claimed(r, b).status = "running"
         /\ Claimed(r, b).pid = b
         /\ Claimed(r, b).attempts = Counted(r.attempts)
BY DEF Sound, Row, Claimed

LEMMA SoundNoRow == \A st \in Status : st # "done" => Sound(NoRow(st))
BY DEF Sound, NoRow

LEMMA InitOutcomeInv == Init => OutcomeInv
<1> SUFFICES ASSUME Init PROVE OutcomeInv
  OBVIOUS
<1>1. TypeInv
  BY InitTypeInv
<1>2. SoundInv
  BY SoundNoRow DEF Init, SoundInv, Status
<1>3. ClaimInv /\ DraftInv
  BY DEF Init, ClaimInv, DraftInv, Backends
<1>4. QED
  BY <1>1, <1>2, <1>3 DEF OutcomeInv

\* A step that leaves locked rows, drafts and drains alone and keeps the rows
\* sound preserves DraftInv and SoundInv.
LEMMA OutsideDrains ==
  ASSUME OutcomeInv, TypeOK',
         UNCHANGED <<lock, draft>>,
         \A d \in Drains : pc'[d] = pc[d] /\ cur'[d] = cur[d] /\ claimNo'[d] = claimNo[d],
         \A j \in Jobs : lock[j] # NoPid => jobs'[j].status = jobs[j].status,
         \A j \in Jobs : jobs'[j] # jobs[j] => Sound(jobs'[j])
  PROVE  DraftInv' /\ SoundInv'
<1>1. SoundInv'
  BY DEF OutcomeInv, SoundInv, Sound
<1>2. \A j \in Jobs : lock[j] # NoPid => lock[j] \in Drains
  BY DEF OutcomeInv, TypeInv, TypeOK
<1>3. DraftInv'
  <2>1. \A d \in Drains : d # NoPid
    OBVIOUS
  <2>2. \A d \in Drains : pc[d] = "executing" => cur[d] \in Jobs
    BY DEF OutcomeInv, TypeInv, ExecutingInv, Backends
  <2>3. QED
    BY <1>2, <2>1, <2>2 DEF OutcomeInv, DraftInv, Sound
<1>4. QED
  BY <1>1, <1>3

\* Client and operator steps, and the passing of time.
LEMMA ClientOutcomeInv ==
  ASSUME OutcomeInv, TypeInv',
         \/ \E j \in Jobs : Submit(j) \/ Cancel(j)
         \/ \E S \in SUBSET Jobs : Prune(S)
         \/ SetEnabled
         \/ Tick
  PROVE  OutcomeInv'
<1> USE DEF OutcomeInv, TypeInv
<1>1. ASSUME NEW j \in Jobs, Submit(j) PROVE OutcomeInv'
  <2>1. lock[j] = NoPid
    BY <1>1 DEF Submit, DraftInv
  <2>2. Sound(NoRow("pending"))
    BY SoundNoRow DEF Status
  <2>3. DraftInv' /\ SoundInv'
    BY <1>1, <2>1, <2>2, OutsideDrains DEF Submit, TypeOK
  <2>4. ClaimInv'
    BY <1>1 DEF Submit, ClaimInv, ExecutingInv, Owns, NoRow, TypeOK, Backends
  <2>5. QED
    BY <2>3, <2>4
<1>2. ASSUME NEW j \in Jobs, Cancel(j) PROVE OutcomeInv'
  <2>1. Sound(Cancelled(jobs[j])) /\ Cancelled(jobs[j]).status = "cancelled"
    BY <1>2, SoundOperations DEF Cancel, SoundInv, TypeOK
  <2>2. DraftInv' /\ SoundInv'
    BY <1>2, <2>1, OutsideDrains DEF Cancel, Unlocked, TypeOK
  <2>3. ClaimInv'
    BY <1>2, <2>1 DEF Cancel, ClaimInv, ExecutingInv, Owns, TypeOK, Backends
  <2>4. QED
    BY <2>2, <2>3
<1>3. ASSUME NEW S \in SUBSET Jobs, Prune(S) PROVE OutcomeInv'
  <2>1. \A j \in S : lock[j] = NoPid
    BY <1>3 DEF Prune, Terminal, DraftInv
  <2>2. Sound(NoRow("pruned"))
    BY SoundNoRow DEF Status
  <2>3. DraftInv' /\ SoundInv'
    BY <1>3, <2>1, <2>2, OutsideDrains DEF Prune, TypeOK
  <2>4. ClaimInv'
    BY <1>3 DEF Prune, ClaimInv, ExecutingInv, Owns, NoRow, TypeOK, Backends
  <2>5. QED
    BY <2>3, <2>4
<1>4. CASE SetEnabled
  <2>1. DraftInv' /\ SoundInv'
    BY <1>4, OutsideDrains DEF SetEnabled, tableVars
  <2>2. ClaimInv'
    BY <1>4 DEF SetEnabled, tableVars, ClaimInv, Owns
  <2>3. QED
    BY <2>1, <2>2
<1>5. CASE Tick
  <2>1. \A j \in Jobs : /\ jobs'[j].status = jobs[j].status
                        /\ jobs'[j].pid = jobs[j].pid
                        /\ jobs'[j].attempts = jobs[j].attempts
                        /\ jobs'[j].answer = jobs[j].answer
    BY <1>5 DEF Tick, TypeOK, Row
  <2>2. DraftInv' /\ SoundInv'
    BY <1>5, <2>1, OutsideDrains DEF Tick, SoundInv, Sound
  <2>3. ClaimInv'
    BY <1>5, <2>1 DEF Tick, ClaimInv, ExecutingInv, Owns, Backends
  <2>4. QED
    BY <2>2, <2>3
<1>6. QED
  BY <1>1, <1>2, <1>3, <1>4, <1>5

\* Worker steps.  They see unlocked rows only, and no other worker's claim.
LEMMA WorkerOutcomeInv ==
  ASSUME OutcomeInv, TypeInv', NEW w \in Workers,
         WorkerStep(w) \/ WorkerWakeBadConfig(w) \/ WorkerCrash(w)
  PROVE  OutcomeInv'
<1> USE DEF OutcomeInv, TypeInv
<1>1. \A d \in Drains : d # w
  OBVIOUS
<1>2. ASSUME RecoverOrphans, UNCHANGED <<lock, draft, cur, claimNo>>,
             \A b \in Backends \ {w} : pc'[b] = pc[b],
             pc'[w] # "executing"
      PROVE  DraftInv' /\ SoundInv' /\ ClaimInv'
    <2>1. \A j \in Jobs : Stale(jobs[j]) =>
            Sound(Requeued(jobs[j])) /\ Requeued(jobs[j]).status = "pending"
      BY SoundOperations DEF SoundInv, Stale, TypeOK, Backends
    <2>2. \A j \in Jobs : lock[j] # NoPid => jobs'[j] = jobs[j]
      BY <1>2 DEF RecoverOrphans, Unlocked
    <2>3. \A j \in Jobs : jobs'[j] # jobs[j] =>
            Sound(jobs'[j]) /\ jobs'[j].status = "pending"
      BY <1>2, <2>1 DEF RecoverOrphans
    <2>4. \A d \in Drains : pc'[d] = pc[d] /\ cur'[d] = cur[d] /\ claimNo'[d] = claimNo[d]
      BY <1>1, <1>2 DEF Backends
    <2>5. DraftInv' /\ SoundInv'
      BY <1>2, <2>2, <2>3, <2>4, OutsideDrains
    <2>6. ClaimInv'
      BY <1>2, <2>3 DEF ClaimInv, ExecutingInv, Owns, Backends
    <2>7. QED
      BY <2>5, <2>6
<1>3. CASE WorkerWake(w)
  BY <1>2, <1>3 DEF WorkerWake, TypeOK, Backends
<1>4. CASE WorkerWakeBadConfig(w)
  BY <1>2, <1>4 DEF WorkerWakeBadConfig, TypeOK, Backends
<1>5. CASE WorkerClaim(w)
  <2>1. PICK j \in Jobs :
          /\ IsNext(w, j)
          /\ jobs' = [jobs EXCEPT ![j] = Claimed(@, w)]
          /\ cur' = [cur EXCEPT ![w] = j]
          /\ claimNo' = [claimNo EXCEPT ![w] = Counted(jobs[j].attempts)]
    BY <1>5 DEF WorkerClaim
  <2>2. lock[j] = NoPid /\ jobs[j].status = "pending"
    BY <1>1, <2>1 DEF IsNext, Claimable, View, TypeOK
  <2>3. /\ Sound(Claimed(jobs[j], w))
        /\ Claimed(jobs[j], w).pid = w
        /\ Claimed(jobs[j], w).attempts = Counted(jobs[j].attempts)
    BY <2>2, SoundClaimed DEF SoundInv, TypeOK, Backends
  <2>4. DraftInv' /\ SoundInv'
    BY <1>1, <1>5, <2>1, <2>2, <2>3, OutsideDrains DEF WorkerClaim, TypeOK, Backends
  <2>5. ASSUME NEW v \in Workers, pc'[v] = "executing", Owns(jobs'[cur'[v]], v)
        PROVE  jobs'[cur'[v]].attempts = claimNo'[v]
    <3>1. CASE v = w
      BY <2>1, <2>3, <3>1 DEF TypeOK, Backends
    <3>2. CASE v # w
      <4>1. /\ pc[v] = "executing" /\ cur'[v] = cur[v] /\ claimNo'[v] = claimNo[v]
            /\ cur[v] \in Jobs
        BY <1>5, <2>1, <2>5, <3>2 DEF WorkerClaim, TypeOK, ExecutingInv, Backends
      <4>2. cur[v] # j
        BY <2>1, <2>3, <2>5, <3>2, <4>1 DEF Owns, TypeOK
      <4>3. jobs'[cur[v]] = jobs[cur[v]]
        BY <2>1, <4>1, <4>2 DEF TypeOK
      <4>4. QED
        BY <2>5, <4>1, <4>3 DEF ClaimInv
    <3>3. QED
      BY <3>1, <3>2
  <2>6. QED
    BY <2>4, <2>5 DEF ClaimInv
<1>6. ASSUME NEW row \in Row, WorkerFinish(w, row),
             Owns(jobs[cur[w]], w) => Sound(row) /\ row.status # "running"
      PROVE  OutcomeInv'
  <2>1. cur[w] \in Jobs
    BY <1>6 DEF WorkerFinish, ExecutingInv, Backends
  <2>2. \A j \in Jobs : jobs'[j] # jobs[j] =>
          Sound(jobs'[j]) /\ jobs'[j].status # "running" /\ lock[j] = NoPid
    BY <1>6, <2>1 DEF WorkerFinish, Unlocked, TypeOK
  <2>3. DraftInv' /\ SoundInv'
    BY <1>1, <1>6, <2>2, OutsideDrains DEF WorkerFinish, TypeOK, Backends
  <2>4. ClaimInv'
    BY <1>6, <2>2 DEF WorkerFinish, ClaimInv, ExecutingInv, Owns, TypeOK, Backends
  <2>5. QED
    BY <2>3, <2>4
<1>7. CASE WorkerComplete(w)
  <2>1. cur[w] \in Jobs /\ claimNo[w] \in Nat /\ pc[w] = "executing"
    BY <1>7 DEF WorkerComplete, WorkerFinish, ExecutingInv, TypeOK, Backends
  <2>2. ASSUME Owns(jobs[cur[w]], w)
        PROVE  /\ Sound(Completed(jobs[cur[w]], claimNo[w]))
               /\ Completed(jobs[cur[w]], claimNo[w]).status # "running"
    <3>1. jobs[cur[w]].attempts = claimNo[w] /\ jobs[cur[w]].status = "running"
      BY <2>1, <2>2 DEF ClaimInv, Owns
    <3>2. QED
      BY <2>1, <3>1, SoundOperations DEF SoundInv, TypeOK, Backends
  <2>3. Completed(jobs[cur[w]], claimNo[w]) \in Row
    BY <2>1, CompletedRow DEF TypeOK
  <2>4. QED
    BY <1>6, <1>7, <2>2, <2>3 DEF WorkerComplete
<1>8. CASE WorkerFail(w)
  <2>1. cur[w] \in Jobs
    BY <1>8 DEF WorkerFail, WorkerFinish, ExecutingInv, Backends
  <2>2. ASSUME Owns(jobs[cur[w]], w)
        PROVE  /\ Sound(FailedOrRequeued(jobs[cur[w]]))
               /\ FailedOrRequeued(jobs[cur[w]]).status # "running"
    <3>1. /\ jobs[cur[w]] \in Row
          /\ Sound(jobs[cur[w]])
          /\ jobs[cur[w]].status = "running"
      BY <2>1, <2>2 DEF SoundInv, Owns, TypeOK
    <3>2. /\ Sound(FailedOrRequeued(jobs[cur[w]]))
          /\ FailedOrRequeued(jobs[cur[w]]).status \in {"pending", "failed"}
      BY <3>1, SoundOperations, Zenon
    <3>3. QED
      BY <3>2
  <2>3. FailedOrRequeued(jobs[cur[w]]) \in Row
    BY <2>1, FailedOrRequeuedRow DEF TypeOK
  <2>4. QED
    BY <1>6, <1>8, <2>2, <2>3 DEF WorkerFail
<1>9. ASSUME UNCHANGED tableVars,
             \A b \in Backends \ {w} : pc'[b] = pc[b] /\ cur'[b] = cur[b] /\ claimNo'[b] = claimNo[b],
             pc'[w] # "executing"
      PROVE  OutcomeInv'
  <2>1. DraftInv' /\ SoundInv'
    BY <1>1, <1>9, OutsideDrains DEF tableVars, Backends
  <2>2. ClaimInv'
    BY <1>9 DEF tableVars, ClaimInv, Owns, Backends
  <2>3. QED
    BY <2>1, <2>2
<1>10. CASE WorkerPassEnds(w)
  BY <1>9, <1>10 DEF WorkerPassEnds, TypeOK, Backends
<1>11. CASE WorkerError(w)
  BY <1>9, <1>11 DEF WorkerError, WorkerDies, TypeOK, Backends
<1>12. CASE WorkerCrash(w)
  BY <1>9, <1>12 DEF WorkerCrash, WorkerDies, TypeOK, Backends
<1>13. CASE WorkerStart(w)
  BY <1>9, <1>13 DEF WorkerStart, TypeOK, Backends
<1>14. QED
  BY <1>3, <1>4, <1>5, <1>7, <1>8, <1>10, <1>11, <1>12, <1>13 DEF WorkerStep

\* Steps of drains that do not commit leave the rows and the workers alone.
LEMMA OutsideWorkers ==
  ASSUME OutcomeInv, NEW d \in Drains, UNCHANGED jobs,
         \A b \in Backends \ {d} : pc'[b] = pc[b] /\ cur'[b] = cur[b] /\ claimNo'[b] = claimNo[b]
  PROVE  SoundInv' /\ ClaimInv'
<1>1. \A w \in Workers : w \in Backends \ {d}
  BY DEF Backends
<1>2. QED
  BY <1>1 DEF OutcomeInv, SoundInv, ClaimInv, Owns

\* A drain that writes row j keeps the drafts in order.
LEMMA WriteDraftInv ==
  ASSUME OutcomeInv, TypeInv', UNCHANGED jobs,
         NEW d \in Drains, NEW j \in Jobs, NEW row \in Row,
         Write(d, j, row),
         lock[j] \in {d, NoPid},
         jobs[j].status \in {"pending", "running"},
         Sound(row),
         row.status \in {"pending", "running", "done", "failed"},
         \A b \in Backends \ {d} : pc'[b] = pc[b] /\ cur'[b] = cur[b] /\ claimNo'[b] = claimNo[b],
         \A k \in Jobs \ {j} : lock[k] = d => draft[k].status # "running",
         row.status = "running" <=> pc'[d] = "executing",
         row.status = "running" =>
           row.pid = d /\ cur'[d] = j /\ row.attempts = claimNo'[d]
  PROVE  DraftInv'
<1> USE DEF OutcomeInv, TypeInv, DraftInv
<1>1. lock'[j] = d /\ draft'[j] = row
  BY DEF Write, TypeOK
<1>2. \A k \in Jobs \ {j} : lock'[k] = lock[k] /\ draft'[k] = draft[k]
  BY DEF Write, TypeOK
<1>3. ASSUME NEW k \in Jobs \ {j}, lock[k] # NoPid
      PROVE  /\ jobs'[k].status \in {"pending", "running"}
             /\ draft'[k].status \in {"pending", "running", "done", "failed"}
             /\ Sound(draft'[k])
             /\ draft'[k].status = "running" =>
                  /\ draft'[k].pid = lock'[k]
                  /\ pc'[lock'[k]] = "executing"
                  /\ cur'[lock'[k]] = k
                  /\ draft'[k].attempts = claimNo'[lock'[k]]
  <2>1. lock[k] \in Drains
    BY <1>3 DEF TypeOK
  <2>2. CASE lock[k] = d
    BY <1>2, <1>3, <2>2 DEF Sound
  <2>3. CASE lock[k] # d
    BY <1>2, <1>3, <2>1, <2>3 DEF Sound, Backends
  <2>4. QED
    BY <2>2, <2>3
<1>4. ASSUME NEW e \in Drains, pc'[e] = "executing"
      PROVE  lock'[cur'[e]] = e /\ draft'[cur'[e]].status = "running"
  <2>1. CASE e = d
    BY <1>1, <1>4, <2>1
  <2>2. CASE e # d
    <3>1. pc[e] = "executing" /\ cur'[e] = cur[e]
      BY <1>4, <2>2 DEF Backends
    <3>2. cur[e] \in Jobs /\ lock[cur[e]] = e /\ draft[cur[e]].status = "running"
      BY <3>1 DEF ExecutingInv, Backends
    <3>3. cur[e] # j
      BY <2>2, <3>2
    <3>4. lock'[cur[e]] = lock[cur[e]] /\ draft'[cur[e]] = draft[cur[e]]
      BY <1>2, <3>2, <3>3
    <3>5. QED
      BY <3>1, <3>2, <3>4
  <2>3. QED
    BY <2>1, <2>2
<1>5. QED
  BY <1>1, <1>2, <1>3, <1>4 DEF Backends

\* A drain that is not executing has no running draft; one that executes has
\* one, that of its job.
LEMMA RunningDraft ==
  ASSUME OutcomeInv, NEW d \in Drains, NEW k \in Jobs,
         lock[k] = d, draft[k].status = "running"
  PROVE  pc[d] = "executing" /\ cur[d] = k
BY DEF OutcomeInv, DraftInv

\* A drain that executes holds the running draft of its job.
LEMMA ExecutingDraft ==
  ASSUME OutcomeInv, NEW d \in Drains, pc[d] = "executing"
  PROVE  /\ cur[d] \in Jobs
         /\ lock[cur[d]] = d
         /\ draft[cur[d]] \in Row
         /\ Sound(draft[cur[d]])
         /\ draft[cur[d]].status = "running"
         /\ draft[cur[d]].pid = d
         /\ draft[cur[d]].attempts = claimNo[d]
         /\ jobs[cur[d]].status \in {"pending", "running"}
<1>1. cur[d] \in Jobs
  BY DEF OutcomeInv, TypeInv, ExecutingInv, Backends
<1>2. lock[cur[d]] = d /\ draft[cur[d]].status = "running"
  BY DEF OutcomeInv, DraftInv
<1>3. d # NoPid
  OBVIOUS
<1>4. PICK j \in Jobs : j = cur[d]
  BY <1>1
<1>5. lock[j] = d /\ lock[j] # NoPid /\ draft[j].status = "running"
  BY <1>2, <1>3, <1>4
<1>6. /\ jobs[j].status \in {"pending", "running"}
      /\ Sound(draft[j])
      /\ draft[j].pid = lock[j]
      /\ draft[j].attempts = claimNo[lock[j]]
  BY <1>5 DEF OutcomeInv, DraftInv
<1>7. draft[j] \in Row
  BY DEF OutcomeInv, TypeInv, TypeOK
<1>8. QED
  BY <1>1, <1>4, <1>5, <1>6, <1>7

\* A row a drain may claim is open, sound, and locked by nobody else.
LEMMA ClaimableRow ==
  ASSUME OutcomeInv, NEW d \in Drains, NEW j \in Jobs, IsNext(d, j)
  PROVE  /\ View(d, j) \in Row
         /\ Sound(View(d, j))
         /\ View(d, j).status = "pending"
         /\ lock[j] \in {d, NoPid}
         /\ jobs[j].status \in {"pending", "running"}
<1> USE DEF OutcomeInv, TypeInv
<1>1. View(d, j).status = "pending" /\ lock[j] \in {d, NoPid}
  BY DEF IsNext, Claimable
<1>2. View(d, j) \in Row
  BY ViewType DEF Backends
<1>3. CASE lock[j] = d
  BY <1>1, <1>2, <1>3 DEF View, DraftInv
<1>4. CASE lock[j] # d
  BY <1>1, <1>2, <1>4 DEF View, SoundInv
<1>5. QED
  BY <1>1, <1>2, <1>3, <1>4

\* Drain steps.  A batch writes drafts only; its commit publishes rows none of
\* which is running.
LEMMA DrainOutcomeInv ==
  ASSUME OutcomeInv, TypeInv', NEW d \in Drains,
         DrainBegin(d) \/ DrainStep(d) \/ DrainAbort(d)
  PROVE  OutcomeInv'
<1> USE DEF OutcomeInv, TypeInv
<1>1. d \in Backends /\ d # NoPid /\ d \notin Workers
  BY DEF Backends
<1>2. CASE DrainBegin(d)
  <2>1. SoundInv' /\ ClaimInv'
    BY <1>2, OutsideWorkers DEF DrainBegin, TypeOK
  <2>2. \A j \in Jobs : Stale(jobs[j]) =>
          /\ Sound(Requeued(jobs[j]))
          /\ Requeued(jobs[j]).status = "pending"
          /\ jobs[j].status = "running"
    BY SoundOperations DEF SoundInv, Stale, TypeOK, Backends
  <2>3. \A j \in Jobs : IF Stale(jobs[j])
                        THEN /\ lock[j] = NoPid
                             /\ lock'[j] = d
                             /\ draft'[j] = Requeued(jobs[j])
                        ELSE lock'[j] = lock[j] /\ draft'[j] = draft[j]
    BY <1>2 DEF DrainBegin, Unlocked
  <2>4. \A e \in Drains : /\ cur'[e] = cur[e]
                          /\ claimNo'[e] = claimNo[e]
                          /\ pc'[e] = IF e = d THEN "draining" ELSE pc[e]
    BY <1>2 DEF DrainBegin, TypeOK, Backends
  <2>5. \A j \in Jobs : lock'[j] # NoPid => 
          /\ jobs'[j].status \in {"pending", "running"}
          /\ draft'[j].status \in {"pending", "running", "done", "failed"}
          /\ Sound(draft'[j])
          /\ draft'[j].status = "running" =>
               /\ draft'[j].pid = lock'[j]
               /\ pc'[lock'[j]] = "executing"
               /\ cur'[lock'[j]] = j
               /\ draft'[j].attempts = claimNo'[lock'[j]]
    <3> SUFFICES ASSUME NEW j \in Jobs, lock'[j] # NoPid
                 PROVE  /\ jobs'[j].status \in {"pending", "running"}
                        /\ draft'[j].status \in {"pending", "running", "done", "failed"}
                        /\ Sound(draft'[j])
                        /\ draft'[j].status = "running" =>
                             /\ draft'[j].pid = lock'[j]
                             /\ pc'[lock'[j]] = "executing"
                             /\ cur'[lock'[j]] = j
                             /\ draft'[j].attempts = claimNo'[lock'[j]]
      OBVIOUS
    <3>1. CASE Stale(jobs[j])
      BY <1>2, <2>2, <2>3, <3>1 DEF DrainBegin
    <3>2. CASE ~Stale(jobs[j])
      <4>1. lock'[j] = lock[j] /\ draft'[j] = draft[j] /\ jobs'[j] = jobs[j]
        BY <1>2, <2>3, <3>2 DEF DrainBegin
      <4>2. lock[j] \in Drains
        BY <4>1 DEF TypeOK
      <4>3. draft[j].status = "running" => lock[j] # d
        BY <1>2, RunningDraft DEF DrainBegin
      <4>4. QED
        BY <2>4, <4>1, <4>2, <4>3 DEF DraftInv, Sound
    <3>3. QED
      BY <3>1, <3>2
  <2>6. ASSUME NEW e \in Drains, pc'[e] = "executing"
        PROVE  lock'[cur'[e]] = e /\ draft'[cur'[e]].status = "running"
    <3>1. pc[e] = "executing" /\ cur'[e] = cur[e]
      BY <2>4, <2>6
    <3>2. cur[e] \in Jobs /\ lock[cur[e]] = e /\ draft[cur[e]].status = "running"
      BY <3>1 DEF ExecutingInv, DraftInv, Backends
    <3>3. e # NoPid
      OBVIOUS
    <3>4. lock'[cur[e]] = lock[cur[e]] /\ draft'[cur[e]] = draft[cur[e]]
      BY <2>3, <3>2, <3>3
    <3>5. QED
      BY <3>1, <3>2, <3>4
  <2>7. DraftInv'
    BY <2>5, <2>6 DEF DraftInv
  <2>8. QED
    BY <2>1, <2>7
<1>3. CASE DrainClaim(d)
  <2>1. PICK j \in Jobs :
          /\ DrainGets(d, j)
          /\ Write(d, j, Claimed(View(d, j), d))
          /\ cur' = [cur EXCEPT ![d] = j]
          /\ claimNo' = [claimNo EXCEPT ![d] = Counted(View(d, j).attempts)]
    BY <1>3 DEF DrainClaim
  <2>2. /\ View(d, j) \in Row
        /\ Sound(View(d, j))
        /\ View(d, j).status = "pending"
        /\ lock[j] \in {d, NoPid}
        /\ jobs[j].status \in {"pending", "running"}
    BY <2>1, ClaimableRow DEF DrainGets
  <2>3. /\ Claimed(View(d, j), d) \in Row
        /\ Sound(Claimed(View(d, j), d))
        /\ Claimed(View(d, j), d).status = "running"
        /\ Claimed(View(d, j), d).pid = d
        /\ Claimed(View(d, j), d).attempts = Counted(View(d, j).attempts)
    BY <1>1, <2>2, ClaimedRow, SoundClaimed
  <2>4. \A k \in Jobs : lock[k] = d => draft[k].status # "running"
    BY <2>1, RunningDraft DEF DrainGets
  <2>5. /\ pc'[d] = "executing" /\ cur'[d] = j
        /\ claimNo'[d] = Counted(View(d, j).attempts)
        /\ UNCHANGED jobs
    BY <1>1, <1>3, <2>1 DEF DrainClaim, TypeOK
  <2>6. \A b \in Backends \ {d} : pc'[b] = pc[b] /\ cur'[b] = cur[b] /\ claimNo'[b] = claimNo[b]
    BY <1>3, <2>1 DEF DrainClaim, TypeOK
  <2> DEFINE row == Claimed(View(d, j), d)
  <2> HIDE DEF row
  <2>7. DraftInv'
    <3>1. /\ Write(d, j, row) /\ row \in Row /\ Sound(row)
          /\ row.status = "running" /\ row.pid = d
          /\ row.attempts = claimNo'[d]
      BY <2>1, <2>3, <2>5 DEF row
    <3>2. QED
      BY <2>2, <2>4, <2>5, <2>6, <3>1, WriteDraftInv
  <2>8. SoundInv' /\ ClaimInv'
    BY <2>5, <2>6, OutsideWorkers
  <2>9. QED
    BY <2>7, <2>8
<1>4. CASE DrainReclaim(d)
  <2>1. PICK j \in Jobs :
          /\ DrainGets(d, j)
          /\ Write(d, j, Requeued(Claimed(View(d, j), d)))
    BY <1>4 DEF DrainReclaim, TypeOK
  <2>2. /\ View(d, j) \in Row
        /\ Sound(View(d, j))
        /\ View(d, j).status = "pending"
        /\ lock[j] \in {d, NoPid}
        /\ jobs[j].status \in {"pending", "running"}
    BY <2>1, ClaimableRow DEF DrainGets
  <2>3. /\ Claimed(View(d, j), d) \in Row
        /\ Sound(Claimed(View(d, j), d))
        /\ Claimed(View(d, j), d).status = "running"
    BY <1>1, <2>2, ClaimedRow, SoundClaimed
  <2>4. /\ Requeued(Claimed(View(d, j), d)) \in Row
        /\ Sound(Requeued(Claimed(View(d, j), d)))
        /\ Requeued(Claimed(View(d, j), d)).status = "pending"
    BY <2>3, RequeuedRow, SoundOperations
  <2>5. \A k \in Jobs : lock[k] = d => draft[k].status # "running"
    BY <2>1, RunningDraft DEF DrainGets
  <2>6. pc'[d] = "returned" /\ UNCHANGED jobs
    BY <1>1, <1>4 DEF DrainReclaim, TypeOK
  <2>7. \A b \in Backends \ {d} : pc'[b] = pc[b] /\ cur'[b] = cur[b] /\ claimNo'[b] = claimNo[b]
    BY <1>4 DEF DrainReclaim, TypeOK
  <2> DEFINE row == Requeued(Claimed(View(d, j), d))
  <2> HIDE DEF row
  <2>8. DraftInv'
    <3>1. /\ Write(d, j, row) /\ row \in Row /\ Sound(row)
          /\ row.status = "pending"
      BY <2>1, <2>4 DEF row
    <3>2. QED
      BY <2>2, <2>5, <2>6, <2>7, <3>1, WriteDraftInv
  <2>9. SoundInv' /\ ClaimInv'
    BY <2>6, <2>7, OutsideWorkers
  <2>10. QED
    BY <2>8, <2>9
<1>5. CASE DrainPassEnds(d)
  <2>1. \A b \in Backends \ {d} : pc'[b] = pc[b] /\ cur'[b] = cur[b] /\ claimNo'[b] = claimNo[b]
    BY <1>5 DEF DrainPassEnds, TypeOK
  <2>2. SoundInv' /\ ClaimInv'
    BY <1>5, <2>1, OutsideWorkers DEF DrainPassEnds, tableVars
  <2>3. /\ UNCHANGED <<jobs, lock, draft, cur, claimNo>>
        /\ pc[d] = "draining"
        /\ pc'[d] = "returned"
    BY <1>1, <1>5 DEF DrainPassEnds, tableVars, TypeOK
  <2>4. \A e \in Drains : pc'[e] = "executing" <=> pc[e] = "executing"
    BY <1>1, <2>1, <2>3 DEF Backends
  <2>5. \A j \in Jobs : lock[j] # NoPid => lock[j] \in Drains
    BY DEF TypeOK
  <2>6. DraftInv'
    BY <2>3, <2>4, <2>5 DEF DraftInv, Sound
  <2>7. QED
    BY <2>2, <2>6
<1>6. ASSUME NEW row \in Row, DrainFinish(d, row),
             Sound(row), row.status \in {"pending", "done", "failed"}
      PROVE  OutcomeInv'
  <2>1. /\ pc[d] = "executing"
        /\ cur[d] \in Jobs
        /\ lock[cur[d]] = d
        /\ draft[cur[d]].status = "running"
        /\ draft[cur[d]].pid = d
        /\ jobs[cur[d]].status \in {"pending", "running"}
    <3>1. pc[d] = "executing"
      BY <1>6 DEF DrainFinish
    <3>2. QED
      BY <3>1, ExecutingDraft
  <2>2. Write(d, cur[d], row)
    BY <1>6, <2>1 DEF DrainFinish, Owns, View
  <2>3. \A k \in Jobs \ {cur[d]} : lock[k] = d => draft[k].status # "running"
    BY RunningDraft
  <2>4. pc'[d] = "draining" /\ UNCHANGED jobs
    BY <1>1, <1>6 DEF DrainFinish, TypeOK
  <2>5. \A b \in Backends \ {d} : pc'[b] = pc[b] /\ cur'[b] = cur[b] /\ claimNo'[b] = claimNo[b]
    BY <1>6 DEF DrainFinish, TypeOK
  <2>6. DraftInv'
    BY <1>6, <2>1, <2>2, <2>3, <2>4, <2>5, WriteDraftInv
  <2>7. SoundInv' /\ ClaimInv'
    BY <2>4, <2>5, OutsideWorkers
  <2>8. QED
    BY <2>6, <2>7
<1>7. ASSUME pc[d] = "executing"
      PROVE  LET r == View(d, cur[d])
             IN  /\ r \in Row /\ Sound(r) /\ r.status = "running"
                 /\ r.attempts = claimNo[d] /\ claimNo[d] \in Nat
  <2>1. /\ lock[cur[d]] = d
        /\ draft[cur[d]] \in Row
        /\ Sound(draft[cur[d]])
        /\ draft[cur[d]].status = "running"
        /\ draft[cur[d]].attempts = claimNo[d]
    BY <1>7, ExecutingDraft
  <2>2. View(d, cur[d]) = draft[cur[d]]
    BY <2>1 DEF View
  <2>3. claimNo[d] \in Nat
    BY <1>1 DEF TypeOK
  <2>4. QED
    BY <2>1, <2>2, <2>3
<1>8. CASE DrainComplete(d)
  <2> DEFINE r == View(d, cur[d])
  <2>1. pc[d] = "executing"
    BY <1>8 DEF DrainComplete, DrainFinish
  <2>2. /\ Sound(Completed(r, claimNo[d]))
        /\ Completed(r, claimNo[d]).status = "done"
        /\ Completed(r, claimNo[d]) \in Row
    BY <1>7, <2>1, SoundOperations, CompletedRow
  <2>3. QED
    BY <1>6, <1>8, <2>2 DEF DrainComplete
<1>9. CASE DrainFail(d)
  <2> DEFINE r == View(d, cur[d])
  <2>1. pc[d] = "executing"
    BY <1>9 DEF DrainFail, DrainFinish
  <2>2. /\ Sound(FailedOrRequeued(r))
        /\ FailedOrRequeued(r).status \in {"pending", "failed"}
        /\ FailedOrRequeued(r) \in Row
    BY <1>7, <2>1, SoundOperations, FailedOrRequeuedRow
  <2>3. QED
    BY <1>6, <1>9, <2>2 DEF DrainFail
<1>10. ASSUME DrainEnds(d),
              \A j \in Jobs : lock[j] # d => jobs'[j] = jobs[j]
       PROVE  DraftInv'
  <2>1. \A b \in Backends \ {d} : pc'[b] = pc[b] /\ cur'[b] = cur[b] /\ claimNo'[b] = claimNo[b]
    BY <1>10 DEF DrainEnds, TypeOK
  <2>2. \A j \in Jobs : IF lock[j] = d
                        THEN lock'[j] = NoPid
                        ELSE lock'[j] = lock[j] /\ draft'[j] = draft[j]
    BY <1>10 DEF DrainEnds
  <2>3. ASSUME NEW j \in Jobs, lock'[j] # NoPid
        PROVE  /\ jobs'[j].status \in {"pending", "running"}
               /\ draft'[j].status \in {"pending", "running", "done", "failed"}
               /\ Sound(draft'[j])
               /\ draft'[j].status = "running" =>
                    /\ draft'[j].pid = lock'[j]
                    /\ pc'[lock'[j]] = "executing"
                    /\ cur'[lock'[j]] = j
                    /\ draft'[j].attempts = claimNo'[lock'[j]]
    <3>1. lock[j] # d /\ lock'[j] = lock[j] /\ draft'[j] = draft[j] /\ jobs'[j] = jobs[j]
      BY <1>10, <2>2, <2>3
    <3>2. lock[j] \in Backends \ {d}
      BY <2>3, <3>1 DEF TypeOK, Backends
    <3>3. QED
      BY <2>1, <2>3, <3>1, <3>2 DEF DraftInv, Sound
  <2>4. ASSUME NEW e \in Drains, pc'[e] = "executing"
        PROVE  lock'[cur'[e]] = e /\ draft'[cur'[e]].status = "running"
    <3>1. e # d
      BY <1>1, <1>10, <2>4 DEF DrainEnds, TypeOK
    <3>2. pc[e] = "executing" /\ cur'[e] = cur[e]
      BY <2>1, <2>4, <3>1 DEF Backends
    <3>3. cur[e] \in Jobs /\ lock[cur[e]] = e /\ draft[cur[e]].status = "running"
      BY <3>2 DEF ExecutingInv, DraftInv, Backends
    <3>4. lock'[cur[e]] = lock[cur[e]] /\ draft'[cur[e]] = draft[cur[e]]
      BY <2>2, <3>1, <3>3
    <3>5. QED
      BY <3>2, <3>3, <3>4
  <2>5. QED
    BY <2>3, <2>4 DEF DraftInv
<1>11. CASE DrainCommit(d)
  <2>1. \A j \in Jobs : jobs'[j] = IF lock[j] = d THEN draft[j] ELSE jobs[j]
    BY <1>11 DEF DrainCommit, View
  <2>2. DraftInv'
    BY <1>10, <1>11, <2>1 DEF DrainCommit
  <2>3. SoundInv'
    BY <1>1, <2>1 DEF SoundInv, DraftInv, Sound
  <2>4. \A j \in Jobs : lock[j] = d => draft[j].status # "running"
    BY <1>11, RunningDraft DEF DrainCommit
  <2>5. ASSUME NEW w \in Workers, pc'[w] = "executing", Owns(jobs'[cur'[w]], w)
        PROVE  jobs'[cur'[w]].attempts = claimNo'[w]
    <3>1. pc[w] = "executing" /\ cur'[w] = cur[w] /\ claimNo'[w] = claimNo[w]
      BY <1>1, <1>11, <2>5 DEF DrainCommit, DrainEnds, TypeOK, Backends
    <3>2. cur[w] \in Jobs
      BY <3>1 DEF ExecutingInv, Backends
    <3>3. jobs'[cur[w]] = jobs[cur[w]]
      BY <2>1, <2>4, <2>5, <3>1, <3>2 DEF Owns
    <3>4. QED
      BY <2>5, <3>1, <3>3 DEF ClaimInv
  <2>6. QED
    BY <2>2, <2>3, <2>5 DEF ClaimInv
<1>12. ASSUME DrainEnds(d), UNCHANGED jobs PROVE OutcomeInv'
  <2>1. \A b \in Backends \ {d} : pc'[b] = pc[b] /\ cur'[b] = cur[b] /\ claimNo'[b] = claimNo[b]
    BY <1>12 DEF DrainEnds, TypeOK
  <2>2. SoundInv' /\ ClaimInv'
    BY <1>12, <2>1, OutsideWorkers
  <2>3. QED
    BY <1>10, <1>12, <2>2
<1>13. CASE DrainAbort(d)
  BY <1>12, <1>13 DEF DrainAbort
<1>14. CASE DrainError(d)
  BY <1>12, <1>14 DEF DrainError
<1>15. QED
  BY <1>2, <1>3, <1>4, <1>5, <1>8, <1>9, <1>11, <1>13, <1>14 DEF DrainStep

LEMMA NextOutcomeInv == OutcomeInv /\ [Next]_vars => OutcomeInv'
<1> SUFFICES ASSUME OutcomeInv, [Next]_vars PROVE OutcomeInv'
  OBVIOUS
<1>1. TypeInv'
  BY NextTypeInv DEF OutcomeInv
<1>2. CASE UNCHANGED vars
  BY <1>1, <1>2 DEF vars, OutcomeInv, ClaimInv, DraftInv, SoundInv, Sound, Owns
<1>3. QED
  BY <1>1, <1>2, ClientOutcomeInv, WorkerOutcomeInv, DrainOutcomeInv DEF Next

LEMMA AlwaysOutcomeInv == Spec => []OutcomeInv
BY InitOutcomeInv, NextOutcomeInv, PTL DEF Spec

\* A done job's answer is the one its latest claim produced, for any number of
\* jobs, workers and drains and whatever the timeouts are.
THEOREM AnswerIsCurrent == Spec => []AnswerFromLastClaim
<1>1. OutcomeInv => AnswerFromLastClaim
  BY DEF OutcomeInv, SoundInv, Sound, AnswerFromLastClaim
<1>2. QED
  BY <1>1, AlwaysOutcomeInv, PTL

-----------------------------------------------------------------------------
(* Outcomes are final, and the queue implements AsyncJobs. *)

\* A step that only works on open rows: it keeps them open or gives them an
\* outcome, and changes no other row.
WorksOnOpenRows ==
  \A j \in Jobs :
    IF jobs[j].status \in {"pending", "running"}
    THEN jobs'[j].status \in {"pending", "running"} \cup Terminal
    ELSE jobs'[j] = jobs[j]

\* Apart from submitting and pruning, that is all a step does.
LEMMA StepWorksOnOpenRows ==
  ASSUME OutcomeInv, Next
  PROVE  \/ \E j \in Jobs : Submit(j)
         \/ \E S \in SUBSET Jobs : Prune(S)
         \/ WorksOnOpenRows
<1> USE DEF OutcomeInv, TypeInv
<1>1. ASSUME UNCHANGED jobs PROVE WorksOnOpenRows
  BY <1>1 DEF WorksOnOpenRows
<1>2. ASSUME NEW j \in Jobs, Cancel(j) PROVE WorksOnOpenRows
  <2>1. Cancelled(jobs[j]).status = "cancelled"
    BY DEF Cancelled, TypeOK, Row
  <2>2. QED
    BY <1>2, <2>1 DEF Cancel, WorksOnOpenRows, TypeOK, Terminal
<1>3. CASE Tick
  <2>1. \A j \in Jobs : jobs'[j].status = jobs[j].status
    BY <1>3 DEF Tick, TypeOK, Row
  <2>2. \A j \in Jobs : jobs[j].status # "running" => jobs'[j] = jobs[j]
    BY <1>3 DEF Tick
  <2>3. QED
    BY <2>1, <2>2 DEF WorksOnOpenRows
<1>4. ASSUME RecoverOrphans PROVE WorksOnOpenRows
  <2>1. \A j \in Jobs : Requeued(jobs[j]).status = "pending"
    BY DEF Requeued, TypeOK, Row
  <2>2. \A j \in Jobs : IF Stale(jobs[j]) THEN jobs[j].status = "running" /\ jobs'[j] = Requeued(jobs[j])
                                          ELSE jobs'[j] = jobs[j]
    BY <1>4 DEF RecoverOrphans, Stale
  <2>3. QED
    BY <2>1, <2>2 DEF WorksOnOpenRows
<1>5. ASSUME NEW w \in Workers, WorkerStep(w) \/ WorkerWakeBadConfig(w) \/ WorkerCrash(w)
      PROVE  WorksOnOpenRows
  <2>1. CASE WorkerWake(w) \/ WorkerWakeBadConfig(w)
    BY <1>4, <2>1 DEF WorkerWake, WorkerWakeBadConfig
  <2>2. CASE WorkerClaim(w)
    <3>1. PICK j \in Jobs : IsNext(w, j) /\ jobs' = [jobs EXCEPT ![j] = Claimed(@, w)]
      BY <2>2 DEF WorkerClaim
    <3>2. jobs[j].status = "pending"
      BY <3>1 DEF IsNext, Claimable, View, TypeOK
    <3>3. Claimed(jobs[j], w).status = "running"
      BY DEF Claimed, TypeOK, Row
    <3>4. QED
      BY <3>1, <3>2, <3>3 DEF WorksOnOpenRows, TypeOK
  <2>3. ASSUME NEW row, WorkerFinish(w, row),
               row.status \in {"pending"} \cup Terminal
        PROVE  WorksOnOpenRows
    BY <2>3 DEF WorkerFinish, ExecutingInv, WorksOnOpenRows, Owns, TypeOK, Backends
  <2>4. ASSUME pc[w] = "executing" PROVE jobs[cur[w]] \in Row
    BY <2>4 DEF ExecutingInv, TypeOK, Backends
  <2>5. CASE WorkerComplete(w)
    <3>1. Completed(jobs[cur[w]], claimNo[w]).status = "done"
      BY <2>4, <2>5 DEF WorkerComplete, WorkerFinish, Completed, Row
    <3>2. QED
      BY <2>3, <2>5, <3>1 DEF WorkerComplete, Terminal
  <2>6. CASE WorkerFail(w)
    <3>1. FailedOrRequeued(jobs[cur[w]]).status \in {"pending", "failed"}
      BY <2>4, <2>6 DEF WorkerFail, WorkerFinish, FailedOrRequeued, Requeued, Row
    <3>2. QED
      BY <2>3, <2>6, <3>1 DEF WorkerFail, Terminal
  <2>7. CASE WorkerPassEnds(w) \/ WorkerError(w) \/ WorkerCrash(w) \/ WorkerStart(w)
    BY <1>1, <2>7 DEF WorkerPassEnds, WorkerError, WorkerCrash, WorkerDies, WorkerStart, tableVars
  <2>8. QED
    BY <1>5, <2>1, <2>2, <2>5, <2>6, <2>7 DEF WorkerStep
<1>6. ASSUME NEW d \in Drains, DrainBegin(d) \/ DrainStep(d) \/ DrainAbort(d)
      PROVE  WorksOnOpenRows
  <2>1. CASE DrainCommit(d)
    <3>1. \A j \in Jobs : jobs'[j] = IF lock[j] = d THEN draft[j] ELSE jobs[j]
      BY <2>1 DEF DrainCommit, View
    <3>2. \A j \in Jobs : lock[j] = d =>
            /\ jobs[j].status \in {"pending", "running"}
            /\ draft[j].status \in {"pending", "running", "done", "failed"}
      BY DEF DraftInv
    <3>3. QED
      BY <3>1, <3>2 DEF WorksOnOpenRows, Terminal
  <2>2. CASE ~DrainCommit(d)
    BY <1>1, <1>6, <2>2 DEF DrainStep, DrainBegin, DrainClaim, DrainReclaim, DrainPassEnds,
         DrainComplete, DrainFail, DrainFinish, DrainError, DrainAbort, tableVars
  <2>3. QED
    BY <2>1, <2>2
<1>7. QED
  BY <1>1, <1>2, <1>3, <1>5, <1>6 DEF Next, SetEnabled, tableVars

\* Once a job has an outcome its row does not change until it is pruned.
THEOREM OutcomesAreFinal == Spec => TerminalIsFinal
<1> DEFINE Final == \A j \in Jobs : jobs[j].status \in Terminal =>
                      jobs'[j] \in {jobs[j], NoRow("pruned")}
<1>1. OutcomeInv /\ [Next]_vars => [Final]_vars
  <2> SUFFICES ASSUME OutcomeInv, Next PROVE Final
    BY DEF vars
  <2>1. CASE \E j \in Jobs : Submit(j)
    BY <2>1 DEF Submit, Terminal, OutcomeInv, TypeInv, TypeOK
  <2>2. CASE \E S \in SUBSET Jobs : Prune(S)
    BY <2>2 DEF Prune
  <2>3. CASE WorksOnOpenRows
    BY <2>3 DEF WorksOnOpenRows, Terminal
  <2>4. QED
    BY <2>1, <2>2, <2>3, StepWorksOnOpenRows
<1>2. QED
  BY <1>1, AlwaysOutcomeInv, PTL DEF Spec, TerminalIsFinal

\* The queue implements its promise: seen through Phase, every step of clients,
\* workers and drains is a step of AsyncJobs or leaves the client's view alone.
THEOREM QueueImplementsPromise == Spec => ImplementsAsyncJobs
<1> DEFINE phase  == [j \in Jobs |-> Phase(jobs[j])]
           answer == [j \in Jobs |-> jobs[j].answer]
<1>1. Init => Promise!Init
  BY DEF Init, Promise!Init, Phase, NoRow
<1>2. OutcomeInv /\ OutcomeInv' /\ [Next]_vars => [Promise!Next]_(Promise!jobVars)
  <2> SUFFICES ASSUME OutcomeInv, OutcomeInv', [Next]_vars
               PROVE  Promise!Next \/ UNCHANGED <<phase, answer>>
    BY DEF Promise!jobVars
  <2>1. CASE UNCHANGED vars
    BY <2>1 DEF vars
  <2>2. ASSUME NEW j \in Jobs, Submit(j) PROVE Promise!Submit(j)
    <3>1. jobs[j].status = "absent" /\ Phase(jobs[j]) = "absent"
      BY <2>2 DEF Submit, Phase
    <3>2. jobs'[j].status = "pending" /\ Phase(jobs'[j]) = "open" /\ jobs'[j].answer = 0
      BY <2>2 DEF Submit, Phase, NoRow, OutcomeInv, TypeInv, TypeOK
    <3>3. \A k \in Jobs \ {j} : jobs'[k] = jobs[k]
      BY <2>2 DEF Submit, OutcomeInv, TypeInv, TypeOK
    <3>4. jobs[j].answer = 0
      BY <3>1 DEF OutcomeInv, SoundInv, Sound
    <3>5. QED
      BY <3>1, <3>2, <3>3, <3>4 DEF Promise!Submit, Phase
  <2>3. ASSUME NEW S \in SUBSET Jobs, Prune(S) PROVE Promise!Prune(S)
    <3>1. \A j \in Jobs : j \in S => Phase(jobs[j]) \in {"done", "failed", "cancelled"}
      BY <2>3 DEF Prune, Terminal, Phase
    <3>2. \A j \in Jobs : IF j \in S THEN Phase(jobs'[j]) = "pruned" /\ jobs'[j].answer = 0
                                     ELSE jobs'[j] = jobs[j]
      BY <2>3 DEF Prune, Phase, NoRow
    <3>3. QED
      BY <3>1, <3>2 DEF Promise!Prune, Promise!Outcomes, Phase
  <2>4. ASSUME WorksOnOpenRows PROVE Promise!Publish
    <3>1. \A j \in Jobs : /\ jobs'[j].status \in Status
                          /\ jobs'[j].answer \in Nat
      BY DEF OutcomeInv, TypeInv, TypeOK, Row
    <3>2. \A j \in Jobs : Phase(jobs'[j]) \in Promise!Phases
      BY <3>1 DEF Phase, Status, Terminal, Promise!Phases, Promise!Outcomes
    <3>3. ASSUME NEW j \in Jobs
          PROVE  /\ Phase(jobs'[j]) # Phase(jobs[j]) =>
                      Phase(jobs[j]) = "open" /\ Phase(jobs'[j]) \in Promise!Outcomes
                 /\ jobs'[j].answer # jobs[j].answer =>
                      Phase(jobs[j]) = "open" /\ Phase(jobs'[j]) = "done"
      <4>1. Sound(jobs[j]) /\ Sound(jobs'[j])
        BY DEF OutcomeInv, SoundInv, Sound
      <4>2. CASE jobs[j].status \in {"pending", "running"}
        BY <2>4, <4>1, <4>2 DEF WorksOnOpenRows, Phase, Sound, Terminal, Promise!Outcomes
      <4>3. CASE jobs[j].status \notin {"pending", "running"}
        BY <2>4, <4>3 DEF WorksOnOpenRows, Phase
      <4>4. QED
        BY <4>2, <4>3
    <3>4. QED
      BY <3>1, <3>2, <3>3 DEF Promise!Publish
  <2>5. QED
    BY <2>1, <2>2, <2>3, <2>4, StepWorksOnOpenRows DEF Promise!Next
<1>3. QED
  BY <1>1, <1>2, AlwaysOutcomeInv, PTL DEF Spec, ImplementsAsyncJobs, Promise!Spec

-----------------------------------------------------------------------------
(* One execution at a time. *)

LEMMA RowNumbers == ASSUME NEW r \in Row PROVE r.age \in Nat /\ r.attempts \in Nat
<1>1. r.age \in 0 .. OrphanTimeout + 1 /\ r.attempts \in Nat
  BY DEF Row
<1>2. QED
  BY <1>1

\* Executions end before their claims look stale.
RunsAreShort == MaxRun <= OrphanTimeout

\* The row of the job a worker executes has an outcome - the owner cancelled it -
\* or it is the worker's claim, as old as the execution, and no drain has it.
Live(w) ==
  LET r == jobs[cur[w]] IN
  \/ r.status \in Terminal \cup {"pruned"}
  \/ r.status = "running" /\ r.pid = w /\ r.age = ran[w] /\ lock[cur[w]] = NoPid

LiveInv == \A w \in Workers : pc[w] = "executing" => Live(w)

\* What is kept: an outcome alone would not tell two workers apart, so that they
\* work on different jobs is part of the invariant.
RunInv == OutcomeInv /\ LiveInv /\ SingleLiveRun

\* No worker executes a job whose row is open and not a young claim, or that a
\* drain has locked.
LEMMA NobodyOn ==
  ASSUME RunInv, NEW j \in Jobs,
         \/ jobs[j].status \in {"pending", "absent"}
         \/ lock[j] # NoPid
         \/ jobs[j].status = "running" /\ jobs[j].age > MaxRun
  PROVE  \A w \in Workers : ~(pc[w] = "executing" /\ cur[w] = j)
<1> SUFFICES ASSUME NEW w \in Workers, pc[w] = "executing", cur[w] = j PROVE FALSE
  OBVIOUS
<1>1. Live(w)
  BY DEF RunInv, LiveInv
<1>2. lock[j] # NoPid => jobs[j].status \in {"pending", "running"}
  BY DEF RunInv, OutcomeInv, DraftInv
<1>3. jobs[j].status \notin Terminal \cup {"pruned"}
  BY <1>2 DEF Terminal
<1>4. jobs[j].status = "running" /\ jobs[j].age = ran[w] /\ lock[j] = NoPid
  BY <1>1, <1>3 DEF Live
<1>5. ran[w] \in 0 .. MaxRun
  BY DEF RunInv, OutcomeInv, TypeInv, TypeOK
<1>6. QED
  BY <1>4, <1>5

\* A drain executes only jobs it has locked.
LEMMA DrainsHoldTheirs ==
  ASSUME RunInv, NEW d \in Drains, pc[d] = "executing"
  PROVE  cur[d] \in Jobs /\ lock[cur[d]] = d
BY DEF RunInv, OutcomeInv, TypeInv, ExecutingInv, DraftInv, Backends

\* A step in which nobody begins an execution.
LEMMA NoNewRun ==
  ASSUME SingleLiveRun,
         \A b \in Backends : pc'[b] = "executing" => pc[b] = "executing" /\ cur'[b] = cur[b]
  PROVE  SingleLiveRun'
BY DEF SingleLiveRun

\* A step in which x alone begins one, of a job that nobody else executes.
LEMMA OneNewRun ==
  ASSUME SingleLiveRun, NEW x \in Backends, NEW j \in Jobs,
         \A b \in Backends \ {x} : pc'[b] = pc[b] /\ cur'[b] = cur[b],
         cur'[x] = j,
         \A b \in Backends \ {x} : ~(pc[b] = "executing" /\ cur[b] = j)
  PROVE  SingleLiveRun'
BY DEF SingleLiveRun

\* A step that leaves the executing workers and their rows alone, or settles them.
LEMMA LiveKept ==
  ASSUME RunInv,
         \A w \in Workers : pc'[w] = "executing" =>
           /\ pc[w] = "executing"
           /\ cur'[w] = cur[w]
           /\ ran'[w] = ran[w]
           /\ \/ jobs'[cur[w]] = jobs[cur[w]] /\ lock'[cur[w]] = lock[cur[w]]
              \/ jobs'[cur[w]] = jobs[cur[w]] /\ jobs[cur[w]].status \in Terminal \cup {"pruned"}
              \/ jobs'[cur[w]].status \in Terminal \cup {"pruned"}
  PROVE  LiveInv'
<1> SUFFICES ASSUME NEW w \in Workers, pc'[w] = "executing" PROVE Live(w)'
  BY DEF LiveInv
<1>1. Live(w)
  BY DEF RunInv, LiveInv
<1>2. QED
  BY <1>1 DEF Live

\* Clients, the operator and time.
LEMMA ClientRunInv ==
  ASSUME RunInv, RunsAreShort,
         \/ \E j \in Jobs : Submit(j) \/ Cancel(j)
         \/ \E S \in SUBSET Jobs : Prune(S)
         \/ SetEnabled
         \/ Tick
  PROVE  LiveInv' /\ SingleLiveRun'
<1> USE DEF RunInv, OutcomeInv, TypeInv
<1>1. \A w \in Workers : pc[w] = "executing" => cur[w] \in Jobs
  BY DEF ExecutingInv, Backends
<1>2. UNCHANGED <<pc, cur, lock>>
  BY DEF Submit, Cancel, Prune, SetEnabled, Tick, tableVars
<1>3. SingleLiveRun'
  BY <1>2, NoNewRun
<1>4. ASSUME NEW j \in Jobs, Submit(j) PROVE LiveInv'
  <2>1. \A w \in Workers : pc[w] = "executing" => cur[w] # j
    BY <1>4, NobodyOn DEF Submit
  <2>2. QED
    BY <1>1, <1>4, <2>1, LiveKept DEF Submit, TypeOK
<1>5. ASSUME NEW j \in Jobs, Cancel(j) PROVE LiveInv'
  <2>1. jobs'[j].status = "cancelled"
    <3>1. Cancelled(jobs[j]).status = "cancelled"
      BY DEF Cancelled, TypeOK, Row
    <3>2. QED
      BY <1>5, <3>1 DEF Cancel, TypeOK
  <2>2. \A k \in Jobs \ {j} : jobs'[k] = jobs[k]
    BY <1>5 DEF Cancel, TypeOK
  <2>3. UNCHANGED ran
    BY <1>5 DEF Cancel
  <2>4. QED
    BY <1>1, <1>2, <2>1, <2>2, <2>3, LiveKept DEF Terminal
<1>6. ASSUME NEW S \in SUBSET Jobs, Prune(S) PROVE LiveInv'
  <2>1. \A j \in Jobs : IF j \in S THEN jobs'[j].status = "pruned" ELSE jobs'[j] = jobs[j]
    BY <1>6 DEF Prune, NoRow
  <2>2. UNCHANGED ran
    BY <1>6 DEF Prune
  <2>3. QED
    BY <1>1, <1>2, <2>1, <2>2, LiveKept
<1>7. CASE SetEnabled
  <2>1. UNCHANGED <<jobs, ran>>
    BY <1>7 DEF SetEnabled, tableVars
  <2>2. LiveInv'
    BY <1>2, <2>1, LiveKept
  <2>3. QED
    BY <1>3, <2>2
<1>8. ASSUME Tick PROVE LiveInv'
  <2> SUFFICES ASSUME NEW w \in Workers, pc'[w] = "executing" PROVE Live(w)'
    BY DEF LiveInv
  <2>1. pc[w] = "executing" /\ cur'[w] = cur[w] /\ cur[w] \in Jobs
    BY <1>1, <1>2
  <2>2. Live(w)
    BY <2>1 DEF LiveInv
  <2>3. ran'[w] = ran[w] + 1 /\ ran[w] < MaxRun /\ ran[w] \in Nat
    BY <1>8, <2>1 DEF Tick, TypeOK
  <2>4. CASE jobs[cur[w]].status \in Terminal \cup {"pruned"}
    <3>1. jobs'[cur[w]] = jobs[cur[w]]
      BY <1>8, <2>1, <2>4 DEF Tick, Terminal
    <3>2. QED
      BY <2>1, <2>4, <3>1 DEF Live
  <2>5. CASE /\ jobs[cur[w]].status = "running" /\ jobs[cur[w]].pid = w
             /\ jobs[cur[w]].age = ran[w] /\ lock[cur[w]] = NoPid
    <3>1. jobs[cur[w]].age <= OrphanTimeout
      BY <2>3, <2>5 DEF RunsAreShort
    <3>2. jobs'[cur[w]] = [jobs[cur[w]] EXCEPT !.age = @ + 1]
      BY <1>8, <2>1, <2>5, <3>1 DEF Tick
    <3>3. jobs[cur[w]] \in Row
      BY <2>1 DEF TypeOK
    <3>4. QED
      BY <1>2, <2>1, <2>3, <2>5, <3>2, <3>3 DEF Live, Row
  <2>6. QED
    BY <2>2, <2>4, <2>5 DEF Live
<1>9. QED
  BY <1>3, <1>4, <1>5, <1>6, <1>7, <1>8

\* Workers: a row they recover or claim is nobody's, one they finish their own.
LEMMA WorkerRunInv ==
  ASSUME RunInv, RunsAreShort, NEW w \in Workers,
         WorkerStep(w) \/ WorkerWakeBadConfig(w) \/ WorkerCrash(w)
  PROVE  LiveInv' /\ SingleLiveRun'
<1> USE DEF RunInv, OutcomeInv, TypeInv
<1>1. \A v \in Workers : pc[v] = "executing" => cur[v] \in Jobs
  BY DEF ExecutingInv, Backends
<1>2. ASSUME \A b \in Backends : pc'[b] = "executing" => pc[b] = "executing" /\ cur'[b] = cur[b]
      PROVE  SingleLiveRun'
  BY <1>2, NoNewRun
<1>3. ASSUME RecoverOrphans, UNCHANGED <<lock, cur, ran>>,
             \A b \in Backends : pc'[b] = "executing" => pc[b] = "executing"
      PROVE  LiveInv' /\ SingleLiveRun'
  <2>1. ASSUME NEW v \in Workers, pc[v] = "executing" PROVE ~Stale(jobs[cur[v]])
    <3>1. cur[v] \in Jobs /\ jobs[cur[v]].age \in Nat
      BY <1>1, <2>1, RowNumbers DEF TypeOK
    <3>2. Stale(jobs[cur[v]]) => jobs[cur[v]].status = "running" /\ jobs[cur[v]].age > MaxRun
      BY <3>1 DEF Stale, RunsAreShort
    <3>3. QED
      BY <2>1, <3>1, <3>2, NobodyOn
  <2>2. \A v \in Workers : pc[v] = "executing" => jobs'[cur[v]] = jobs[cur[v]]
    BY <1>1, <1>3, <2>1 DEF RecoverOrphans
  <2>3. LiveInv'
    BY <1>3, <2>2, LiveKept DEF Backends
  <2>4. QED
    BY <1>2, <1>3, <2>3
<1>4. CASE WorkerWake(w) \/ WorkerWakeBadConfig(w)
  BY <1>3, <1>4 DEF WorkerWake, WorkerWakeBadConfig, TypeOK
<1>5. CASE WorkerClaim(w)
  <2>1. PICK j \in Jobs :
          /\ IsNext(w, j)
          /\ jobs' = [jobs EXCEPT ![j] = Claimed(@, w)]
          /\ cur' = [cur EXCEPT ![w] = j]
    BY <1>5 DEF WorkerClaim
  <2>2. lock[j] = NoPid /\ jobs[j].status = "pending"
    BY <2>1 DEF IsNext, Claimable, View, TypeOK
  <2>3. \A v \in Workers : ~(pc[v] = "executing" /\ cur[v] = j)
    BY <2>2, NobodyOn
  <2>4. \A d \in Drains : ~(pc[d] = "executing" /\ cur[d] = j)
    BY <2>2, DrainsHoldTheirs
  <2>5. \A b \in Backends \ {w} : pc'[b] = pc[b] /\ cur'[b] = cur[b]
    BY <1>5, <2>1 DEF WorkerClaim, TypeOK
  <2>6. cur'[w] = j
    BY <2>1 DEF TypeOK, Backends
  <2>7. SingleLiveRun'
    BY <2>3, <2>4, <2>5, <2>6, OneNewRun DEF Backends
  <2>8. ASSUME NEW v \in Workers, pc'[v] = "executing" PROVE Live(v)'
    <3>1. CASE v = w
      <4>1. /\ jobs'[j].status = "running" /\ jobs'[j].pid = w /\ jobs'[j].age = 0
        BY <2>1 DEF Claimed, TypeOK, Row
      <4>2. ran'[w] = 0 /\ lock'[j] = NoPid
        BY <1>5, <2>2 DEF WorkerClaim, TypeOK
      <4>3. QED
        BY <2>6, <3>1, <4>1, <4>2 DEF Live
    <3>2. CASE v # w
      <4>1. pc[v] = "executing" /\ cur'[v] = cur[v] /\ cur[v] \in Jobs /\ cur[v] # j
        BY <1>1, <2>3, <2>5, <2>8, <3>2 DEF Backends
      <4>2. jobs'[cur[v]] = jobs[cur[v]] /\ lock' = lock /\ ran'[v] = ran[v]
        BY <1>5, <2>1, <3>2, <4>1 DEF WorkerClaim, TypeOK
      <4>3. QED
        BY <4>1, <4>2 DEF LiveInv, Live
    <3>3. QED
      BY <3>1, <3>2
  <2>9. QED
    BY <2>7, <2>8 DEF LiveInv
<1>6. ASSUME NEW row, WorkerFinish(w, row) PROVE LiveInv' /\ SingleLiveRun'
  <2>1. pc[w] = "executing" /\ cur[w] \in Jobs
    BY <1>1, <1>6 DEF WorkerFinish
  <2>2. \A v \in Workers \ {w} : pc[v] = "executing" => cur[v] # cur[w]
    BY <2>1 DEF SingleLiveRun, Backends
  <2>3. \A b \in Backends : pc'[b] = "executing" =>
          b # w /\ pc[b] = "executing" /\ cur'[b] = cur[b]
    BY <1>6 DEF WorkerFinish, TypeOK
  <2>4. \A j \in Jobs \ {cur[w]} : jobs'[j] = jobs[j]
    BY <1>6 DEF WorkerFinish, TypeOK
  <2>5. lock' = lock /\ \A v \in Workers \ {w} : ran'[v] = ran[v]
    BY <1>6 DEF WorkerFinish, TypeOK
  <2>6. LiveInv'
    BY <1>1, <2>2, <2>3, <2>4, <2>5, LiveKept DEF Backends
  <2>7. QED
    BY <1>2, <2>3, <2>6
<1>7. CASE WorkerComplete(w) \/ WorkerFail(w)
  BY <1>6, <1>7 DEF WorkerComplete, WorkerFail
<1>8. ASSUME UNCHANGED tableVars, \A v \in Workers \ {w} : ran'[v] = ran[v],
             \A b \in Backends : pc'[b] = "executing" =>
               b # w /\ pc[b] = "executing" /\ cur'[b] = cur[b]
      PROVE  LiveInv' /\ SingleLiveRun'
  BY <1>2, <1>8, LiveKept DEF tableVars, Backends
<1>9. CASE WorkerPassEnds(w) \/ WorkerStart(w)
  BY <1>8, <1>9 DEF WorkerPassEnds, WorkerStart, TypeOK
<1>10. CASE WorkerError(w) \/ WorkerCrash(w)
  BY <1>8, <1>10 DEF WorkerError, WorkerCrash, WorkerDies, TypeOK
<1>11. QED
  BY <1>4, <1>5, <1>7, <1>9, <1>10 DEF WorkerStep

\* Drains: they lock rows that no worker executes, and never change the claim of
\* a worker that does.
LEMMA DrainRunInv ==
  ASSUME RunInv, RunsAreShort, NEW d \in Drains,
         DrainBegin(d) \/ DrainStep(d) \/ DrainAbort(d)
  PROVE  LiveInv' /\ SingleLiveRun'
<1> USE DEF RunInv, OutcomeInv, TypeInv
<1>1. \A w \in Workers : w # d /\ w \in Backends
  BY DEF Backends
<1>2. \A w \in Workers : pc[w] = "executing" => cur[w] \in Jobs
  BY DEF ExecutingInv, Backends
<1>3. UNCHANGED ran /\ \A b \in Backends \ {d} : pc'[b] = pc[b]
  BY DEF DrainBegin, DrainStep, DrainClaim, DrainReclaim, DrainPassEnds, DrainComplete,
         DrainFail, DrainFinish, DrainError, DrainCommit, DrainAbort, DrainEnds, TypeOK
<1>4. \A b \in Backends \ {d} : cur'[b] = cur[b]
  BY DEF DrainBegin, DrainStep, DrainClaim, DrainReclaim, DrainPassEnds, DrainComplete,
         DrainFail, DrainFinish, DrainError, DrainCommit, DrainAbort, DrainEnds, TypeOK
<1>5. ASSUME pc'[d] # "executing" PROVE SingleLiveRun'
  BY <1>3, <1>4, <1>5, NoNewRun
<1>6. ASSUME \A w \in Workers : pc[w] = "executing" =>
               jobs'[cur[w]] = jobs[cur[w]] /\ lock'[cur[w]] = lock[cur[w]]
      PROVE  LiveInv'
  BY <1>1, <1>3, <1>4, <1>6, LiveKept
<1>7. CASE DrainBegin(d)
  <2>1. ASSUME NEW w \in Workers, pc[w] = "executing" PROVE ~Stale(jobs[cur[w]])
    <3>1. cur[w] \in Jobs /\ jobs[cur[w]].age \in Nat
      BY <1>2, <2>1, RowNumbers DEF TypeOK
    <3>2. Stale(jobs[cur[w]]) => jobs[cur[w]].status = "running" /\ jobs[cur[w]].age > MaxRun
      BY <3>1 DEF Stale, RunsAreShort
    <3>3. QED
      BY <2>1, <3>1, <3>2, NobodyOn
  <2>2. \A w \in Workers : pc[w] = "executing" =>
          jobs'[cur[w]] = jobs[cur[w]] /\ lock'[cur[w]] = lock[cur[w]]
    BY <1>2, <1>7, <2>1 DEF DrainBegin
  <2>3. pc'[d] # "executing"
    BY <1>7 DEF DrainBegin, TypeOK, Backends
  <2>4. QED
    BY <1>5, <1>6, <2>2, <2>3
<1>8. ASSUME NEW j \in Jobs, NEW row, Write(d, j, row), UNCHANGED jobs,
             lock[j] = d \/ jobs[j].status = "pending"
      PROVE  LiveInv'
  <2>1. \A w \in Workers : pc[w] = "executing" => cur[w] # j
    BY <1>8, NobodyOn
  <2>2. \A k \in Jobs \ {j} : lock'[k] = lock[k]
    BY <1>8 DEF Write, TypeOK
  <2>3. QED
    BY <1>2, <1>6, <1>8, <2>1, <2>2
<1>9. ASSUME NEW j \in Jobs, DrainGets(d, j)
      PROVE  /\ lock[j] = d \/ jobs[j].status = "pending"
             /\ lock[j] \in {d, NoPid}
  BY <1>9 DEF DrainGets, IsNext, Claimable, View
<1>10. CASE DrainClaim(d)
  <2>1. PICK j \in Jobs : /\ DrainGets(d, j)
                          /\ Write(d, j, Claimed(View(d, j), d))
                          /\ cur' = [cur EXCEPT ![d] = j]
    BY <1>10 DEF DrainClaim
  <2>2. LiveInv'
    BY <1>8, <1>9, <1>10, <2>1 DEF DrainClaim
  <2>3. \A w \in Workers : ~(pc[w] = "executing" /\ cur[w] = j)
    BY <1>9, <2>1, NobodyOn
  <2>4. \A e \in Drains \ {d} : ~(pc[e] = "executing" /\ cur[e] = j)
    BY <1>9, <2>1, DrainsHoldTheirs
  <2>5. cur'[d] = j /\ d \in Backends
    BY <2>1 DEF TypeOK, Backends
  <2>6. SingleLiveRun'
    BY <1>3, <1>4, <2>3, <2>4, <2>5, OneNewRun DEF Backends
  <2>7. QED
    BY <2>2, <2>6
<1>11. CASE DrainReclaim(d)
  <2>1. PICK j \in attempted[d] :
          DrainGets(d, j) /\ Write(d, j, Requeued(Claimed(View(d, j), d)))
    BY <1>11 DEF DrainReclaim
  <2>2. j \in Jobs
    BY DEF TypeOK
  <2>3. LiveInv'
    BY <1>8, <1>9, <1>11, <2>1, <2>2 DEF DrainReclaim
  <2>4. pc'[d] # "executing"
    BY <1>11 DEF DrainReclaim, TypeOK, Backends
  <2>5. QED
    BY <1>5, <2>3, <2>4
<1>12. CASE DrainPassEnds(d)
  <2>1. pc'[d] # "executing" /\ UNCHANGED <<jobs, lock>>
    BY <1>12 DEF DrainPassEnds, tableVars, TypeOK, Backends
  <2>2. QED
    BY <1>5, <1>6, <2>1
<1>13. ASSUME NEW row, DrainFinish(d, row) PROVE LiveInv' /\ SingleLiveRun'
  <2>1. cur[d] \in Jobs /\ lock[cur[d]] = d
    BY <1>13, DrainsHoldTheirs DEF DrainFinish
  <2>2. LiveInv'
    <3>1. CASE Write(d, cur[d], row)
      BY <1>8, <1>13, <2>1, <3>1 DEF DrainFinish
    <3>2. CASE UNCHANGED <<draft, lock>>
      BY <1>6, <1>13, <3>2 DEF DrainFinish
    <3>3. QED
      BY <1>13, <3>1, <3>2 DEF DrainFinish
  <2>3. pc'[d] # "executing"
    BY <1>13 DEF DrainFinish, TypeOK, Backends
  <2>4. QED
    BY <1>5, <2>2, <2>3
<1>14. CASE DrainComplete(d) \/ DrainFail(d)
  BY <1>13, <1>14 DEF DrainComplete, DrainFail
<1>15. ASSUME DrainEnds(d), \A j \in Jobs : lock[j] # d => jobs'[j] = jobs[j]
       PROVE  LiveInv' /\ SingleLiveRun'
  <2>1. \A w \in Workers : pc[w] = "executing" => lock[cur[w]] = NoPid
    BY <1>2, NobodyOn
  <2>2. \A w \in Workers : pc[w] = "executing" =>
          jobs'[cur[w]] = jobs[cur[w]] /\ lock'[cur[w]] = lock[cur[w]]
    BY <1>2, <1>15, <2>1 DEF DrainEnds
  <2>3. pc'[d] # "executing"
    BY <1>15 DEF DrainEnds, TypeOK, Backends
  <2>4. QED
    BY <1>5, <1>6, <2>2, <2>3
<1>16. CASE DrainCommit(d) \/ DrainError(d) \/ DrainAbort(d)
  <2>1. \A j \in Jobs : lock[j] # d => jobs'[j] = jobs[j]
    BY <1>16 DEF DrainCommit, DrainError, DrainAbort, View
  <2>2. QED
    BY <1>15, <1>16, <2>1 DEF DrainCommit, DrainError, DrainAbort
<1>17. QED
  BY <1>7, <1>10, <1>11, <1>12, <1>14, <1>16 DEF DrainStep

LEMMA AlwaysRunInv == ASSUME RunsAreShort PROVE Spec => []RunInv
<1>1. Init => RunInv
  <2> SUFFICES ASSUME Init PROVE RunInv
    OBVIOUS
  <2>1. \A b \in Backends : pc[b] # "executing"
    BY DEF Init
  <2>2. QED
    BY <2>1, InitOutcomeInv DEF RunInv, LiveInv, SingleLiveRun, Backends
<1>2. RunInv /\ [Next]_vars => RunInv'
  <2> SUFFICES ASSUME RunInv, [Next]_vars PROVE RunInv'
    OBVIOUS
  <2>1. OutcomeInv'
    BY NextOutcomeInv DEF RunInv
  <2>2. LiveInv' /\ SingleLiveRun'
    <3>1. CASE UNCHANGED vars
      BY <3>1 DEF vars, RunInv, LiveInv, Live, SingleLiveRun
    <3>2. QED
      BY <3>1, RunsAreShort, ClientRunInv, WorkerRunInv, DrainRunInv DEF Next
  <2>3. QED
    BY <2>1, <2>2 DEF RunInv
<1>3. QED
  BY <1>1, <1>2, PTL DEF Spec

\* If no execution outlasts the orphan timeout, no two backends execute the same
\* job at the same time, for any numbers of workers, drains, crashes and respawns.
THEOREM RunsAreExclusive == ASSUME MaxRun <= OrphanTimeout PROVE Spec => []SingleLiveRun
<1>1. RunsAreShort
  BY DEF RunsAreShort
<1>2. RunInv => SingleLiveRun
  BY DEF RunInv
<1>3. QED
  BY <1>1, <1>2, AlwaysRunInv, PTL
-----------------------------------------------------------------------------
(* The retry limit. *)

\* What the limit is for the jobs whose execution returns.  The others end their
\* worker without a fault, and are retried as long as that goes on.
Limit == MaxAttempts + faults

\* One attempt more than the limit is a claim in flight or the last of them: a
\* row that waits, or whose claim nobody executes any more, has none.
RowBudget ==
  \A j \in Orderly :
    /\ jobs[j].attempts <= Limit + 1
    /\ jobs[j].status = "pending" => jobs[j].attempts <= Limit
    /\ jobs[j].status = "running" =>
         \/ jobs[j].attempts <= Limit
         \/ \E w \in Workers : pc[w] = "executing" /\ cur[w] = j

\* The same for drafts.  A pass may release a job it has run, which costs an
\* attempt, but only one whose failure left it an attempt.
DraftBudget ==
  \A j \in Orderly : lock[j] # NoPid =>
    /\ draft[j].attempts <= Limit + 1
    /\ draft[j].status = "pending" =>
         /\ draft[j].attempts <= Limit
         /\ j \in attempted[lock[j]] /\ pc[lock[j]] # "returned"
              => draft[j].attempts < MaxAttempts

\* A drain keeps what it has run locked.
AttemptedInv == \A d \in Drains : \A j \in attempted[d] : lock[j] = d

BudgetInv == RunInv /\ RowBudget /\ DraftBudget /\ AttemptedInv

\* What the operations do to the attempts of a row.
LEMMA AttemptsOf ==
  ASSUME NEW r \in Row, NEW b \in Backends, NEW n \in Nat
  PROVE  /\ Claimed(r, b).attempts = Counted(r.attempts)
         /\ Requeued(r).attempts = r.attempts
         /\ Cancelled(r).attempts = r.attempts
         /\ Completed(r, n).attempts = r.attempts
         /\ Completed(r, n).status = "done"
         /\ FailedOrRequeued(r).attempts = r.attempts
         /\ FailedOrRequeued(r).status = "failed" \/ FailedOrRequeued(r).attempts < MaxAttempts
         /\ FailedOrRequeued(r).status \in {"failed", "pending"}
<1> USE DEF Row
<1>1. Requeued(r).attempts = r.attempts /\ Requeued(r).status = "pending"
  BY DEF Requeued
<1>2. CASE r.attempts >= MaxAttempts
  BY <1>1, <1>2 DEF Claimed, Cancelled, Completed, FailedOrRequeued
<1>3. CASE ~(r.attempts >= MaxAttempts)
  BY <1>1, <1>3 DEF Claimed, Cancelled, Completed, FailedOrRequeued
<1>4. QED
  BY <1>2, <1>3

LEMMA LimitType == ASSUME TypeOK PROVE Limit \in Nat /\ faults \in Nat
BY DEF TypeOK, Limit

\* A step that changes no row an execution depends on, ends no execution and
\* raises no limit.
LEMMA RowBudgetKept ==
  ASSUME RowBudget, UNCHANGED faults,
         \A j \in Jobs :
           \/ jobs'[j].attempts = jobs[j].attempts /\ jobs'[j].status = jobs[j].status
           \/ jobs'[j].attempts = jobs[j].attempts /\ jobs'[j].status \notin {"pending", "running"}
           \/ jobs'[j].attempts = 0,
         \A w \in Workers : pc[w] = "executing" /\ cur[w] \notin Raising =>
           pc'[w] = "executing" /\ cur'[w] = cur[w],
         TypeOK
  PROVE  RowBudget'
<1>1. Limit' = Limit /\ Limit \in Nat
  BY LimitType DEF Limit
<1> SUFFICES ASSUME NEW j \in Orderly
             PROVE  /\ jobs'[j].attempts <= Limit + 1
                    /\ jobs'[j].status = "pending" => jobs'[j].attempts <= Limit
                    /\ jobs'[j].status = "running" =>
                         \/ jobs'[j].attempts <= Limit
                         \/ \E w \in Workers : pc'[w] = "executing" /\ cur'[w] = j
  BY <1>1 DEF RowBudget
<1>2. (\E w \in Workers : pc[w] = "executing" /\ cur[w] = j) =>
        \E w \in Workers : pc'[w] = "executing" /\ cur'[w] = j
  BY DEF Orderly
<1>3. QED
  BY <1>1, <1>2 DEF RowBudget, Orderly

\* A step that leaves drains alone, and at most adds a fault.
LEMMA DraftBudgetKept ==
  ASSUME DraftBudget, AttemptedInv, TypeOK, TypeOK',
         UNCHANGED <<lock, draft, attempted>>, faults' \in {faults, faults + 1},
         \A d \in Drains : pc'[d] = pc[d]
  PROVE  DraftBudget' /\ AttemptedInv'
<1>1. Limit' \in Nat /\ Limit \in Nat /\ Limit <= Limit'
  BY LimitType DEF Limit
<1>2. \A j \in Jobs : draft[j].attempts \in Nat
  BY RowNumbers DEF TypeOK
<1>3. \A j \in Jobs : lock[j] # NoPid => lock[j] \in Drains
  BY DEF TypeOK
<1>4. DraftBudget'
  <2> SUFFICES ASSUME NEW j \in Orderly, lock[j] # NoPid
               PROVE  /\ draft[j].attempts <= Limit' + 1
                      /\ draft[j].status = "pending" =>
                           /\ draft[j].attempts <= Limit'
                           /\ j \in attempted[lock[j]] /\ pc'[lock[j]] # "returned"
                                => draft[j].attempts < MaxAttempts
    BY DEF DraftBudget
  <2>1. draft[j].attempts \in Nat /\ lock[j] \in Drains
    BY <1>2, <1>3 DEF Orderly
  <2>2. QED
    BY <1>1, <2>1 DEF DraftBudget
<1>5. QED
  BY <1>4 DEF AttemptedInv

LEMMA ClientBudgetInv ==
  ASSUME BudgetInv, TypeOK',
         \/ \E j \in Jobs : Submit(j) \/ Cancel(j)
         \/ \E S \in SUBSET Jobs : Prune(S)
         \/ SetEnabled
         \/ Tick
  PROVE  RowBudget' /\ DraftBudget' /\ AttemptedInv'
<1> USE DEF BudgetInv, RunInv, OutcomeInv, TypeInv
<1>1. UNCHANGED <<pc, cur, lock, draft, attempted, faults>>
  BY DEF Submit, Cancel, Prune, SetEnabled, Tick, tableVars
<1>2. DraftBudget' /\ AttemptedInv'
  BY <1>1, DraftBudgetKept
<1>3. ASSUME NEW j \in Jobs, Submit(j) PROVE RowBudget'
  <2>1. \A k \in Jobs : jobs'[k] = IF k = j THEN NoRow("pending") ELSE jobs[k]
    BY <1>3 DEF Submit, TypeOK
  <2>2. QED
    BY <1>1, <2>1, RowBudgetKept DEF NoRow
<1>4. ASSUME NEW j \in Jobs, Cancel(j) PROVE RowBudget'
  <2>1. \A k \in Jobs : jobs'[k] = IF k = j THEN Cancelled(jobs[k]) ELSE jobs[k]
    BY <1>4 DEF Cancel, TypeOK
  <2>2. Cancelled(jobs[j]).attempts = jobs[j].attempts /\ Cancelled(jobs[j]).status = "cancelled"
    BY DEF Cancelled, TypeOK, Row
  <2>3. QED
    BY <1>1, <2>1, <2>2, RowBudgetKept
<1>5. ASSUME NEW S \in SUBSET Jobs, Prune(S) PROVE RowBudget'
  <2>1. \A k \in Jobs : jobs'[k] = IF k \in S THEN NoRow("pruned") ELSE jobs[k]
    BY <1>5 DEF Prune
  <2>2. NoRow("pruned").attempts = 0
    BY DEF NoRow
  <2>3. \A k \in Jobs : jobs'[k] = jobs[k] \/ jobs'[k].attempts = 0
    BY <2>1, <2>2
  <2>4. QED
    BY <1>1, <2>3, RowBudgetKept
<1>6. CASE SetEnabled
  <2>1. UNCHANGED jobs
    BY <1>6 DEF SetEnabled, tableVars
  <2>2. QED
    BY <1>1, <1>2, <2>1, RowBudgetKept
<1>7. CASE Tick
  <2>1. \A j \in Jobs : jobs'[j].status = jobs[j].status /\ jobs'[j].attempts = jobs[j].attempts
    BY <1>7 DEF Tick, TypeOK, Row
  <2>2. QED
    BY <1>1, <1>2, <2>1, RowBudgetKept
<1>8. QED
  BY <1>2, <1>3, <1>4, <1>5, <1>6, <1>7

\* A claim that has gone stale is executed by nobody, so its row is within the
\* limit and is so when it waits again.
LEMMA StaleWithin ==
  ASSUME BudgetInv, RunsAreShort, NEW j \in Orderly, Stale(jobs[j])
  PROVE  /\ jobs[j].attempts <= Limit
         /\ Requeued(jobs[j]).attempts = jobs[j].attempts
         /\ Requeued(jobs[j]).status = "pending"
<1>1. j \in Jobs /\ jobs[j] \in Row
  BY DEF Orderly, BudgetInv, RunInv, OutcomeInv, TypeInv, TypeOK
<1>2. jobs[j].status = "running" /\ jobs[j].age > MaxRun
  BY <1>1, RowNumbers DEF Stale, RunsAreShort
<1>3. ~ \E w \in Workers : pc[w] = "executing" /\ cur[w] = j
  BY <1>1, <1>2, NobodyOn DEF BudgetInv
<1>4. Requeued(jobs[j]).attempts = jobs[j].attempts /\ Requeued(jobs[j]).status = "pending"
  BY <1>1 DEF Requeued, Row
<1>5. QED
  BY <1>2, <1>3, <1>4 DEF BudgetInv, RowBudget

LEMMA WorkerBudgetInv ==
  ASSUME BudgetInv, RunsAreShort, TypeOK', NEW w \in Workers,
         WorkerStep(w) \/ WorkerWakeBadConfig(w) \/ WorkerCrash(w)
  PROVE  RowBudget' /\ DraftBudget' /\ AttemptedInv'
<1> USE DEF BudgetInv, RunInv, OutcomeInv, TypeInv
<1>1. w \in Backends /\ \A d \in Drains : d # w /\ d \in Backends
  BY DEF Backends
<1>2. Limit \in Nat /\ \A j \in Jobs : jobs[j].attempts \in Nat
  BY LimitType, RowNumbers DEF TypeOK
<1>3. \A b \in Backends \ {w} : pc'[b] = pc[b] /\ cur'[b] = cur[b]
  BY DEF WorkerStep, WorkerWake, WorkerWakeBadConfig, WorkerClaim, WorkerPassEnds, WorkerComplete,
         WorkerFail, WorkerFinish, WorkerError, WorkerCrash, WorkerDies, WorkerStart, TypeOK
<1>4. UNCHANGED <<lock, draft, attempted>> /\ faults' \in {faults, faults + 1}
  BY DEF WorkerStep, WorkerWake, WorkerWakeBadConfig, WorkerClaim, WorkerPassEnds, WorkerComplete,
         WorkerFail, WorkerFinish, WorkerError, WorkerCrash, WorkerDies, WorkerStart, tableVars
<1>5. DraftBudget' /\ AttemptedInv'
  BY <1>1, <1>3, <1>4, DraftBudgetKept
<1>6. ASSUME RecoverOrphans, UNCHANGED <<cur, faults>>, pc[w] # "executing"
      PROVE  RowBudget'
  <2>1. Limit' = Limit
    BY <1>6 DEF Limit
  <2>2. \A v \in Workers : pc[v] = "executing" => pc'[v] = "executing" /\ cur'[v] = cur[v]
    BY <1>3, <1>6 DEF Backends
  <2>3. ASSUME NEW j \in Orderly
        PROVE  \/ jobs'[j] = jobs[j]
               \/ jobs'[j].status = "pending" /\ jobs'[j].attempts <= Limit
    <3>1. j \in Jobs
      BY DEF Orderly
    <3>2. jobs'[j] = IF Stale(jobs[j]) THEN Requeued(jobs[j]) ELSE jobs[j]
      BY <1>6, <3>1 DEF RecoverOrphans
    <3>3. QED
      BY <3>2, StaleWithin
  <2>4. \A j \in Orderly : jobs'[j].attempts <= Limit => jobs'[j].attempts <= Limit + 1
    BY <1>2, RowNumbers DEF TypeOK, Orderly
  <2>5. QED
    BY <2>1, <2>2, <2>3, <2>4 DEF RowBudget
<1>7. CASE WorkerWake(w) \/ WorkerWakeBadConfig(w)
  BY <1>5, <1>6, <1>7 DEF WorkerWake, WorkerWakeBadConfig
<1>8. CASE WorkerClaim(w)
  <2>1. PICK j \in Jobs :
          /\ IsNext(w, j)
          /\ jobs' = [jobs EXCEPT ![j] = Claimed(@, w)]
          /\ cur' = [cur EXCEPT ![w] = j]
    BY <1>8 DEF WorkerClaim
  <2>2. lock[j] = NoPid /\ jobs[j].status = "pending"
    BY <2>1 DEF IsNext, Claimable, View, TypeOK
  <2>3. /\ jobs'[j].attempts = Counted(jobs[j].attempts) /\ jobs'[j].status = "running"
        /\ jobs[j].attempts \in Nat
    BY <2>1 DEF Claimed, TypeOK, Row
  <2>4. pc'[w] = "executing" /\ cur'[w] = j
    BY <1>1, <1>8, <2>1 DEF WorkerClaim, TypeOK
  <2>5. pc[w] # "executing" /\ Limit' = Limit
    BY <1>8 DEF WorkerClaim, Limit
  <2>6. \A k \in Jobs \ {j} : jobs'[k] = jobs[k]
    BY <2>1 DEF TypeOK
  <2>7. \A v \in Workers : pc[v] = "executing" => pc'[v] = "executing" /\ cur'[v] = cur[v]
    BY <1>3, <2>5 DEF Backends
  <2>8. RowBudget'
    <3> SUFFICES ASSUME NEW k \in Orderly
                 PROVE  /\ jobs'[k].attempts <= Limit + 1
                        /\ jobs'[k].status = "pending" => jobs'[k].attempts <= Limit
                        /\ jobs'[k].status = "running" =>
                             \/ jobs'[k].attempts <= Limit
                             \/ \E v \in Workers : pc'[v] = "executing" /\ cur'[v] = k
      BY <2>5 DEF RowBudget
    <3>1. CASE k = j
      <4>1. jobs[j].attempts <= Limit /\ jobs[j].attempts \in Nat
        BY <1>2, <2>2, <3>1 DEF RowBudget
      <4>2. jobs'[j].attempts <= Limit + 1
        BY <1>2, <2>3, <4>1, CountedNat
      <4>3. QED
        BY <2>3, <2>4, <3>1, <4>2
    <3>2. CASE k # j
      <4>1. jobs'[k] = jobs[k]
        BY <2>6, <3>2 DEF Orderly
      <4>2. QED
        BY <2>7, <4>1 DEF RowBudget
    <3>3. QED
      BY <3>1, <3>2
  <2>9. QED
    BY <1>5, <2>8
<1>9. ASSUME NEW row, WorkerFinish(w, row),
             Owns(jobs[cur[w]], w) => /\ row.attempts = jobs[cur[w]].attempts
                                      /\ row.status # "running"
                                      /\ row.status = "pending" => row.attempts < MaxAttempts
      PROVE  RowBudget'
  <2>1. pc[w] = "executing" /\ cur[w] \in Jobs /\ Limit' = Limit
    BY <1>1, <1>9 DEF WorkerFinish, ExecutingInv, Limit
  <2>2. \A k \in Jobs \ {cur[w]} : jobs'[k] = jobs[k]
    BY <1>9 DEF WorkerFinish, TypeOK
  <2>3. ASSUME cur[w] \in Orderly
        PROVE  /\ jobs'[cur[w]].attempts <= Limit + 1
               /\ jobs'[cur[w]].status = "pending" => jobs'[cur[w]].attempts <= Limit
               /\ jobs'[cur[w]].status # "running"
    <3>1. CASE Owns(jobs[cur[w]], w)
      <4>1. jobs'[cur[w]] = row
        BY <1>9, <2>1, <3>1 DEF WorkerFinish, TypeOK
      <4>2. jobs[cur[w]].attempts <= Limit + 1
        BY <2>3 DEF RowBudget
      <4>3. MaxAttempts <= Limit
        BY LimitType DEF Limit
      <4>4. row.attempts <= Limit + 1 /\ row.attempts \in Nat
        BY <1>2, <1>9, <2>1, <3>1, <4>2
      <4>5. row.status # "running" /\ (row.status = "pending" => row.attempts <= Limit)
        BY <1>2, <1>9, <3>1, <4>3, <4>4
      <4>6. QED
        BY <4>1, <4>4, <4>5
    <3>2. CASE ~Owns(jobs[cur[w]], w)
      <4>1. jobs'[cur[w]] = jobs[cur[w]]
        BY <1>9, <3>2 DEF WorkerFinish
      <4>2. Live(w)
        BY <2>1 DEF LiveInv
      <4>3. jobs[cur[w]].status \in Terminal \cup {"pruned"}
        BY <3>2, <4>2 DEF Live, Owns
      <4>4. QED
        BY <2>3, <4>1, <4>3 DEF RowBudget, Terminal
    <3>3. QED
      BY <3>1, <3>2
  <2>4. ASSUME NEW k \in Orderly, k # cur[w]
        PROVE  /\ jobs'[k] = jobs[k]
               /\ (\E v \in Workers : pc[v] = "executing" /\ cur[v] = k) =>
                    \E v \in Workers : pc'[v] = "executing" /\ cur'[v] = k
    BY <1>3, <2>2, <2>4 DEF Orderly, Backends
  <2>5. QED
    BY <2>1, <2>3, <2>4 DEF RowBudget
<1>10. ASSUME pc[w] = "executing"
       PROVE  cur[w] \in Jobs /\ jobs[cur[w]] \in Row /\ claimNo[w] \in Nat
  BY <1>1, <1>10 DEF ExecutingInv, TypeOK
<1>11. CASE WorkerComplete(w)
  <2>1. /\ Completed(jobs[cur[w]], claimNo[w]).attempts = jobs[cur[w]].attempts
        /\ Completed(jobs[cur[w]], claimNo[w]).status = "done"
    BY <1>1, <1>10, <1>11, AttemptsOf DEF WorkerComplete, WorkerFinish
  <2>2. RowBudget'
    BY <1>9, <1>11, <2>1 DEF WorkerComplete
  <2>3. QED
    BY <1>5, <2>2
<1>12. CASE WorkerFail(w)
  <2> DEFINE row == FailedOrRequeued(jobs[cur[w]])
  <2>1. /\ row.attempts = jobs[cur[w]].attempts
        /\ row.status = "failed" \/ row.attempts < MaxAttempts
        /\ row.status \in {"failed", "pending"}
    BY <1>1, <1>10, <1>12, AttemptsOf DEF WorkerFail, WorkerFinish
  <2>2. WorkerFinish(w, row)
    BY <1>12 DEF WorkerFail
  <2>3. RowBudget'
    <3> HIDE DEF row
    <3>1. QED
      BY <1>9, <2>1, <2>2
  <2>4. QED
    BY <1>5, <2>3
<1>13. CASE WorkerPassEnds(w) \/ WorkerStart(w) \/ WorkerError(w)
  <2>1. UNCHANGED <<jobs, faults>>
    BY <1>13 DEF WorkerPassEnds, WorkerStart, WorkerError, WorkerDies, tableVars
  <2>2. pc[w] # "executing" \/ cur[w] \in Raising
    BY <1>13 DEF WorkerPassEnds, WorkerStart, WorkerError
  <2>3. \A v \in Workers : pc[v] = "executing" /\ cur[v] \notin Raising =>
          pc'[v] = "executing" /\ cur'[v] = cur[v]
    BY <1>3, <2>2 DEF Backends
  <2>4. RowBudget'
    BY <2>1, <2>3, RowBudgetKept
  <2>5. QED
    BY <1>5, <2>4
<1>14. CASE WorkerCrash(w)
  <2>1. UNCHANGED jobs /\ Limit' = Limit + 1
    BY <1>14 DEF WorkerCrash, WorkerDies, tableVars, Limit, TypeOK
  <2>2. RowBudget'
    <3> SUFFICES ASSUME NEW j \in Orderly
                 PROVE  /\ jobs'[j].attempts <= Limit' + 1
                        /\ jobs'[j].attempts <= Limit'
      BY DEF RowBudget
    <3>1. jobs[j].attempts <= Limit + 1 /\ jobs[j].attempts \in Nat
      BY <1>2 DEF RowBudget, Orderly
    <3>2. QED
      BY <1>2, <2>1, <3>1
  <2>3. QED
    BY <1>5, <2>2
<1>15. QED
  BY <1>7, <1>8, <1>11, <1>12, <1>13, <1>14 DEF WorkerStep

\* A drain that writes version row of j keeps the drafts within the limit.
LEMMA WriteBudget ==
  ASSUME BudgetInv, UNCHANGED faults,
         NEW d \in Drains, NEW j \in Jobs, NEW row, Write(d, j, row), lock[j] \in {d, NoPid},
         \A e \in Drains \ {d} : pc'[e] = pc[e] /\ attempted'[e] = attempted[e],
         attempted'[d] \subseteq attempted[d] \cup {j},
         pc'[d] # "returned" => pc[d] # "returned",
         j \in Orderly =>
           /\ row.attempts <= Limit + 1
           /\ row.status = "pending" =>
                /\ row.attempts <= Limit
                /\ pc'[d] # "returned" => row.attempts < MaxAttempts
  PROVE  DraftBudget' /\ AttemptedInv'
<1> USE DEF BudgetInv, RunInv, OutcomeInv, TypeInv
<1>1. lock'[j] = d /\ draft'[j] = row /\ Limit' = Limit
  BY DEF Write, TypeOK, Limit
<1>2. \A k \in Jobs \ {j} : lock'[k] = lock[k] /\ draft'[k] = draft[k]
  BY DEF Write, TypeOK
<1>3. d # NoPid /\ \A k \in Jobs : lock[k] # NoPid => lock[k] \in Drains
  BY DEF TypeOK
<1>4. AttemptedInv'
  <2> SUFFICES ASSUME NEW e \in Drains, NEW k \in attempted'[e] PROVE lock'[k] = e
    BY DEF AttemptedInv
  <2>1. CASE k = j
    <3>1. e = d
      BY <1>3, <2>1 DEF AttemptedInv
    <3>2. QED
      BY <1>1, <2>1, <3>1
  <2>2. CASE k # j
    <3>1. k \in attempted[e] /\ k \in Jobs
      BY <2>2 DEF TypeOK
    <3>2. QED
      BY <1>2, <2>2, <3>1 DEF AttemptedInv
  <2>3. QED
    BY <2>1, <2>2
<1>5. ASSUME NEW k \in Orderly, lock'[k] # NoPid
      PROVE  /\ draft'[k].attempts <= Limit + 1
             /\ draft'[k].status = "pending" =>
                  /\ draft'[k].attempts <= Limit
                  /\ k \in attempted'[lock'[k]] /\ pc'[lock'[k]] # "returned"
                       => draft'[k].attempts < MaxAttempts
  <2>1. CASE k = j
    BY <1>1, <2>1
  <2>2. CASE k # j
    <3>1. k \in Jobs /\ lock'[k] = lock[k] /\ draft'[k] = draft[k]
      BY <1>2, <2>2 DEF Orderly
    <3>2. k \in attempted'[lock[k]] /\ pc'[lock[k]] # "returned" =>
            k \in attempted[lock[k]] /\ pc[lock[k]] # "returned"
      BY <1>3, <1>5, <2>2, <3>1
    <3>3. QED
      BY <1>5, <3>1, <3>2 DEF DraftBudget
  <2>3. QED
    BY <2>1, <2>2
<1>6. QED
  BY <1>1, <1>4, <1>5 DEF DraftBudget

\* A limit that is raised still limits.
LEMMA Within ==
  ASSUME NEW l \in Nat, NEW m \in Nat, l <= m, NEW a \in Nat
  PROVE  (a <= l => a <= m) /\ (a <= l + 1 => a <= m + 1)
OBVIOUS

LEMMA DrainBudgetInv ==
  ASSUME BudgetInv, RunsAreShort, TypeOK', NEW d \in Drains,
         DrainBegin(d) \/ DrainStep(d) \/ DrainAbort(d)
  PROVE  RowBudget' /\ DraftBudget' /\ AttemptedInv'
<1> USE DEF BudgetInv, RunInv, OutcomeInv, TypeInv
<1>1. d \in Backends /\ d # NoPid /\ \A w \in Workers : w # d /\ w \in Backends
  BY DEF Backends
<1>2. \A b \in Backends \ {d} : pc'[b] = pc[b]
  BY DEF DrainBegin, DrainStep, DrainClaim, DrainReclaim, DrainPassEnds, DrainComplete,
         DrainFail, DrainFinish, DrainError, DrainCommit, DrainAbort, DrainEnds, TypeOK
<1>3. \A b \in Backends \ {d} : cur'[b] = cur[b]
  BY DEF DrainBegin, DrainStep, DrainClaim, DrainReclaim, DrainPassEnds, DrainComplete,
         DrainFail, DrainFinish, DrainError, DrainCommit, DrainAbort, DrainEnds, TypeOK
<1>4. \A e \in Drains \ {d} : pc'[e] = pc[e] /\ attempted'[e] = attempted[e]
  BY <1>2 DEF DrainBegin, DrainStep, DrainClaim, DrainReclaim, DrainPassEnds, DrainComplete, Backends,
         DrainFail, DrainFinish, DrainError, DrainCommit, DrainAbort, DrainEnds, TypeOK
<1>5. \A w \in Workers : pc[w] = "executing" => pc'[w] = "executing" /\ cur'[w] = cur[w]
  BY <1>1, <1>2, <1>3
<1>6. Limit \in Nat /\ MaxAttempts <= Limit
  BY LimitType DEF Limit
<1>7. \A j \in Jobs : jobs[j].attempts \in Nat /\ draft[j].attempts \in Nat
  BY RowNumbers DEF TypeOK
<1>8. ASSUME UNCHANGED <<jobs, faults>> PROVE RowBudget'
  BY <1>5, <1>8, RowBudgetKept
<1>9. CASE DrainBegin(d)
  <2>1. RowBudget' /\ Limit' = Limit
    BY <1>8, <1>9 DEF DrainBegin, Limit
  <2>2. \A j \in Jobs : IF Stale(jobs[j])
                        THEN lock[j] = NoPid /\ lock'[j] = d /\ draft'[j] = Requeued(jobs[j])
                        ELSE lock'[j] = lock[j] /\ draft'[j] = draft[j]
    BY <1>9 DEF DrainBegin, Unlocked
  <2>3. attempted'[d] = {}
    BY <1>9 DEF DrainBegin, TypeOK
  <2>4. AttemptedInv'
    <3> SUFFICES ASSUME NEW e \in Drains, NEW k \in attempted'[e] PROVE lock'[k] = e
      BY DEF AttemptedInv
    <3>1. e # d /\ k \in attempted[e] /\ k \in Jobs /\ lock[k] = e /\ e # NoPid
      BY <1>4, <2>3 DEF AttemptedInv, TypeOK
    <3>2. QED
      BY <2>2, <3>1
  <2>5. ASSUME NEW k \in Orderly, lock'[k] # NoPid
        PROVE  /\ draft'[k].attempts <= Limit + 1
               /\ draft'[k].status = "pending" =>
                    /\ draft'[k].attempts <= Limit
                    /\ k \in attempted'[lock'[k]] /\ pc'[lock'[k]] # "returned"
                         => draft'[k].attempts < MaxAttempts
    <3>1. k \in Jobs
      BY DEF Orderly
    <3>2. CASE Stale(jobs[k])
      <4>1. jobs[k].attempts <= Limit /\ Requeued(jobs[k]).attempts = jobs[k].attempts
        BY <3>2, StaleWithin
      <4>2. draft'[k].attempts <= Limit /\ draft'[k].attempts \in Nat
        BY <1>7, <2>2, <3>1, <3>2, <4>1
      <4>3. k \notin attempted'[lock'[k]]
        BY <2>2, <2>3, <3>1, <3>2
      <4>4. QED
        BY <1>6, <4>2, <4>3
    <3>3. CASE ~Stale(jobs[k])
      <4>1. lock'[k] = lock[k] /\ draft'[k] = draft[k] /\ lock[k] \in Drains
        BY <2>2, <2>5, <3>1, <3>3 DEF TypeOK
      <4>2. k \in attempted'[lock[k]] => pc'[lock[k]] = pc[lock[k]] /\ k \in attempted[lock[k]]
        BY <1>4, <2>3, <4>1
      <4>3. QED
        BY <2>5, <4>1, <4>2 DEF DraftBudget
    <3>4. QED
      BY <3>2, <3>3
  <2>6. QED
    BY <2>1, <2>4, <2>5 DEF DraftBudget
<1>10. ASSUME NEW j \in Jobs, DrainGets(d, j)
       PROVE  /\ lock[j] \in {d, NoPid}
              /\ pc[d] = "draining"
              /\ View(d, j) \in Row
              /\ View(d, j).status = "pending"
              /\ View(d, j) = IF lock[j] = d THEN draft[j] ELSE jobs[j]
  BY <1>1, <1>10, ViewType DEF DrainGets, IsNext, Claimable, View
<1>11. CASE DrainClaim(d)
  <2>1. PICK j \in Jobs : /\ DrainGets(d, j)
                          /\ Write(d, j, Claimed(View(d, j), d))
                          /\ attempted' = [attempted EXCEPT ![d] = @ \cup {j}]
    BY <1>11 DEF DrainClaim
  <2>2. /\ Claimed(View(d, j), d).attempts = Counted(View(d, j).attempts)
        /\ Claimed(View(d, j), d).status = "running"
    BY <1>10, <2>1 DEF Claimed, Row
  <2>3. j \in Orderly => View(d, j).attempts <= Limit /\ View(d, j).attempts \in Nat
    BY <1>1, <1>7, <1>10, <2>1 DEF RowBudget, DraftBudget
  <2>4. attempted'[d] = attempted[d] \cup {j}
    BY <2>1 DEF TypeOK
  <2>5. UNCHANGED <<jobs, faults>>
    BY <1>11 DEF DrainClaim
  <2>6. j \in Orderly => Claimed(View(d, j), d).attempts <= Limit + 1
    BY <1>6, <2>2, <2>3, CountedNat
  <2>7. DraftBudget' /\ AttemptedInv'
    BY <1>4, <1>10, <2>1, <2>2, <2>4, <2>5, <2>6, WriteBudget
  <2>8. QED
    BY <1>8, <2>5, <2>7
<1>12. CASE DrainReclaim(d)
  <2>1. PICK j \in attempted[d] :
          DrainGets(d, j) /\ Write(d, j, Requeued(Claimed(View(d, j), d)))
    BY <1>12 DEF DrainReclaim
  <2>2. j \in Jobs /\ lock[j] = d
    BY DEF TypeOK, AttemptedInv
  <2>3. View(d, j) = draft[j] /\ draft[j] \in Row /\ draft[j].status = "pending" /\ pc[d] = "draining"
    BY <1>10, <2>1, <2>2
  <2>4. j \in Orderly => draft[j].attempts < MaxAttempts
    BY <1>1, <2>2, <2>3 DEF DraftBudget
  <2>5. /\ Claimed(draft[j], d) \in Row
        /\ Claimed(draft[j], d).attempts = Counted(draft[j].attempts)
        /\ Counted(draft[j].attempts) \in Nat
        /\ Counted(draft[j].attempts) <= draft[j].attempts + 1
    BY <1>1, <2>3, ClaimedRow, CountedNat DEF Claimed, Row
  <2>6. /\ Requeued(Claimed(draft[j], d)).attempts \in Nat
        /\ Requeued(Claimed(draft[j], d)).attempts <= draft[j].attempts + 1
    BY <2>5 DEF Requeued, Row
  <2>7. UNCHANGED <<jobs, faults, attempted>> /\ pc'[d] = "returned"
    BY <1>1, <1>12 DEF DrainReclaim, TypeOK
  <2>8. j \in Orderly => /\ Requeued(Claimed(draft[j], d)).attempts <= Limit
                         /\ Requeued(Claimed(draft[j], d)).attempts <= Limit + 1
    <3>1. draft[j].attempts \in Nat
      BY <2>3 DEF Row
    <3>2. ASSUME j \in Orderly PROVE draft[j].attempts + 1 <= Limit
      <4> DEFINE n == draft[j].attempts
      <4>1. n \in Nat /\ n < MaxAttempts /\ MaxAttempts \in Nat /\ MaxAttempts <= Limit /\ Limit \in Nat
        BY <1>6, <2>4, <3>1, <3>2
      <4> HIDE DEF n
      <4>2. n + 1 <= Limit
        BY <4>1
      <4>3. QED
        BY <4>2 DEF n
    <3>3. QED
      BY <1>6, <2>6, <3>1, <3>2
  <2>9. Write(d, j, Requeued(Claimed(draft[j], d)))
    BY <2>1, <2>3
  <2>10. DraftBudget' /\ AttemptedInv'
    BY <1>4, <2>2, <2>7, <2>8, <2>9, WriteBudget
  <2>11. QED
    BY <1>8, <2>7, <2>10
<1>13. CASE DrainPassEnds(d)
  <2>1. UNCHANGED <<jobs, faults, lock, draft, attempted>> /\ pc'[d] = "returned" /\ Limit' = Limit
    BY <1>1, <1>13 DEF DrainPassEnds, tableVars, TypeOK, Limit
  <2>2. \A j \in Jobs : lock[j] # NoPid => lock[j] \in Drains
    BY DEF TypeOK
  <2>3. DraftBudget'
    BY <1>4, <2>1, <2>2 DEF DraftBudget, Orderly
  <2>4. QED
    BY <1>8, <2>1, <2>3 DEF AttemptedInv
<1>14. ASSUME NEW row, DrainFinish(d, row),
              /\ row.attempts = View(d, cur[d]).attempts
              /\ row.status = "pending" => row.attempts < MaxAttempts
       PROVE  RowBudget' /\ DraftBudget' /\ AttemptedInv'
  <2>1. cur[d] \in Jobs /\ lock[cur[d]] = d /\ draft[cur[d]].status = "running"
    BY <1>14, DrainsHoldTheirs DEF DrainFinish, DraftInv
  <2>2. View(d, cur[d]) = draft[cur[d]] /\ draft[cur[d]].pid = d
    BY <1>1, <2>1 DEF View, DraftInv
  <2>3. Write(d, cur[d], row)
    BY <1>14, <2>1, <2>2 DEF DrainFinish, Owns
  <2>4. cur[d] \in Orderly => row.attempts <= Limit + 1
    BY <1>1, <1>14, <2>1, <2>2 DEF DraftBudget
  <2>5. row.attempts \in Nat
    BY <1>7, <1>14, <2>1, <2>2
  <2>6. row.status = "pending" => row.attempts <= Limit
    BY <1>6, <1>14, <2>5
  <2>7. UNCHANGED <<jobs, faults, attempted>> /\ pc[d] # "returned"
    BY <1>14 DEF DrainFinish
  <2>8. DraftBudget' /\ AttemptedInv'
    BY <1>4, <1>14, <2>1, <2>3, <2>4, <2>6, <2>7, WriteBudget
  <2>9. QED
    BY <1>8, <2>7, <2>8
<1>15. ASSUME pc[d] = "executing"
       PROVE  View(d, cur[d]) \in Row /\ claimNo[d] \in Nat
  BY <1>1, <1>15, DrainsHoldTheirs, ViewType DEF TypeOK
<1>16. CASE DrainComplete(d)
  <2> DEFINE row == Completed(View(d, cur[d]), claimNo[d])
  <2>1. row.attempts = View(d, cur[d]).attempts /\ row.status = "done"
    BY <1>1, <1>15, <1>16, AttemptsOf DEF DrainComplete, DrainFinish
  <2>2. DrainFinish(d, row)
    BY <1>16 DEF DrainComplete
  <2> HIDE DEF row
  <2>3. QED
    BY <1>14, <2>1, <2>2
<1>17. CASE DrainFail(d)
  <2> DEFINE row == FailedOrRequeued(View(d, cur[d]))
  <2>1. /\ row.attempts = View(d, cur[d]).attempts
        /\ row.status = "failed" \/ row.attempts < MaxAttempts
    BY <1>1, <1>15, <1>17, AttemptsOf DEF DrainFail, DrainFinish
  <2>2. DrainFinish(d, row)
    BY <1>17 DEF DrainFail
  <2> HIDE DEF row
  <2>3. QED
    BY <1>14, <2>1, <2>2
<1>18. ASSUME DrainEnds(d), faults' \in {faults, faults + 1} PROVE DraftBudget' /\ AttemptedInv'
  <2>1. \A k \in Jobs : lock'[k] # NoPid => /\ lock'[k] = lock[k] /\ lock[k] \in Drains \ {d}
                                            /\ draft'[k] = draft[k]
    BY <1>18 DEF DrainEnds, TypeOK
  <2>2. Limit <= Limit' /\ Limit' \in Nat
    BY <1>18, LimitType DEF Limit
  <2>3. \A k \in Orderly : lock'[k] # NoPid =>
          /\ k \in Jobs
          /\ attempted'[lock'[k]] = attempted[lock[k]] /\ pc'[lock'[k]] = pc[lock[k]]
    BY <1>4, <2>1 DEF Orderly
  <2>4. DraftBudget'
    <3> SUFFICES ASSUME NEW k \in Orderly, lock'[k] # NoPid
                 PROVE  /\ draft'[k].attempts <= Limit' + 1
                        /\ draft'[k].status = "pending" =>
                             /\ draft'[k].attempts <= Limit'
                             /\ k \in attempted'[lock'[k]] /\ pc'[lock'[k]] # "returned"
                                  => draft'[k].attempts < MaxAttempts
      BY DEF DraftBudget
    <3>1. k \in Jobs /\ lock'[k] = lock[k] /\ lock[k] # NoPid /\ draft'[k] = draft[k]
      BY <2>1, <2>3
    <3>2. draft[k].attempts \in Nat
      BY <1>7, <3>1
    <3>3. draft[k].attempts <= Limit + 1 /\ (draft[k].status = "pending" => draft[k].attempts <= Limit)
      BY <3>1 DEF DraftBudget
    <3>4. draft[k].status = "pending" /\ k \in attempted[lock[k]] /\ pc[lock[k]] # "returned"
             => draft[k].attempts < MaxAttempts
      BY <3>1 DEF DraftBudget
    <3>5. draft'[k].attempts <= Limit' + 1
      <4> DEFINE a == draft[k].attempts
      <4>1. a \in Nat /\ a <= Limit + 1
        BY <3>2, <3>3
      <4>2. draft'[k].attempts = a
        BY <3>1
      <4> HIDE DEF a
      <4>3. QED
        BY <4>1, <4>2, <1>6, <2>2, Within
    <3>6. ASSUME draft'[k].status = "pending" PROVE draft'[k].attempts <= Limit'
      <4> DEFINE a == draft[k].attempts
      <4>1. a \in Nat /\ a <= Limit
        BY <3>1, <3>2, <3>3, <3>6
      <4>2. draft'[k].attempts = a
        BY <3>1
      <4> HIDE DEF a
      <4>3. QED
        BY <4>1, <4>2, <1>6, <2>2, Within
    <3>7. ASSUME draft'[k].status = "pending", k \in attempted'[lock'[k]], pc'[lock'[k]] # "returned"
          PROVE  draft'[k].attempts < MaxAttempts
      BY <2>3, <3>1, <3>4, <3>7
    <3>8. QED
      BY <3>5, <3>6, <3>7
  <2>5. attempted'[d] = {}
    BY <1>18 DEF DrainEnds, TypeOK
  <2>6. \A k \in Jobs : lock[k] # d => lock'[k] = lock[k]
    BY <1>18 DEF DrainEnds
  <2>7. AttemptedInv'
    BY <1>4, <2>5, <2>6 DEF AttemptedInv, TypeOK
  <2>8. QED
    BY <2>4, <2>7
<1>19. CASE DrainCommit(d)
  <2>1. DraftBudget' /\ AttemptedInv' /\ Limit' = Limit
    BY <1>18, <1>19 DEF DrainCommit, Limit
  <2>2. \A j \in Jobs : jobs'[j] = IF lock[j] = d THEN draft[j] ELSE jobs[j]
    BY <1>19 DEF DrainCommit, View
  <2>3. \A j \in Jobs : lock[j] = d => draft[j].status # "running"
    BY <1>1, <1>19 DEF DrainCommit, DraftInv
  <2>4. RowBudget'
    BY <1>1, <1>5, <2>1, <2>2, <2>3 DEF RowBudget, DraftBudget, Orderly
  <2>5. QED
    BY <2>1, <2>4
<1>20. CASE DrainError(d)
  BY <1>8, <1>18, <1>20 DEF DrainError
<1>21. CASE DrainAbort(d)
  <2>1. UNCHANGED jobs /\ Limit' = Limit + 1
    BY <1>21 DEF DrainAbort, Limit, TypeOK
  <2>2. RowBudget'
    <3> SUFFICES ASSUME NEW j \in Orderly
                 PROVE  /\ jobs[j].attempts <= Limit' + 1
                        /\ jobs[j].status = "pending" => jobs[j].attempts <= Limit'
                        /\ jobs[j].status = "running" =>
                             \/ jobs[j].attempts <= Limit'
                             \/ \E w \in Workers : pc'[w] = "executing" /\ cur'[w] = j
      BY <2>1 DEF RowBudget
    <3>1. jobs[j].attempts \in Nat
      BY <1>7 DEF Orderly
    <3>2. QED
      BY <1>1, <1>5, <1>6, <2>1, <3>1 DEF RowBudget
  <2>3. QED
    BY <1>18, <1>21, <2>2 DEF DrainAbort
<1>22. QED
  BY <1>9, <1>11, <1>12, <1>13, <1>16, <1>17, <1>19, <1>20, <1>21 DEF DrainStep

LEMMA AlwaysBudgetInv == ASSUME RunsAreShort PROVE Spec => []BudgetInv
<1>1. RunInv /\ Init => BudgetInv
  <2> SUFFICES ASSUME RunInv, Init PROVE RowBudget /\ DraftBudget /\ AttemptedInv
    BY DEF BudgetInv
  <2>1. \A j \in Jobs : jobs[j].attempts = 0 /\ jobs[j].status = "absent" /\ lock[j] = NoPid
    BY DEF Init, NoRow
  <2>2. Limit \in Nat
    BY LimitType DEF RunInv, OutcomeInv, TypeInv
  <2>3. QED
    BY <2>1, <2>2 DEF RowBudget, DraftBudget, AttemptedInv, Orderly, Init
<1>2. BudgetInv /\ RunInv' /\ [Next]_vars => BudgetInv'
  <2> SUFFICES ASSUME BudgetInv, RunInv', [Next]_vars
               PROVE  RowBudget' /\ DraftBudget' /\ AttemptedInv'
    BY DEF BudgetInv
  <2>1. TypeOK'
    BY DEF RunInv, OutcomeInv, TypeInv
  <2>2. CASE UNCHANGED vars
    BY <2>2 DEF vars, BudgetInv, RowBudget, DraftBudget, AttemptedInv, Limit
  <2>3. QED
    BY <2>1, <2>2, RunsAreShort, ClientBudgetInv, WorkerBudgetInv, DrainBudgetInv DEF Next
<1>3. QED
  BY <1>1, <1>2, AlwaysRunInv, PTL DEF Spec

\* If no execution outlasts the orphan timeout, a job whose execution returns is
\* claimed no more often than the retry limit, the faults and one release allow,
\* committed or not, whatever the jobs beside it do that raise and are claimed
\* for ever.
THEOREM AttemptsAreBounded ==
  ASSUME MaxRun <= OrphanTimeout PROVE Spec => []AttemptBudget
<1>1. RunsAreShort
  BY DEF RunsAreShort
<1>2. BudgetInv => AttemptBudget
  <2> SUFFICES ASSUME BudgetInv PROVE AttemptBudget
    OBVIOUS
  <2>1. Limit + 1 = MaxAttempts + 1 + faults
    BY LimitType DEF Limit, BudgetInv, RunInv, OutcomeInv, TypeInv
  <2>2. QED
    BY <2>1 DEF BudgetInv, RowBudget, DraftBudget, AttemptBudget
<1>3. QED
  BY <1>1, <1>2, AlwaysBudgetInv, PTL
===============================================================================
