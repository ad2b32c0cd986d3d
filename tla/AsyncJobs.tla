------------------------------ MODULE AsyncJobs ------------------------------
(***************************************************************************)
(* What the async job queue promises to the role that called               *)
(* ask.ask_async(): a job is open from the call until exactly one outcome  *)
(* is published, an outcome is never revised, and an open job does not     *)
(* stay open for ever.  Retries, workers, transactions and crashes are     *)
(* invisible at this level.  JobQueue is shown to implement it.            *)
(***************************************************************************)
EXTENDS Naturals

CONSTANTS Jobs      \* the ids a client may be given

VARIABLES phase,    \* phase[j]: where job j stands for its owner
          answer    \* answer[j]: what job_result(j) would return, 0 for NULL

jobVars == <<phase, answer>>

Outcomes == {"done", "failed", "cancelled"}
Phases   == {"absent", "open", "pruned"} \cup Outcomes

TypeOK ==
  /\ phase  \in [Jobs -> Phases]
  /\ answer \in [Jobs -> Nat]

Init ==
  /\ phase  = [j \in Jobs |-> "absent"]
  /\ answer = [j \in Jobs |-> 0]

\* ask.ask_async: the id is handed out and the job is open.
Submit(j) ==
  /\ phase[j] = "absent"
  /\ phase' = [phase EXCEPT ![j] = "open"]
  /\ UNCHANGED answer

\* Executions or a cancel publish outcomes, several at once if they share a
\* transaction.  An outcome only ever replaces "open", and only a job that
\* becomes done gets an answer.
Publish ==
  /\ phase'  \in [Jobs -> Phases]
  /\ answer' \in [Jobs -> Nat]
  /\ \A j \in Jobs :
       /\ phase'[j] # phase[j]   => phase[j] = "open" /\ phase'[j] \in Outcomes
       /\ answer'[j] # answer[j] => phase[j] = "open" /\ phase'[j] = "done"

\* ask.prune_jobs: only jobs with an outcome disappear.
Prune(S) ==
  /\ \A j \in S : phase[j] \in Outcomes
  /\ phase'  = [j \in Jobs |-> IF j \in S THEN "pruned" ELSE phase[j]]
  /\ answer' = [j \in Jobs |-> IF j \in S THEN 0 ELSE answer[j]]

Next ==
  \/ \E j \in Jobs : Submit(j)
  \/ Publish
  \/ \E S \in SUBSET Jobs : Prune(S)

Spec == Init /\ [][Next]_jobVars

\* Every job that was submitted eventually gets an outcome.
EveryJobSettles == \A j \in Jobs : phase[j] = "open" ~> phase[j] # "open"
==============================================================================
