------------------------------- MODULE Launcher -------------------------------
(***************************************************************************)
(* The two tiers of background workers of pg_ask.  One launcher looks      *)
(* every half minute which databases have the extension and starts a       *)
(* dynamic worker for each that has none.  A worker drains the job queue   *)
(* of its database (JobQueue says how) until the extension is dropped or   *)
(* it is terminated.                                                       *)
(*                                                                         *)
(* The launcher knows its workers by the handles it keeps in memory.  If   *)
(* it dies, PostgreSQL restarts it without them while the workers go on,   *)
(* and it recognizes these by their entries in pg_stat_activity.  Nobody   *)
(* but the launcher restarts a worker.                                     *)
(***************************************************************************)
EXTENDS Naturals

CONSTANTS
  Databases,   \* the connectable databases, numbered in the order of their names
  Workers,     \* slots for dynamic background workers
  NoDb,
  NoWorker,    \* no handle
  Gone,        \* the handle of a worker that has ended
  MaxFaults,   \* bound: crashes, failing statements and early wakes
  MaxChanges   \* bound: CREATE and DROP EXTENSION

ASSUME LauncherAssumption ==
  /\ Databases \subseteq Nat
  /\ NoDb \notin Databases
  /\ NoWorker \notin Workers /\ Gone \notin Workers /\ NoWorker # Gone
  /\ {MaxFaults, MaxChanges} \subseteq Nat

VARIABLES
  installed,  \* databases with the extension
  dblink,     \* the maintenance database has dblink
  pc,         \* where the launcher is
  todo,       \* databases it has found and not dealt with
  handle,     \* its map of handles
  worker,     \* each slot: the worker's database, its state, a SIGTERM for it
  lost,       \* history: live workers whose handle the launcher has lost,
  unseen,     \* history: those of them it lost before they came into view
  faults,
  changes

launcherVars == <<pc, todo, handle, lost, unseen>>
envVars == <<installed, dblink, changes>>
vars == <<launcherVars, envVars, worker, faults>>

States == {"registered", "started", "connected", "polling", "draining"}
Free == [db |-> NoDb, st |-> "free", term |-> FALSE]

Live(w) == worker[w].st # "free"

\* Its backend is in pg_stat_activity.
Visible(w) == worker[w].st \in {"connected", "polling", "draining"}

Serves(w, d) == worker[w].db = d /\ worker[w].st \in {"polling", "draining"}

\* The type invariant; a handle is one of a worker of its database.
TypeOK ==
  /\ installed \subseteq Databases
  /\ dblink \in BOOLEAN
  /\ pc \in {"wait", "scan", "check", "spawn", "crashed", "down"}
  /\ todo \subseteq Databases
  /\ pc \in {"check", "spawn"} <=> todo # {}
  /\ worker \in [Workers -> {Free} \cup [db : Databases, st : States, term : BOOLEAN]]
  /\ handle \in [Databases -> Workers \cup {NoWorker, Gone}]
  /\ \A d \in Databases : handle[d] \in Workers => worker[handle[d]].db = d
  /\ unseen \subseteq lost /\ lost \subseteq Workers
  /\ faults \in 0 .. MaxFaults
  /\ changes \in 0 .. MaxChanges

Init ==
  /\ installed \in SUBSET Databases
  /\ dblink \in BOOLEAN
  /\ pc = "wait"
  /\ todo = {}
  /\ handle = [d \in Databases |-> NoWorker]
  /\ worker = [w \in Workers |-> Free]
  /\ lost = {} /\ unseen = {}
  /\ faults = 0
  /\ changes = 0

Fault == faults < MaxFaults /\ faults' = faults + 1

-----------------------------------------------------------------------------
(* The environment. *)

CreateExtension(d) ==
  /\ changes < MaxChanges
  /\ d \notin installed
  /\ installed' = installed \cup {d}
  /\ changes' = changes + 1
  /\ UNCHANGED <<launcherVars, dblink, worker, faults>>

DropExtension(d) ==
  /\ changes < MaxChanges
  /\ d \in installed
  /\ installed' = installed \ {d}
  /\ changes' = changes + 1
  /\ UNCHANGED <<launcherVars, dblink, worker, faults>>

-----------------------------------------------------------------------------
(* The launcher. *)

\* Mutant: the handles of ended workers stay in the map.
AnyHandle(h) == h # NoWorker

\* handle.pid() returns a process id: the worker has started and not ended.
Running(h) == h \in Workers /\ worker[h].st # "registered"

\* What is left of the map after the round has begun.
Retained == [d \in Databases |-> IF Running(handle[d]) THEN handle[d] ELSE NoWorker]

\* The workers that the handles h are of.
Named(h) == {h[d] : d \in Databases} \cap Workers

\* The launcher forgets workers that go on, ws: by dropping their handles or
\* by dying.
Forget(ws) ==
  /\ lost' = lost \cup ws
  /\ unseen' = unseen \cup {w \in ws : ~Visible(w)}

\* Mostly the workers are up by the end of the half minute.  But one may be
\* slow, and the latch is set by other signals too: SIGHUP, or an interrupt of
\* PostgreSQL's own.  The handle of a worker that has not started is dropped.
Wake ==
  /\ pc = "wait"
  /\ IF \A w \in Workers : Live(w) => Visible(w) THEN UNCHANGED faults ELSE Fault
  /\ handle' = Retained
  /\ Forget(Named(handle) \ Named(handle'))
  /\ pc' = "scan"
  /\ UNCHANGED <<todo, envVars, worker>>

\* Without dblink the launcher cannot probe and takes every database.
Found(unreachable) ==
  IF dblink THEN installed \ unreachable ELSE Databases

Scan ==
  /\ pc = "scan"
  /\ \E unreachable \in SUBSET installed :
       /\ todo' = Found(unreachable)
       /\ IF unreachable = {} THEN UNCHANGED faults ELSE dblink /\ Fault
  /\ pc' = IF todo' = {} THEN "wait" ELSE "check"
  /\ UNCHANGED <<handle, lost, unseen, envVars, worker>>

ScanFails ==
  /\ pc = "scan"
  /\ Fault
  /\ pc' = "wait"
  /\ UNCHANGED <<todo, handle, lost, unseen, envVars, worker>>

\* The database the round is at.
Current(d) == d \in todo /\ \A e \in todo : d <= e

\* Mutant: the round does not end with its last database.
NextDbEndless(d) ==
  /\ todo' = todo \ {d}
  /\ pc' = "check"

\* The round is through with d.
NextDb(d) ==
  /\ todo' = todo \ {d}
  /\ pc' = IF todo' = {} THEN "wait" ELSE "check"

Tracked(d) == handle[d] # NoWorker

\* Mutant: the launcher trusts its handles alone.
PresentIfTracked(d) == Tracked(d)

\* pg_stat_activity has a backend 'pg_ask worker: d'.
Present(d) == \E w \in Workers : worker[w].db = d /\ Visible(w)

Skip(d) ==
  /\ pc = "check" /\ Current(d)
  /\ Tracked(d) \/ Present(d)
  /\ NextDb(d)
  /\ UNCHANGED <<handle, lost, unseen, envVars, worker, faults>>

CheckFails(d) ==
  /\ pc = "check" /\ Current(d)
  /\ ~Tracked(d)
  /\ Fault
  /\ NextDb(d)
  /\ UNCHANGED <<handle, lost, unseen, envVars, worker>>

CheckFindsNone(d) ==
  /\ pc = "check" /\ Current(d)
  /\ ~Tracked(d) /\ ~Present(d)
  /\ pc' = "spawn"
  /\ UNCHANGED <<todo, handle, lost, unseen, envVars, worker, faults>>

New(d) == [db |-> d, st |-> "registered", term |-> FALSE]

\* Mutant: the handle of the new worker is not kept.
SpawnForgets(d, w) ==
  /\ pc = "spawn" /\ Current(d)
  /\ ~Live(w)
  /\ worker' = [worker EXCEPT ![w] = New(d)]
  /\ NextDb(d)
  /\ UNCHANGED <<handle, lost, unseen, envVars, faults>>

Spawn(d, w) ==
  /\ pc = "spawn" /\ Current(d)
  /\ ~Live(w)
  /\ worker' = [worker EXCEPT ![w] = New(d)]
  /\ handle' = [handle EXCEPT ![d] = w]
  /\ NextDb(d)
  /\ UNCHANGED <<lost, unseen, envVars, faults>>

\* No slot is free for a worker of d.
NoSlot(d) == pc = "spawn" /\ Current(d) /\ \A w \in Workers : Live(w)

\* The slots may also be taken by workers of others.
SpawnFails(d) ==
  /\ pc = "spawn" /\ Current(d)
  /\ IF NoSlot(d) THEN UNCHANGED faults ELSE Fault
  /\ NextDb(d)
  /\ UNCHANGED <<handle, lost, unseen, envVars, worker>>

\* SIGTERM: the launcher signals its workers and ends for good.
Shutdown ==
  /\ pc = "wait"
  /\ pc' = "down"
  /\ worker' = [w \in Workers |->
       IF Live(w) /\ handle[worker[w].db] = w THEN [worker[w] EXCEPT !.term = TRUE]
       ELSE worker[w]]
  /\ handle' = [d \in Databases |-> NoWorker]
  /\ UNCHANGED <<todo, lost, unseen, envVars, faults>>

\* An ERROR or a signal ends the launcher; its memory is lost.
LauncherCrash ==
  /\ pc \notin {"crashed", "down"}
  /\ Fault
  /\ pc' = "crashed"
  /\ todo' = {}
  /\ handle' = [d \in Databases |-> NoWorker]
  /\ Forget(Named(handle))
  /\ UNCHANGED <<envVars, worker>>

LauncherRestart ==
  /\ pc = "crashed"
  /\ pc' = "wait"
  /\ UNCHANGED <<todo, handle, lost, unseen, envVars, worker, faults>>

-----------------------------------------------------------------------------
(* A worker. *)

Become(w, st) == worker' = [worker EXCEPT ![w].st = st]

\* The slot becomes free and handles for it are of no worker any more.
End(w) ==
  /\ worker' = [worker EXCEPT ![w] = Free]
  /\ handle' = [d \in Databases |-> IF handle[d] = w THEN Gone ELSE handle[d]]
  /\ lost' = lost \ {w} /\ unseen' = unseen \ {w}
  /\ UNCHANGED <<pc, todo>>

Start(w) ==
  /\ worker[w].st = "registered" /\ ~worker[w].term
  /\ Become(w, "started")
  /\ UNCHANGED <<launcherVars, envVars, faults>>

Connect(w) ==
  /\ worker[w].st = "started"
  /\ Become(w, "connected")
  /\ UNCHANGED <<launcherVars, envVars, faults>>

VerifyExtension(w) ==
  /\ worker[w].st = "connected"
  /\ IF worker[w].db \in installed THEN Become(w, "polling") /\ UNCHANGED launcherVars
     ELSE End(w)
  /\ UNCHANGED <<envVars, faults>>

\* Mutant: a worker does not look again whether the extension is there.
PollBlindly(w) ==
  /\ worker[w].st = "polling" /\ ~worker[w].term
  /\ Become(w, "draining")
  /\ UNCHANGED <<launcherVars, envVars, faults>>

\* The latch or the interval wakes it.
Poll(w) ==
  /\ worker[w].st = "polling" /\ ~worker[w].term
  /\ IF worker[w].db \in installed THEN Become(w, "draining") /\ UNCHANGED launcherVars
     ELSE End(w)
  /\ UNCHANGED <<envVars, faults>>

DrainEnds(w) ==
  /\ worker[w].st = "draining"
  /\ Become(w, "polling")
  /\ UNCHANGED <<launcherVars, envVars, faults>>

\* The extension is dropped under the pass, and its next statement raises.
DrainRaises(w) ==
  /\ worker[w].st = "draining"
  /\ worker[w].db \notin installed
  /\ End(w)
  /\ UNCHANGED <<envVars, faults>>

\* SIGTERM takes effect where the worker waits and before it has handlers.
Stop(w) ==
  /\ worker[w].st \in {"registered", "started", "polling"} /\ worker[w].term
  /\ End(w)
  /\ UNCHANGED <<envVars, faults>>

WorkerCrash(w) ==
  /\ worker[w].st \in States \ {"registered"}
  /\ Fault
  /\ End(w)
  /\ UNCHANGED envVars

-----------------------------------------------------------------------------
LauncherStep ==
  \/ Wake \/ Scan \/ LauncherRestart
  \/ \E d \in Databases :
       Skip(d) \/ CheckFindsNone(d) \/ SpawnFails(d) \/ \E w \in Workers : Spawn(d, w)

WorkerStep(w) ==
  Start(w) \/ Connect(w) \/ VerifyExtension(w) \/ Poll(w) \/ DrainEnds(w) \/ Stop(w)

Next ==
  \/ LauncherStep \/ ScanFails \/ LauncherCrash \/ Shutdown
  \/ \E d \in Databases :
       CreateExtension(d) \/ DropExtension(d) \/ CheckFails(d)
  \/ \E w \in Workers : WorkerStep(w) \/ DrainRaises(w) \/ WorkerCrash(w)

Spec == Init /\ [][Next]_vars

\* PostgreSQL restarts a launcher that has died; the launcher and a worker go
\* on by themselves.
FairSpec ==
  /\ Spec
  /\ WF_vars(LauncherStep)
  /\ \A w \in Workers : WF_vars(WorkerStep(w))

-----------------------------------------------------------------------------
(* Properties. *)

\* Of two workers of a database, the launcher has lost one before it came into
\* pg_stat_activity.  A worker it lost after that, by dying or by failing to
\* notice, is never doubled: the next round sees it (bgworker.rs:88-118).
OneWorkerPerDatabase ==
  \A v, w \in Workers :
    Live(v) /\ Live(w) /\ worker[v].db = worker[w].db => v = w \/ {v, w} \cap unseen # {}

\* What bgworker.rs:73-76 and 115-116 say: a handle is dropped when its worker
\* has exited, and no duplicate is spawned.
NoDuplicateWorker ==
  \A v, w \in Workers : Live(v) /\ Live(w) /\ worker[v].db = worker[w].db => v = w

ServedOrDown(d) ==
  <>[](\E w \in Workers : Serves(w, d)) \/ <>(pc = "down")

\* Unless the launcher is shut down, a database that keeps the extension is
\* served for ever once nothing fails any more: a worker that ends is
\* replaced, a database that was skipped or is new is found in a later round.
\* Workers the launcher has lost can only keep it from that by leaving no slot
\* free whenever it tries.
InstalledServed ==
  \A d \in Databases : <>[](d \in installed) => ServedOrDown(d) \/ []<>NoSlot(d)

\* A database that loses the extension is left: for ever if the launcher can
\* probe, and otherwise the worker of a round goes as soon as it looks.
DroppedReleased ==
  \A d \in Databases :
    LET left == \A w \in Workers : worker[w].db # d IN
    <>[](d \notin installed) => []<>left /\ (dblink => <>[]left)

\* After a shutdown no worker outlives the launcher but those it or an earlier
\* launcher had lost (bgworker.rs:138-143).
ShutdownStopsWorkers ==
  pc = "down" ~> \A w \in Workers : Live(w) => w \in lost
=============================================================================
