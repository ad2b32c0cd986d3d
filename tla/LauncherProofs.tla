---------------------------- MODULE LauncherProofs ----------------------------
(***************************************************************************)
(* Proofs about Launcher, for any sets of databases and worker slots and   *)
(* any bounds.                                                             *)
(***************************************************************************)
EXTENDS Launcher, TLAPS

USE LauncherAssumption DEF LauncherAssumption

Slots == {Free} \cup [db : Databases, st : States, term : BOOLEAN]

LEMMA FreeFacts == Free.db = NoDb /\ Free.st = "free" /\ Free.term = FALSE
BY DEF Free

LEMMA SlotFacts ==
  ASSUME NEW s \in Slots
  PROVE  s.st = "free" \/ (s \in [db : Databases, st : States, term : BOOLEAN])
BY FreeFacts DEF Slots

-----------------------------------------------------------------------------
(* Type correctness. *)

\* A slot of a worker that goes on to another state is a slot.
LEMMA BecomeType ==
  ASSUME TypeOK, NEW w \in Workers, NEW st \in States, Live(w), Become(w, st)
  PROVE  /\ worker' \in [Workers -> Slots]
         /\ \A v \in Workers : worker'[v].db = worker[v].db
         /\ \A v \in Workers : v # w => worker'[v] = worker[v]
         /\ worker'[w].st = st
<1>1. worker[w] \in [db : Databases, st : States, term : BOOLEAN]
  BY SlotFacts DEF TypeOK, Slots, Live
<1>2. worker' = [worker EXCEPT ![w].st = st]
  BY DEF Become
<1>3. worker \in [Workers -> Slots]
  BY DEF TypeOK, Slots
<1>4. [worker[w] EXCEPT !.st = st] \in [db : Databases, st : States, term : BOOLEAN]
  BY <1>1
<1>5. worker'[w] = [worker[w] EXCEPT !.st = st]
  BY <1>2, <1>3
<1>6. \A v \in Workers : v # w => worker'[v] = worker[v]
  BY <1>2, <1>3
<1>7. worker'[w].db = worker[w].db /\ worker'[w].st = st
  BY <1>1, <1>5
<1>8. worker' \in [Workers -> Slots]
  BY <1>2, <1>3, <1>4, <1>5 DEF Slots
<1>9. QED
  BY <1>6, <1>7, <1>8

\* What becomes of slots and handles when a worker ends.
LEMMA EndType ==
  ASSUME TypeOK, NEW w \in Workers, End(w)
  PROVE  /\ worker' \in [Workers -> Slots]
         /\ handle' \in [Databases -> Workers \cup {NoWorker, Gone}]
         /\ \A d \in Databases : handle'[d] \in Workers => worker'[handle'[d]].db = d
         /\ \A v \in Workers : v # w => worker'[v] = worker[v]
         /\ worker'[w] = Free
         /\ unseen' \subseteq lost' /\ lost' \subseteq Workers
<1>1. worker' = [worker EXCEPT ![w] = Free]
  BY DEF End
<1>2. worker \in [Workers -> Slots]
  BY DEF TypeOK, Slots
<1>3. /\ \A v \in Workers : v # w => worker'[v] = worker[v]
      /\ worker'[w] = Free
  BY <1>1, <1>2
<1>4. worker' \in [Workers -> Slots]
  BY <1>1, <1>2 DEF Slots
<1>5. handle' = [d \in Databases |-> IF handle[d] = w THEN Gone ELSE handle[d]]
  BY DEF End
<1>6. handle' \in [Databases -> Workers \cup {NoWorker, Gone}]
  BY <1>5 DEF TypeOK
<1>7. ASSUME NEW d \in Databases, handle'[d] \in Workers
      PROVE  worker'[handle'[d]].db = d
  BY <1>3, <1>5, <1>7 DEF TypeOK
<1>8. unseen' \subseteq lost' /\ lost' \subseteq Workers
  BY DEF TypeOK, End
<1>9. QED
  BY <1>3, <1>4, <1>6, <1>7, <1>8

LEMMA CounterFacts ==
  /\ MaxFaults \in Nat /\ MaxChanges \in Nat
  /\ 0 \in 0 .. MaxFaults /\ 0 \in 0 .. MaxChanges
OBVIOUS

LEMMA FaultType == ASSUME TypeOK, Fault PROVE faults' \in 0 .. MaxFaults
BY CounterFacts DEF TypeOK, Fault

\* What the launcher forgets are workers.
LEMMA ForgetType ==
  ASSUME TypeOK, NEW ws \in SUBSET Workers, Forget(ws)
  PROVE  unseen' \subseteq lost' /\ lost' \subseteq Workers
BY DEF TypeOK, Forget

LEMMA InitType == Init => TypeOK
<1> SUFFICES ASSUME Init PROVE TypeOK
  OBVIOUS
<1>1. worker \in [Workers -> {Free} \cup [db : Databases, st : States, term : BOOLEAN]]
  BY DEF Init
<1>2. /\ handle \in [Databases -> Workers \cup {NoWorker, Gone}]
      /\ \A d \in Databases : handle[d] \notin Workers
  BY DEF Init
<1>3. pc = "wait" /\ todo = {} /\ faults = 0 /\ changes = 0
  BY DEF Init
<1>4. installed \subseteq Databases /\ dblink \in BOOLEAN /\ lost = {} /\ unseen = {}
  BY DEF Init
<1>5. QED
  BY <1>1, <1>2, <1>3, <1>4, CounterFacts DEF TypeOK

LEMMA StepType == TypeOK /\ [Next]_vars => TypeOK'
<1> SUFFICES ASSUME TypeOK, [Next]_vars PROVE TypeOK'
  OBVIOUS
<1> USE DEF launcherVars, envVars
<1>1. ASSUME NEW d \in Databases, CreateExtension(d) \/ DropExtension(d)
      PROVE  TypeOK'
  <2>1. installed' \subseteq Databases
    BY <1>1 DEF TypeOK, CreateExtension, DropExtension
  <2>2. changes' \in 0 .. MaxChanges
    BY <1>1, CounterFacts DEF TypeOK, CreateExtension, DropExtension
  <2>3. QED
    BY <1>1, <2>1, <2>2 DEF TypeOK, CreateExtension, DropExtension
<1>2. CASE Wake
  <2>1. /\ handle' \in [Databases -> Workers \cup {NoWorker, Gone}]
        /\ \A d \in Databases : handle'[d] \in Workers => handle'[d] = handle[d]
    BY <1>2 DEF TypeOK, Wake, Retained
  <2>2. pc' = "scan" /\ todo' = {} /\ faults' \in 0 .. MaxFaults
    BY <1>2, FaultType DEF TypeOK, Wake
  <2>3. worker' = worker
    BY <1>2 DEF Wake
  <2>4. \A d \in Databases : handle'[d] \in Workers => worker'[handle'[d]].db = d
    BY <2>1, <2>3 DEF TypeOK
  <2>5. unseen' \subseteq lost' /\ lost' \subseteq Workers
    BY <1>2, ForgetType DEF Wake, Named
  <2>6. QED
    BY <1>2, <2>1, <2>2, <2>3, <2>4, <2>5 DEF TypeOK, Wake
<1>3. CASE Scan \/ ScanFails
  <2>1. faults' \in 0 .. MaxFaults
    BY <1>3, FaultType DEF TypeOK, Scan, ScanFails
  <2>2. /\ todo' \subseteq Databases
        /\ pc' \in {"wait", "check"}
        /\ pc' = "check" <=> todo' # {}
    BY <1>3 DEF TypeOK, Scan, ScanFails, Found
  <2>3. UNCHANGED <<handle, lost, unseen, envVars, worker>>
    BY <1>3 DEF Scan, ScanFails
  <2>4. QED
    BY <2>1, <2>2, <2>3 DEF TypeOK
<1>4. ASSUME NEW d \in Databases, Skip(d) \/ CheckFails(d) \/ CheckFindsNone(d) \/ SpawnFails(d)
      PROVE  TypeOK'
  <2>1. faults' \in 0 .. MaxFaults
    BY <1>4, FaultType DEF TypeOK, Skip, CheckFails, CheckFindsNone, SpawnFails
  <2>2. UNCHANGED <<handle, lost, unseen, envVars, worker>>
    BY <1>4 DEF Skip, CheckFails, CheckFindsNone, SpawnFails
  <2>3. CASE NextDb(d)
    BY <2>1, <2>2, <2>3 DEF TypeOK, NextDb
  <2>4. CASE CheckFindsNone(d)
    BY <2>1, <2>2, <2>4 DEF TypeOK, CheckFindsNone
  <2>5. QED
    BY <1>4, <2>3, <2>4 DEF Skip, CheckFails, SpawnFails
<1>5. ASSUME NEW d \in Databases, NEW w \in Workers, Spawn(d, w)
      PROVE  TypeOK'
  <2>1. New(d) \in [db : Databases, st : States, term : BOOLEAN] /\ New(d).db = d
    BY DEF New, States
  <2>2. worker' = [worker EXCEPT ![w] = New(d)] /\ handle' = [handle EXCEPT ![d] = w]
    BY <1>5 DEF Spawn
  <2>3. worker' \in [Workers -> {Free} \cup [db : Databases, st : States, term : BOOLEAN]]
    BY <2>1, <2>2 DEF TypeOK
  <2>4. worker[w].db \notin Databases
    <3>1. worker[w].st = "free"
      BY <1>5 DEF Spawn, Live
    <3>2. "free" \notin States
      BY DEF States
    <3>3. QED
      BY <3>1, <3>2, FreeFacts DEF TypeOK
  <2>5. ASSUME NEW e \in Databases, handle'[e] \in Workers
        PROVE  worker'[handle'[e]].db = e
    BY <2>1, <2>2, <2>4, <2>5 DEF TypeOK
  <2>6. handle' \in [Databases -> Workers \cup {NoWorker, Gone}]
    BY <2>2 DEF TypeOK
  <2>7. QED
    BY <1>5, <2>3, <2>5, <2>6 DEF TypeOK, Spawn, NextDb
<1>6. CASE Shutdown
  <2>1. ASSUME NEW w \in Workers
        PROVE  /\ worker'[w] \in {Free} \cup [db : Databases, st : States, term : BOOLEAN]
               /\ worker'[w].db = worker[w].db
    <3>1. CASE Live(w) /\ handle[worker[w].db] = w
      <4>1. worker[w] \in [db : Databases, st : States, term : BOOLEAN]
        BY <3>1, SlotFacts DEF TypeOK, Slots, Live
      <4>2. worker'[w] = [worker[w] EXCEPT !.term = TRUE]
        BY <1>6, <3>1 DEF Shutdown
      <4>3. QED
        BY <4>1, <4>2
    <3>2. CASE ~(Live(w) /\ handle[worker[w].db] = w)
      <4>1. worker'[w] = worker[w]
        BY <1>6, <3>2 DEF Shutdown
      <4>2. QED
        BY <4>1 DEF TypeOK
    <3>3. QED
      BY <3>1, <3>2
  <2>2. worker' \in [Workers -> {Free} \cup [db : Databases, st : States, term : BOOLEAN]]
    <3>1. DOMAIN worker' = Workers /\ worker' = [w \in Workers |-> worker'[w]]
      BY <1>6 DEF Shutdown
    <3>2. QED
      BY <2>1, <3>1
  <2>3. QED
    BY <1>6, <2>2 DEF TypeOK, Shutdown
<1>7. CASE LauncherCrash \/ LauncherRestart
  <2>1. faults' \in 0 .. MaxFaults
    BY <1>7, FaultType DEF TypeOK, LauncherCrash, LauncherRestart
  <2>2. /\ handle' \in [Databases -> Workers \cup {NoWorker, Gone}]
        /\ \A d \in Databases : handle'[d] \in Workers => worker[handle'[d]].db = d
        /\ unseen' \subseteq lost' /\ lost' \subseteq Workers
    BY <1>7, ForgetType DEF TypeOK, LauncherCrash, LauncherRestart, Named
  <2>3. todo' = {} /\ pc' \in {"crashed", "wait"} /\ UNCHANGED <<envVars, worker>>
    BY <1>7 DEF TypeOK, LauncherCrash, LauncherRestart
  <2>4. QED
    BY <2>1, <2>2, <2>3 DEF TypeOK
<1>8. ASSUME NEW w \in Workers, Start(w) \/ Connect(w) \/ DrainEnds(w)
      PROVE  TypeOK'
  <2>1. /\ Live(w)
        /\ \E st \in States : Become(w, st)
    BY <1>8 DEF Start, Connect, DrainEnds, Live, States
  <2>2. worker' \in [Workers -> Slots] /\ \A v \in Workers : worker'[v].db = worker[v].db
    BY <2>1, BecomeType
  <2>3. QED
    BY <1>8, <2>2 DEF TypeOK, Start, Connect, DrainEnds, Slots
<1>9. ASSUME NEW w \in Workers, VerifyExtension(w) \/ Poll(w)
      PROVE  TypeOK'
  <2>1. CASE worker[w].db \in installed
    <3>1. Live(w) /\ \E st \in States : Become(w, st)
      BY <1>9, <2>1 DEF VerifyExtension, Poll, Live, States
    <3>2. worker' \in [Workers -> Slots] /\ \A v \in Workers : worker'[v].db = worker[v].db
      BY <3>1, BecomeType
    <3>3. QED
      BY <1>9, <2>1, <3>2 DEF TypeOK, VerifyExtension, Poll, Slots
  <2>2. CASE worker[w].db \notin installed
    <3>1. End(w)
      BY <1>9, <2>2 DEF VerifyExtension, Poll
    <3>2. QED
      BY <1>9, <3>1, EndType DEF TypeOK, VerifyExtension, Poll, Slots, End
  <2>3. QED
    BY <2>1, <2>2
<1>10. ASSUME NEW w \in Workers, DrainRaises(w) \/ Stop(w) \/ WorkerCrash(w)
       PROVE  TypeOK'
  <2>1. End(w)
    BY <1>10 DEF DrainRaises, Stop, WorkerCrash
  <2>2. faults' \in 0 .. MaxFaults
    BY <1>10, FaultType DEF TypeOK, DrainRaises, Stop, WorkerCrash
  <2>3. UNCHANGED <<pc, todo, envVars>>
    BY <1>10, <2>1 DEF DrainRaises, Stop, WorkerCrash, End
  <2>4. QED
    BY <2>1, <2>2, <2>3, EndType DEF TypeOK, Slots
<1>11. CASE UNCHANGED vars
  BY <1>11 DEF TypeOK, vars
<1>12. QED
  BY <1>1, <1>2, <1>3, <1>4, <1>5, <1>6, <1>7, <1>8, <1>9, <1>10, <1>11
  DEF Next, LauncherStep, WorkerStep

\* Every slot, handle and counter has its type in every reachable state, and
\* a handle never names the worker of another database.
THEOREM TypeCorrect == Spec => []TypeOK
BY InitType, StepType, PTL DEF Spec

-----------------------------------------------------------------------------
(* A second worker of a database. *)

\* While the launcher is there it has a worker's handle or has lost it; one it
\* lost after it came into view stays in view.  Where it is about to start a
\* worker for a database, those that are there are lost and were never seen.
StrayInv ==
  /\ OneWorkerPerDatabase
  /\ pc # "down" => \A w \in Workers : Live(w) => handle[worker[w].db] = w \/ w \in lost
  /\ \A w \in lost : Live(w) /\ (w \in unseen \/ Visible(w))
  /\ pc = "spawn" =>
       \A d \in Databases : Current(d) =>
         handle[d] = NoWorker /\ \A w \in Workers : worker[w].db = d => w \in unseen

\* Workers end and come into view, but none begins or moves; the launcher
\* keeps and misses the same ones, but for those that end.
Ages ==
  /\ \A v \in Workers :
       Live(v)' => /\ Live(v)
                   /\ worker'[v].db = worker[v].db
                   /\ Visible(v) => Visible(v)'
                   /\ handle[worker[v].db] = v => handle'[worker[v].db] = v
                   /\ v \in lost => v \in lost'
                   /\ v \in unseen => v \in unseen'
  /\ \A v \in lost' : v \in lost /\ (Live(v) => Live(v)')
  /\ \A d \in Databases : handle[d] = NoWorker => handle'[d] = NoWorker

\* A slot has a database only if it has a worker, and the other way round.
LEMMA LiveDb ==
  ASSUME TypeOK, NEW w \in Workers
  PROVE  Live(w) <=> worker[w].db \in Databases
<1>1. CASE worker[w] = Free
  BY <1>1, FreeFacts DEF Live
<1>2. CASE worker[w] # Free
  <2>1. worker[w] \in [db : Databases, st : States, term : BOOLEAN]
    BY <1>2 DEF TypeOK
  <2>2. QED
    BY <2>1 DEF Live, States
<1>3. QED
  BY <1>1, <1>2

LEMMA EndAges ==
  ASSUME TypeOK, NEW w \in Workers, End(w)
  PROVE  Ages
<1>1. /\ \A v \in Workers : v # w => worker'[v] = worker[v]
      /\ worker'[w] = Free
  BY EndType
<1>2. /\ handle' = [d \in Databases |-> IF handle[d] = w THEN Gone ELSE handle[d]]
      /\ lost' = lost \ {w} /\ unseen' = unseen \ {w}
  BY DEF End
<1>3. ~Live(w)'
  BY <1>1, FreeFacts DEF Live
<1>4. ASSUME NEW v \in Workers, Live(v)'
      PROVE  /\ Live(v) /\ worker'[v].db = worker[v].db
             /\ Visible(v) => Visible(v)'
             /\ handle[worker[v].db] = v => handle'[worker[v].db] = v
             /\ v \in lost => v \in lost'
             /\ v \in unseen => v \in unseen'
  <2>1. v # w /\ worker'[v] = worker[v]
    BY <1>1, <1>3, <1>4
  <2>2. Live(v) /\ (Visible(v) => Visible(v)')
    BY <1>4, <2>1 DEF Live, Visible
  <2>3. worker[v].db \in Databases
    BY <2>2, LiveDb
  <2>4. QED
    BY <1>2, <2>1, <2>2, <2>3
<1>5. \A v \in lost' : v \in lost /\ (Live(v) => Live(v)')
  BY <1>1, <1>2 DEF Live, TypeOK
<1>6. \A d \in Databases : handle[d] = NoWorker => handle'[d] = NoWorker
  BY <1>2
<1>7. QED
  BY <1>4, <1>5, <1>6 DEF Ages

LEMMA BecomeAges ==
  ASSUME TypeOK, NEW w \in Workers, NEW st \in States, Live(w), Become(w, st),
         Visible(w) => st \in {"connected", "polling", "draining"},
         UNCHANGED launcherVars
  PROVE  Ages
<1>1. /\ \A v \in Workers : worker'[v].db = worker[v].db
      /\ \A v \in Workers : v # w => worker'[v] = worker[v]
      /\ worker'[w].st = st
  BY BecomeType
<1>2. handle' = handle /\ lost' = lost /\ unseen' = unseen
  BY DEF launcherVars
<1>3. \A v \in Workers : (Live(v)' <=> Live(v)) /\ (Visible(v) => Visible(v)')
  BY <1>1 DEF Live, Visible, States
<1>4. QED
  BY <1>1, <1>2, <1>3 DEF Ages, TypeOK

\* A worker's step lets workers age.
LEMMA WorkerAges ==
  ASSUME TypeOK, NEW w \in Workers, WorkerStep(w) \/ DrainRaises(w) \/ WorkerCrash(w)
  PROVE  Ages /\ pc' = pc /\ todo' = todo
<1>1. pc' = pc /\ todo' = todo
  BY DEF WorkerStep, Start, Connect, VerifyExtension, Poll, DrainEnds, Stop,
         DrainRaises, WorkerCrash, End, launcherVars
<1>2. CASE End(w)
  BY <1>1, <1>2, EndAges
<1>3. CASE Start(w)
  <2>1. /\ Live(w) /\ ~Visible(w) /\ Become(w, "started") /\ "started" \in States
        /\ UNCHANGED launcherVars
    BY <1>3 DEF Start, Live, Visible, States
  <2>2. QED
    BY <1>1, <2>1, BecomeAges
<1>4. ASSUME ~End(w), ~Start(w)
      PROVE  Ages
  <2>1. PICK st \in {"connected", "polling", "draining"} :
          Live(w) /\ Become(w, st) /\ UNCHANGED launcherVars
    BY <1>4 DEF WorkerStep, Connect, VerifyExtension, Poll, DrainEnds, Stop,
                DrainRaises, WorkerCrash, Live
  <2>2. st \in States
    BY DEF States
  <2>3. QED
    BY <2>1, <2>2, BecomeAges
<1>5. QED
  BY <1>1, <1>2, <1>3, <1>4

\* What ages keeps the invariant.
LEMMA AgesKeeps ==
  ASSUME TypeOK, TypeOK', StrayInv, Ages, pc' = pc, todo' = todo
  PROVE  StrayInv'
<1>1. OneWorkerPerDatabase'
  BY DEF StrayInv, Ages, OneWorkerPerDatabase
<1>2. pc' # "down" => \A w \in Workers : Live(w)' => handle'[worker'[w].db] = w \/ w \in lost'
  BY DEF StrayInv, Ages
<1>3. \A w \in lost' : Live(w)' /\ (w \in unseen' \/ Visible(w)')
  BY DEF StrayInv, Ages, TypeOK
<1>4. ASSUME pc' = "spawn", NEW d \in Databases, Current(d)'
      PROVE  handle'[d] = NoWorker /\ \A w \in Workers : worker'[w].db = d => w \in unseen'
  <2>1. Current(d)
    BY <1>4 DEF Current
  <2>2. handle[d] = NoWorker /\ \A w \in Workers : worker[w].db = d => w \in unseen
    BY <1>4, <2>1 DEF StrayInv
  <2>3. ASSUME NEW w \in Workers, worker'[w].db = d
        PROVE  w \in unseen'
    <3>1. Live(w)'
      <4>1. worker'[w] # Free
        BY <2>3, FreeFacts
      <4>2. worker'[w].st \in States
        BY <4>1 DEF TypeOK
      <4>3. QED
        BY <4>2 DEF Live, States
    <3>2. QED
      BY <2>2, <2>3, <3>1 DEF Ages
  <2>4. QED
    BY <2>2, <2>3 DEF Ages
<1>5. QED
  BY <1>1, <1>2, <1>3, <1>4 DEF StrayInv

\* So does a step of the launcher that goes on and starts and forgets nothing.
LEMMA RoundGoesOn ==
  ASSUME StrayInv, UNCHANGED <<worker, handle, lost, unseen>>, pc # "down", pc' # "spawn"
  PROVE  StrayInv'
BY DEF StrayInv, OneWorkerPerDatabase, Live, Visible

\* And one that forgets workers, when it forgets each whose handle it loses.
LEMMA ForgetKeeps ==
  ASSUME TypeOK, StrayInv, NEW ws \in SUBSET Workers, Forget(ws), worker' = worker,
         \A w \in ws : Live(w),
         \A w \in Workers : Live(w) /\ handle[worker[w].db] = w =>
                              handle'[worker[w].db] = w \/ w \in ws,
         pc # "down", pc' # "spawn"
  PROVE  StrayInv'
<1>1. lost' = lost \cup ws /\ unseen' = unseen \cup {w \in ws : ~Visible(w)}
  BY DEF Forget
<1>2. OneWorkerPerDatabase'
  BY <1>1 DEF StrayInv, OneWorkerPerDatabase, Live
<1>3. pc' # "down" => \A w \in Workers : Live(w)' => handle'[worker'[w].db] = w \/ w \in lost'
  BY <1>1 DEF StrayInv, Live
<1>4. \A w \in lost' : Live(w)' /\ (w \in unseen' \/ Visible(w)')
  BY <1>1 DEF StrayInv, Live, Visible
<1>5. QED
  BY <1>2, <1>3, <1>4 DEF StrayInv

LEMMA InitStray == Init => StrayInv
BY FreeFacts DEF Init, StrayInv, OneWorkerPerDatabase, Live

\* A worker that has a handle lives.
LEMMA NamedLive ==
  ASSUME TypeOK, NEW w \in Named(handle)
  PROVE  Live(w) /\ w \in Workers
<1>1. PICK d \in Databases : handle[d] = w
  BY DEF Named
<1>2. w \in Workers
  BY DEF Named
<1>3. worker[w].db = d
  BY <1>1, <1>2 DEF TypeOK
<1>4. QED
  BY <1>2, <1>3, LiveDb

LEMMA StepStray == TypeOK /\ TypeOK' /\ StrayInv /\ [Next]_vars => StrayInv'
<1> SUFFICES ASSUME TypeOK, TypeOK', StrayInv, [Next]_vars PROVE StrayInv'
  OBVIOUS
<1>1. ASSUME worker' = worker, UNCHANGED launcherVars
      PROVE  StrayInv'
  <2>1. Ages /\ pc' = pc /\ todo' = todo
    BY <1>1 DEF Ages, Live, Visible, launcherVars
  <2>2. QED
    BY <2>1, AgesKeeps
<1>2. ASSUME NEW d \in Databases, CreateExtension(d) \/ DropExtension(d)
      PROVE  StrayInv'
  BY <1>1, <1>2 DEF CreateExtension, DropExtension
<1>3. CASE Wake
  <2>1. /\ worker' = worker /\ pc = "wait" /\ pc' = "scan" /\ handle' = Retained
        /\ Forget(Named(handle) \ Named(handle'))
    BY <1>3 DEF Wake
  <2>2. ASSUME NEW w \in Workers, Live(w), handle[worker[w].db] = w
        PROVE  handle'[worker[w].db] = w \/ w \in Named(handle) \ Named(handle')
    <3>1. worker[w].db \in Databases
      BY <2>2, LiveDb
    <3>2. w \in Named(handle)
      BY <2>2, <3>1 DEF Named
    <3>3. ASSUME NEW e \in Databases, handle'[e] = w
          PROVE  e = worker[w].db
      BY <2>1, <3>3 DEF TypeOK
    <3>4. QED
      BY <3>2, <3>3 DEF Named
  <2>3. Named(handle) \ Named(handle') \in SUBSET Workers
    BY DEF Named
  <2>4. \A w \in Named(handle) \ Named(handle') : Live(w)
    BY NamedLive
  <2>5. QED
    BY <2>1, <2>2, <2>3, <2>4, ForgetKeeps
<1>4. CASE Scan \/ ScanFails
  <2>1. /\ UNCHANGED <<worker, handle, lost, unseen>>
        /\ pc = "scan" /\ pc' \in {"wait", "check"}
    BY <1>4 DEF Scan, ScanFails
  <2>2. QED
    BY <2>1, RoundGoesOn
<1>5. CASE LauncherCrash
  <2>1. /\ worker' = worker /\ Forget(Named(handle))
        /\ pc # "down" /\ pc' = "crashed"
    BY <1>5 DEF LauncherCrash
  <2>2. \A w \in Workers : Live(w) /\ handle[worker[w].db] = w => w \in Named(handle)
    BY LiveDb DEF Named
  <2>3. Named(handle) \in SUBSET Workers /\ \A w \in Named(handle) : Live(w)
    BY NamedLive DEF Named
  <2>4. QED
    BY <2>1, <2>2, <2>3, ForgetKeeps
<1>6. CASE LauncherRestart
  <2>1. /\ UNCHANGED <<worker, handle, lost, unseen>>
        /\ pc = "crashed" /\ pc' = "wait"
    BY <1>6 DEF LauncherRestart
  <2>2. QED
    BY <2>1, RoundGoesOn
<1>7. ASSUME NEW d \in Databases, Skip(d) \/ CheckFails(d) \/ SpawnFails(d)
      PROVE  StrayInv'
  <2>1. /\ UNCHANGED <<worker, handle, lost, unseen>>
        /\ pc \in {"check", "spawn"} /\ pc' \in {"wait", "check"}
    BY <1>7 DEF Skip, CheckFails, SpawnFails, NextDb
  <2>2. QED
    BY <2>1, RoundGoesOn
<1>8. ASSUME NEW d \in Databases, CheckFindsNone(d)
      PROVE  StrayInv'
  <2>1. /\ Current(d) /\ ~Tracked(d) /\ ~Present(d) /\ pc = "check"
        /\ UNCHANGED <<worker, handle, lost, unseen, todo>> /\ pc' = "spawn"
    BY <1>8 DEF CheckFindsNone
  <2>2. ASSUME NEW e \in Databases, Current(e)'
        PROVE  handle'[e] = NoWorker /\ \A w \in Workers : worker'[w].db = e => w \in unseen'
    <3>1. Current(e)
      BY <2>1, <2>2 DEF Current
    <3>2. e = d
      <4>1. d \in Nat /\ e \in Nat /\ d <= e /\ e <= d
        BY <2>1, <3>1 DEF Current
      <4>2. QED
        BY <4>1
    <3>3. handle[d] = NoWorker
      BY <2>1 DEF Tracked
    <3>4. ASSUME NEW w \in Workers, worker[w].db = d
          PROVE  w \in unseen
      <4>1. Live(w)
        BY <3>4, LiveDb
      <4>2. w \in lost
        BY <2>1, <3>3, <3>4, <4>1 DEF StrayInv
      <4>3. ~Visible(w)
        BY <2>1, <3>4 DEF Present
      <4>4. QED
        BY <4>2, <4>3 DEF StrayInv
    <3>5. QED
      BY <2>1, <3>2, <3>3, <3>4
  <2>3. OneWorkerPerDatabase'
    BY <2>1 DEF StrayInv, OneWorkerPerDatabase, Live
  <2>4. \A w \in Workers : Live(w)' => handle'[worker'[w].db] = w \/ w \in lost'
    BY <2>1 DEF StrayInv, Live
  <2>5. \A w \in lost' : Live(w)' /\ (w \in unseen' \/ Visible(w)')
    BY <2>1 DEF StrayInv, Live, Visible
  <2>6. QED
    BY <2>2, <2>3, <2>4, <2>5 DEF StrayInv
<1>9. ASSUME NEW d \in Databases, NEW w \in Workers, Spawn(d, w)
      PROVE  StrayInv'
  <2>1. /\ pc = "spawn" /\ Current(d) /\ ~Live(w)
        /\ pc' \in {"wait", "check"}
        /\ worker' = [worker EXCEPT ![w] = New(d)]
        /\ handle' = [handle EXCEPT ![d] = w]
        /\ UNCHANGED <<lost, unseen>>
    BY <1>9 DEF Spawn, NextDb
  <2>2. /\ worker'[w].db = d
        /\ \A v \in Workers : v # w => worker'[v] = worker[v]
        /\ handle'[d] = w
        /\ \A e \in Databases : e # d => handle'[e] = handle[e]
    BY <2>1 DEF TypeOK, New
  <2>3. handle[d] = NoWorker /\ \A v \in Workers : worker[v].db = d => v \in unseen
    BY <2>1 DEF StrayInv
  <2>4. ASSUME NEW v \in Workers, v # w, Live(v)'
        PROVE  Live(v) /\ worker'[v].db = worker[v].db /\ worker[v].db \in Databases
    <3>1. worker'[v] = worker[v]
      BY <2>2, <2>4
    <3>2. Live(v)
      BY <2>4, <3>1 DEF Live
    <3>3. QED
      BY <3>1, <3>2, LiveDb
  <2>5. OneWorkerPerDatabase'
    <3>1. SUFFICES ASSUME NEW u \in Workers, NEW v \in Workers, Live(u)', Live(v)',
                          worker'[u].db = worker'[v].db, u # v
                   PROVE  {u, v} \cap unseen' # {}
      BY DEF OneWorkerPerDatabase
    <3>2. CASE u # w /\ v # w
      BY <2>1, <2>4, <3>1, <3>2 DEF StrayInv, OneWorkerPerDatabase
    <3>3. CASE u = w \/ v = w
      BY <2>1, <2>2, <2>3, <2>4, <3>1, <3>3
    <3>4. QED
      BY <3>2, <3>3
  <2>6. ASSUME NEW v \in Workers, Live(v)'
        PROVE  handle'[worker'[v].db] = v \/ v \in lost'
    <3>1. CASE v = w
      BY <2>2, <3>1
    <3>2. CASE v # w /\ worker[v].db = d
      BY <2>1, <2>3, <3>2 DEF TypeOK
    <3>3. CASE v # w /\ worker[v].db # d
      BY <2>1, <2>2, <2>4, <2>6, <3>3 DEF StrayInv
    <3>4. QED
      BY <3>1, <3>2, <3>3
  <2>7. ASSUME NEW v \in lost'
        PROVE  Live(v)' /\ (v \in unseen' \/ Visible(v)')
    <3>1. v \in Workers /\ Live(v) /\ (v \in unseen \/ Visible(v))
      BY <2>1, <2>7 DEF StrayInv, TypeOK
    <3>2. worker'[v] = worker[v]
      BY <2>1, <2>2, <3>1
    <3>3. QED
      BY <2>1, <3>1, <3>2 DEF Live, Visible
  <2>8. QED
    BY <2>1, <2>5, <2>6, <2>7 DEF StrayInv
<1>10. CASE Shutdown
  <2>1. pc' = "down" /\ lost' = lost /\ unseen' = unseen
    BY <1>10 DEF Shutdown
  <2>2. ASSUME NEW v \in Workers
        PROVE  worker'[v].db = worker[v].db /\ worker'[v].st = worker[v].st
    <3>1. CASE Live(v) /\ handle[worker[v].db] = v
      <4>1. worker[v] \in [db : Databases, st : States, term : BOOLEAN]
        BY <3>1, SlotFacts DEF TypeOK, Slots, Live
      <4>2. worker'[v] = [worker[v] EXCEPT !.term = TRUE]
        BY <1>10, <3>1 DEF Shutdown
      <4>3. QED
        BY <4>1, <4>2
    <3>2. CASE ~(Live(v) /\ handle[worker[v].db] = v)
      BY <1>10, <3>2 DEF Shutdown
    <3>3. QED
      BY <3>1, <3>2
  <2>3. \A v \in Workers : (Live(v)' <=> Live(v)) /\ (Visible(v)' <=> Visible(v))
    BY <2>2 DEF Live, Visible
  <2>4. OneWorkerPerDatabase'
    BY <2>1, <2>2, <2>3 DEF StrayInv, OneWorkerPerDatabase
  <2>5. \A w \in lost' : Live(w)' /\ (w \in unseen' \/ Visible(w)')
    BY <2>1, <2>3 DEF StrayInv, TypeOK
  <2>6. QED
    BY <2>1, <2>4, <2>5 DEF StrayInv
<1>11. ASSUME NEW w \in Workers, WorkerStep(w) \/ DrainRaises(w) \/ WorkerCrash(w)
       PROVE  StrayInv'
  BY <1>11, WorkerAges, AgesKeeps
<1>12. CASE UNCHANGED vars
  BY <1>1, <1>12 DEF vars
<1>13. QED
  BY <1>2, <1>3, <1>4, <1>5, <1>6, <1>7, <1>8, <1>9, <1>10, <1>11, <1>12
  DEF Next, LauncherStep

\* Whenever the launcher wakes, dies or fails to look, and however long a
\* worker takes to start: a database has a second worker only beside one that
\* the launcher lost before it was in pg_stat_activity.
THEOREM OneWorker == Spec => []OneWorkerPerDatabase
<1>1. Init => TypeOK /\ StrayInv
  BY InitType, InitStray
<1>2. TypeOK /\ StrayInv /\ [Next]_vars => (TypeOK /\ StrayInv)'
  BY StepType, StepStray
<1>3. TypeOK /\ StrayInv => OneWorkerPerDatabase
  BY DEF StrayInv
<1>4. QED
  BY <1>1, <1>2, <1>3, PTL DEF Spec
=============================================================================
