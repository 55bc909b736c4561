---------------------------- MODULE MCRoomProofs ----------------------------
(***************************************************************************)
(* Theorems of ProcPool, for every number of jobs, of idle processes and   *)
(* of failures, and what holds of the parts that MCRoom checks in one run, *)
(* for every value of the constants: RoomInStep, of RoomIO, ThreadRunner   *)
(* and BackgroundAudio, GeminiInStep, of GeminiSession, and                *)
(* StreamsInOrder, of TtsStream.  The parts share no state, so each has an *)
(* invariant of its own.                                                   *)
(***************************************************************************)
EXTENDS MCRoom, SequenceTheorems, FiniteSetTheorems, TLAPS

-----------------------------------------------------------------------------
(* The pool of processes: the invariant PoolInv says where a process can be at each stage of
   its spawn task; what aclose() leaves behind follows from it. *)

InWarm(p) == \E i \in 1 .. Len(warm) : warm[i] = p

\* A process whose initialization has not ended: nothing was done with it yet.
Fresh(p) ==
    /\ initFut[p] = "pending" /\ runningJob[p] = NoJob
    /\ p \notin monitored /\ ~InWarm(p)

Stages ==
    /\ \A p \in Proc : p > spawned => spawn[p] = "none"
    /\ \A p \in Proc : spawn[p] # "gone" => Fresh(p)
    /\ \A p \in Proc : p \in executors => spawn[p] \in {"initializing", "gone"}
    /\ \A p \in Proc : spawn[p] = "initializing" => p \in executors
    /\ \A p \in executors : spawn[p] = "initializing" \/ p \in monitored

Closing ==
    /\ closed <=> closer # "none"
    /\ closer \in {"monitors", "closed"} => Initializing = {}
    /\ closer = "closed" => monitored = {}

PoolInv == TypeOK /\ WarmIsReady /\ LiveIsListed /\ Stages /\ Closing

-----------------------------------------------------------------------------
\* The pool that has spawned nothing satisfies the invariant.
LEMMA InitPool == Init => PoolInv
  <1> SUFFICES ASSUME Init PROVE PoolInv
    OBVIOUS
  <1> USE ProcPoolAssumption DEF Init, Proc
  <1>1. TypeOK
    <2>1. /\ spawned \in 0 .. MaxProc /\ failures \in 0 .. MaxFailures
          /\ target \in 0 .. NumIdle /\ warm \in Seq(Proc)
      OBVIOUS
    <2>2. /\ spawn \in [Proc -> {"none", "queued", "starting", "initializing", "gone"}]
          /\ initFut \in [Proc -> {"pending", "ok", "failed"}]
          /\ runningJob \in [Proc -> Job \cup {NoJob}]
          /\ job \in [Job -> {"none", "waiting", "sent", "lost"}]
      OBVIOUS
    <2>3. /\ alive \subseteq Proc /\ asked \subseteq Proc /\ executors \subseteq Proc
          /\ monitored \subseteq executors
      OBVIOUS
    <2>4. closed \in BOOLEAN
          /\ closer \in {"none", "cancelled", "processes", "spawns", "monitors", "closed"}
      OBVIOUS
    <2> QED BY <2>1, <2>2, <2>3, <2>4 DEF TypeOK
  <1>2. WarmIsReady /\ LiveIsListed
    BY DEF WarmIsReady, LiveIsListed
  <1>3. Stages
    BY DEF Stages, Fresh, InWarm
  <1>4. Closing
    BY DEF Closing, Initializing
  <1> QED BY <1>1, <1>2, <1>3, <1>4 DEF PoolInv

\* What the main loop spawns is a number of processes.
LEMMA PendingIsNat == TypeOK => Pending \in Nat /\ Wanted \in Nat
  <1> SUFFICES ASSUME TypeOK PROVE Pending \in Nat /\ Wanted \in Nat
    OBVIOUS
  <1>1. IsFiniteSet(Proc)
    BY ProcPoolAssumption, FS_Interval DEF Proc
  <1>2. SpawnTasks \subseteq Proc
    BY DEF SpawnTasks
  <1>3. Cardinality(SpawnTasks) \in Nat
    BY <1>1, <1>2, FS_Subset, FS_CardinalityType
  <1>4. Len(warm) \in Nat
    BY DEF TypeOK
  <1>5. Wanted \in Nat
    BY ProcPoolAssumption DEF Wanted, TypeOK
  <1> QED BY <1>3, <1>4, <1>5 DEF Pending

\* Spawning touches processes that do not exist yet.
LEMMA SpawnKeeps ==
    ASSUME PoolInv, NEW n \in Nat, SpawnNew(n),
           UNCHANGED <<procVars, poolVars, target, closeVars, failures>>,
           job' \in [Job -> {"none", "waiting", "sent", "lost"}]
    PROVE  PoolInv'
  <1> USE ProcPoolAssumption DEF Proc, procVars, poolVars, closeVars
  <1>1. spawned' \in 0 .. MaxProc /\ spawned' >= spawned
    BY DEF SpawnNew, PoolInv, TypeOK
  <1>2. \A p \in Proc : spawn'[p] = spawn[p] \/ (p > spawned /\ p <= spawned' /\ spawn'[p] = "queued")
    BY DEF SpawnNew, PoolInv, TypeOK
  <1>3. spawn' \in [Proc -> {"none", "queued", "starting", "initializing", "gone"}]
    BY <1>2 DEF SpawnNew, PoolInv, TypeOK
  <1>4. TypeOK'
    BY <1>1, <1>3 DEF PoolInv, TypeOK
  <1>5. WarmIsReady' /\ LiveIsListed'
    BY DEF PoolInv, WarmIsReady, LiveIsListed
  <1>6. Stages'
    <2>1. \A p \in Proc : Fresh(p)' <=> Fresh(p)
      BY DEF Fresh, InWarm
    <2>2. \A p \in Proc : p > spawned' => spawn'[p] = "none"
      BY <1>1, <1>2 DEF PoolInv, TypeOK, Stages
    <2>3. \A p \in Proc : spawn'[p] # "gone" => Fresh(p)
      BY <1>2 DEF PoolInv, TypeOK, Stages
    <2>4. \A p \in Proc : p > spawned => p \notin executors
      BY DEF PoolInv, TypeOK, Stages
    <2>5. executors \subseteq Proc
      BY DEF PoolInv, TypeOK
    <2> QED BY <1>2, <2>1, <2>2, <2>3, <2>4, <2>5 DEF PoolInv, Stages
  <1>7. Closing'
    BY <1>2 DEF PoolInv, Closing, Initializing
  <1> QED BY <1>4, <1>5, <1>6, <1>7 DEF PoolInv

-----------------------------------------------------------------------------
\* The steps of a spawn task keep the invariant.
LEMMA SpawnTaskKeeps ==
    ASSUME PoolInv, NEW p \in Proc,
           BeginStart(p) \/ Started(p) \/ StartedDead(p) \/ InitOk(p) \/ InitFails(p)
    PROVE  PoolInv'
  <1> USE DEF procVars, poolVars, closeVars
  <1>0. p \in 1 .. MaxProc /\ (spawn[p] # "none" => p <= spawned)
    BY DEF Proc, PoolInv, TypeOK, Stages
  <1>1. CASE BeginStart(p)
    <2>1. \/ closed /\ spawn' = [spawn EXCEPT ![p] = "gone"]
          \/ ~closed /\ spawn' = [spawn EXCEPT ![p] = "starting"]
      BY <1>1, Zenon DEF BeginStart
    <2>2. TypeOK'
      BY <1>1, <2>1 DEF BeginStart, PoolInv, TypeOK
    <2>3. WarmIsReady' /\ LiveIsListed'
      BY <1>1 DEF BeginStart, PoolInv, WarmIsReady, LiveIsListed
    <2>4. Stages'
      BY <1>1, <2>1, <1>0 DEF BeginStart, PoolInv, TypeOK, Stages, Fresh, InWarm
    <2>5. Closing'
      BY <1>1, <2>1 DEF BeginStart, PoolInv, TypeOK, Closing, Initializing
    <2> QED BY <2>2, <2>3, <2>4, <2>5 DEF PoolInv
  <1>2. CASE Started(p)
    <2>2. TypeOK'
      BY <1>2 DEF Started, PoolInv, TypeOK
    <2>3. WarmIsReady' /\ LiveIsListed'
      BY <1>2 DEF Started, PoolInv, WarmIsReady, LiveIsListed
    <2>4. Stages'
      BY <1>2, <1>0 DEF Started, PoolInv, TypeOK, Stages, Fresh, InWarm
    <2>5. Closing'
      BY <1>2 DEF Started, PoolInv, TypeOK, Closing, Initializing
    <2> QED BY <2>2, <2>3, <2>4, <2>5 DEF PoolInv
  <1>3. CASE StartedDead(p)
    <2>2. TypeOK'
      BY <1>3, ProcPoolAssumption DEF StartedDead, Monitor, PoolInv, TypeOK
    <2>3. WarmIsReady' /\ LiveIsListed'
      BY <1>3 DEF StartedDead, Monitor, PoolInv, WarmIsReady, LiveIsListed
    <2>4. Stages'
      BY <1>3, <1>0 DEF StartedDead, Monitor, PoolInv, TypeOK, Stages, Fresh, InWarm
    <2>5. Closing'
      BY <1>3 DEF StartedDead, Monitor, PoolInv, TypeOK, Closing, Initializing
    <2> QED BY <2>2, <2>3, <2>4, <2>5 DEF PoolInv
  <1>4. CASE InitOk(p)
    <2>1. /\ warm \in Seq(Proc) /\ warm' = Append(warm, p)
          /\ Len(warm') = Len(warm) + 1
          /\ \A i \in 1 .. Len(warm) : warm'[i] = warm[i]
          /\ warm'[Len(warm) + 1] = p
      BY <1>4 DEF InitOk, PoolInv, TypeOK
    <2>2. TypeOK'
      <3>1. warm' \in Seq(Proc)
        BY <2>1
      <3>2. p \in executors
        BY <1>4 DEF InitOk, PoolInv, Stages
      <3> QED BY <1>4, <3>1, <3>2 DEF InitOk, Monitor, PoolInv, TypeOK
    <2>3. Fresh(p)
      BY <1>4 DEF InitOk, PoolInv, Stages
    <2>4. WarmIsReady'
      <3>1. initFut' = [initFut EXCEPT ![p] = "ok"] /\ runningJob' = runningJob
        BY <1>4 DEF InitOk
      <3> SUFFICES ASSUME NEW i \in 1 .. Len(warm')
                   PROVE  /\ initFut'[warm'[i]] = "ok"
                          /\ runningJob'[warm'[i]] = NoJob
                          /\ \A k \in 1 .. Len(warm') : warm'[k] = warm'[i] => k = i
        BY DEF WarmIsReady
      <3>2. CASE i \in 1 .. Len(warm)
        <4>1. warm'[i] = warm[i] /\ warm[i] \in Proc /\ warm[i] # p
          BY <2>1, <2>3, <3>2 DEF Fresh, InWarm
        <4>2. initFut[warm[i]] = "ok" /\ runningJob[warm[i]] = NoJob
          BY <3>2 DEF PoolInv, WarmIsReady
        <4>3. initFut'[warm'[i]] = "ok" /\ runningJob'[warm'[i]] = NoJob
          BY <3>1, <4>1, <4>2 DEF PoolInv, TypeOK
        <4>4. ASSUME NEW k \in 1 .. Len(warm'), warm'[k] = warm'[i]
              PROVE  k = i
          <5>1. k # Len(warm) + 1
            BY <2>1, <4>1, <4>4
          <5>2. k \in 1 .. Len(warm)
            BY <2>1, <5>1
          <5> QED BY <2>1, <3>2, <4>1, <4>4, <5>2 DEF PoolInv, WarmIsReady
        <4> QED BY <4>3, <4>4
      <3>3. CASE i = Len(warm) + 1
        BY <2>1, <2>3, <3>1, <3>3 DEF Fresh, InWarm, PoolInv, TypeOK, WarmIsReady
      <3>4. Len(warm) \in Nat
        BY <2>1
      <3> QED BY <2>1, <3>2, <3>3, <3>4
    <2>5. LiveIsListed'
      BY <1>4 DEF InitOk, PoolInv, LiveIsListed
    <2>6. \A q \in Proc : InWarm(q)' => InWarm(q) \/ q = p
      BY <2>1 DEF InWarm
    <2>7. Stages'
      BY <1>4, <1>0, <2>6 DEF InitOk, Monitor, PoolInv, TypeOK, Stages, Fresh
    <2>8. Closing'
      BY <1>4 DEF InitOk, Monitor, PoolInv, TypeOK, Closing, Initializing
    <2> QED BY <2>2, <2>4, <2>5, <2>7, <2>8 DEF PoolInv
  <1>5. CASE InitFails(p)
    <2>1. p \in executors /\ Fresh(p)
      BY <1>5 DEF InitFails, PoolInv, Stages
    <2>2. TypeOK'
      <3>1. failures' \in 0 .. MaxFailures
        BY <1>5, ProcPoolAssumption DEF InitFails, PoolInv, TypeOK
      <3> QED BY <1>5, <2>1, <3>1 DEF InitFails, Monitor, PoolInv, TypeOK
    <2>3. WarmIsReady'
      BY <1>5, <2>1 DEF InitFails, PoolInv, TypeOK, WarmIsReady, Fresh, InWarm
    <2>4. LiveIsListed'
      BY <1>5 DEF InitFails, PoolInv, LiveIsListed
    <2>5. Stages'
      BY <1>5, <1>0 DEF InitFails, Monitor, PoolInv, TypeOK, Stages, Fresh, InWarm
    <2>6. Closing'
      BY <1>5 DEF InitFails, Monitor, PoolInv, TypeOK, Closing, Initializing
    <2> QED BY <2>2, <2>3, <2>4, <2>5, <2>6 DEF PoolInv
  <1> QED BY <1>1, <1>2, <1>3, <1>4, <1>5

\* The end of a process keeps the invariant.
LEMMA ProcEndKeeps ==
    ASSUME PoolInv, NEW p \in Proc,
           Crash(p) \/ FinishJob(p) \/ Stop(p) \/ MonitorEnds(p)
    PROVE  PoolInv'
  <1> USE DEF procVars, poolVars, closeVars
  <1>1. CASE Exit(p) /\ failures' \in 0 .. MaxFailures
    BY <1>1 DEF Exit, PoolInv, TypeOK, WarmIsReady, LiveIsListed, Stages, Fresh, InWarm,
                Closing, Initializing
  <1>2. CASE MonitorEnds(p)
    <2>1. p \notin alive /\ initFut[p] # "pending"
      BY <1>2 DEF MonitorEnds, Joined
    <2>2. TypeOK' /\ WarmIsReady' /\ LiveIsListed'
      BY <1>2, <2>1 DEF MonitorEnds, PoolInv, TypeOK, WarmIsReady, LiveIsListed
    <2>3. Stages'
      BY <1>2, <2>1 DEF MonitorEnds, PoolInv, TypeOK, Stages, Fresh, InWarm
    <2>4. Closing'
      BY <1>2 DEF MonitorEnds, PoolInv, Closing, Initializing
    <2> QED BY <2>2, <2>3, <2>4 DEF PoolInv
  <1>3. Crash(p) \/ FinishJob(p) \/ Stop(p) => Exit(p) /\ failures' \in 0 .. MaxFailures
    BY ProcPoolAssumption DEF Crash, FinishJob, Stop, PoolInv, TypeOK
  <1> QED BY <1>1, <1>2, <1>3

-----------------------------------------------------------------------------
\* Taking a process from the queue keeps the invariant.
LEMMA TakeKeeps ==
    ASSUME PoolInv, NEW j \in Job, TakeWarm(j),
           UNCHANGED <<spawned, spawn, target, closeVars, failures>>
    PROVE  PoolInv'
  <1> USE DEF procVars, poolVars, closeVars
  <1>1. /\ warm \in Seq(Proc) /\ warm # <<>> /\ warm' = Tail(warm)
        /\ warm' \in Seq(Proc) /\ Len(warm) \in Nat /\ Len(warm) > 0
        /\ Len(warm') = Len(warm) - 1
        /\ \A i \in 1 .. Len(warm') : i + 1 \in 1 .. Len(warm) /\ warm'[i] = warm[i + 1]
        /\ Head(warm) = warm[1] /\ 1 \in 1 .. Len(warm) /\ Head(warm) \in Proc
    BY DEF TakeWarm, PoolInv, TypeOK
  <1>2. /\ runningJob' = [runningJob EXCEPT ![Head(warm)] = j]
        /\ UNCHANGED <<alive, initFut, asked, executors, monitored>>
    BY DEF TakeWarm
  <1>3. job' = [job EXCEPT ![j] = "sent"] \/ job' = [job EXCEPT ![j] = "lost"]
    BY Zenon DEF TakeWarm
  <1>4. TypeOK'
    BY <1>1, <1>2, <1>3 DEF PoolInv, TypeOK
  <1>5. WarmIsReady'
    <2> SUFFICES ASSUME NEW i \in 1 .. Len(warm')
                 PROVE  /\ initFut'[warm'[i]] = "ok"
                        /\ runningJob'[warm'[i]] = NoJob
                        /\ \A k \in 1 .. Len(warm') : warm'[k] = warm'[i] => k = i
      BY DEF WarmIsReady
    <2>1. i + 1 \in 1 .. Len(warm) /\ warm'[i] = warm[i + 1] /\ i + 1 # 1
      BY <1>1
    <2>2. warm[i + 1] # Head(warm)
      BY <1>1, <2>1 DEF PoolInv, WarmIsReady
    <2>3. initFut[warm[i + 1]] = "ok" /\ runningJob[warm[i + 1]] = NoJob
      BY <2>1 DEF PoolInv, WarmIsReady
    <2>4. ASSUME NEW k \in 1 .. Len(warm'), warm'[k] = warm'[i]
          PROVE  k = i
      <3>1. k + 1 \in 1 .. Len(warm) /\ warm[k + 1] = warm[i + 1]
        BY <1>1, <2>1, <2>4
      <3>2. k + 1 = i + 1
        BY <2>1, <3>1 DEF PoolInv, WarmIsReady
      <3> QED BY <1>1, <3>2
    <2> QED BY <1>2, <2>1, <2>2, <2>3, <2>4 DEF PoolInv, TypeOK
  <1>6. LiveIsListed' /\ Closing'
    BY <1>2 DEF PoolInv, LiveIsListed, Closing, Initializing
  <1>7. Stages'
    <2>1. InWarm(Head(warm))
      BY <1>1 DEF InWarm
    <2>2. \A q \in Proc : InWarm(q)' => InWarm(q)
      BY <1>1 DEF InWarm
    <2>3. \A q \in Proc : Fresh(q) => Fresh(q)'
      BY <1>1, <1>2, <2>1, <2>2 DEF Fresh, PoolInv, TypeOK
    <2> QED BY <1>2, <2>3 DEF PoolInv, Stages
  <1> QED BY <1>4, <1>5, <1>6, <1>7 DEF PoolInv

\* The steps of launch_job keep the invariant.
LEMMA JobKeeps ==
    ASSUME PoolInv, NEW j \in Job, JobStep(j)
    PROVE  PoolInv'
  <1>1. CASE LaunchNow(j)
    BY <1>1, TakeKeeps DEF LaunchNow
  <1>2. CASE Resume(j)
    BY <1>2, TakeKeeps DEF Resume
  <1>3. CASE LaunchLater(j)
    <2>1. SpawnNew(1) \/ UNCHANGED <<spawned, spawn>>
      BY <1>3, Zenon DEF LaunchLater
    <2>2. /\ UNCHANGED <<procVars, poolVars, target, closeVars, failures>>
          /\ job' \in [Job -> {"none", "waiting", "sent", "lost"}]
      BY <1>3 DEF LaunchLater, PoolInv, TypeOK
    <2>3. CASE SpawnNew(1)
      BY <2>2, <2>3, SpawnKeeps
    <2>4. CASE UNCHANGED <<spawned, spawn>>
      BY <2>2, <2>4 DEF procVars, poolVars, closeVars, PoolInv, TypeOK, WarmIsReady,
         LiveIsListed, Stages, Fresh, InWarm, Closing, Initializing
    <2> QED BY <2>1, <2>3, <2>4
  <1> QED BY <1>1, <1>2, <1>3 DEF JobStep

\* The steps of aclose() keep the invariant.
LEMMA CloseKeeps ==
    ASSUME PoolInv, BeginClose \/ CloserStep
    PROVE  PoolInv'
  <1> USE DEF procVars, poolVars, closeVars
  <1>1. UNCHANGED <<spawned, spawn, alive, initFut, runningJob, poolVars, target, job, failures>>
    BY DEF BeginClose, CloserStep, CloseProcesses, ProcessesClosed, SpawnsEnded, MonitorsEnded
  <1>2. TypeOK'
    BY <1>1 DEF BeginClose, CloserStep, CloseProcesses, ProcessesClosed, SpawnsEnded,
                MonitorsEnded, PoolInv, TypeOK
  <1>3. WarmIsReady' /\ LiveIsListed' /\ Stages'
    BY <1>1 DEF PoolInv, WarmIsReady, LiveIsListed, Stages, Fresh, InWarm
  <1>4. Closing'
    BY <1>1 DEF BeginClose, CloserStep, CloseProcesses, ProcessesClosed, SpawnsEnded,
                MonitorsEnded, PoolInv, Closing, Initializing, SpawnTasks
  <1> QED BY <1>2, <1>3, <1>4 DEF PoolInv

\* Every step keeps the invariant.
LEMMA PoolStep == PoolInv /\ [Next]_vars => PoolInv'
  <1> SUFFICES ASSUME PoolInv, [Next]_vars PROVE PoolInv'
    OBVIOUS
  <1>1. CASE UNCHANGED vars
    BY <1>1 DEF vars, procVars, poolVars, closeVars, PoolInv, TypeOK, WarmIsReady,
       LiveIsListed, Stages, Fresh, InWarm, Closing, Initializing
  <1>2. CASE MainLoop
    <2>1. Wanted - Pending \in Nat
      BY <1>2, PendingIsNat DEF MainLoop, PoolInv
    <2>2. job' \in [Job -> {"none", "waiting", "sent", "lost"}]
      BY <1>2 DEF MainLoop, PoolInv, TypeOK
    <2> QED BY <1>2, <2>1, <2>2, SpawnKeeps DEF MainLoop
  <1>3. ASSUME NEW n \in 0 .. NumIdle, SetTarget(n) PROVE PoolInv'
    BY <1>3 DEF SetTarget, procVars, poolVars, closeVars, PoolInv, TypeOK, WarmIsReady,
       LiveIsListed, Stages, Fresh, InWarm, Closing, Initializing
  <1>4. ASSUME NEW p \in Proc, ProcStep(p) PROVE PoolInv'
    BY <1>4, SpawnTaskKeeps, ProcEndKeeps DEF ProcStep
  <1>5. ASSUME NEW j \in Job, JobStep(j) PROVE PoolInv'
    BY <1>5, JobKeeps
  <1>6. CASE BeginClose \/ CloserStep
    BY <1>6, CloseKeeps
  <1> QED BY <1>1, <1>2, <1>3, <1>4, <1>5, <1>6 DEF Next

-----------------------------------------------------------------------------
\* The invariant holds of every execution of the pool.
THEOREM PoolInvariant == Spec => []PoolInv
  BY InitPool, PoolStep, PTL DEF Spec

\* Every variable of the pool has its type, and _executors.remove(proc) finds what
\* it removes.
THEOREM PoolTypeCorrect == Spec => []TypeOK
  <1>1. PoolInv => TypeOK
    BY DEF PoolInv
  <1> QED BY <1>1, PoolInvariant, PTL

\* launch_job of a process that comes out of the queue never raises.
THEOREM QueueIsReady == Spec => []WarmIsReady
  <1>1. PoolInv => WarmIsReady
    BY DEF PoolInv
  <1> QED BY <1>1, PoolInvariant, PTL

\* Whoever looks for the processes that live finds them in _executors.
THEOREM LiveAreListed == Spec => []LiveIsListed
  <1>1. PoolInv => LiveIsListed
    BY DEF PoolInv
  <1> QED BY <1>1, PoolInvariant, PTL

\* When aclose() returns, no process of the pool is left.
THEOREM CloseIsComplete == Spec => []ClosedLeavesNothing
  <1>1. PoolInv => ClosedLeavesNothing
    <2> SUFFICES ASSUME PoolInv, closer = "closed"
                 PROVE  alive = {} /\ Initializing = {}
      BY DEF ClosedLeavesNothing
    <2>1. Initializing = {} /\ monitored = {}
      BY DEF PoolInv, Closing
    <2>2. executors = {}
      BY <2>1 DEF PoolInv, TypeOK, Stages, Initializing
    <2> QED BY <2>1, <2>2 DEF PoolInv, LiveIsListed
  <1> QED BY <1>1, PoolInvariant, PTL
-----------------------------------------------------------------------------
\* There are finitely many spawn tasks, before and after a step.
LEMMA SpawnTasksFinite ==
    /\ IsFiniteSet(SpawnTasks) /\ Cardinality(SpawnTasks) \in Nat
    /\ IsFiniteSet(SpawnTasks') /\ Cardinality(SpawnTasks') \in Nat
  <1>1. IsFiniteSet(Proc)
    BY ProcPoolAssumption, FS_Interval DEF Proc
  <1>2. SpawnTasks \subseteq Proc /\ SpawnTasks' \subseteq Proc
    BY DEF SpawnTasks
  <1> QED BY <1>1, <1>2, FS_Subset, FS_CardinalityType

\* Creating n spawn tasks adds n to those under way.
LEMMA SpawnNewCounts ==
    ASSUME PoolInv, NEW n \in Nat, SpawnNew(n)
    PROVE  Cardinality(SpawnTasks') = Cardinality(SpawnTasks) + n
  <1> DEFINE New == spawned + 1 .. spawned + n
  <1>1. spawned \in Nat /\ spawned + n <= MaxProc
    BY ProcPoolAssumption DEF PoolInv, TypeOK, SpawnNew
  <1>2. New \subseteq Proc /\ \A p \in New : spawn[p] = "none"
    BY <1>1, ProcPoolAssumption DEF PoolInv, Stages, Proc
  <1>3. \A p \in Proc : spawn'[p] = IF p \in New THEN "queued" ELSE spawn[p]
    BY DEF SpawnNew
  <1>4. SpawnTasks' = SpawnTasks \cup New /\ SpawnTasks \cap New = {}
    BY <1>2, <1>3 DEF SpawnTasks
  <1>5. IsFiniteSet(New) /\ Cardinality(New) = n
    <2>1. spawned + 1 \in Int /\ spawned + n \in Int
      BY <1>1
    <2>2. /\ IsFiniteSet(New)
          /\ Cardinality(New) = IF spawned + 1 > spawned + n THEN 0
                                ELSE (spawned + n) - (spawned + 1) + 1
      BY <2>1, FS_Interval
    <2> QED BY <1>1, <2>2
  <1>6. IsFiniteSet(SpawnTasks)
    BY SpawnTasksFinite
  <1>7. Cardinality(SpawnTasks \cap New) = 0
    BY <1>4, FS_EmptySet
  <1> HIDE DEF New
  <1>8. Cardinality(SpawnTasks \cup New)
          = Cardinality(SpawnTasks) + Cardinality(New) - Cardinality(SpawnTasks \cap New)
    BY <1>5, <1>6, FS_Union
  <1>9. Cardinality(SpawnTasks) \in Nat
    BY <1>6, FS_CardinalityType
  <1> QED BY <1>4, <1>5, <1>7, <1>8, <1>9

\* A spawn task that moves on adds nothing to what is warm or to come: its process
\* enters the queue at most as the task ends.
LEMMA SpawnTaskCounts ==
    ASSUME PoolInv, NEW p \in Proc, ProcStep(p)
    PROVE  Pending' <= Pending
  <1>1. IsFiniteSet(SpawnTasks) /\ Cardinality(SpawnTasks) \in Nat
    BY SpawnTasksFinite
  <1>2. spawn \in [Proc -> {"none", "queued", "starting", "initializing", "gone"}]
        /\ warm \in Seq(Proc) /\ Len(warm) \in Nat
    BY DEF PoolInv, TypeOK
  <1>3. CASE spawn' = spawn /\ warm' = warm
    <2>1. SpawnTasks' = SpawnTasks
      BY <1>3 DEF SpawnTasks
    <2> QED BY <1>1, <1>2, <1>3, <2>1 DEF Pending
  <1>4. CASE p \in SpawnTasks /\ warm' = warm /\ \E s : spawn' = [spawn EXCEPT ![p] = s]
    <2>1. SpawnTasks' \subseteq SpawnTasks
      BY <1>2, <1>4 DEF SpawnTasks
    <2>2. Cardinality(SpawnTasks') <= Cardinality(SpawnTasks) /\ Cardinality(SpawnTasks') \in Nat
      BY <1>1, <2>1, FS_Subset, FS_CardinalityType
    <2> QED BY <1>1, <1>2, <1>4, <2>2 DEF Pending
  <1>5. CASE InitOk(p)
    <2>1. p \in SpawnTasks /\ spawn' = [spawn EXCEPT ![p] = "gone"] /\ warm' = Append(warm, p)
      BY <1>5 DEF InitOk, Monitor, SpawnTasks
    <2>2. SpawnTasks' = SpawnTasks \ {p}
      BY <1>2, <2>1 DEF SpawnTasks
    <2>3. Cardinality(SpawnTasks') = Cardinality(SpawnTasks) - 1
      BY <1>1, <2>1, <2>2, FS_RemoveElement
    <2>4. Len(warm') = Len(warm) + 1
      BY <1>2, <2>1
    <2> QED BY <1>1, <1>2, <2>3, <2>4 DEF Pending
  <1>6. CASE BeginStart(p) \/ Started(p) \/ StartedDead(p) \/ InitFails(p)
    <2>1. p \in SpawnTasks /\ warm' = warm
      BY <1>6 DEF BeginStart, Started, StartedDead, InitFails, SpawnTasks, procVars, poolVars
    <2>2. \E s : spawn' = [spawn EXCEPT ![p] = s]
      BY <1>6, Zenon DEF BeginStart, Started, StartedDead, InitFails, Monitor
    <2> QED BY <1>4, <2>1, <2>2
  <1>7. CASE Crash(p) \/ FinishJob(p) \/ Stop(p) \/ MonitorEnds(p)
    BY <1>3, <1>7 DEF Crash, FinishJob, Stop, Exit, MonitorEnds, poolVars
  <1> QED BY <1>5, <1>6, <1>7 DEF ProcStep

\* Both who spawn look at what is warm or to come: the main loop makes it the
\* number to keep idle, launch_job the number of jobs that wait, its own included.
\* A job that takes a process, waiting or not, takes it from both.
LEMMA NeedStep ==
    PoolInv /\ NoOverspawn /\ IsFiniteSet(Waiting) /\ [Next]_vars
        => NoOverspawn' /\ IsFiniteSet(Waiting')
  <1> SUFFICES ASSUME PoolInv, NoOverspawn, IsFiniteSet(Waiting), [Next]_vars
               PROVE  NoOverspawn' /\ IsFiniteSet(Waiting')
    OBVIOUS
  <1>1. Pending \in Nat /\ Wanted \in Nat /\ NumIdle \in Nat /\ Cardinality(Waiting) \in Nat
    BY PendingIsNat, FS_CardinalityType, ProcPoolAssumption DEF PoolInv
  <1>2. Pending' \in Nat
    <2>1. TypeOK'
      BY PoolStep DEF PoolInv
    <2>2. Cardinality(SpawnTasks') \in Nat
      BY SpawnTasksFinite
    <2> QED BY <2>1, <2>2 DEF Pending, TypeOK
  <1>3. job \in [Job -> {"none", "waiting", "sent", "lost"}] /\ Len(warm) \in Nat
        /\ warm \in Seq(Proc)
    BY DEF PoolInv, TypeOK
  <1>4. ASSUME UNCHANGED job, Pending' <= Pending PROVE NoOverspawn' /\ IsFiniteSet(Waiting')
    <2>1. Waiting' = Waiting
      BY <1>4 DEF Waiting
    <2> QED BY <1>1, <1>2, <1>4, <2>1 DEF NoOverspawn
  <1>5. ASSUME UNCHANGED <<job, spawn, warm>> PROVE NoOverspawn' /\ IsFiniteSet(Waiting')
    <2>1. Pending' = Pending
      BY <1>5 DEF Pending, SpawnTasks
    <2> QED BY <1>1, <1>4, <1>5, <2>1
  <1>6. CASE MainLoop
    <2>1. Wanted - Pending \in Nat /\ SpawnNew(Wanted - Pending) /\ UNCHANGED <<job, warm>>
      BY <1>1, <1>6 DEF MainLoop, poolVars
    <2>2. Cardinality(SpawnTasks') = Cardinality(SpawnTasks) + (Wanted - Pending)
      BY <2>1, SpawnNewCounts
    <2>3. Cardinality(SpawnTasks) \in Nat
      BY SpawnTasksFinite
    <2>4. Pending' = Wanted
      BY <1>1, <1>3, <2>1, <2>2, <2>3 DEF Pending
    <2>5. Wanted <= NumIdle
      BY ProcPoolAssumption DEF Wanted, PoolInv, TypeOK
    <2>6. Waiting' = Waiting
      BY <2>1 DEF Waiting
    <2> QED BY <2>4, <2>5, <2>6 DEF NoOverspawn
  <1>7. ASSUME NEW n \in 0 .. NumIdle, SetTarget(n) PROVE NoOverspawn' /\ IsFiniteSet(Waiting')
    BY <1>5, <1>7 DEF SetTarget, poolVars
  <1>8. ASSUME NEW p \in Proc, ProcStep(p) PROVE NoOverspawn' /\ IsFiniteSet(Waiting')
    <2>1. UNCHANGED job
      BY <1>8 DEF ProcStep, BeginStart, Started, StartedDead, InitOk, InitFails, Monitor,
         Crash, FinishJob, Stop, Exit, MonitorEnds
    <2> QED BY <1>4, <1>8, <2>1, SpawnTaskCounts
  <1>9. ASSUME NEW j \in Job, LaunchNow(j) \/ Resume(j) PROVE NoOverspawn' /\ IsFiniteSet(Waiting')
    <2>1. /\ warm # <<>> /\ warm' = Tail(warm) /\ UNCHANGED spawn
          /\ job' = [job EXCEPT ![j] = IF Head(warm) \in alive THEN "sent" ELSE "lost"]
      BY <1>9 DEF LaunchNow, Resume, TakeWarm
    <2>2. Len(warm') = Len(warm) - 1
      BY <1>3, <2>1
    <2>3. SpawnTasks' = SpawnTasks
      BY <2>1 DEF SpawnTasks
    <2>4. Pending' = Pending - 1
      <3>1. Cardinality(SpawnTasks) \in Nat
        BY SpawnTasksFinite
      <3> QED BY <1>3, <2>2, <2>3, <3>1 DEF Pending
    <2>5. Waiting' = Waiting \ {j}
      BY <1>3, <2>1 DEF Waiting
    <2>6. IsFiniteSet(Waiting') /\ Cardinality(Waiting') \in {Cardinality(Waiting), Cardinality(Waiting) - 1}
      BY <2>5, FS_RemoveElement
    <2> QED BY <1>1, <2>4, <2>6 DEF NoOverspawn
  <1>10. ASSUME NEW j \in Job, LaunchLater(j) PROVE NoOverspawn' /\ IsFiniteSet(Waiting')
    <2>1. /\ job[j] = "none" /\ job' = [job EXCEPT ![j] = "waiting"]
          /\ warm = <<>> /\ warm' = warm
      BY <1>10 DEF LaunchLater, poolVars
    <2>2. Waiting' = Waiting \cup {j} /\ j \notin Waiting
      BY <1>3, <2>1 DEF Waiting
    <2>3. IsFiniteSet(Waiting') /\ Cardinality(Waiting') = Cardinality(Waiting) + 1
      BY <2>2, FS_AddElement
    <2>4. Len(warm) = 0 /\ Len(warm') = 0
      BY <2>1
    <2>5. CASE Cardinality(SpawnTasks) < Cardinality(Waiting) + 1
      <3>1. SpawnNew(1)
        BY <1>10, <2>5 DEF LaunchLater
      <3>2. Cardinality(SpawnTasks') = Cardinality(SpawnTasks) + 1
        BY <3>1, SpawnNewCounts
      <3>3. Cardinality(SpawnTasks) \in Nat
        BY SpawnTasksFinite
      <3>4. Pending' <= Cardinality(Waiting')
        BY <1>1, <2>3, <2>4, <2>5, <3>2, <3>3 DEF Pending
      <3> QED BY <2>3, <3>4 DEF NoOverspawn
    <2>6. CASE ~(Cardinality(SpawnTasks) < Cardinality(Waiting) + 1)
      <3>1. SpawnTasks' = SpawnTasks
        BY <1>10, <2>6 DEF LaunchLater, SpawnTasks
      <3>2. Pending' = Pending
        BY <2>4, <3>1 DEF Pending
      <3>3. Pending' <= NumIdle \/ Pending' <= Cardinality(Waiting')
        BY <1>1, <2>3, <3>2 DEF NoOverspawn
      <3> QED BY <2>3, <3>3 DEF NoOverspawn
    <2> QED BY <2>5, <2>6
  <1>11. CASE BeginClose \/ CloserStep
    BY <1>5, <1>11 DEF BeginClose, CloserStep, CloseProcesses, ProcessesClosed, SpawnsEnded,
       MonitorsEnded, poolVars
  <1>12. CASE UNCHANGED vars
    BY <1>5, <1>12 DEF vars, poolVars
  <1> QED BY <1>6, <1>7, <1>8, <1>9, <1>10, <1>11, <1>12 DEF Next, JobStep

\* The main loop and launch_job never spawn twice for the same need, also when an
\* unbounded number of jobs comes.
THEOREM NeedIsCountedOnce == Spec => []NoOverspawn
  <1>1. Init => NoOverspawn /\ IsFiniteSet(Waiting)
    <2> SUFFICES ASSUME Init PROVE NoOverspawn /\ IsFiniteSet(Waiting)
      OBVIOUS
    <2>1. Waiting = {} /\ SpawnTasks = {} /\ Len(warm) = 0
      BY DEF Init, Waiting, SpawnTasks
    <2>2. Pending = 0
      BY <2>1, FS_EmptySet DEF Pending
    <2> QED BY <2>1, <2>2, FS_EmptySet, ProcPoolAssumption DEF NoOverspawn
  <1>2. PoolInv /\ NoOverspawn /\ IsFiniteSet(Waiting) /\ [Next]_vars
            => NoOverspawn' /\ IsFiniteSet(Waiting)'
    BY NeedStep
  <1> QED BY <1>1, <1>2, PoolInvariant, PTL DEF Spec

-----------------------------------------------------------------------------
(* The participant that RoomIO links *)

RoomTypes ==
    /\ room \subseteq Room!Participants
    /\ {identity, available, got, listens, chosen} \subseteq Room!Participants \cup {None}
    /\ link \in {"room", "participant", "output", "done", "cancelled"}
    /\ choices \in 0 .. MaxChoices
RoomFlags == joined \in BOOLEAN /\ orphan \in BOOLEAN

\* The result of the future is in the room, which is empty until it is connected.  A
\* participant whom _init_task has found is still the result of the future, as long as none
\* was set and the participant stays; and no choice of the application stands before
\* _init_task has linked one.
RoomInv ==
    /\ RoomTypes /\ RoomFlags
    /\ ~joined => room = {}
    /\ available # None => available \in room
    /\ ~loose /\ identity # None /\ available # None => available = identity
    /\ link = "participant" /\ got # None /\ ~loose /\ identity = None => available = got
    /\ chosen # None => /\ identity = chosen /\ listens = chosen
                        /\ link \in {"output", "done", "cancelled"}
    /\ link = "cancelled" => ~open

\* Nobody is linked before the room is connected.
LEMMA RoomInit == Room!Init => RoomInv
<1> SUFFICES ASSUME Room!Init PROVE RoomInv
  OBVIOUS
<1>1. RoomFlags
  BY Zenon DEF Room!Init, RoomFlags
<1>2. RoomTypes
  BY PartsAssumption DEF Room!Init, RoomTypes, Room!Participants
<1>3. QED
  BY <1>1, <1>2 DEF Room!Init, RoomInv

\* Each participant that comes, leaves or is chosen keeps the link.
LEMMA RoomStep == RoomInv /\ [Room!Next]_roomVars => RoomInv'
<1> SUFFICES ASSUME RoomInv, [Room!Next]_roomVars PROVE RoomInv'
  OBVIOUS
<1>0. RoomFlags'
  BY Zenon DEF RoomInv, RoomFlags, Room!Next, Room!RoomConnected, Room!ParticipantConnected,
     Room!ParticipantDisconnected, Room!Choose, Room!Unset, Room!InitLooks, Room!InitLinks,
     Room!OutputStarted, Room!Close, Room!SetParticipant, Room!Switch, Room!Forget, roomVars,
     Room!roomVars, Room!futureVars, Room!choiceVars
<1> USE DEF RoomInv, RoomTypes, Room!roomVars, Room!futureVars, Room!choiceVars
<1>1. ASSUME NEW there \in SUBSET Room!Participants, Room!RoomConnected(there) PROVE RoomInv'
  BY <1>0, <1>1 DEF Room!RoomConnected
<1>2. ASSUME NEW p \in Room!Participants, Room!ParticipantConnected(p) PROVE RoomInv'
  <2>1. CASE open /\ Room!Accepts(p)
    <3>1. /\ available = None /\ identity \in {None, p} /\ available' = p
          /\ got' = IF link = "participant" /\ got = None /\ ~orphan THEN p ELSE got
          /\ room' = room \cup {p} /\ p # None /\ p \in room'
          /\ UNCHANGED <<joined, identity, link, listens, open, choices, chosen, loose>>
          /\ joined
      BY <1>2, <2>1, PartsAssumption
      DEF Room!ParticipantConnected, Room!Accepts, Room!Resolve, Room!Participants
    <3>2. QED
      BY <1>0, <3>1
  <2>2. CASE ~(open /\ Room!Accepts(p))
    BY <1>0, <1>2, <2>2 DEF Room!ParticipantConnected
  <2>3. QED
    BY <2>1, <2>2
<1>3. ASSUME NEW p \in Room!Participants, Room!ParticipantDisconnected(p) PROVE RoomInv'
  BY <1>0, <1>3, PartsAssumption DEF Room!ParticipantDisconnected, Room!Unlink
<1>4. ASSUME NEW p \in Room!Participants, Room!Choose(p) PROVE RoomInv'
  <2>1. /\ choices' \in 0 .. MaxChoices /\ identity' = p /\ listens' = p /\ p # None
        /\ UNCHANGED <<room, joined, got, link, open>> /\ link # "cancelled"
        /\ chosen' = IF link \in {"output", "done"} THEN p ELSE chosen
        /\ identity = None => loose'
        /\ ~loose' => ~loose
    <3>1. /\ choices' \in 0 .. MaxChoices /\ identity' = p /\ listens' = p /\ p # None
          /\ UNCHANGED <<room, joined, got, link, open>> /\ link # "cancelled"
          /\ chosen' = IF link \in {"output", "done"} THEN p ELSE chosen
      BY <1>4, PartsAssumption DEF Room!Choose, Room!SetParticipant, Room!Participants
    <3>2. (identity = None => loose') /\ (~loose' => ~loose)
      BY <1>4, Zenon DEF Room!Choose
    <3>3. QED
      BY <3>1, <3>2
  <2>2. CASE identity # None /\ identity # p
    <3>1. available' = IF p \in room THEN p ELSE None
      BY <1>4, <2>2 DEF Room!Choose, Room!SetParticipant, Room!Switch
    <3>2. QED
      BY <1>0, <2>1, <3>1
  <2>3. CASE ~(identity # None /\ identity # p)
    <3>1. available' = available
      BY <1>4, <2>3 DEF Room!Choose, Room!SetParticipant, Room!Switch
    <3>2. QED
      BY <1>0, <2>1, <2>3, <3>1
  <2>4. QED
    BY <2>2, <2>3
<1>5. CASE Room!Unset
  BY <1>0, <1>5, PartsAssumption DEF Room!Unset, Room!Forget
<1>6. CASE Room!InitLooks
  BY <1>0, <1>6, PartsAssumption DEF Room!InitLooks, Room!Accepts
<1>7. CASE Room!InitLinks
  BY <1>0, <1>7, PartsAssumption DEF Room!InitLinks, Room!SetParticipant, Room!Switch, Room!Forget
<1>8. CASE Room!OutputStarted
  BY <1>0, <1>8 DEF Room!OutputStarted
<1>9. CASE Room!Close
  BY <1>0, <1>9 DEF Room!Close
<1>10. CASE UNCHANGED roomVars
  BY <1>0, <1>10 DEF roomVars
<1>11. QED
  BY <1>1, <1>2, <1>3, <1>4, <1>5, <1>6, <1>7, <1>8, <1>9, <1>10 DEF Room!Next

\* What the invariant says of the link.
LEMMA RoomImplies == RoomInv => Room!TypeOK /\ Room!LinkedIsSet /\ Room!ChoiceStands
BY DEF RoomInv, RoomTypes, RoomFlags, Room!TypeOK, Room!LinkedIsSet, Room!ChoiceStands

-----------------------------------------------------------------------------
(* The thread that runs a job *)

Request == {"initialize", "start", "trace", "shutdown"}
Reply   == {"error", "initialized", "trace", "exiting"}

\* The thread ends when its job is over, when it is asked to shut down, or when it could
\* not be initialized: then it has sent the error, or nothing at all.
ThreadInv ==
    /\ Thread!TypeOK
    /\ toThread \in Seq(Request) /\ toWorker \in Seq(Reply)
    /\ launched \in BOOLEAN /\ raised \in BOOLEAN
    /\ \A i \in 1 .. Len(toThread) : toThread[i] = "shutdown" => threadClosing # "no"
    /\ thread = "starting" => toWorker = <<>> /\ threadInit # "done" /\ threadJob = "none"
    /\ thread = "dead" =>
          /\ threadJob # "runs"
          /\ \/ threadJob = "over" \/ threadClosing # "no" \/ raised
             \/ toWorker = <<>> /\ threadInit # "done"
    /\ launched => threadInit = "done"
    /\ main = "done" => thread = "dead"
    /\ threadClosing = "closed" => main = "done"

\* Neither side has sent anything at first.
LEMMA ThreadStart == Thread!Init => ThreadInv
<1> SUFFICES ASSUME Thread!Init PROVE ThreadInv
  OBVIOUS
<1>1. launched \in BOOLEAN /\ raised \in BOOLEAN
  BY Zenon DEF Thread!Init
<1>2. Thread!TypeOK
  BY PartsAssumption DEF Thread!Init, Thread!TypeOK
<1>3. QED
  BY <1>1, <1>2 DEF Thread!Init, ThreadInv

\* A request is read in its turn: what is not read yet is what was sent, and the first of
\* it is what is read.
LEMMA ThreadReads ==
    ASSUME toThread \in Seq(Request), toThread # <<>>,
           \A i \in 1 .. Len(toThread) : toThread[i] = "shutdown" => threadClosing # "no"
    PROVE  /\ Tail(toThread) \in Seq(Request) /\ Head(toThread) \in Request
           /\ \A i \in 1 .. Len(Tail(toThread)) :
                  Tail(toThread)[i] = "shutdown" => threadClosing # "no"
           /\ Head(toThread) = "shutdown" => threadClosing # "no"
<1>1. Tail(toThread) \in Seq(Request) /\ Head(toThread) = toThread[1] /\ 1 \in 1 .. Len(toThread)
  OBVIOUS
<1>2. \A i \in 1 .. Len(Tail(toThread)) :
         Tail(toThread)[i] = toThread[i + 1] /\ i + 1 \in 1 .. Len(toThread)
  OBVIOUS
<1>3. QED
  BY <1>1, <1>2

\* A request that is sent comes last.
LEMMA ThreadSends ==
    ASSUME toThread \in Seq(Request), NEW msg \in Request,
           \A i \in 1 .. Len(toThread) : toThread[i] = "shutdown" => threadClosing # "no",
           threadClosing # "no" => threadClosing' # "no",
           msg = "shutdown" => threadClosing' # "no"
    PROVE  /\ Append(toThread, msg) \in Seq(Request)
           /\ \A i \in 1 .. Len(Append(toThread, msg)) :
                  Append(toThread, msg)[i] = "shutdown" => threadClosing' # "no"
OBVIOUS

\* So does a reply.
LEMMA ThreadReplies ==
    ASSUME toWorker \in Seq(Reply), NEW msg \in Reply
    PROVE  Append(toWorker, msg) \in Seq(Reply)
OBVIOUS

\* Whatever the executor and the thread do, in whichever order, the thread ends for one of
\* the reasons that the invariant names.
LEMMA ThreadStep == ThreadInv /\ [Thread!Next]_threadVars => ThreadInv'
<1> SUFFICES ASSUME ThreadInv, [Thread!Next]_threadVars PROVE ThreadInv'
  OBVIOUS
<1>0. launched' \in BOOLEAN /\ raised' \in BOOLEAN
  BY Zenon DEF ThreadInv, Thread!Next, Thread!Ask, Thread!InitAnswered, Thread!InitTimeout,
     Thread!Serve, Thread!Monitor, Thread!LaunchJob, Thread!AskTrace, Thread!MainEnds,
     Thread!Join, Thread!JoinEnds, Thread!AskClose, Thread!CloseTimeout, Thread!CloseLocks,
     Thread!Closed, Thread!Initialize, Thread!StartJob, Thread!Shutdown, Thread!Trace,
     Thread!TraceEnds, Thread!JobAsks, Thread!JobEnds, Thread!ThreadEnds, Thread!Receives,
     Thread!executorVars, Thread!threadVars, threadVars
<1> USE PartsAssumption DEF ThreadInv, Thread!TypeOK, Thread!executorVars, Thread!threadVars
<1>1. CASE Thread!Ask \/ Thread!LaunchJob \/ Thread!AskTrace \/ Thread!AskClose
  <2>1. PICK msg \in Request : /\ toThread' = Append(toThread, msg)
                               /\ msg = "shutdown" => threadClosing' # "no"
    BY <1>1 DEF Thread!Ask, Thread!LaunchJob, Thread!AskTrace, Thread!AskClose, Request
  <2>2. threadClosing # "no" => threadClosing' # "no"
    BY <1>1 DEF Thread!Ask, Thread!LaunchJob, Thread!AskTrace, Thread!AskClose
  <2>3. /\ toThread' \in Seq(Request)
        /\ \A i \in 1 .. Len(toThread') : toThread'[i] = "shutdown" => threadClosing' # "no"
    BY <2>1, <2>2, ThreadSends
  <2> HIDE PartsAssumption
  <2>4. QED
    BY <1>0, <1>1, <2>2, <2>3, PartsAssumption
    DEF Thread!Ask, Thread!LaunchJob, Thread!AskTrace, Thread!AskClose
<1>2. CASE Thread!InitAnswered
  BY <1>0, <1>2 DEF Thread!InitAnswered, Thread!Answer
<1>3. CASE Thread!InitTimeout \/ Thread!Serve
  BY <1>0, <1>3 DEF Thread!InitTimeout, Thread!Serve
<1>4. CASE Thread!Monitor
  BY <1>0, <1>4 DEF Thread!Monitor
<1>5. CASE Thread!MainEnds \/ Thread!Join \/ Thread!JoinEnds
  BY <1>0, <1>5 DEF Thread!MainEnds, Thread!Join, Thread!JoinEnds
<1>6. CASE Thread!CloseTimeout \/ Thread!CloseLocks \/ Thread!Closed
  BY <1>0, <1>6 DEF Thread!CloseTimeout, Thread!CloseLocks, Thread!Closed, Thread!AfterTimeout
<1>7. CASE Thread!Initialize
  <2>1. /\ toThread' = Tail(toThread) /\ toThread # <<>> /\ thread = "starting"
        /\ UNCHANGED <<threadInit, main, launched, status, joinLock, threadJoined,
                       threadClosing, traces, reader, threadJob>>
    BY <1>7 DEF Thread!Initialize
  <2>2. \/ thread' = "dead" /\ toWorker' = toWorker
        \/ thread' = "dead" /\ raised' /\ toWorker' = Append(toWorker, "error")
        \/ thread' = "running" /\ toWorker' = Append(toWorker, "initialized")
    BY <1>7 DEF Thread!Initialize, Thread!Quit
  <2>3. toWorker' \in Seq(Reply)
    BY <2>2 DEF Reply
  <2>4. QED
    BY <1>0, <2>1, <2>2, <2>3, ThreadReads
<1>8. CASE Thread!StartJob \/ Thread!Trace
  BY <1>0, <1>8, ThreadReads DEF Thread!StartJob, Thread!Trace, Thread!Receives
<1>9. CASE Thread!Shutdown
  BY <1>0, <1>9, ThreadReads DEF Thread!Shutdown, Thread!Receives, Thread!Quit
<1>10. CASE Thread!TraceEnds \/ Thread!JobAsks \/ Thread!JobEnds
  <2>1. toWorker' \in Seq(Reply)
    <3>1. \/ toWorker' = toWorker \/ toWorker' = Append(toWorker, "trace")
          \/ toWorker' = Append(toWorker, "exiting")
      BY <1>10 DEF Thread!TraceEnds, Thread!JobAsks, Thread!JobEnds
    <3>2. "trace" \in Reply /\ "exiting" \in Reply
      BY DEF Reply
    <3>3. QED
      BY <3>1, <3>2, ThreadReplies
  <2>2. QED
    BY <1>0, <1>10, <2>1 DEF Thread!TraceEnds, Thread!JobAsks, Thread!JobEnds
<1>11. CASE Thread!ThreadEnds
  BY <1>0, <1>11 DEF Thread!ThreadEnds, Thread!MayExit, Thread!Quit
<1>12. CASE UNCHANGED threadVars
  BY <1>0, <1>12 DEF threadVars
<1>13. QED
  BY <1>1, <1>2, <1>3, <1>4, <1>5, <1>6, <1>7, <1>8, <1>9, <1>10, <1>11, <1>12 DEF Thread!Next

\* What the invariant says of a thread that was closed, and of the job that it ran.
LEMMA ThreadImplies ==
    ThreadInv => Thread!TypeOK /\ Thread!SuccessHasRun /\ Thread!ClosedIsOver
BY DEF ThreadInv, Thread!SuccessHasRun, Thread!ClosedIsOver

-----------------------------------------------------------------------------
(* The sounds in the background *)

Sound == [kind : {"ambient", "thinking", "once"}, at : {"plays", "over"},
          stop : BOOLEAN, done : BOOLEAN]

\* Only the sound that _thinking_handle names may be on, while the agent thinks.
SoundInv ==
    /\ sounds \in Seq(Sound) /\ thinking \in 0 .. Len(sounds)
    /\ opening # "done" => sounds = <<>> /\ ~onState /\ closing = "no"
    /\ Len(sounds) <= MaxSounds + 1
    /\ \A i \in 1 .. Len(sounds) :
          sounds[i].kind = "thinking" /\ ~sounds[i].done =>
              i = thinking /\ (onState => thinks)

\* The lock is held by whoever publishes a track or closes the player, and only who finds
\* no track publishes one.
TrackInv ==
    /\ Player!TypeOK
    /\ opening = "publishing" <=> lock = "start"
    /\ closing \in {"sounds", "mixer", "track"} <=> lock = "close"
    /\ republish = "publishing" <=> lock = "republish"
    /\ opening # "done" => ~onReconnect /\ republish = "none" /\ tracks = 0
    /\ tracks <= 1 /\ (tracks = 1 => publication)
    /\ republish = "publishing" => ~publication
    /\ closing # "no" /\ ~raced =>
          /\ \A i \in 1 .. Len(sounds) : sounds[i].at = "over"
          /\ closing # "sounds" => republish \in {"none", "over"}
          /\ closing = "closed" => tracks = 0

PlayerFlags ==
    /\ thinks \in BOOLEAN /\ publication \in BOOLEAN /\ raced \in BOOLEAN
    /\ onState \in BOOLEAN /\ onReconnect \in BOOLEAN

PlayerInv == PlayerFlags /\ SoundInv /\ TrackInv

\* There is no sound at first, nor a track.
LEMMA PlayerStart == Player!Init => PlayerInv
<1> SUFFICES ASSUME Player!Init PROVE PlayerInv
  OBVIOUS
<1>1. PlayerFlags
  BY Zenon DEF Player!Init, PlayerFlags
<1>2. /\ sounds = <<>> /\ thinking = 0 /\ ~onState /\ ~onReconnect /\ closing = "no"
      /\ opening = "no" /\ lock = "none" /\ republish = "none" /\ tracks = 0 /\ reconnects = 0
  BY DEF Player!Init
<1>3. SoundInv
  BY <1>2, PartsAssumption DEF SoundInv
<1>4. TrackInv
  BY <1>2, PartsAssumption DEF TrackInv, Player!TypeOK
<1>5. QED
  BY <1>1, <1>3, <1>4 DEF PlayerInv

\* A step sets its flags to truth values.
LEMMA FlagsStep == PlayerFlags /\ [Player!Next]_playerVars => PlayerFlags'
BY Zenon DEF PlayerFlags, Player!Next, Player!SoundEnds, Player!PlayTaskEnds,
   Player!StateChanges, Player!PlayByHand, Player!Start, Player!Started, Player!Reconnected,
   Player!Republish, Player!Republished, Player!Close, Player!CancelRepublish,
   Player!CloseMixer, Player!CloseEnds, Player!soundVars, Player!trackVars, Player!handlers,
   playerVars

\* A sound that is played comes last, and what was played before is left as it was.
LEMMA PlayAppends ==
    ASSUME SoundInv, NEW kind \in {"ambient", "thinking", "once"}
    PROVE  /\ Player!Play(kind) \in Seq(Sound) /\ Len(Player!Play(kind)) = Len(sounds) + 1
           /\ \A i \in 1 .. Len(sounds) : Player!Play(kind)[i] = sounds[i]
           /\ Player!Play(kind)[Len(sounds) + 1] =
                 [kind |-> kind, at |-> "plays", stop |-> FALSE, done |-> FALSE]
<1> DEFINE new == [kind |-> kind, at |-> "plays", stop |-> FALSE, done |-> FALSE]
<1>1. new \in Sound
  BY DEF Sound
<1>2. Player!Play(kind) = Append(sounds, new)
  BY DEF Player!Play
<1> HIDE DEF new
<1>3. QED
  BY <1>1, <1>2 DEF SoundInv, new

\* A sound that ends, is stopped or cancelled stays one of as many, and is done.
LEMMA SoundsKeep ==
    ASSUME SoundInv, sounds' \in Seq(Sound), Len(sounds') = Len(sounds),
           UNCHANGED <<thinking, thinks, onState, opening, closing>>,
           \A i \in 1 .. Len(sounds) :
              sounds'[i].kind = sounds[i].kind /\ (sounds[i].done => sounds'[i].done)
    PROVE  SoundInv'
<1>1. opening # "done" => sounds' = <<>>
  BY DEF SoundInv
<1>2. QED
  BY <1>1 DEF SoundInv

\* When all the play tasks are cancelled, each of the sounds is over.
LEMMA CancelledSounds ==
    ASSUME SoundInv
    PROVE  /\ Player!CancelAll \in Seq(Sound) /\ Len(Player!CancelAll) = Len(sounds)
           /\ \A i \in 1 .. Len(sounds) :
                 /\ Player!CancelAll[i].kind = sounds[i].kind
                 /\ sounds[i].done => Player!CancelAll[i].done
                 /\ Player!CancelAll[i].at = "over"
<1> DEFINE after(i) == IF Player!Live(i) THEN [sounds[i] EXCEPT !.at = "over", !.done = TRUE]
                       ELSE sounds[i]
<1>1. Len(sounds) \in Nat /\ \A i \in 1 .. Len(sounds) : sounds[i] \in Sound
  BY DEF SoundInv
<1>2. \A i \in 1 .. Len(sounds) :
         /\ after(i) \in Sound /\ after(i).kind = sounds[i].kind
         /\ (sounds[i].done => after(i).done) /\ after(i).at = "over"
  BY <1>1 DEF Sound, Player!Live
<1>3. Player!CancelAll = [i \in 1 .. Len(sounds) |-> after(i)]
  BY DEF Player!CancelAll
<1> HIDE DEF after
<1>4. Player!CancelAll \in Seq(Sound) /\ Len(Player!CancelAll) = Len(sounds)
  BY <1>1, <1>2, <1>3
<1>5. QED
  BY <1>2, <1>3, <1>4

\* A new sound is the only one for thinking that is on.
LEMMA SoundPlays ==
    ASSUME SoundInv, NEW kind \in {"ambient", "thinking", "once"},
           sounds' = Player!Play(kind), Len(sounds) <= MaxSounds, opening' = "done",
           IF kind = "thinking"
           THEN /\ thinking' = Len(sounds) + 1 /\ thinks'
                /\ \A i \in 1 .. Len(sounds) : sounds[i].kind = "thinking" => sounds[i].done
           ELSE /\ thinking' = thinking
                /\ sounds = <<>> \/ UNCHANGED <<thinks, onState>>
    PROVE  SoundInv'
<1>1. /\ sounds' \in Seq(Sound) /\ Len(sounds') = Len(sounds) + 1 /\ Len(sounds) \in Nat
      /\ \A i \in 1 .. Len(sounds) : sounds'[i] = sounds[i]
      /\ sounds'[Len(sounds) + 1].kind = kind
  <2>1. Len(sounds) \in Nat
    BY DEF SoundInv
  <2>2. /\ sounds' \in Seq(Sound) /\ Len(sounds') = Len(sounds) + 1
        /\ \A i \in 1 .. Len(sounds) : sounds'[i] = sounds[i]
        /\ sounds'[Len(sounds) + 1] =
              [kind |-> kind, at |-> "plays", stop |-> FALSE, done |-> FALSE]
    <3>1. kind \in {"ambient", "thinking", "once"}
      OBVIOUS
    <3>2. QED
      BY <3>1, PlayAppends
  <2>3. QED
    BY <2>1, <2>2
<1>2. \A i \in 1 .. Len(sounds') : i \in 1 .. Len(sounds) \/ i = Len(sounds) + 1
  BY <1>1
<1>3. thinking' \in 0 .. Len(sounds') /\ Len(sounds') <= MaxSounds + 1
  BY <1>1, PartsAssumption DEF SoundInv
<1>4. ASSUME NEW i \in 1 .. Len(sounds'), sounds'[i].kind = "thinking", ~sounds'[i].done
      PROVE  i = thinking' /\ (onState' => thinks')
  <2>1. CASE i = Len(sounds) + 1
    BY <1>1, <1>4, <2>1
  <2>2. CASE i \in 1 .. Len(sounds)
    <3>1. sounds[i].kind = "thinking" /\ ~sounds[i].done /\ kind # "thinking"
      BY <1>1, <1>4, <2>2
    <3>2. sounds # <<>>
      BY <2>2
    <3>3. QED
      BY <2>2, <3>1, <3>2 DEF SoundInv
  <2>3. QED
    BY <1>2, <2>1, <2>2
<1>5. QED
  BY <1>1, <1>3, <1>4 DEF SoundInv

\* Whatever becomes of the agent's state and of the sounds, no other sound is on.
LEMMA SoundStep == PlayerInv /\ [Player!Next]_playerVars => SoundInv'
<1> SUFFICES ASSUME PlayerInv, [Player!Next]_playerVars PROVE SoundInv'
  OBVIOUS
<1>0. /\ SoundInv /\ sounds \in Seq(Sound) /\ Len(sounds) \in Nat
      /\ \A i \in 1 .. Len(sounds) : sounds[i] \in Sound
  BY DEF PlayerInv, SoundInv
<1>a. ASSUME UNCHANGED <<sounds, thinking, thinks, onState, opening, closing>> PROVE SoundInv'
  BY <1>0, <1>a DEF SoundInv
<1>b. ASSUME NEW i \in 1 .. Len(sounds), NEW r \in Sound, sounds' = [sounds EXCEPT ![i] = r],
             r.kind = sounds[i].kind, sounds[i].done => r.done
      PROVE  /\ sounds' \in Seq(Sound) /\ Len(sounds') = Len(sounds)
             /\ \A j \in 1 .. Len(sounds) :
                   sounds'[j].kind = sounds[j].kind /\ (sounds[j].done => sounds'[j].done)
             /\ sounds'[i] = r
  BY <1>0, <1>b
<1>1. ASSUME NEW i \in 1 .. Len(sounds), Player!SoundEnds(i) \/ Player!PlayTaskEnds(i)
      PROVE  SoundInv'
  <2>1. PICK r \in Sound : /\ sounds' = [sounds EXCEPT ![i] = r]
                           /\ r.kind = sounds[i].kind /\ (sounds[i].done => r.done)
    <3>1. CASE Player!SoundEnds(i)
      <4>1. sounds' = [sounds EXCEPT ![i] = [sounds[i] EXCEPT !.done = TRUE]]
        BY <3>1 DEF Player!SoundEnds
      <4>2. QED
        BY <1>0, <4>1 DEF Sound
    <3>2. CASE Player!PlayTaskEnds(i)
      <4>1. sounds' = [sounds EXCEPT ![i] = [sounds[i] EXCEPT !.at = "over"]]
        BY <3>2 DEF Player!PlayTaskEnds
      <4>2. [sounds[i] EXCEPT !.at = "over"] \in Sound
        BY <1>0 DEF Sound
      <4>3. /\ [sounds[i] EXCEPT !.at = "over"].kind = sounds[i].kind
            /\ [sounds[i] EXCEPT !.at = "over"].done = sounds[i].done
        BY <1>0 DEF Sound
      <4>4. QED
        BY <4>1, <4>2, <4>3
    <3>3. QED
      BY <1>1, <3>1, <3>2
  <2>2. UNCHANGED <<thinking, thinks, onState, opening, closing>>
    BY <1>1 DEF Player!SoundEnds, Player!PlayTaskEnds, Player!handlers
  <2>3. QED
    BY <1>0, <1>b, <2>1, <2>2, SoundsKeep
<1>2. CASE Player!StateChanges
  <2>0. thinks' = ~thinks /\ UNCHANGED <<onState, opening, closing>>
    BY <1>2 DEF Player!StateChanges, Player!handlers
  <2>1. CASE ~onState
    BY <1>0, <1>2, <2>0, <2>1 DEF Player!StateChanges, Player!soundVars, SoundInv
  <2>2. CASE onState /\ thinks
    <3>1. sounds' = Player!Stopped /\ thinking' = thinking
      BY <1>2, <2>2 DEF Player!StateChanges
    <3>2. CASE thinking # 0 /\ ~sounds[thinking].done
      <4> DEFINE r == [sounds[thinking] EXCEPT !.stop = TRUE, !.done = TRUE]
      <4>1. thinking \in 1 .. Len(sounds) /\ sounds[thinking] \in Sound
        BY <1>0, <3>2 DEF SoundInv
      <4>2. sounds' = [sounds EXCEPT ![thinking] = r]
        BY <1>0, <3>1, <3>2, <4>1 DEF Player!Stopped
      <4>3. r \in Sound /\ r.kind = sounds[thinking].kind /\ r.done
        BY <4>1 DEF Sound
      <4> HIDE DEF r
      <4>4. /\ sounds' \in Seq(Sound) /\ Len(sounds') = Len(sounds)
            /\ \A j \in 1 .. Len(sounds) :
                  sounds'[j].kind = sounds[j].kind /\ (sounds[j].done => sounds'[j].done)
            /\ sounds'[thinking].done
        BY <1>b, <4>1, <4>2, <4>3
      <4>5. \A j \in 1 .. Len(sounds') : sounds'[j].kind = "thinking" => sounds'[j].done
        BY <1>0, <4>4 DEF SoundInv
      <4>6. QED
        BY <1>0, <2>0, <2>2, <3>1, <4>4, <4>5 DEF SoundInv
    <3>3. CASE ~(thinking # 0 /\ ~sounds[thinking].done)
      <4>1. sounds' = sounds
        BY <3>1, <3>3 DEF Player!Stopped
      <4>2. \A j \in 1 .. Len(sounds) : sounds[j].kind = "thinking" => sounds[j].done
        BY <1>0, <3>3 DEF SoundInv
      <4>3. QED
        BY <1>0, <2>0, <2>2, <3>1, <4>1, <4>2 DEF SoundInv
    <3>4. QED
      BY <3>2, <3>3
  <2>3. CASE onState /\ ~thinks /\ Player!MayThink
    <3>1. /\ sounds' = Player!Play("thinking") /\ thinking' = Len(sounds) + 1
          /\ Len(sounds) < MaxSounds
      BY <1>2, <2>3 DEF Player!StateChanges
    <3>2. \A i \in 1 .. Len(sounds) : sounds[i].kind = "thinking" => sounds[i].done
      BY <1>0, <2>3 DEF SoundInv, Player!MayThink
    <3>3. opening = "done"
      BY <1>0, <2>3 DEF SoundInv
    <3>4. thinks' /\ opening' = "done" /\ Len(sounds) <= MaxSounds
      <4>1. thinks'
        BY <2>0, <2>3, Zenon
      <4>2. QED
        BY <1>0, <2>0, <3>1, <3>3, <4>1, PartsAssumption
    <3>5. /\ sounds' = Player!Play("thinking") /\ thinking' = Len(sounds) + 1 /\ thinks'
          /\ opening' = "done" /\ Len(sounds) <= MaxSounds /\ SoundInv
          /\ \A i \in 1 .. Len(sounds) : sounds[i].kind = "thinking" => sounds[i].done
      BY <1>0, <3>1, <3>2, <3>4
    <3>6. "thinking" \in {"ambient", "thinking", "once"}
      OBVIOUS
    <3>7. QED
      BY ONLY <3>5, <3>6, SoundPlays
  <2>4. CASE onState /\ ~thinks /\ ~Player!MayThink
    <3>1. UNCHANGED <<sounds, thinking>>
      BY <1>2, <2>4 DEF Player!StateChanges, Player!soundVars
    <3>2. QED
      BY <1>0, <2>0, <2>4, <3>1 DEF SoundInv
  <2>5. QED
    BY <2>1, <2>2, <2>3, <2>4
<1>3. CASE Player!PlayByHand
  <2>1. /\ sounds' = Player!Play("once") /\ Len(sounds) < MaxSounds /\ opening' = "done"
        /\ UNCHANGED <<thinking, thinks, onState>>
    BY <1>3 DEF Player!PlayByHand, Player!handlers
  <2>2. QED
    BY <1>0, <2>1, SoundPlays, PartsAssumption
<1>4. CASE Player!Start
  BY <1>0, <1>4 DEF Player!Start, Player!soundVars, Player!handlers, SoundInv
<1>5. CASE Player!Started
  <2>1. sounds = <<>> /\ opening' = "done" /\ UNCHANGED <<thinking, thinks, closing>>
    BY <1>0, <1>5 DEF Player!Started, SoundInv
  <2>2. CASE sounds' = Player!Play("ambient")
    BY <1>0, <2>1, <2>2, SoundPlays, PartsAssumption
  <2>3. CASE sounds' = sounds
    BY <1>0, <2>1, <2>3 DEF SoundInv
  <2>4. QED
    BY <1>5, <2>2, <2>3 DEF Player!Started
<1>6. CASE Player!Reconnected \/ Player!Republish \/ Player!Republished \/ Player!CancelRepublish
           \/ Player!CloseEnds
  <2>1. /\ UNCHANGED <<sounds, thinking, thinks, onState, opening>>
        /\ closing' = closing \/ closing # "no"
    BY <1>6 DEF Player!Reconnected, Player!Republish, Player!Republished,
       Player!CancelRepublish, Player!CloseEnds, Player!soundVars, Player!handlers
  <2>2. QED
    BY <1>0, <2>1 DEF SoundInv
<1>7. CASE Player!Close
  <2>1. /\ sounds' = Player!CancelAll /\ opening = "done"
        /\ UNCHANGED <<opening, thinking, thinks, onState>>
    BY <1>7 DEF Player!Close, Player!handlers
  <2>2. /\ sounds' \in Seq(Sound) /\ Len(sounds') = Len(sounds)
        /\ \A i \in 1 .. Len(sounds) :
              sounds'[i].kind = sounds[i].kind /\ (sounds[i].done => sounds'[i].done)
    BY <1>0, <2>1, CancelledSounds
  <2>3. QED
    BY <1>0, <2>1, <2>2 DEF SoundInv
<1>8. CASE Player!CloseMixer
  <2>1. UNCHANGED <<sounds, thinking, thinks, opening>> /\ onState' = FALSE /\ closing # "no"
    BY <1>8 DEF Player!CloseMixer, Player!soundVars
  <2>2. QED
    BY <1>0, <2>1 DEF SoundInv
<1>9. CASE UNCHANGED playerVars
  BY <1>a, <1>9 DEF playerVars
<1>10. QED
  BY <1>1, <1>2, <1>3, <1>4, <1>5, <1>6, <1>7, <1>8, <1>9 DEF Player!Next

\* Whoever holds the lock, there is one track, and none that the close leaves behind.
LEMMA TrackStep == PlayerInv /\ [Player!Next]_playerVars => TrackInv'
<1> SUFFICES ASSUME PlayerInv, [Player!Next]_playerVars PROVE TrackInv'
  OBVIOUS
<1>0. SoundInv /\ SoundInv' /\ TrackInv
  BY SoundStep DEF PlayerInv
<1>a. /\ Len(sounds') <= MaxSounds + 1 /\ thinking' \in 0 .. Len(sounds')
      /\ opening # "done" => closing = "no"
  BY <1>0 DEF SoundInv
<1>t. ASSUME UNCHANGED <<lock, opening, closing, republish, reconnects, tracks, publication,
                         onReconnect>>,
             closing # "no" /\ ~raced' =>
                ~raced /\ \A i \in 1 .. Len(sounds') : sounds'[i].at = "over"
      PROVE  TrackInv'
  BY <1>0, <1>a, <1>t DEF TrackInv, Player!TypeOK
<1>1. ASSUME NEW i \in 1 .. Len(sounds), Player!SoundEnds(i) \/ Player!PlayTaskEnds(i)
      PROVE  TrackInv'
  <2>1. /\ sounds[i].at = "plays"
        /\ UNCHANGED <<lock, opening, closing, republish, reconnects, tracks, publication,
                       onReconnect, raced>>
    BY <1>1 DEF Player!SoundEnds, Player!PlayTaskEnds, Player!handlers, Player!trackVars
  <2>2. closing # "no" => raced
    BY <1>0, <2>1 DEF TrackInv
  <2>3. QED
    BY <1>t, <2>1, <2>2
<1>2. CASE Player!StateChanges
  <2>1. UNCHANGED <<lock, opening, closing, republish, reconnects, tracks, publication, onReconnect>>
    BY <1>2 DEF Player!StateChanges, Player!handlers, Player!trackVars
  <2>2. CASE sounds' = Player!Stopped /\ raced' = raced /\ closing # "no" /\ ~raced
    <3>1. thinking # 0 => sounds[thinking].done \/ thinking \in 1 .. Len(sounds)
      BY <1>0 DEF SoundInv
    <3>2. sounds \in Seq(Sound) /\ \A i \in 1 .. Len(sounds) : sounds[i].at = "over"
      BY <1>0, <2>2 DEF TrackInv, SoundInv
    <3>3. CASE thinking # 0 /\ ~sounds[thinking].done
      <4> DEFINE r == [sounds[thinking] EXCEPT !.stop = TRUE, !.done = TRUE]
      <4>1. thinking \in 1 .. Len(sounds) /\ sounds[thinking] \in Sound
        BY <3>1, <3>2, <3>3
      <4>2. sounds' = [sounds EXCEPT ![thinking] = r]
        BY <2>2, <3>2, <3>3, <4>1 DEF Player!Stopped
      <4>3. r.at = "over"
        BY <3>2, <4>1 DEF Sound
      <4> HIDE DEF r
      <4>4. QED
        BY <1>t, <2>1, <2>2, <3>2, <4>1, <4>2, <4>3
    <3>4. CASE ~(thinking # 0 /\ ~sounds[thinking].done)
      BY <1>t, <2>1, <2>2, <3>2, <3>4 DEF Player!Stopped
    <3>5. QED
      BY <3>3, <3>4
  <2>3. CASE sounds' = sounds /\ raced' = raced
    BY <1>t, <1>0, <2>1, <2>3 DEF TrackInv
  <2>4. CASE raced' = (raced \/ closing # "no") /\ closing # "no"
    <3>1. raced'
      BY <2>4, Zenon
    <3>2. QED
      BY <1>t, <2>1, <3>1
  <2>5. CASE closing = "no"
    BY <1>t, <2>1, <2>5
  <2>6. CASE sounds' = Player!Stopped /\ raced' = raced /\ raced
    BY <1>t, <2>1, <2>6
  <2>7. \/ sounds' = Player!Stopped /\ raced' = raced
        \/ sounds' = sounds /\ raced' = raced
        \/ raced' = (raced \/ closing # "no")
    BY <1>2 DEF Player!StateChanges, Player!soundVars
  <2>8. QED
    BY <2>2, <2>3, <2>4, <2>5, <2>6, <2>7
<1>3. CASE Player!PlayByHand
  BY <1>t, <1>3 DEF Player!PlayByHand, Player!handlers, Player!trackVars
<1> USE DEF Player!handlers, Player!trackVars, Player!soundVars
<1>4. CASE Player!Start
  BY <1>0, <1>a, <1>4 DEF Player!Start, TrackInv, Player!TypeOK
<1>5. CASE Player!Started
  BY <1>0, <1>a, <1>5 DEF Player!Started, TrackInv, Player!TypeOK
<1>6. CASE Player!Reconnected
  <2>1. ~raced' => ~raced /\ closing = "no" /\ republish # "publishing"
    BY <1>6, Zenon DEF Player!Reconnected
  <2>2. UNCHANGED <<opening, closing, onReconnect>> /\ tracks' = 0 /\ opening # "no"
    BY <1>6 DEF Player!Reconnected
  <2>3. reconnects' \in 0 .. MaxReconnects
    BY <1>0, <1>6, PartsAssumption DEF Player!Reconnected, TrackInv, Player!TypeOK
  <2>4. CASE onReconnect
    <3>1. /\ publication' = FALSE /\ republish' = "new"
          /\ lock' = IF lock = "republish" THEN "none" ELSE lock
      BY <1>6, <2>4 DEF Player!Reconnected
    <3>2. QED
      BY <1>0, <1>a, <2>1, <2>2, <2>3, <2>4, <3>1 DEF TrackInv, Player!TypeOK
  <2>5. CASE ~onReconnect
    <3>1. UNCHANGED <<publication, republish, lock>>
      BY <1>6, <2>5 DEF Player!Reconnected
    <3>2. QED
      BY <1>0, <1>a, <2>1, <2>2, <2>3, <2>5, <3>1 DEF TrackInv, Player!TypeOK
  <2>6. QED
    BY <2>4, <2>5
<1>7. CASE Player!Republish
  BY <1>0, <1>a, <1>7 DEF Player!Republish, TrackInv, Player!TypeOK
<1>8. CASE Player!Republished
  BY <1>0, <1>a, <1>8 DEF Player!Republished, TrackInv, Player!TypeOK
<1>9. CASE Player!Close
  <2>1. \A i \in 1 .. Len(sounds') : sounds'[i].at = "over"
    <3>1. sounds' = Player!CancelAll
      BY <1>9 DEF Player!Close
    <3>2. QED
      BY <1>0, <3>1, CancelledSounds
  <2>2. QED
    BY <1>0, <1>a, <1>9, <2>1 DEF Player!Close, TrackInv, Player!TypeOK
<1>10. CASE Player!CancelRepublish \/ Player!CloseMixer
  BY <1>0, <1>a, <1>10 DEF Player!CancelRepublish, Player!CloseMixer, TrackInv, Player!TypeOK
<1>11. CASE Player!CloseEnds
  BY <1>0, <1>a, <1>11 DEF Player!CloseEnds, TrackInv, Player!TypeOK
<1>12. CASE UNCHANGED playerVars
  BY <1>t, <1>0, <1>12 DEF playerVars, TrackInv
<1>13. QED
  BY <1>1, <1>2, <1>3, <1>4, <1>5, <1>6, <1>7, <1>8, <1>9, <1>10, <1>11, <1>12 DEF Player!Next

\* A step of the player keeps what holds of its flags, its sounds and its tracks.
LEMMA PlayerStep == PlayerInv /\ [Player!Next]_playerVars => PlayerInv'
BY FlagsStep, SoundStep, TrackStep DEF PlayerInv

\* What the invariant says of the sound for thinking, and of the track.
LEMMA PlayerImplies ==
    PlayerInv => Player!TypeOK /\ Player!ThinksAloud /\ Player!OneTrack
<1> SUFFICES ASSUME PlayerInv
             PROVE  Player!TypeOK /\ Player!ThinksAloud /\ Player!OneTrack
  OBVIOUS
<1>1. Player!TypeOK
  BY DEF PlayerInv, TrackInv
<1>2. Player!ThinksAloud
  BY DEF PlayerInv, SoundInv, Player!ThinksAloud
<1>3. Player!OneTrack
  BY DEF PlayerInv, TrackInv, Player!OneTrack, Player!Live
<1>4. QED
  BY <1>1, <1>2, <1>3

\* The link, the job's thread and the player keep in step, whichever of the parts runs.
THEOREM RoomKeepsStep == PartSpec => []RoomInStep
<1>1. PartInit => RoomInv /\ ThreadInv /\ PlayerInv
  BY RoomInit, ThreadStart, PlayerStart DEF PartInit
<1>2. /\ [PartNext]_partVars => [Room!Next]_roomVars
      /\ [PartNext]_partVars => [Thread!Next]_threadVars
      /\ [PartNext]_partVars => [Player!Next]_playerVars
  BY DEF PartNext, partVars
<1>3. RoomInv /\ ThreadInv /\ PlayerInv /\ [PartNext]_partVars
         => (RoomInv /\ ThreadInv /\ PlayerInv)'
  BY <1>2, RoomStep, ThreadStep, PlayerStep
<1>4. RoomInv /\ ThreadInv /\ PlayerInv => RoomInStep
  BY RoomImplies, ThreadImplies, PlayerImplies DEF RoomInStep
<1>5. QED
  BY <1>1, <1>3, <1>4, PTL DEF PartSpec

-----------------------------------------------------------------------------
(* The session of Gemini *)

Message == [id : Nat, for : Nat]
Outcome == {"none", "waiting", "resolved", "failed", "cancelled"}

GeminiFlags == unnoticed \in BOOLEAN /\ spoilt \in BOOLEAN

GeminiTypes ==
    /\ session \in {"connecting", "open", "closing", "waiting", "ended"}
    /\ shouldClose \in {"no", "restart", "away"}
    /\ options \in Nat /\ opened \in 0 .. options
    /\ generation \in [for : Nat, open : BOOLEAN]
    /\ pending \in Gemini!Replies \cup {Gemini!NoReply} /\ turn \in Nat
    /\ future \in [Gemini!Replies -> Outcome] /\ answer \in [Gemini!Replies -> Nat]
    /\ replies \in Nat /\ contexts \in Nat /\ changes \in Nat /\ faults \in Nat
    /\ changes <= MaxChanges /\ options <= changes

\* Sequences of messages, and the counts of them.
MessageTypes ==
    /\ msgs \in Seq(Message) /\ held \in Seq(Message) /\ log \in Seq(Nat) /\ owed \in Seq(Nat)
    /\ queued \in Nat /\ replaced \in 0 .. queued /\ Len(held) \in 0 .. 1
    /\ since \in [queued : Nat, sent : Nat]

\* A session has the options that are set from the moment at which it is connected.
OptionsInv ==
    /\ session \in {"connecting", "open"} /\ shouldClose = "no" /\ ~unnoticed => opened = options
    /\ shouldClose # "no" => changes + faults > 0 \/ session = "ended"

\* What was sent was queued before what is taken, and that before what waits, which was
\* queued after the channel was replaced last.
LogInv ==
    /\ \A i, j \in 1 .. Len(log) : i < j => log[i] < log[j]
    /\ \A i \in 1 .. Len(log) : log[i] <= queued

HeldInv ==
    /\ \A i \in 1 .. Len(held) : since.queued < held[i].id /\ held[i].id <= queued
    /\ \A i \in 1 .. Len(held), j \in 1 .. Len(log) : log[j] < held[i].id
    /\ held # <<>> => session = "open"

QueueInv ==
    /\ \A i \in 1 .. Len(msgs) : replaced < msgs[i].id /\ msgs[i].id <= queued
    /\ \A i \in 1 .. Len(msgs), j \in 1 .. Len(log) : log[j] < msgs[i].id
    /\ \A i \in 1 .. Len(msgs), j \in 1 .. Len(held) : held[j].id < msgs[i].id
    /\ \A i, j \in 1 .. Len(msgs) : i < j => msgs[i].id < msgs[j].id

\* What a session is sent was queued since the one before was left; and nothing is lost
\* while nothing fails or changes.
SinceInv ==
    /\ since.queued <= replaced /\ since.sent <= Len(log)
    /\ \A i \in since.sent + 1 .. Len(log) : log[i] > since.queued

CountInv ==
    changes + faults = 0 /\ session # "ended" => Len(log) + Len(held) + Len(msgs) = queued

MessagesInv == MessageTypes /\ LogInv /\ HeldInv /\ QueueInv /\ SinceInv /\ CountInv

\* The turn that the service takes is that of the reply that waits.
TurnsInv ==
    /\ generation.open => session = "open"
    /\ \A r \in Gemini!Replies : future[r] = "waiting" => r = pending
    /\ ~spoilt /\ turn # Gemini!NoTurn => turn = pending \/ pending = Gemini!NoReply
    /\ ~spoilt => \A r \in Gemini!Replies : answer[r] \in {Gemini!NoTurn, r}

GeminiInv == GeminiFlags /\ GeminiTypes /\ OptionsInv /\ MessagesInv /\ TurnsInv

\* Nothing was queued at first, and no reply waits.
LEMMA GeminiStart == Gemini!Init => GeminiInv
<1> SUFFICES ASSUME Gemini!Init PROVE GeminiInv
  OBVIOUS
<1> USE PartsAssumption DEF Gemini!Init
<1>1. GeminiFlags
  BY Zenon DEF GeminiFlags
<1>2. GeminiTypes
  BY DEF GeminiTypes, Gemini!Replies, Gemini!NoReply, Gemini!NoTurn, Outcome
<1>3. OptionsInv
  BY DEF OptionsInv
<1>4. MessagesInv
  BY DEF MessagesInv, MessageTypes, LogInv, HeldInv, QueueInv, SinceInv, CountInv
<1>5. TurnsInv
  BY DEF TurnsInv, Gemini!NoTurn, Gemini!Replies
<1>6. QED
  BY <1>1, <1>2, <1>3, <1>4, <1>5 DEF GeminiInv

\* A step sets its flags to truth values.
LEMMA GeminiFlagsStep == GeminiFlags /\ [Gemini!Next]_geminiVars => GeminiFlags'
BY Zenon DEF GeminiFlags, Gemini!Next, Gemini!UpdateSession, Gemini!UpdateModel,
   Gemini!UpdateChatCtx, Gemini!GenerateReply, Gemini!Close, Gemini!ReplyTimeout, Gemini!Connect,
   Gemini!Connected, Gemini!ConnectFails, Gemini!Restart, Gemini!TaskFails, Gemini!SendTakes,
   Gemini!Sent, Gemini!TurnBegins, Gemini!Content, Gemini!ToolCall, Gemini!TurnComplete,
   Gemini!GoAway, Gemini!Leave, Gemini!Begin, Gemini!optionVars, Gemini!replyVars, geminiVars

\* The options, the generation and the replies stay what they are.
LEMMA GeminiTypesStep ==
    GeminiTypes /\ MessageTypes /\ [Gemini!Next]_geminiVars => GeminiTypes'
<1> SUFFICES ASSUME GeminiTypes, MessageTypes, [Gemini!Next]_geminiVars PROVE GeminiTypes'
  OBVIOUS
<1>g. Gemini!Closed \in [for : Nat, open : BOOLEAN]
  BY DEF GeminiTypes, Gemini!Closed
<1> USE PartsAssumption DEF GeminiTypes, Gemini!optionVars, Gemini!serviceVars, Gemini!replyVars,
    Gemini!bounds
<1>1. CASE Gemini!UpdateSession \/ Gemini!UpdateModel
  BY <1>1 DEF Gemini!UpdateSession, Gemini!UpdateModel, Gemini!MarkRestart
<1>2. CASE Gemini!UpdateChatCtx
  BY <1>2 DEF Gemini!UpdateChatCtx
<1>3. CASE Gemini!GenerateReply
  <2>1. replies + 1 \in Gemini!Replies /\ pending' = replies + 1 /\ replies' = replies + 1
    BY <1>3 DEF Gemini!GenerateReply, Gemini!Replies
  <2>2. Gemini!Supersede(replies + 1) \in [Gemini!Replies -> Outcome]
    BY DEF Gemini!Supersede, Outcome
  <2>3. QED
    BY <1>3, <2>1, <2>2 DEF Gemini!GenerateReply
<1>4. ASSUME NEW r \in Gemini!Replies, Gemini!ReplyTimeout(r) PROVE GeminiTypes'
  BY <1>4 DEF Gemini!ReplyTimeout, Outcome
<1>5. CASE Gemini!Close
  <2>1. future' \in [Gemini!Replies -> Outcome]
    BY <1>5 DEF Gemini!Close, Outcome
  <2>2. QED
    BY <1>5, <1>g, <2>1 DEF Gemini!Close, Gemini!NoTurn
<1>6. CASE Gemini!Connect \/ Gemini!Connected \/ Gemini!ConnectFails
  BY <1>6 DEF Gemini!Connect, Gemini!Connected, Gemini!ConnectFails
<1>7. CASE Gemini!Restart \/ Gemini!TaskFails
  BY <1>7, <1>g DEF Gemini!Restart, Gemini!TaskFails, Gemini!MarkRestart, Gemini!Leave,
     Gemini!RecvEnds, Gemini!NoTurn
<1>8. CASE Gemini!SendTakes \/ Gemini!Sent \/ Gemini!GoAway
  <2>1. CASE Gemini!SendTakes
    BY <2>1 DEF Gemini!SendTakes
  <2>2. CASE Gemini!Sent
    BY <2>2 DEF Gemini!Sent
  <2>3. CASE Gemini!GoAway
    BY <2>3 DEF Gemini!GoAway
  <2>4. QED
    BY <1>8, <2>1, <2>2, <2>3
<1>9. CASE Gemini!TurnBegins
  BY <1>9 DEF Gemini!TurnBegins, Gemini!User, MessageTypes
<1>10. CASE Gemini!Content \/ Gemini!ToolCall \/ Gemini!TurnComplete
  <2>1. /\ future' \in [Gemini!Replies -> Outcome] /\ answer' \in [Gemini!Replies -> Nat]
        /\ pending' \in Gemini!Replies \cup {Gemini!NoReply}
    <3>1. Gemini!Begin
      BY <1>10 DEF Gemini!Content, Gemini!ToolCall, Gemini!TurnComplete
    <3>2. CASE ~generation.open /\ Gemini!Waits
      <4>1. /\ future' = [future EXCEPT ![pending] = "resolved"]
            /\ answer' = [answer EXCEPT ![pending] = turn] /\ pending' = Gemini!NoReply
        BY <3>1, <3>2 DEF Gemini!Begin
      <4>2. QED
        BY <4>1 DEF Outcome
    <3>3. CASE ~(~generation.open /\ Gemini!Waits)
      BY <3>1, <3>3 DEF Gemini!Begin
    <3>4. QED
      BY <3>2, <3>3
  <2>2. \E o \in BOOLEAN : generation' = [for |-> turn, open |-> o]
    BY <1>10 DEF Gemini!Content, Gemini!ToolCall, Gemini!TurnComplete
  <2>3. generation' \in [for : Nat, open : BOOLEAN]
    BY <2>2
  <2>4. turn' \in Nat /\ UNCHANGED <<options, session, opened, shouldClose,
                                  replies, contexts, changes, faults>>
    BY <1>10 DEF Gemini!Content, Gemini!ToolCall, Gemini!TurnComplete, Gemini!NoTurn
  <2>5. QED
    BY <2>1, <2>3, <2>4
<1>11. CASE UNCHANGED geminiVars
  BY <1>11 DEF geminiVars
<1>12. QED
  BY <1>1, <1>2, <1>3, <1>4, <1>5, <1>6, <1>7, <1>8, <1>9, <1>10, <1>11 DEF Gemini!Next

\* Each session is connected with the options of its time, and is to be restarted only
\* after a change or a fault.
LEMMA OptionsStep == GeminiInv /\ [Gemini!Next]_geminiVars => OptionsInv'
<1> SUFFICES ASSUME GeminiInv, [Gemini!Next]_geminiVars PROVE OptionsInv'
  OBVIOUS
<1>0. OptionsInv /\ GeminiTypes
  BY DEF GeminiInv
<1> USE <1>0 DEF OptionsInv, GeminiTypes, Gemini!optionVars, Gemini!bounds
<1>1. CASE Gemini!UpdateSession \/ Gemini!TaskFails
  BY <1>1 DEF Gemini!UpdateSession, Gemini!TaskFails, Gemini!MarkRestart, Gemini!Leave
<1>2. CASE Gemini!UpdateModel
  BY <1>2 DEF Gemini!UpdateModel
<1>3. CASE Gemini!UpdateChatCtx \/ Gemini!GenerateReply \/ \E r \in Gemini!Replies : Gemini!ReplyTimeout(r)
  BY <1>3 DEF Gemini!UpdateChatCtx, Gemini!GenerateReply, Gemini!ReplyTimeout
<1>4. CASE Gemini!Close
  BY <1>4 DEF Gemini!Close
<1>5. CASE Gemini!Connect \/ Gemini!Connected \/ Gemini!ConnectFails \/ Gemini!GoAway
  BY <1>5 DEF Gemini!Connect, Gemini!Connected, Gemini!ConnectFails, Gemini!GoAway
<1>6. CASE Gemini!Restart
  BY <1>6 DEF Gemini!Restart, Gemini!Leave
<1>7. CASE Gemini!SendTakes \/ Gemini!Sent \/ Gemini!TurnBegins
  BY <1>7 DEF Gemini!SendTakes, Gemini!Sent, Gemini!TurnBegins
<1>8. CASE Gemini!Content \/ Gemini!ToolCall \/ Gemini!TurnComplete
  BY <1>8 DEF Gemini!Content, Gemini!ToolCall, Gemini!TurnComplete
<1>9. CASE UNCHANGED geminiVars
  BY <1>9 DEF geminiVars
<1>10. QED
  BY <1>1, <1>2, <1>3, <1>4, <1>5, <1>6, <1>7, <1>8, <1>9 DEF Gemini!Next

\* Messages are queued, taken and sent in order, over every restart.
LEMMA MessagesStep == GeminiInv /\ [Gemini!Next]_geminiVars => MessagesInv'
<1> SUFFICES ASSUME GeminiInv, [Gemini!Next]_geminiVars PROVE MessagesInv'
  OBVIOUS
<1>0. /\ MessageTypes /\ LogInv /\ HeldInv /\ QueueInv /\ SinceInv /\ CountInv
      /\ OptionsInv /\ GeminiTypes
  BY DEF GeminiInv, MessagesInv
<1>n. /\ Len(log) \in Nat /\ Len(held) \in Nat /\ Len(msgs) \in Nat
      /\ \A i \in 1 .. Len(log) : log[i] \in Nat
      /\ \A i \in 1 .. Len(held) : held[i] \in Message
      /\ \A i \in 1 .. Len(msgs) : msgs[i] \in Message
      /\ changes \in Nat /\ faults \in Nat
  BY <1>0 DEF MessageTypes, GeminiTypes
<1>i. /\ \A i \in 1 .. Len(held) : held[i].id \in Nat /\ held[i].for \in Nat
      /\ \A i \in 1 .. Len(msgs) : msgs[i].id \in Nat
      /\ queued \in Nat /\ replaced \in Nat /\ replaced <= queued
      /\ since.queued \in Nat /\ since.sent \in Nat
  <2>1. \A m \in Message : m.id \in Nat /\ m.for \in Nat
    BY DEF Message
  <2>2. /\ queued \in Nat /\ replaced \in Nat /\ replaced <= queued
        /\ since.queued \in Nat /\ since.sent \in Nat
    BY <1>0 DEF MessageTypes
  <2>3. QED
    BY <1>n, <2>1, <2>2
<1> DEFINE Kept == UNCHANGED <<msgs, held, queued, log, replaced, since>>
\* What no message is queued, taken or sent by.
<1>u. ASSUME Kept, owed' \in Seq(Nat), held # <<>> => session' = "open",
             changes' + faults' = 0 /\ session' # "ended" =>
                changes + faults = 0 /\ session # "ended"
      PROVE  MessagesInv'
  BY <1>0, <1>u DEF MessagesInv, MessageTypes, LogInv, HeldInv, QueueInv, SinceInv, CountInv
\* The channel is replaced, or one message is taken off it: those taken are dropped, or kept.
<1>d. ASSUME UNCHANGED <<queued, log, since>>, owed' \in Seq(Nat),
             held' = <<>> \/ (held' = held /\ session' = session),
             \/ UNCHANGED <<msgs, replaced>>
             \/ msgs' = <<>> /\ replaced' \in {queued, replaced}
             \/ msgs # <<>> /\ msgs' = Tail(msgs) /\ replaced' = replaced,
             changes' + faults' = 0 => session' = "ended"
      PROVE  MessagesInv'
  <2>1. /\ msgs' \in Seq(Message) /\ held' \in Seq(Message) /\ Len(held') \in 0 .. 1
        /\ replaced' \in 0 .. queued /\ replaced <= replaced'
    <3>1. held' \in Seq(Message) /\ Len(held') \in 0 .. 1
      <4>1. held \in Seq(Message) /\ Len(held) \in 0 .. 1
        BY <1>0 DEF MessageTypes
      <4>2. CASE held' = <<>>
        BY <4>2
      <4>3. CASE held' = held
        BY <4>1, <4>3
      <4>4. QED
        BY <1>d, <4>2, <4>3
    <3>2. msgs' \in Seq(Message)
      <4>1. msgs \in Seq(Message)
        BY <1>0 DEF MessageTypes
      <4>2. CASE msgs' = <<>>
        BY <4>2
      <4>3. CASE msgs' = msgs
        BY <4>1, <4>3
      <4>4. CASE msgs # <<>> /\ msgs' = Tail(msgs)
        BY <4>1, <4>4
      <4>5. QED
        BY <1>d, <4>2, <4>3, <4>4
    <3>3. replaced' \in 0 .. queued /\ replaced <= replaced'
      BY <1>i, <1>d
    <3>4. QED
      BY <3>1, <3>2, <3>3
  <2>2. MessageTypes'
    BY <1>0, <1>d, <2>1 DEF MessageTypes
  <2>3. LogInv'
    BY <1>0, <1>d DEF LogInv
  <2>4. HeldInv'
    BY <1>0, <1>d DEF HeldInv
  <2>5. QueueInv'
    <3>1. CASE msgs' = <<>>
      BY <3>1 DEF QueueInv
    <3>2. CASE UNCHANGED <<msgs, replaced>>
      BY <1>0, <1>d, <3>2 DEF QueueInv
    <3>3. CASE msgs # <<>> /\ msgs' = Tail(msgs) /\ replaced' = replaced
      <4>1. /\ Len(msgs') = Len(msgs) - 1
            /\ \A i \in 1 .. Len(msgs') : msgs'[i] = msgs[i + 1] /\ i + 1 \in 1 .. Len(msgs)
        BY <1>0, <1>n, <3>3 DEF MessageTypes
      <4>2. held' = <<>> \/ held' = held
        BY <1>d
      <4>3. UNCHANGED <<queued, log>>
        BY <1>d
      <4>4. QED
        BY <1>0, <1>n, <3>3, <4>1, <4>2, <4>3 DEF QueueInv
    <3>4. QED
      BY <1>d, <3>1, <3>2, <3>3
  <2>6. SinceInv'
    BY <1>0, <1>d, <2>1 DEF SinceInv, MessageTypes
  <2>7. CountInv'
    BY <1>d DEF CountInv
  <2>8. QED
    BY <2>2, <2>3, <2>4, <2>5, <2>6, <2>7 DEF MessagesInv
\* A message is queued.
<1>q. ASSUME NEW for \in Nat, Gemini!Queue(for), UNCHANGED <<owed, session, changes, faults>>
      PROVE  MessagesInv'
  <2> DEFINE new == [id |-> queued + 1, for |-> for]
  <2>1. new \in Message /\ new.id = queued + 1
    BY <1>0 DEF MessageTypes, Message
  <2>2. msgs' = Append(msgs, new) /\ queued' = queued + 1 /\ UNCHANGED <<held, log, replaced, since>>
    BY <1>q DEF Gemini!Queue
  <2> HIDE DEF new
  <2>3. /\ msgs' \in Seq(Message) /\ Len(msgs') = Len(msgs) + 1
        /\ \A i \in 1 .. Len(msgs) : msgs'[i] = msgs[i]
        /\ msgs'[Len(msgs) + 1] = new
    BY <1>0, <2>1, <2>2 DEF MessageTypes
  <2>4. MessageTypes' /\ LogInv' /\ HeldInv' /\ SinceInv'
    <3>1. MessageTypes'
      BY <1>0, <1>i, <1>q, <2>2, <2>3 DEF MessageTypes
    <3>2. LogInv'
      BY <1>0, <1>n, <1>i, <2>2 DEF LogInv
    <3>3. HeldInv'
      BY <1>0, <1>n, <1>i, <1>q, <2>2 DEF HeldInv
    <3>4. SinceInv'
      BY <1>0, <2>2 DEF SinceInv
    <3>5. QED
      BY <3>1, <3>2, <3>3, <3>4
  <2>5. CountInv'
    <3>1. /\ Len(msgs') = Len(msgs) + 1 /\ queued' = queued + 1
          /\ Len(log') = Len(log) /\ Len(held') = Len(held)
          /\ UNCHANGED <<changes, faults, session>>
      BY <1>q, <2>2, <2>3
    <3>2. /\ Len(log) \in Nat /\ Len(held) \in Nat /\ Len(msgs) \in Nat /\ queued \in Nat
          /\ CountInv
      BY <1>0, <1>n, <1>i
    <3>3. QED
      BY ONLY <3>1, <3>2 DEF CountInv
  <2>6. QueueInv'
    <3>a. \A i \in 1 .. Len(msgs) + 1 : i \in 1 .. Len(msgs) \/ i = Len(msgs) + 1
      BY <1>n
    <3>b. msgs'[Len(msgs) + 1].id = queued + 1 /\ queued + 1 > queued
      BY <1>i, <2>1, <2>3
    <3>c. \A i \in 1 .. Len(msgs') :
             \/ i \in 1 .. Len(msgs) /\ msgs'[i] = msgs[i]
             \/ i = Len(msgs) + 1 /\ msgs'[i].id = queued + 1
      BY ONLY <2>3, <3>a, <3>b
    <3>2. \A i \in 1 .. Len(msgs') : replaced' < msgs'[i].id /\ msgs'[i].id <= queued'
      BY <1>0, <1>n, <1>i, <2>2, <3>c DEF QueueInv
    <3>3. \A i \in 1 .. Len(msgs'), j \in 1 .. Len(log') : log'[j] < msgs'[i].id
      BY <1>0, <1>n, <1>i, <2>2, <3>c DEF QueueInv, LogInv
    <3>4. \A i \in 1 .. Len(msgs'), j \in 1 .. Len(held') : held'[j].id < msgs'[i].id
      <4> SUFFICES ASSUME NEW i \in 1 .. Len(msgs'), NEW j \in 1 .. Len(held)
                   PROVE  held[j].id < msgs'[i].id
        BY <2>2
      <4>1. held[j].id <= queued /\ held[j].id \in Nat
        BY <1>0, <1>i DEF HeldInv
      <4>2. i \in 1 .. Len(msgs) => held[j].id < msgs[i].id
        BY <1>0 DEF QueueInv
      <4>3. QED
        BY <1>i, <3>c, <4>1, <4>2
    <3>5. \A i, j \in 1 .. Len(msgs') : i < j => msgs'[i].id < msgs'[j].id
      <4> SUFFICES ASSUME NEW i \in 1 .. Len(msgs'), NEW j \in 1 .. Len(msgs'), i < j
                   PROVE  msgs'[i].id < msgs'[j].id
        OBVIOUS
      <4>1. i \in 1 .. Len(msgs) /\ msgs'[i] = msgs[i]
        BY <1>n, <2>3, <3>c
      <4>2. msgs[i].id <= queued /\ msgs[i].id \in Nat
        BY <1>0, <1>i, <4>1 DEF QueueInv
      <4>3. j \in 1 .. Len(msgs) => msgs[i].id < msgs[j].id
        BY <1>0, <4>1 DEF QueueInv
      <4>4. QED
        BY <1>i, <3>c, <4>1, <4>2, <4>3
    <3>6. QED
      BY <3>2, <3>3, <3>4, <3>5 DEF QueueInv
  <2>7. QED
    BY <2>4, <2>5, <2>6 DEF MessagesInv
<1> USE DEF Gemini!optionVars, Gemini!msgVars, Gemini!serviceVars, Gemini!replyVars, Gemini!bounds
<1>1. CASE Gemini!UpdateSession
  <2>1. CASE shouldClose # "no"
    BY <1>0, <1>1, <1>n, <1>u, <2>1 DEF Gemini!UpdateSession, Gemini!MarkRestart, MessageTypes, HeldInv
  <2>2. CASE shouldClose = "no"
    BY <1>0, <1>1, <1>n, <1>d, <2>2 DEF Gemini!UpdateSession, Gemini!MarkRestart, MessageTypes
  <2>3. QED
    BY <2>1, <2>2
<1>2. CASE Gemini!UpdateModel
  BY <1>0, <1>2, <1>n, <1>u DEF Gemini!UpdateModel, MessageTypes, HeldInv
<1>3. CASE Gemini!UpdateChatCtx \/ Gemini!GenerateReply
  <2>1. \E for \in Nat : Gemini!Queue(for)
    BY <1>0, <1>3, PartsAssumption
    DEF Gemini!UpdateChatCtx, Gemini!GenerateReply, Gemini!Context, GeminiTypes
  <2>2. UNCHANGED <<owed, session, changes, faults>>
    BY <1>3 DEF Gemini!UpdateChatCtx, Gemini!GenerateReply
  <2>3. QED
    BY <1>q, <2>1, <2>2
<1>4. CASE Gemini!Close
  <2>1. /\ session' = "ended" /\ msgs' = <<>> /\ held' = <<>> /\ owed' = <<>>
        /\ UNCHANGED <<queued, log, replaced, since>>
    BY <1>4 DEF Gemini!Close
  <2>2. QED
    BY <1>d, <2>1
<1>5. CASE \E r \in Gemini!Replies : Gemini!ReplyTimeout(r)
  BY <1>0, <1>u, <1>5 DEF Gemini!ReplyTimeout, MessageTypes, HeldInv
<1>6. CASE Gemini!Connect \/ Gemini!ConnectFails
  BY <1>0, <1>n, <1>u, <1>6 DEF Gemini!Connect, Gemini!ConnectFails, MessageTypes, HeldInv
<1>7. CASE Gemini!Connected
  <2>1. /\ since' = [queued |-> replaced, sent |-> Len(log)] /\ held = <<>> /\ held' = <<>>
        /\ UNCHANGED <<msgs, queued, log, replaced, owed, changes, faults>>
        /\ session' # "ended" /\ session # "ended"
    BY <1>0, <1>7 DEF Gemini!Connected, HeldInv
  <2>2. MessageTypes'
    BY <1>0, <1>n, <2>1 DEF MessageTypes
  <2>3. LogInv' /\ QueueInv' /\ CountInv'
    BY <1>0, <2>1 DEF LogInv, QueueInv, CountInv
  <2>4. HeldInv' /\ SinceInv'
    BY <1>0, <1>n, <2>1 DEF HeldInv, SinceInv, MessageTypes
  <2>5. QED
    BY <2>2, <2>3, <2>4 DEF MessagesInv
<1>8. CASE Gemini!Restart
  <2>1. /\ held' = <<>> /\ owed' = <<>> /\ UNCHANGED <<queued, log, since, replaced>>
        /\ msgs' = msgs \/ (msgs # <<>> /\ msgs' = Tail(msgs))
        /\ session = "open" /\ shouldClose # "no" /\ UNCHANGED <<changes, faults>>
    BY <1>8 DEF Gemini!Restart, Gemini!Leave
  <2>2. changes' + faults' # 0
    BY <1>0, <2>1 DEF OptionsInv
  <2>3. QED
    BY <1>d, <2>1, <2>2
<1>9. CASE Gemini!TaskFails
  <2>1. /\ held' = <<>> /\ owed' = <<>> /\ UNCHANGED <<queued, log, since>>
        /\ faults' = faults + 1 /\ changes' = changes
        /\ \/ UNCHANGED <<msgs, replaced>>
           \/ msgs' = <<>> /\ replaced' = queued
    BY <1>9 DEF Gemini!TaskFails, Gemini!Leave, Gemini!MarkRestart
  <2>2. changes' + faults' # 0
    BY <1>n, <2>1
  <2>3. QED
    BY <1>d, <2>1, <2>2
<1>10. CASE Gemini!SendTakes
  <2>1. /\ held = <<>> /\ msgs # <<>> /\ held' = <<msgs[1]>> /\ msgs' = Tail(msgs) /\ session' = "open"
        /\ UNCHANGED <<queued, log, replaced, since, owed, changes, faults, session>>
    BY <1>0, <1>10 DEF Gemini!SendTakes, MessageTypes
  <2>2. /\ 1 \in 1 .. Len(msgs) /\ msgs[1] \in Message /\ Len(msgs') = Len(msgs) - 1
        /\ msgs' \in Seq(Message)
        /\ \A i \in 1 .. Len(msgs') : msgs'[i] = msgs[i + 1] /\ i + 1 \in 1 .. Len(msgs) /\ 1 < i + 1
    BY <1>0, <2>1 DEF MessageTypes
  <2>3. held' \in Seq(Message) /\ Len(held') = 1 /\ \A i \in 1 .. Len(held') : held'[i] = msgs[1]
    BY <2>1, <2>2
  <2>4. MessageTypes' /\ LogInv' /\ SinceInv'
    BY <1>0, <1>n, <2>1, <2>2, <2>3 DEF MessageTypes, LogInv, SinceInv
  <2>5. CountInv'
    BY <1>0, <1>n, <2>1, <2>2, <2>3 DEF CountInv
  <2>6. HeldInv'
    BY <1>0, <1>n, <2>1, <2>2, <2>3 DEF HeldInv, QueueInv, SinceInv, MessageTypes, Message
  <2>7. QueueInv'
    BY <1>0, <1>n, <2>1, <2>2, <2>3 DEF QueueInv
  <2>8. QED
    BY <2>4, <2>5, <2>6, <2>7 DEF MessagesInv
<1>11. CASE Gemini!Sent
  <2>1. /\ held # <<>> /\ held' = <<>> /\ log' = Append(log, held[1].id)
        /\ owed' = Append(owed, held[1].for)
        /\ UNCHANGED <<msgs, queued, replaced, since, changes, faults, session>>
    BY <1>11 DEF Gemini!Sent
  <2>2. Len(held) = 1 /\ 1 \in 1 .. Len(held) /\ held[1].id \in Nat /\ held[1].for \in Nat
    BY <1>0, <1>n, <2>1 DEF MessageTypes, Message
  <2>3. /\ log' \in Seq(Nat) /\ owed' \in Seq(Nat) /\ Len(log') = Len(log) + 1
        /\ \A i \in 1 .. Len(log) : log'[i] = log[i]
        /\ log'[Len(log) + 1] = held[1].id
    BY <1>0, <2>1, <2>2 DEF MessageTypes
  <2>a. \A i \in 1 .. Len(log) + 1 : i \in 1 .. Len(log) \/ i = Len(log) + 1
    BY <1>n
  <2>4. \A i \in 1 .. Len(log') : i \in 1 .. Len(log) \/ (i = Len(log) + 1 /\ log'[i] = held[1].id)
    BY ONLY <2>3, <2>a
  <2>5. MessageTypes'
    BY <1>0, <2>1, <2>3 DEF MessageTypes
  <2>6. LogInv'
    BY <1>0, <1>n, <2>1, <2>2, <2>3, <2>4 DEF LogInv, HeldInv, MessageTypes
  <2>7. HeldInv' /\ CountInv'
    BY <1>0, <1>n, <2>1, <2>2, <2>3 DEF HeldInv, CountInv
  <2>8. QueueInv'
    BY <1>0, <1>n, <2>1, <2>2, <2>3, <2>4 DEF QueueInv
  <2>9. SinceInv'
    BY <1>0, <1>n, <2>1, <2>2, <2>3, <2>4 DEF SinceInv, HeldInv, MessageTypes
  <2>10. QED
    BY <2>5, <2>6, <2>7, <2>8, <2>9 DEF MessagesInv
<1>12. CASE Gemini!TurnBegins
  <2>1. /\ Kept /\ session' = "open" /\ UNCHANGED <<session, changes, faults>>
        /\ owed' \in {owed, Tail(owed)} /\ (owed' # owed => owed # <<>>)
    BY <1>12 DEF Gemini!TurnBegins
  <2>2. owed' \in Seq(Nat)
    <3>1. owed \in Seq(Nat)
      BY <1>0 DEF MessageTypes
    <3>2. QED
      BY ONLY <2>1, <3>1
  <2>3. QED
    BY <1>u, <2>1, <2>2
<1>13. CASE Gemini!Content \/ Gemini!ToolCall \/ Gemini!TurnComplete \/ Gemini!GoAway
  BY <1>0, <1>n, <1>u, <1>13
  DEF Gemini!Content, Gemini!ToolCall, Gemini!TurnComplete, Gemini!GoAway, MessageTypes, HeldInv
<1>14. CASE UNCHANGED geminiVars
  BY <1>0, <1>u, <1>14 DEF geminiVars, MessageTypes, HeldInv
<1>15. QED
  BY <1>1, <1>2, <1>3, <1>4, <1>5, <1>6, <1>7, <1>8, <1>9, <1>10, <1>11, <1>12, <1>13, <1>14
  DEF Gemini!Next

\* A turn is of the reply that waits, unless it spoils it; and a generation ends with the
\* session that it is of.
LEMMA TurnsStep == GeminiInv /\ [Gemini!Next]_geminiVars => TurnsInv'
<1> SUFFICES ASSUME GeminiInv, [Gemini!Next]_geminiVars PROVE TurnsInv'
  OBVIOUS
<1>0. TurnsInv /\ GeminiTypes
  BY DEF GeminiInv
<1>g. ~Gemini!Closed.open
  BY <1>0 DEF GeminiTypes, Gemini!Closed
<1>n. Gemini!NoReply = 0 /\ Gemini!NoTurn = 0 /\ \A r \in Gemini!Replies : r # 0
  BY PartsAssumption DEF Gemini!NoReply, Gemini!NoTurn, Gemini!Replies
\* What changes no turn and no reply.
<1>u. ASSUME UNCHANGED <<pending, future, answer, spoilt>>, turn' \in {turn, Gemini!NoTurn},
             ~generation'.open \/ (generation' = generation /\ session' = session)
      PROVE  TurnsInv'
  BY <1>0, <1>u DEF TurnsInv
<1> USE DEF Gemini!serviceVars, Gemini!replyVars
<1>1. CASE Gemini!UpdateSession \/ Gemini!UpdateModel \/ Gemini!UpdateChatCtx
  BY <1>u, <1>1 DEF Gemini!UpdateSession, Gemini!UpdateModel, Gemini!UpdateChatCtx
<1>2. CASE Gemini!GenerateReply
  <2> DEFINE r == replies + 1
  <2>1. /\ pending' = r /\ future' = Gemini!Supersede(r) /\ r \in Gemini!Replies
        /\ UNCHANGED <<answer, turn, generation, session>>
    BY <1>0, <1>2, PartsAssumption DEF Gemini!GenerateReply, Gemini!Replies, GeminiTypes
  <2>2. ~spoilt' => ~spoilt /\ turn = Gemini!NoTurn
    BY <1>2, Zenon DEF Gemini!GenerateReply
  <2> HIDE DEF r
  <2>3. \A q \in Gemini!Replies : future'[q] = "waiting" => q = pending'
    BY <1>0, <2>1 DEF TurnsInv, Gemini!Supersede
  <2>4. QED
    BY <1>0, <2>1, <2>2, <2>3 DEF TurnsInv
<1>3. ASSUME NEW r \in Gemini!Replies, Gemini!ReplyTimeout(r) PROVE TurnsInv'
  <2>1. /\ future[r] = "waiting" /\ future' = [future EXCEPT ![r] = "failed"]
        /\ pending' = IF pending = r THEN Gemini!NoReply ELSE pending
        /\ UNCHANGED <<answer, turn, generation, session, spoilt>>
    BY <1>3 DEF Gemini!ReplyTimeout
  <2>2. \A q \in Gemini!Replies : future'[q] = "waiting" => q = pending'
    BY <1>0, <2>1 DEF TurnsInv, GeminiTypes
  <2>3. QED
    BY <1>0, <2>1, <2>2 DEF TurnsInv
<1>4. CASE Gemini!Close
  <2>1. /\ \A r \in Gemini!Replies : future'[r] = "waiting" => future[r] = "waiting"
        /\ UNCHANGED <<pending, answer, spoilt>> /\ turn' = Gemini!NoTurn
        /\ ~generation'.open
    BY <1>g, <1>4 DEF Gemini!Close
  <2>2. QED
    BY <1>0, <2>1 DEF TurnsInv
<1>5. CASE Gemini!Connect \/ Gemini!Connected \/ Gemini!ConnectFails
  <2>1. /\ UNCHANGED <<pending, future, answer, spoilt, turn, generation>>
        /\ session # "open"
    BY <1>5 DEF Gemini!Connect, Gemini!Connected, Gemini!ConnectFails
  <2>2. ~generation.open
    BY <1>0, <2>1 DEF TurnsInv
  <2>3. QED
    BY <1>u, <2>1, <2>2
<1>6. CASE Gemini!Restart \/ Gemini!TaskFails
  BY <1>g, <1>u, <1>6 DEF Gemini!Restart, Gemini!TaskFails, Gemini!Leave, Gemini!RecvEnds
<1>7. CASE Gemini!SendTakes \/ Gemini!Sent \/ Gemini!GoAway
  <2>1. UNCHANGED <<pending, future, answer, spoilt, turn, generation, session>>
    BY <1>7 DEF Gemini!SendTakes, Gemini!Sent, Gemini!GoAway
  <2>2. QED
    BY <1>u, <2>1
<1>8. CASE Gemini!TurnBegins
  <2>1. UNCHANGED <<pending, future, answer, generation, session>>
    BY <1>8 DEF Gemini!TurnBegins
  <2>2. ~spoilt' => ~spoilt /\ turn' = pending
    BY <1>8, Zenon DEF Gemini!TurnBegins
  <2>3. QED
    BY <1>0, <2>1, <2>2 DEF TurnsInv
<1>9. CASE Gemini!Content \/ Gemini!ToolCall \/ Gemini!TurnComplete
  <2>1. /\ Gemini!Begin /\ session = "open" /\ session' = session /\ turn # Gemini!NoTurn
        /\ turn' \in {turn, Gemini!NoTurn}
    BY <1>9 DEF Gemini!Content, Gemini!ToolCall, Gemini!TurnComplete
  <2>2. ~spoilt' => ~spoilt
    BY <2>1, Zenon DEF Gemini!Begin
  <2>3. CASE ~generation.open /\ Gemini!Waits
    <3>1. /\ future' = [future EXCEPT ![pending] = "resolved"]
          /\ answer' = [answer EXCEPT ![pending] = turn] /\ pending' = Gemini!NoReply
      BY <2>1, <2>3 DEF Gemini!Begin
    <3>2. pending \in Gemini!Replies
      BY <1>0, <2>3 DEF GeminiTypes, Gemini!Waits
    <3>3. \A r \in Gemini!Replies : future'[r] # "waiting"
      BY <1>0, <3>1, <3>2 DEF TurnsInv, GeminiTypes
    <3>4. ~spoilt => turn = pending
      BY <1>0, <1>n, <2>1, <3>2 DEF TurnsInv
    <3>5. ~spoilt => \A r \in Gemini!Replies : answer'[r] \in {Gemini!NoTurn, r}
      BY <1>0, <3>1, <3>4 DEF TurnsInv, GeminiTypes
    <3>6. QED
      BY <2>1, <2>2, <3>1, <3>3, <3>5 DEF TurnsInv
  <2>4. CASE ~(~generation.open /\ Gemini!Waits)
    <3>1. UNCHANGED <<pending, future, answer>>
      BY <2>1, <2>4 DEF Gemini!Begin
    <3>2. QED
      BY <1>0, <2>1, <2>2, <3>1 DEF TurnsInv
  <2>5. QED
    BY <2>3, <2>4
<1>10. CASE UNCHANGED geminiVars
  BY <1>0, <1>10 DEF geminiVars, TurnsInv
<1>11. QED
  BY <1>1, <1>2, <1>3, <1>4, <1>5, <1>6, <1>7, <1>8, <1>9, <1>10 DEF Gemini!Next

\* A step of the session keeps its options, its messages and its turns in order.
LEMMA GeminiStep == GeminiInv /\ [Gemini!Next]_geminiVars => GeminiInv'
<1> SUFFICES ASSUME GeminiInv, [Gemini!Next]_geminiVars PROVE GeminiInv'
  OBVIOUS
<1>1. GeminiFlags'
  BY GeminiFlagsStep DEF GeminiInv
<1>2. GeminiTypes'
  BY GeminiTypesStep DEF GeminiInv, MessagesInv
<1>3. QED
  BY <1>1, <1>2, OptionsStep, MessagesStep, TurnsStep DEF GeminiInv

\* What the invariant says of the session.
LEMMA GeminiImplies == GeminiInv => GeminiInStep
<1> SUFFICES ASSUME GeminiInv PROVE GeminiInStep
  OBVIOUS
<1>0. /\ GeminiTypes /\ OptionsInv /\ TurnsInv
      /\ MessageTypes /\ LogInv /\ SinceInv /\ CountInv
  BY DEF GeminiInv, MessagesInv
<1>1. Gemini!TypeOK
  <2>1. /\ options \in 0 .. MaxChanges /\ opened \in 0 .. options
        /\ Len(held) \in 0 .. 1 /\ replaced \in 0 .. queued
    BY <1>0, PartsAssumption DEF GeminiTypes, MessageTypes
  <2>2. \A r \in Gemini!Replies : future[r] \in Outcome
    BY <1>0 DEF GeminiTypes
  <2>3. generation.open \in BOOLEAN
    BY <1>0 DEF GeminiTypes
  <2>4. QED
    BY <1>0, <2>1, <2>2, <2>3 DEF GeminiTypes, Outcome, Gemini!TypeOK
<1>2. Gemini!OptionsAreCurrent /\ Gemini!GenerationEnds /\ Gemini!PendingIsKnown /\ Gemini!OwnTurn
  BY <1>0
  DEF OptionsInv, TurnsInv, Gemini!OptionsAreCurrent, Gemini!GenerationEnds,
      Gemini!PendingIsKnown, Gemini!OwnTurn
<1>3. Gemini!MessagesAreKept
  <2>1. \A i \in 1 .. Len(log) - 1 : log[i] < log[i + 1]
    <3>1. Len(log) \in Nat
      BY <1>0 DEF MessageTypes
    <3>2. \A i \in 1 .. Len(log) - 1 :
             i \in 1 .. Len(log) /\ i + 1 \in 1 .. Len(log) /\ i < i + 1
      BY <3>1
    <3>3. QED
      BY <1>0, <3>2 DEF LogInv
  <2>2. QED
    BY <1>0, <2>1 DEF SinceInv, CountInv, Gemini!MessagesAreKept
<1>4. QED
  BY <1>1, <1>2, <1>3 DEF GeminiInStep

\* The session keeps its options, its messages and its turns, whichever of the parts runs.
THEOREM GeminiKeepsStep == PartSpec => []GeminiInStep
<1>1. PartInit => GeminiInv
  BY GeminiStart DEF PartInit
<1>2. [PartNext]_partVars => [Gemini!Next]_geminiVars
  BY DEF PartNext, partVars
<1>3. GeminiInv /\ [PartNext]_partVars => GeminiInv'
  BY <1>2, GeminiStep
<1>4. QED
  BY <1>1, <1>3, GeminiImplies, PTL DEF PartSpec
-----------------------------------------------------------------------------
(* The synthesis of a text *)

\* Plugins with streams of their own, and what is or will be heard of an attempt.
Streamed == ~Tts!Chunked /\ ~Tts!Sentences
Audio    == heard \o writing \o saying

EndsIn(s, t) == /\ Len(t) <= Len(s)
                /\ \A i \in 1 .. Len(t) : s[Len(s) - Len(t) + i] = t[i]
Holds(s, b)  == ~blank => \A x \in 1 .. b * PerToken : \E k \in 1 .. Len(s) : s[k] = x

SynthesisTypes ==
    /\ Tts!TypeOK /\ cut \in BOOLEAN /\ (cut => plugin = "elevenlabs") /\ leftover = 0
    /\ heard \in Seq(Nat) /\ writing \in Seq(Nat) /\ saying \in Seq(Nat)

\* What is under way at each stage of the retries.
AttemptInv ==
    /\ conn = "none" => saying = <<>>
    /\ phase \notin {"running", "cancelled"} => conn = "none"
    /\ phase \in {"waiting", "ended", "error"} => writing = <<>>
    /\ phase = "running" /\ conn = "none" => writing = <<>>
    /\ phase \in {"waiting", "error"} => sent = base
    /\ phase = "waiting" => attempt < MaxRetry /\ ~eos
    /\ phase = "error" /\ error = "api" => attempt = MaxRetry

\* What has been sent of the text: all, when the attempt is over.
SentInv ==
    /\ words # "no" => inputEnded /\ taken = pushed
    /\ Tts!Chunked =>
          /\ inputEnded /\ taken = pushed /\ base = 0
          /\ phase = "running" /\ conn = "none" => sent = 0
          /\ phase = "running" /\ conn # "none" => sent = pushed
          /\ phase \in {"returned", "ended"} => sent = pushed
    /\ Tts!Sentences =>
          /\ phase = "running" /\ conn = "none" => sent = base
          /\ phase = "running" /\ conn # "none" => sent = base + 1
          /\ phase = "ended" => sent = base /\ (blank \/ sent = pushed)
    /\ Streamed =>
          /\ phase = "running" /\ eos => words # "no" /\ sent = taken
          /\ phase \in {"returned", "ended"} => inputEnded /\ sent = pushed

\* The audio of a stream goes up and not beyond what was sent; what this attempt sent is
\* said last; and of sentences, what was sent is said, and was if the sentence is over.
Rising ==
    /\ \A i, j \in 1 .. Len(Audio) : i < j => Audio[i] < Audio[j]
    /\ \A i \in 1 .. Len(Audio) : Audio[i] <= sent * PerToken
SaidInv ==
    /\ Streamed => Rising
    /\ ~Tts!Sentences /\ ~cut /\ phase # "cancelled" => EndsIn(Audio, Tts!Frames(base + 1, sent))
    /\ Tts!Sentences /\ phase # "cancelled" => Holds(heard, base) /\ Holds(Audio, sent)

SynthesisInv == SynthesisTypes /\ AttemptInv /\ SentInv /\ SaidInv

\* A connection of a pool, a request and a sentence are never taken to have ended early.
LEMMA KindOfPlugin ==
    ASSUME Tts!TypeOK
    PROVE  /\ plugin = "elevenlabs" => Streamed /\ ~Tts!Pooled
           /\ Tts!Sentences => ~Tts!Chunked /\ ~Tts!Pooled /\ ~Tts!Early
           /\ Tts!Done => eos /\ conn # "none" /\ (saying = <<>> \/ plugin = "elevenlabs")
           /\ Tts!Chunked => Tts!Gone = 0 /\ ~Tts!Pooled
           /\ Tts!Sentences => Tts!Gone = base
           /\ Streamed => Tts!Gone \in {sent, taken}
<1>1. plugin = "elevenlabs" => Streamed /\ ~Tts!Pooled
  BY DEF Streamed, Tts!Pooled, Tts!Chunked, Tts!Sentences, Tts!Stream, Tts!Chunks,
         Tts!Streams, Tts!Elevenlabs
<1>2. Tts!Sentences => ~Tts!Chunked /\ ~Tts!Pooled /\ ~Tts!Early
  BY DEF Tts!Pooled, Tts!Early, Tts!Chunked, Tts!Sentences, Tts!Stream, Tts!Chunks, Tts!Streams,
         Tts!Adapter
<1>3. Tts!Done => eos /\ conn # "none" /\ (saying = <<>> \/ plugin = "elevenlabs")
  BY DEF Tts!Done, Tts!AllSaid, Tts!ElevenlabsDone, Tts!CartesiaDone, Tts!DeepgramDone,
         Tts!GoogleDone, Tts!ResembleDone
<1>4. Tts!Chunked => Tts!Gone = 0 /\ ~Tts!Pooled
  <2>1. Tts!Chunked => ~Tts!Sentences /\ ~Tts!Keeps
    BY <1>2 DEF Tts!Keeps
  <2>2. QED
    BY <2>1 DEF Tts!Gone, Tts!Pooled
<1>5. Tts!Sentences => Tts!Gone = base
  <2>1. Tts!Sentences => ~Tts!Keeps
    BY DEF Tts!Keeps, Tts!Sentences, Tts!Stream, Tts!Streams, Tts!Adapter
  <2>2. QED
    BY <1>2, <2>1 DEF Tts!Gone
<1>6. Streamed => Tts!Gone \in {sent, taken}
  <2>1. Streamed => Tts!Keeps \in BOOLEAN
    BY SynthesisAssumption
    DEF Tts!TypeOK, Streamed, Tts!Keeps, Tts!Chunked, Tts!Sentences, Tts!Stream,
        Tts!Streams, Tts!Elevenlabs, Tts!Cartesia, Tts!Resemble, Tts!Deepgram, Tts!Google,
        Tts!Adapter
  <2>2. QED
    BY <2>1 DEF Streamed, Tts!Gone
<1>7. QED
  BY <1>1, <1>2, <1>3, <1>4, <1>5, <1>6

\* The numbers of the text.
LEMMA TextNumbers ==
    ASSUME Tts!TypeOK
    PROVE  /\ pushed \in Nat /\ taken \in Nat /\ sent \in Nat /\ base \in Nat
           /\ base <= sent /\ sent <= taken /\ taken <= pushed /\ pushed <= MaxTokens
           /\ attempt \in Nat /\ attempt <= MaxRetry
           /\ MaxTokens \in Nat /\ PerToken \in Nat /\ MaxRetry \in Nat
BY PartsAssumption DEF Tts!TypeOK

\* The frames that say the tokens after a, to b.
LEMMA FramesAre ==
    ASSUME NEW a \in Nat, NEW b \in Nat, a <= b
    PROVE  /\ (b - a) * PerToken \in Nat /\ a * PerToken \in Nat
           /\ Tts!Frames(a + 1, b) \in Seq(Nat)
           /\ Len(Tts!Frames(a + 1, b)) = IF blank THEN 0 ELSE (b - a) * PerToken
           /\ \A i \in 1 .. Len(Tts!Frames(a + 1, b)) : Tts!Frames(a + 1, b)[i] = a * PerToken + i
<1>1. PerToken \in Nat
  BY PartsAssumption
<1>2. /\ b - (a + 1) + 1 = b - a /\ (a + 1) - 1 = a /\ b - a \in Nat
  OBVIOUS
<1>3. (b - a) * PerToken \in Nat /\ a * PerToken \in Nat
  BY <1>1, <1>2
<1>4. CASE blank
  BY <1>3, <1>4 DEF Tts!Frames
<1>5. CASE ~blank
  <2> DEFINE n == (b - a) * PerToken
             k == a * PerToken
  <2>1. Tts!Frames(a + 1, b) = [i \in 1 .. n |-> k + i]
    BY <1>2, <1>5 DEF Tts!Frames
  <2>2. n \in Nat /\ k \in Nat
    BY <1>3
  <2> HIDE DEF n, k
  <2>3. [i \in 1 .. n |-> k + i] \in Seq(Nat)
    BY <2>2
  <2>4. Len([i \in 1 .. n |-> k + i]) = n
    BY <2>2
  <2>5. QED
    BY <1>3, <1>5, <2>1, <2>2, <2>3, <2>4 DEF n, k
<1>6. QED
  BY <1>4, <1>5

\* The audio of an attempt begins with what is heard.
LEMMA AudioIs ==
    ASSUME SynthesisTypes
    PROVE  /\ Audio \in Seq(Nat) /\ Len(Audio) \in Nat /\ Len(heard) \in Nat
           /\ Len(Audio) = Len(heard) + Len(writing) + Len(saying)
           /\ \A i \in 1 .. Len(heard) : Audio[i] = heard[i]
<1>1. heard \in Seq(Nat) /\ writing \in Seq(Nat) /\ saying \in Seq(Nat)
  BY DEF SynthesisTypes
<1>2. /\ heard \o writing \in Seq(Nat) /\ Len(heard \o writing) = Len(heard) + Len(writing)
      /\ \A i \in 1 .. Len(heard) + Len(writing) :
            i <= Len(heard) => (heard \o writing)[i] = heard[i]
  BY <1>1, ConcatProperties
<1>3. /\ Audio \in Seq(Nat) /\ Len(Audio) = Len(heard \o writing) + Len(saying)
      /\ \A i \in 1 .. Len(heard \o writing) + Len(saying) :
            i <= Len(heard \o writing) => Audio[i] = (heard \o writing)[i]
  BY <1>1, <1>2, ConcatProperties DEF Audio
<1>4. Len(heard) \in Nat /\ Len(writing) \in Nat /\ Len(saying) \in Nat
  BY <1>1
<1>5. QED
  BY <1>2, <1>3, <1>4

\* A frame is taken from the beginning of what follows.
LEMMA FrameMoves ==
    ASSUME NEW s \in Seq(Nat), NEW t \in Seq(Nat), t # <<>>
    PROVE  /\ Append(s, Head(t)) \in Seq(Nat) /\ Tail(t) \in Seq(Nat)
           /\ Append(s, Head(t)) \o Tail(t) = s \o t
<1>1. /\ Head(t) \in Nat /\ Tail(t) \in Seq(Nat) /\ Len(Tail(t)) = Len(t) - 1
      /\ \A i \in 1 .. Len(Tail(t)) : Tail(t)[i] = t[i + 1]
  BY HeadTailProperties
<1>2. <<Head(t)>> \in Seq(Nat) /\ Append(s, Head(t)) = s \o <<Head(t)>>
  BY <1>1, AppendIsConcat
<1>3. Append(s, Head(t)) \in Seq(Nat)
  BY <1>1
<1>4. <<Head(t)>> \o Tail(t) = t
  BY <1>1
<1>5. (s \o <<Head(t)>>) \o Tail(t) = s \o (<<Head(t)>> \o Tail(t))
  BY <1>1, <1>2, ConcatAssociative
<1>6. QED
  BY <1>1, <1>2, <1>3, <1>4, <1>5

\* More tokens are said in no fewer frames.
LEMMA TimesUp ==
    ASSUME NEW a \in Nat, NEW b \in Nat, a <= b
    PROVE  a * PerToken \in Nat /\ b * PerToken \in Nat /\ a * PerToken <= b * PerToken
<1> DEFINE d == b - a
<1>1. d \in Nat /\ b = a + d /\ PerToken \in Nat
  BY PartsAssumption
<1>2. (a + d) * PerToken = a * PerToken + d * PerToken
  BY <1>1
<1>3. a * PerToken \in Nat /\ d * PerToken \in Nat
  BY <1>1
<1>4. QED
  BY <1>1, <1>2, <1>3

\* Nothing says no token, and one token has its own frames.
LEMMA NoFrames == ASSUME NEW s \in Nat PROVE Len(Tts!Frames(s + 1, s)) = 0
<1>1. Len(Tts!Frames(s + 1, s)) = IF blank THEN 0 ELSE (s - s) * PerToken
  BY FramesAre
<1>2. (s - s) * PerToken = 0
  BY PartsAssumption
<1>3. QED
  BY <1>1, <1>2

LEMMA TokenFrames ==
    ASSUME NEW s \in Nat, NEW t \in Nat, t = s + 1
    PROVE  /\ Tts!Frames(s + 1, t) \in Seq(Nat)
           /\ Len(Tts!Frames(s + 1, t)) = IF blank THEN 0 ELSE PerToken
           /\ \A i \in 1 .. Len(Tts!Frames(s + 1, t)) : Tts!Frames(s + 1, t)[i] = s * PerToken + i
<1> DEFINE n == (t - s) * PerToken
           G == Tts!Frames(s + 1, t)
           k == s * PerToken
<1>1. n = PerToken
  <2>1. t - s = 1 /\ 1 * PerToken = PerToken
    BY PartsAssumption
  <2>2. QED
    BY <2>1
<1>2. s <= t
  OBVIOUS
<1>3. /\ G \in Seq(Nat) /\ Len(G) = IF blank THEN 0 ELSE n
      /\ \A i \in 1 .. Len(G) : G[i] = k + i
  BY <1>2, FramesAre
<1> HIDE DEF n, G, k
<1>4. /\ G \in Seq(Nat) /\ Len(G) = IF blank THEN 0 ELSE PerToken
      /\ \A i \in 1 .. Len(G) : G[i] = k + i
  BY <1>1, <1>3
<1>5. QED
  BY <1>4 DEF G, k

LEMMA Associative ==
    \A s, t, u \in Seq(Nat) : (s \o t) \o u = s \o (t \o u)
BY ConcatAssociative

\* The kind of a plugin is its own.
LEMMA SameKind ==
    ASSUME plugin' = plugin
    PROVE  /\ Tts!Chunked' = Tts!Chunked /\ Tts!Sentences' = Tts!Sentences
           /\ Streamed' = Streamed
BY DEF Tts!Chunked, Tts!Sentences, Streamed

\* A step that sends nothing, and loses nothing of the audio, keeps what is said.
LEMMA SaidKept ==
    ASSUME SynthesisTypes, SaidInv, Audio' = Audio, plugin' = plugin, blank' = blank,
           sent' = sent, base' = base, cut' = cut, phase' # "cancelled" => phase # "cancelled",
           \A i \in 1 .. Len(heard) : i \in 1 .. Len(heard)' /\ heard'[i] = heard[i]
    PROVE  SaidInv'
<1>1. Streamed' => Rising'
  BY SameKind DEF SaidInv, Rising
<1>2. Tts!Frames(base + 1, sent)' = Tts!Frames(base + 1, sent)
  BY DEF Tts!Frames
<1>3. ASSUME ~Tts!Sentences', ~cut', phase' # "cancelled"
      PROVE  EndsIn(Audio, Tts!Frames(base + 1, sent))'
  BY <1>2, <1>3, SameKind DEF SaidInv, EndsIn
<1>4. ASSUME Tts!Sentences', phase' # "cancelled"
      PROVE  Holds(heard, base)' /\ Holds(Audio, sent)'
  <2>1. Holds(heard, base) /\ Holds(Audio, sent)
    BY <1>4, SameKind DEF SaidInv
  <2>2. Holds(heard, base)'
    <3> SUFFICES ASSUME ~blank, NEW x \in 1 .. base * PerToken
                 PROVE  \E k \in 1 .. Len(heard)' : heard'[k] = x
      BY DEF Holds
    <3>1. PICK k \in 1 .. Len(heard) : heard[k] = x
      BY <2>1 DEF Holds
    <3>2. QED
      BY <3>1
  <2>3. QED
    BY <2>1, <2>2 DEF Holds
<1>5. QED
  BY <1>1, <1>3, <1>4 DEF SaidInv

\* Audio that will not be heard is dropped, when the attempt is over.
LEMMA SaidDropped ==
    ASSUME SynthesisTypes, SaidInv, plugin' = plugin, blank' = blank,
           heard' = heard, writing' = <<>>, saying' = <<>>, sent' \in Nat, base' \in Nat,
           Streamed => sent <= sent',
           phase' # "cancelled" => /\ phase # "cancelled" /\ base' = sent'
                                   /\ Tts!Sentences => base' = base
    PROVE  SaidInv'
<1>1. heard \in Seq(Nat) /\ sent \in Nat /\ base \in Nat
  BY TextNumbers DEF SynthesisTypes
<1>2. Audio' = heard
  <2>1. heard \o <<>> = heard
    BY <1>1, ConcatEmptySeq
  <2>2. QED
    BY <2>1 DEF Audio
<1>3. ASSUME Streamed PROVE Rising'
  <2>1. Rising
    BY <1>3 DEF SaidInv
  <2>2. \A i \in 1 .. Len(heard) : i \in 1 .. Len(Audio) /\ Audio[i] = heard[i] /\ Audio[i] \in Nat
    <3>1. /\ Audio \in Seq(Nat) /\ Len(heard) \in Nat
          /\ Len(Audio) = Len(heard) + Len(writing) + Len(saying)
          /\ \A i \in 1 .. Len(heard) : Audio[i] = heard[i]
      BY AudioIs
    <3>2. Len(writing) \in Nat /\ Len(saying) \in Nat
      BY DEF SynthesisTypes
    <3>3. \A i \in 1 .. Len(heard) : i \in 1 .. Len(Audio)
      BY <3>1, <3>2
    <3>4. QED
      BY <3>1, <3>3
  <2>3. \A i, j \in 1 .. Len(heard) : i < j => heard[i] < heard[j]
    BY <2>1, <2>2 DEF Rising
  <2>4. \A i \in 1 .. Len(heard) : heard[i] <= sent' * PerToken
    <3>1. sent * PerToken \in Nat /\ sent' * PerToken \in Nat
          /\ sent * PerToken <= sent' * PerToken
      BY <1>1, <1>3, TimesUp
    <3>2. QED
      BY <2>1, <2>2, <3>1 DEF Rising
  <2>5. QED
    BY <1>2, <2>3, <2>4 DEF Rising
<1>4. ASSUME phase' # "cancelled" PROVE EndsIn(Audio, Tts!Frames(base + 1, sent))'
  <2>1. base' = sent'
    BY <1>4
  <2>3. Len(Tts!Frames(sent' + 1, sent')) = 0
    BY NoFrames
  <2>4. Tts!Frames(base + 1, sent)' = Tts!Frames(sent' + 1, sent')
    BY <2>1 DEF Tts!Frames
  <2>5. Len(heard) \in Nat
    BY <1>1
  <2>6. QED
    BY <1>2, <2>3, <2>4, <2>5 DEF EndsIn
<1>5. ASSUME Tts!Sentences', phase' # "cancelled"
      PROVE  Holds(heard, base)' /\ Holds(Audio, sent)'
  <2>1. Holds(heard, base) /\ base' = base /\ sent' = base
    BY <1>5, SameKind DEF SaidInv
  <2>2. QED
    BY <1>2, <2>1 DEF Holds
<1>6. QED
  BY <1>3, <1>4, <1>5, SameKind DEF SaidInv

\* An attempt that fails leaves the audio that was heard, and the text that it did not take.
LEMMA FailKeeps ==
    ASSUME SynthesisInv, NEW outcome, Tts!Fail(outcome), phase \in {"running", "returned"},
           plugin' = plugin, blank' = blank, pushed' = pushed, inputEnded' = inputEnded,
           taken' = taken, heard' = heard, attempt' = attempt, cut' = cut,
           leftover' = leftover, ready' \in {"none", "open", "closed"},
           words' \in {"no", "now", "before"}, words' # "no" => inputEnded /\ taken = pushed
    PROVE  SynthesisInv'
<1>0. SynthesisTypes /\ AttemptInv /\ SentInv /\ SaidInv /\ Tts!TypeOK
  BY DEF SynthesisInv, SynthesisTypes
<1>1. /\ conn' = "none" /\ saying' = <<>> /\ eos' = FALSE /\ writing' = <<>>
      /\ base' = Tts!Gone /\ sent' = Tts!Gone /\ error' = outcome
      /\ phase' = IF outcome = "api" /\ attempt < MaxRetry THEN "waiting" ELSE "error"
  BY DEF Tts!Fail
<1>2. /\ Tts!Chunked => Tts!Gone = 0
      /\ Tts!Sentences => Tts!Gone = base
      /\ Streamed => Tts!Gone \in {sent, taken}
      /\ Tts!Chunked \/ Tts!Sentences \/ Streamed
  BY <1>0, KindOfPlugin DEF Streamed
<1>3. /\ pushed \in Nat /\ taken \in Nat /\ sent \in Nat /\ base \in Nat
      /\ base <= sent /\ sent <= taken /\ taken <= pushed /\ pushed <= MaxTokens
      /\ attempt \in Nat /\ attempt <= MaxRetry /\ MaxRetry \in Nat /\ MaxTokens \in Nat
  BY <1>0, TextNumbers
<1>4. Tts!Gone \in Nat /\ Tts!Gone <= taken /\ (Streamed => sent <= Tts!Gone)
  BY <1>2, <1>3 DEF Streamed
<1>5. SynthesisTypes'
  <2>1. Tts!TypeOK'
    BY <1>0, <1>1, <1>3, <1>4 DEF Tts!TypeOK
  <2>2. QED
    BY <1>0, <1>1, <2>1 DEF SynthesisTypes
<1>6. AttemptInv'
  BY <1>1, <1>3 DEF AttemptInv
<1>7. SentInv'
  BY <1>0, <1>1, <1>2, SameKind DEF SentInv
<1>8. SaidInv'
  BY <1>0, <1>1, <1>2, <1>4, SaidDropped
<1>9. QED
  BY <1>5, <1>6, <1>7, <1>8 DEF SynthesisInv

\* Steps that leave the audio alone.
LEMMA AudioStays ==
    ASSUME SynthesisInv, plugin' = plugin, blank' = blank, sent' = sent, base' = base,
           cut' = cut, heard' = heard, writing' = writing, saying' = saying,
           phase' # "cancelled" => phase # "cancelled"
    PROVE  SaidInv'
<1>1. Audio' = Audio
  BY DEF Audio
<1>2. QED
  BY <1>1, SaidKept DEF SynthesisInv

\* The text, the retries, and what the service and the sender do beside the audio.
LEMMA QuietStep ==
    ASSUME SynthesisInv,
           \/ Tts!PushText \/ Tts!EndInput \/ Tts!TakeText \/ Tts!ServiceCloses
           \/ Tts!ServiceClosesPooled \/ Tts!SendEos \/ Tts!NoText \/ Tts!Retry
           \/ UNCHANGED ttsVars
    PROVE  SynthesisInv'
<1>0. SynthesisTypes /\ AttemptInv /\ SentInv /\ SaidInv /\ Tts!TypeOK
  BY DEF SynthesisInv, SynthesisTypes
<1>1. /\ pushed \in Nat /\ taken \in Nat /\ sent \in Nat /\ base \in Nat
      /\ base <= sent /\ sent <= taken /\ taken <= pushed /\ pushed <= MaxTokens
      /\ attempt \in Nat /\ attempt <= MaxRetry /\ MaxRetry \in Nat /\ MaxTokens \in Nat
  BY <1>0, TextNumbers
<1>2. Streamed <=> ~Tts!Chunked /\ ~Tts!Sentences
  BY DEF Streamed
<1>3. CASE Tts!PushText
  <2>0. /\ phase \notin {"ended", "error", "cancelled"} /\ ~inputEnded /\ pushed < MaxTokens
        /\ pushed' = pushed + 1
        /\ UNCHANGED <<plugin, blank, inputEnded, taken, sent, base, words, conn, saying, eos,
                       ready, leftover, writing, counted, heard, attempt, error, cut, phase>>
    BY <1>3 DEF Tts!PushText, Tts!Over, Tts!wordVars, Tts!connVars, Tts!poolVars,
       Tts!emitterVars, Tts!retryVars
  <2>1. SynthesisTypes'
    BY <1>0, <1>1, <2>0 DEF SynthesisTypes, Tts!TypeOK
  <2>2. AttemptInv'
    BY <1>0, <2>0 DEF AttemptInv
  <2>3. SentInv'
    BY <1>0, <1>2, <2>0, SameKind DEF SentInv
  <2>4. QED
    BY <2>0, <2>1, <2>2, <2>3, AudioStays DEF SynthesisInv
<1>4. CASE Tts!EndInput
  <2>0. /\ inputEnded' = TRUE
        /\ UNCHANGED <<plugin, blank, pushed, taken, sent, base, words, conn, saying, eos,
                       ready, leftover, writing, counted, heard, attempt, error, cut, phase>>
    BY <1>4 DEF Tts!EndInput, Tts!wordVars, Tts!connVars, Tts!poolVars, Tts!emitterVars,
       Tts!retryVars
  <2>1. SynthesisTypes'
    BY <1>0, <2>0 DEF SynthesisTypes, Tts!TypeOK
  <2>2. AttemptInv'
    BY <1>0, <2>0 DEF AttemptInv
  <2>3. SentInv'
    BY <1>0, <1>2, <2>0, SameKind DEF SentInv
  <2>4. QED
    BY <2>0, <2>1, <2>2, <2>3, AudioStays DEF SynthesisInv
<1>5. CASE Tts!TakeText
  <2>0. /\ phase = "running" /\ taken < pushed /\ ~Tts!Chunked
        /\ taken' = taken + 1
        /\ UNCHANGED <<plugin, blank, pushed, inputEnded, sent, base, words, conn, saying, eos,
                       ready, leftover, writing, counted, heard, attempt, error, cut, phase>>
    BY <1>5 DEF Tts!TakeText, Tts!Running, Tts!textVars, Tts!connVars, Tts!poolVars,
       Tts!emitterVars, Tts!retryVars
  <2>1. SynthesisTypes'
    BY <1>0, <1>1, <2>0 DEF SynthesisTypes, Tts!TypeOK
  <2>2. AttemptInv'
    BY <1>0, <2>0 DEF AttemptInv
  <2>3. SentInv'
    BY <1>0, <1>1, <1>2, <2>0, SameKind DEF SentInv
  <2>4. QED
    BY <2>0, <2>1, <2>2, <2>3, AudioStays DEF SynthesisInv
<1>6. CASE Tts!ServiceCloses \/ Tts!ServiceClosesPooled
  <2>0. /\ conn' = conn \/ (conn = "open" /\ conn' = "closed")
        /\ ready' \in {ready, "closed"}
        /\ UNCHANGED <<plugin, blank, pushed, inputEnded, taken, sent, base, words, saying, eos,
                       leftover, writing, counted, heard, attempt, error, cut, phase>>
    BY <1>6 DEF Tts!ServiceCloses, Tts!ServiceClosesPooled, Tts!textVars, Tts!wordVars,
       Tts!connVars, Tts!poolVars, Tts!emitterVars, Tts!retryVars
  <2>1. SynthesisTypes'
    BY <1>0, <2>0 DEF SynthesisTypes, Tts!TypeOK
  <2>2. AttemptInv'
    BY <1>0, <2>0 DEF AttemptInv
  <2>3. SentInv'
    BY <1>0, <1>2, <2>0, SameKind DEF SentInv
  <2>4. QED
    BY <2>0, <2>1, <2>2, <2>3, AudioStays DEF SynthesisInv
<1>7. CASE Tts!SendEos
  <2>0. /\ phase = "running" /\ Streamed /\ sent = taken /\ words # "no"
        /\ UNCHANGED <<plugin, blank, pushed, inputEnded, taken, sent, base, words, conn, saying,
                       ready, leftover, writing, counted, heard, attempt, error, cut, phase>>
    BY <1>7 DEF Tts!SendEos, Tts!Streaming, Tts!Running, Streamed, Tts!textVars, Tts!wordVars,
       Tts!poolVars, Tts!emitterVars, Tts!retryVars
  <2>1. SynthesisTypes'
    BY <1>0, <2>0 DEF SynthesisTypes, Tts!TypeOK
  <2>2. AttemptInv'
    BY <1>0, <2>0 DEF AttemptInv
  <2>3. SentInv'
    BY <1>0, <1>2, <2>0, SameKind DEF SentInv
  <2>4. QED
    BY <2>0, <2>1, <2>2, <2>3, AudioStays DEF SynthesisInv
<1>8. CASE Tts!NoText
  <2>0. /\ phase = "running" /\ ~Tts!Chunked /\ conn = "none" /\ words = "now"
        /\ sent = taken \/ (Tts!Sentences /\ blank)
        /\ phase' = IF Tts!Sentences THEN "ended" ELSE "returned"
        /\ UNCHANGED <<plugin, blank, pushed, inputEnded, taken, sent, base, words, conn, saying,
                       eos, ready, leftover, writing, counted, heard, attempt, error, cut>>
    BY <1>8 DEF Tts!NoText, Tts!Running, Tts!textVars, Tts!wordVars, Tts!connVars, Tts!poolVars,
       Tts!emitterVars, Tts!retryVars
  <2>1. SynthesisTypes'
    BY <1>0, <2>0 DEF SynthesisTypes, Tts!TypeOK
  <2>2. AttemptInv'
    BY <1>0, <2>0 DEF AttemptInv
  <2>3. SentInv'
    BY <1>0, <1>2, <2>0, SameKind DEF SentInv
  <2>4. QED
    BY <2>0, <2>1, <2>2, <2>3, AudioStays DEF SynthesisInv
<1>9. CASE Tts!Retry
  <2>0. /\ phase = "waiting" /\ phase' = "running" /\ attempt' = attempt + 1
        /\ words' \in {"no", "now", "before"} /\ (words' # "no" => words # "no")
        /\ UNCHANGED <<plugin, blank, pushed, inputEnded, taken, sent, base, conn, saying, eos,
                       ready, leftover, writing, heard, error, cut>>
    <3>1. Tts!Keeps => ~Tts!Chunked /\ ~Tts!Sentences
      BY DEF Tts!Keeps, Tts!Sentences, Tts!Stream, Tts!Streams, Tts!Adapter
    <3>2. words' = CASE Tts!Chunked \/ Tts!Sentences -> words
                     [] Tts!Keeps /\ words # "no" -> "before" [] OTHER -> "no"
      BY <1>9 DEF Tts!Retry
    <3>3. words' \in {"no", "now", "before"} /\ (words' # "no" => words # "no")
      BY <1>0, <3>1, <3>2 DEF Tts!TypeOK
    <3>4. QED
      BY <1>9, <3>3 DEF Tts!Retry, Tts!textVars, Tts!connVars, Tts!poolVars
  <2>1. conn = "none" /\ sent = base /\ writing = <<>> /\ attempt < MaxRetry /\ ~eos
    BY <1>0, <2>0 DEF AttemptInv
  <2>2. SynthesisTypes'
    BY <1>0, <1>1, <2>0, <2>1 DEF SynthesisTypes, Tts!TypeOK
  <2>3. AttemptInv'
    BY <1>0, <2>0, <2>1 DEF AttemptInv
  <2>4. SentInv'
    BY <1>0, <1>2, <2>0, <2>1, SameKind DEF SentInv
  <2>5. SaidInv'
    <3>1. phase # "cancelled"
      BY <2>0
    <3>2. QED
      BY <2>0, <3>1, AudioStays
  <2>6. QED
    BY <2>2, <2>3, <2>4, <2>5 DEF SynthesisInv
<1>10. CASE UNCHANGED ttsVars
  <2>1. SynthesisTypes' /\ AttemptInv'
    BY <1>0, <1>10 DEF ttsVars, SynthesisTypes, Tts!TypeOK, AttemptInv
  <2>2. SentInv'
    BY <1>0, <1>10, SameKind DEF SentInv, ttsVars
  <2>3. QED
    BY <1>10, <2>1, <2>2, AudioStays DEF SynthesisInv, ttsVars
<1>11. QED
  BY <1>3, <1>4, <1>5, <1>6, <1>7, <1>8, <1>9, <1>10

\* The steps that may fail.
LEMMA FailStep ==
    ASSUME SynthesisInv,
           Tts!TakeEnd \/ Tts!ConnectFails \/ Tts!Refuse \/ Tts!ReceiveClose
    PROVE  SynthesisInv'
<1>0. SynthesisTypes /\ AttemptInv /\ SentInv /\ SaidInv /\ Tts!TypeOK
  BY DEF SynthesisInv, SynthesisTypes
<1>1. CASE Tts!TakeEnd
  <2>0. /\ phase = "running" /\ inputEnded /\ taken = pushed /\ words' = "now"
        /\ UNCHANGED <<plugin, blank, pushed, inputEnded, taken, ready, leftover, heard,
                       attempt, cut>>
    BY <1>1 DEF Tts!TakeEnd, Tts!Running, Tts!textVars, Tts!poolVars
  <2>1. CASE Tts!Fail("api")
    BY <1>0, <2>0, <2>1, FailKeeps DEF Tts!TypeOK
  <2>2. CASE ~Tts!Fail("api")
    <3>1. UNCHANGED <<sent, base, conn, saying, eos, writing, error, phase>>
      BY <1>1, <2>2 DEF Tts!TakeEnd, Tts!connVars
    <3>2. SynthesisTypes' /\ AttemptInv'
      BY <1>0, <2>0, <3>1 DEF SynthesisTypes, Tts!TypeOK, AttemptInv
    <3>3. SentInv'
      BY <1>0, <2>0, <3>1, SameKind DEF SentInv
    <3>4. QED
      BY <2>0, <3>1, <3>2, <3>3, AudioStays DEF SynthesisInv
  <2>3. QED
    BY <2>1, <2>2
<1>2. CASE Tts!ConnectFails \/ Tts!Refuse \/ Tts!ReceiveClose
  <2>0. /\ phase = "running"
        /\ UNCHANGED <<plugin, blank, pushed, inputEnded, taken, words, ready, leftover, heard,
                       attempt, cut>>
    BY <1>2 DEF Tts!ConnectFails, Tts!Refuse, Tts!ReceiveClose, Tts!Running, Tts!textVars,
       Tts!poolVars
  <2>1. PICK outcome : Tts!Fail(outcome)
    BY <1>2 DEF Tts!ConnectFails, Tts!Refuse, Tts!ReceiveClose
  <2>2. ready' \in {"none", "open", "closed"} /\ words' \in {"no", "now", "before"}
        /\ (words' # "no" => inputEnded /\ taken = pushed)
    BY <1>0, <2>0 DEF Tts!TypeOK, SentInv
  <2>3. QED
    BY <2>0, <2>1, <2>2, FailKeeps
<1>3. QED
  BY <1>1, <1>2

\* aclose() drops what was not heard.
LEMMA CloseStep ==
    ASSUME SynthesisInv, Tts!Close
    PROVE  SynthesisInv'
<1>0. SynthesisTypes /\ AttemptInv /\ SentInv /\ SaidInv /\ Tts!TypeOK
  BY DEF SynthesisInv, SynthesisTypes
<1>1. /\ phase' = "cancelled" /\ conn' = "none" /\ saying' = <<>> /\ writing' = <<>>
      /\ UNCHANGED <<plugin, blank, pushed, inputEnded, taken, sent, base, words, eos, ready,
                     leftover, counted, heard, attempt, error, cut>>
  BY DEF Tts!Close, Tts!textVars, Tts!wordVars, Tts!poolVars, Tts!retryVars
<1>2. SynthesisTypes'
  BY <1>0, <1>1 DEF SynthesisTypes, Tts!TypeOK
<1>3. AttemptInv'
  BY <1>1 DEF AttemptInv
<1>4. SentInv'
  BY <1>0, <1>1, SameKind DEF SentInv
<1>5. SaidInv'
  <2>1. sent \in Nat /\ base \in Nat
    BY <1>0, TextNumbers
  <2>2. QED
    BY <1>0, <1>1, <2>1, SaidDropped
<1>6. QED
  BY <1>2, <1>3, <1>4, <1>5 DEF SynthesisInv

\* Frames are received, and passed on, in their order.
LEMMA FrameStep ==
    ASSUME SynthesisInv, Tts!ReceiveAudio \/ Tts!EmitFrame
    PROVE  SynthesisInv'
<1>0. SynthesisTypes /\ AttemptInv /\ SentInv /\ SaidInv /\ Tts!TypeOK
  BY DEF SynthesisInv, SynthesisTypes
<1>1. heard \in Seq(Nat) /\ writing \in Seq(Nat) /\ saying \in Seq(Nat)
  BY <1>0 DEF SynthesisTypes
<1>2. CASE Tts!ReceiveAudio
  <2>0. /\ phase = "running" /\ conn = "open" /\ saying # <<>>
        /\ writing' = Append(writing, Head(saying)) /\ saying' = Tail(saying)
        /\ UNCHANGED <<plugin, blank, pushed, inputEnded, taken, sent, base, words, conn, eos,
                       ready, leftover, counted, heard, attempt, error, cut, phase>>
    BY <1>2 DEF Tts!ReceiveAudio, Tts!Running, Tts!textVars, Tts!wordVars, Tts!poolVars,
       Tts!retryVars
  <2>1. /\ writing' \in Seq(Nat) /\ saying' \in Seq(Nat)
        /\ writing' \o saying' = writing \o saying
    BY <1>1, <2>0, FrameMoves
  <2>2. Audio' = Audio
    <3>1. heard \o writing \o saying = heard \o (writing \o saying)
      BY <1>1, Associative
    <3>2. heard \o writing' \o saying' = heard \o (writing' \o saying')
      BY <1>1, <2>1, Associative
    <3>3. Audio' = heard \o writing' \o saying'
      BY <2>0 DEF Audio
    <3>4. heard \o (writing' \o saying') = heard \o (writing \o saying)
      BY <2>1
    <3>5. QED
      BY <3>1, <3>2, <3>3, <3>4, Zenon DEF Audio
  <2>3. SynthesisTypes'
    BY <1>0, <2>0, <2>1 DEF SynthesisTypes, Tts!TypeOK
  <2>4. AttemptInv'
    BY <1>0, <2>0 DEF AttemptInv
  <2>5. SentInv'
    BY <1>0, <2>0, SameKind DEF SentInv
  <2>6. SaidInv'
    BY <1>0, <2>0, <2>2, SaidKept
  <2>7. QED
    BY <2>3, <2>4, <2>5, <2>6 DEF SynthesisInv
<1>3. CASE Tts!EmitFrame
  <2>0. /\ writing # <<>> /\ phase \notin {"ended", "error", "cancelled"}
        /\ writing' = Tail(writing) /\ heard' = Append(heard, Head(writing))
        /\ UNCHANGED <<plugin, blank, pushed, inputEnded, taken, sent, base, words, conn, saying,
                       eos, ready, leftover, attempt, error, cut, phase>>
    BY <1>3 DEF Tts!EmitFrame, Tts!Over, Tts!textVars, Tts!wordVars, Tts!connVars, Tts!poolVars,
       Tts!retryVars
  <2>1. /\ heard' \in Seq(Nat) /\ writing' \in Seq(Nat)
        /\ heard' \o writing' = heard \o writing
    BY <1>1, <2>0, FrameMoves
  <2>2. Audio' = Audio
    BY <2>0, <2>1 DEF Audio
  <2>3. SynthesisTypes'
    BY <1>0, <2>0, <2>1 DEF SynthesisTypes, Tts!TypeOK
  <2>4. AttemptInv'
    BY <1>0, <2>0 DEF AttemptInv
  <2>5. SentInv'
    BY <1>0, <2>0, SameKind DEF SentInv
  <2>6. \A i \in 1 .. Len(heard) : i \in 1 .. Len(heard)' /\ heard'[i] = heard[i]
    <3>1. Head(writing) \in Nat /\ Len(heard) \in Nat
      BY <1>1, <2>0
    <3>2. /\ Len(heard') = Len(heard) + 1
          /\ \A i \in 1 .. Len(heard) : heard'[i] = heard[i]
      BY <1>1, <2>0, <3>1, AppendProperties
    <3>3. QED
      BY <3>1, <3>2
  <2>7. SaidInv'
    BY <1>0, <2>0, <2>2, <2>6, SaidKept
  <2>8. QED
    BY <2>3, <2>4, <2>5, <2>7 DEF SynthesisInv
<1>4. QED
  BY <1>2, <1>3

\* A token is sent: it is said after all that was sent before.
LEMMA TokenStep ==
    ASSUME SynthesisInv, Tts!SendToken
    PROVE  SynthesisInv'
<1>0. SynthesisTypes /\ AttemptInv /\ SentInv /\ SaidInv /\ Tts!TypeOK
  BY DEF SynthesisInv, SynthesisTypes
<1>1. /\ phase = "running" /\ Streamed /\ conn = "open" /\ ~eos /\ sent < taken
      /\ sent' = sent + 1 /\ saying' = saying \o Tts!Frames(sent + 1, sent + 1)
      /\ UNCHANGED <<plugin, blank, pushed, inputEnded, taken, base, words, conn, eos, ready,
                     leftover, writing, counted, heard, attempt, error, cut, phase>>
  BY DEF Tts!SendToken, Tts!Streaming, Tts!Running, Streamed, Tts!textVars, Tts!poolVars,
     Tts!emitterVars, Tts!retryVars
<1>2. /\ pushed \in Nat /\ taken \in Nat /\ sent \in Nat /\ base \in Nat
      /\ base <= sent /\ sent <= taken /\ PerToken \in Nat
  BY <1>0, TextNumbers
<1>3. heard \in Seq(Nat) /\ writing \in Seq(Nat) /\ saying \in Seq(Nat)
  BY <1>0 DEF SynthesisTypes
<1> DEFINE G == Tts!Frames(sent + 1, sent + 1)
           F == Tts!Frames(base + 1, sent)
           H == Tts!Frames(base + 1, sent + 1)
           p == sent * PerToken
           q == base * PerToken
           n == (sent - base) * PerToken
<1>4. /\ p \in Nat /\ q \in Nat /\ n \in Nat /\ p = q + n
      /\ (sent + 1) * PerToken = p + PerToken
      /\ (sent + 1 - sent) * PerToken = PerToken
      /\ (sent + 1 - base) * PerToken = n + PerToken
  <2>1. DEFINE d == sent - base
  <2>2. d \in Nat /\ sent = base + d /\ sent + 1 - base = d + 1 /\ sent + 1 - sent = 1
    BY <1>2
  <2>3. (base + d) * PerToken = base * PerToken + d * PerToken
    BY <1>2, <2>2
  <2>4. (d + 1) * PerToken = d * PerToken + PerToken
    BY <1>2, <2>2
  <2>5. (sent + 1) * PerToken = sent * PerToken + PerToken
    BY <1>2
  <2>6. 1 * PerToken = PerToken
    BY <1>2
  <2>7. p \in Nat /\ q \in Nat /\ n \in Nat
    BY <1>2, <2>2
  <2>8. QED
    BY <2>2, <2>3, <2>4, <2>5, <2>6, <2>7
<1>5. /\ G \in Seq(Nat) /\ Len(G) = (IF blank THEN 0 ELSE PerToken)
      /\ \A i \in 1 .. Len(G) : G[i] = p + i
  BY <1>2, <1>4, FramesAre
<1>6. /\ F \in Seq(Nat) /\ Len(F) = (IF blank THEN 0 ELSE n)
      /\ \A i \in 1 .. Len(F) : F[i] = q + i
  BY <1>2, <1>4, FramesAre
<1>7. /\ H \in Seq(Nat) /\ Len(H) = (IF blank THEN 0 ELSE n + PerToken)
      /\ \A i \in 1 .. Len(H) : H[i] = q + i
  BY <1>2, <1>4, FramesAre
<1>8. /\ Audio \in Seq(Nat) /\ Len(Audio) \in Nat
      /\ Audio' = Audio \o G /\ saying' \in Seq(Nat)
  <2>1. Audio \in Seq(Nat) /\ Len(Audio) \in Nat /\ heard \o writing \in Seq(Nat)
    BY <1>0, <1>3, AudioIs, ConcatProperties
  <2>2. ((heard \o writing) \o saying) \o G = (heard \o writing) \o (saying \o G)
    BY <1>3, <1>5, <2>1, Associative
  <2>3. saying' \in Seq(Nat)
    BY <1>1, <1>3, <1>5, ConcatProperties
  <2>4. QED
    BY <1>1, <2>1, <2>2, <2>3 DEF Audio
<1> HIDE DEF G, F, H, p, q, n
<1>9. /\ Len(G) \in Nat /\ Len(Audio \o G) = Len(Audio) + Len(G)
      /\ \A i \in 1 .. Len(Audio) : (Audio \o G)[i] = Audio[i]
      /\ \A i \in 1 .. Len(G) : (Audio \o G)[Len(Audio) + i] = p + i
  <2>1. /\ Len(Audio \o G) = Len(Audio) + Len(G)
        /\ \A i \in 1 .. Len(Audio) + Len(G) :
              (Audio \o G)[i] = IF i <= Len(Audio) THEN Audio[i] ELSE G[i - Len(Audio)]
    BY <1>5, <1>8, ConcatProperties
  <2>2. Len(G) \in Nat
    BY <1>5
  <2>3. QED
    BY <1>5, <1>8, <2>1, <2>2
<1>10. Rising'
  <2>1. /\ \A i, j \in 1 .. Len(Audio) : i < j => Audio[i] < Audio[j]
        /\ \A i \in 1 .. Len(Audio) : Audio[i] <= p
        /\ \A i \in 1 .. Len(Audio) : Audio[i] \in Nat
    BY <1>0, <1>1, <1>8 DEF SaidInv, Rising, p
  <2>2. Len(G) <= PerToken
    BY <1>2, <1>5
  <2>3. ASSUME NEW i \in 1 .. Len(Audio \o G)
        PROVE  \/ i \in 1 .. Len(Audio) /\ (Audio \o G)[i] = Audio[i]
               \/ i - Len(Audio) \in 1 .. Len(G) /\ (Audio \o G)[i] = p + (i - Len(Audio))
    <3>1. CASE i <= Len(Audio)
      BY <1>8, <1>9, <3>1
    <3>2. CASE i > Len(Audio)
      <4>1. i - Len(Audio) \in 1 .. Len(G) /\ i = Len(Audio) + (i - Len(Audio))
        BY <1>8, <1>9, <3>2
      <4>2. QED
        BY <1>9, <4>1
    <3>3. QED
      BY <1>8, <1>9, <3>1, <3>2
  <2>4. \A i \in 1 .. Len(Audio \o G) : (Audio \o G)[i] <= p + PerToken
    BY <1>2, <1>4, <1>9, <2>1, <2>2, <2>3
  <2>5. ASSUME NEW i \in 1 .. Len(Audio \o G), NEW j \in 1 .. Len(Audio \o G), i < j
        PROVE  (Audio \o G)[i] < (Audio \o G)[j]
    <3>1. CASE j \in 1 .. Len(Audio)
      BY <1>8, <1>9, <2>1, <2>5, <3>1
    <3>2. CASE j \notin 1 .. Len(Audio)
      <4>1. j - Len(Audio) \in 1 .. Len(G) /\ (Audio \o G)[j] = p + (j - Len(Audio))
        BY <2>3, <3>2
      <4>2. QED
        BY <1>4, <1>8, <1>9, <2>1, <2>3, <2>5, <4>1
    <3>3. QED
      BY <3>1, <3>2
  <2>6. QED
    BY <1>1, <1>4, <1>8, <2>4, <2>5 DEF Rising
<1>11. ASSUME ~cut PROVE EndsIn(Audio', H)
  <2>1. EndsIn(Audio, F)
    BY <1>0, <1>1, <1>11 DEF SaidInv, Streamed, F
  <2>2. CASE blank
    <3>1. Len(H) = 0
      BY <1>7, <2>2
    <3>2. QED
      BY <1>8, <1>9, <3>1 DEF EndsIn
  <2>3. CASE ~blank
    <3>1. /\ Len(G) = PerToken /\ Len(F) = n /\ Len(H) = n + PerToken
          /\ n <= Len(Audio) /\ Len(Audio') = Len(Audio) + PerToken
      BY <1>5, <1>6, <1>7, <1>8, <1>9, <2>1, <2>3 DEF EndsIn
    <3>2. ASSUME NEW i \in 1 .. n + PerToken
          PROVE  Audio'[Len(Audio) - n + i] = q + i
      <4>2. CASE i <= n
        <5>1. i \in 1 .. n /\ Len(Audio) - n + i \in 1 .. Len(Audio)
          BY <1>4, <1>8, <3>1, <4>2
        <5>2. Audio[Len(Audio) - n + i] = q + i
          BY <1>6, <2>1, <3>1, <5>1 DEF EndsIn
        <5>3. QED
          BY <1>8, <1>9, <5>1, <5>2
      <4>3. CASE i > n
        <5>1. i - n \in 1 .. PerToken /\ Len(Audio) - n + i = Len(Audio) + (i - n)
          BY <1>2, <1>4, <1>8, <4>3
        <5>2. (Audio \o G)[Len(Audio) + (i - n)] = p + (i - n)
          BY <1>9, <3>1, <5>1
        <5>3. p + (i - n) = q + i
          BY <1>4
        <5>4. QED
          BY <1>8, <5>1, <5>2, <5>3
      <4>4. QED
        BY <1>2, <1>4, <4>2, <4>3
    <3>3. Len(H) <= Len(Audio')
      BY <1>2, <1>4, <1>8, <3>1
    <3>4. \A i \in 1 .. Len(H) : Audio'[Len(Audio') - Len(H) + i] = H[i]
      <4>1. Len(Audio') - Len(H) = Len(Audio) - n
        BY <1>2, <1>4, <1>8, <3>1
      <4>2. QED
        BY <1>7, <3>1, <3>2, <4>1
    <3>5. QED
      BY <3>3, <3>4 DEF EndsIn
  <2>4. QED
    BY <2>2, <2>3
<1>12. SaidInv'
  <2>1. Tts!Frames(base + 1, sent)' = H
    BY <1>1 DEF Tts!Frames, H
  <2>2. EndsIn(Audio, Tts!Frames(base + 1, sent))' <=> EndsIn(Audio', H)
    BY <2>1 DEF EndsIn
  <2>3. ~Tts!Sentences'
    BY <1>1, SameKind DEF Streamed
  <2>4. QED
    BY <1>1, <1>10, <1>11, <2>2, <2>3 DEF SaidInv
<1>13. SynthesisTypes'
  <2>1. Tts!TypeOK'
    BY <1>0, <1>1, <1>2 DEF Tts!TypeOK
  <2>2. QED
    BY <1>0, <1>1, <1>8, <2>1 DEF SynthesisTypes
<1>14. AttemptInv'
  BY <1>0, <1>1 DEF AttemptInv
<1>15. SentInv'
  BY <1>0, <1>1, SameKind DEF SentInv, Streamed
<1>16. QED
  BY <1>12, <1>13, <1>14, <1>15 DEF SynthesisInv

\* A connection is opened or taken, and a request sent over it.
LEMMA ConnectStep ==
    ASSUME SynthesisInv, Tts!Connect
    PROVE  SynthesisInv'
<1>0. SynthesisTypes /\ AttemptInv /\ SentInv /\ SaidInv /\ Tts!TypeOK
  BY DEF SynthesisInv, SynthesisTypes
<1>1. /\ phase = "running" /\ conn = "none" /\ writing = <<>> /\ saying = <<>>
      /\ UNCHANGED <<plugin, blank, pushed, inputEnded, taken, base, words, writing, counted,
                     heard, attempt, error, cut, phase>>
  BY <1>0 DEF AttemptInv, Tts!Connect, Tts!Running, Tts!Wants, Tts!textVars, Tts!emitterVars,
     Tts!retryVars
<1>2. conn' \in {"open", "closed"} /\ leftover' = 0 /\ ready' \in {"none", "open", "closed"}
  BY <1>0 DEF Tts!Connect, Tts!poolVars, SynthesisTypes, Tts!TypeOK
<1>3. /\ pushed \in Nat /\ taken \in Nat /\ sent \in Nat /\ base \in Nat
      /\ base <= sent /\ sent <= taken /\ taken <= pushed
      /\ PerToken \in Nat /\ heard \in Seq(Nat)
  BY <1>0, TextNumbers DEF SynthesisTypes
<1>4. Tts!Sentences => ~Tts!Chunked /\ ~Tts!Early
  BY <1>0, KindOfPlugin
<1>5. CASE Streamed
  <2>1. UNCHANGED <<saying, sent, eos>>
    BY <1>5 DEF Tts!Connect, Streamed
  <2>2. SynthesisTypes' /\ AttemptInv'
    BY <1>0, <1>1, <1>2, <2>1 DEF SynthesisTypes, Tts!TypeOK, AttemptInv
  <2>3. SentInv'
    BY <1>0, <1>1, <1>2, <1>5, <2>1, SameKind DEF SentInv, Streamed
  <2>4. QED
    BY <1>1, <2>1, <2>2, <2>3, AudioStays DEF SynthesisInv
<1>6. CASE Tts!Chunked \/ Tts!Sentences
  <2> DEFINE G == Tts!Frames(sent + 1, sent')
  <2>1. /\ sent' = Tts!Last /\ saying' = G /\ eos' = TRUE
    BY <1>6 DEF Tts!Connect
  <2>2. /\ sent' \in Nat /\ sent <= sent' /\ sent' <= taken
        /\ Tts!Chunked => sent = 0 /\ base = 0 /\ sent' = pushed
        /\ Tts!Sentences => sent = base /\ sent' = sent + 1
    BY <1>0, <1>1, <1>3, <1>4, <1>6, <2>1 DEF SentInv, Tts!Last, Tts!Connect, Tts!Wants
  <2>3. /\ G \in Seq(Nat) /\ Len(G) = (IF blank THEN 0 ELSE (sent' - sent) * PerToken)
        /\ \A i \in 1 .. Len(G) : G[i] = sent * PerToken + i
    BY <1>3, <2>2, FramesAre
  <2> HIDE DEF G
  <2>4. /\ Audio' = heard \o G /\ Len(heard \o G) = Len(heard) + Len(G)
        /\ \A i \in 1 .. Len(heard) : (heard \o G)[i] = heard[i]
        /\ \A i \in 1 .. Len(G) : (heard \o G)[Len(heard) + i] = G[i]
        /\ Len(heard) \in Nat /\ Len(G) \in Nat
    <3>1. Audio' = heard \o G
      <4>1. heard \o <<>> = heard
        BY <1>3, ConcatEmptySeq
      <4>2. QED
        BY <1>1, <2>1, <4>1 DEF Audio
    <3>2. /\ Len(heard \o G) = Len(heard) + Len(G)
          /\ \A i \in 1 .. Len(heard) + Len(G) :
                (heard \o G)[i] = IF i <= Len(heard) THEN heard[i] ELSE G[i - Len(heard)]
      BY <1>3, <2>3, ConcatProperties
    <3>3. Len(heard) \in Nat /\ Len(G) \in Nat
      BY <1>3, <2>3
    <3>4. QED
      BY <3>1, <3>2, <3>3
  <2>5. SynthesisTypes'
    <3>1. Tts!TypeOK'
      BY <1>0, <1>1, <1>2, <1>3, <2>2 DEF Tts!TypeOK
    <3>2. QED
      BY <1>0, <1>1, <1>2, <2>1, <2>3, <3>1 DEF SynthesisTypes
  <2>6. AttemptInv'
    BY <1>1, <1>2 DEF AttemptInv
  <2>7. SentInv'
    BY <1>0, <1>1, <1>2, <1>4, <1>6, <2>2, SameKind DEF SentInv, Streamed
  <2>8. CASE Tts!Chunked
    <3>1. Tts!Frames(base + 1, sent)' = G
      BY <1>1, <2>2, <2>8 DEF Tts!Frames, G
    <3>2. EndsIn(Audio, Tts!Frames(base + 1, sent))'
      BY <2>4, <3>1 DEF EndsIn
    <3>3. QED
      BY <1>4, <2>5, <2>6, <2>7, <2>8, <3>2, <1>1, SameKind DEF SynthesisInv, SaidInv, Streamed
  <2>9. CASE Tts!Sentences
    <3>1. Holds(heard, base)
      BY <1>0, <1>1, <2>9 DEF SaidInv
    <3>2. Holds(Audio, sent)'
      <4> SUFFICES ASSUME ~blank, NEW x \in 1 .. (sent + 1) * PerToken
                   PROVE  \E k \in 1 .. Len(heard \o G) : (heard \o G)[k] = x
        BY <1>1, <2>2, <2>4, <2>9 DEF Holds
      <4>1. /\ (sent + 1) * PerToken = sent * PerToken + PerToken
            /\ sent * PerToken \in Nat
        BY <1>3
      <4>2. CASE x <= sent * PerToken
        <5>1. x \in 1 .. base * PerToken
          BY <1>3, <2>2, <2>9, <4>1, <4>2
        <5>2. PICK k \in 1 .. Len(heard) : heard[k] = x
          BY <3>1, <5>1 DEF Holds
        <5>3. QED
          BY <2>4, <5>2
      <4>3. CASE x > sent * PerToken
        <5> DEFINE i == x - sent * PerToken
        <5>1. i \in 1 .. PerToken /\ x = sent * PerToken + i
          BY <1>3, <4>1, <4>3
        <5> HIDE DEF i
        <5>2. Len(G) = PerToken
          BY <1>3, <2>2, <2>9, TokenFrames DEF G
        <5>3. G[i] = x /\ i \in 1 .. Len(G)
          BY <2>3, <5>1, <5>2
        <5>4. (heard \o G)[Len(heard) + i] = x
          BY <2>4, <5>3
        <5>5. Len(heard) + i \in 1 .. Len(heard \o G)
          BY <2>4, <5>1, <5>3
        <5>6. QED
          BY <5>4, <5>5
      <4>4. QED
        BY <4>1, <4>2, <4>3
    <3>3. Holds(heard, base)'
      BY <1>1, <3>1 DEF Holds
    <3>4. QED
      BY <1>1, <2>5, <2>6, <2>7, <2>9, <3>2, <3>3, SameKind DEF SynthesisInv, SaidInv, Streamed
  <2>10. QED
    BY <1>6, <2>8, <2>9
<1>7. QED
  BY <1>5, <1>6 DEF Streamed

\* An attempt returns: only elevenlabs may take a close for the end of its audio.
LEMMA RunStep ==
    ASSUME SynthesisInv, Tts!RunEnds
    PROVE  SynthesisInv'
<1>0. SynthesisTypes /\ AttemptInv /\ SentInv /\ SaidInv /\ Tts!TypeOK
  BY DEF SynthesisInv, SynthesisTypes
<1>1. /\ phase = "running" /\ conn # "none" /\ eos
      /\ saying = <<>> \/ plugin = "elevenlabs"
      /\ phase' = "returned" /\ conn' = "none" /\ saying' = <<>>
      /\ cut' = (cut \/ saying # <<>>)
      /\ UNCHANGED <<plugin, blank, pushed, inputEnded, taken, sent, base, words, eos, writing,
                     counted, heard, attempt, error>>
  BY <1>0, KindOfPlugin DEF Tts!RunEnds, Tts!Running, Tts!textVars, Tts!wordVars,
     Tts!emitterVars, Tts!retryVars
<1>2. leftover' = 0 /\ ready' \in {"none", "open", "closed"}
  <2>1. CASE Tts!Pooled
    <3>1. saying = <<>>
      BY <1>0, <1>1, <2>1, KindOfPlugin
    <3>2. ready' = "open" /\ leftover' = Len(saying)
      BY <2>1 DEF Tts!RunEnds
    <3>3. QED
      BY <3>1, <3>2
  <2>2. CASE ~Tts!Pooled
    BY <1>0, <2>2 DEF Tts!RunEnds, Tts!poolVars, SynthesisTypes, Tts!TypeOK
  <2>3. QED
    BY <2>1, <2>2
<1>3. SynthesisTypes'
  <2>1. cut' \in BOOLEAN /\ (cut' => plugin' = "elevenlabs")
    BY <1>0, <1>1 DEF SynthesisTypes
  <2>2. Tts!TypeOK'
    BY <1>0, <1>1, <1>2 DEF Tts!TypeOK
  <2>3. QED
    BY <1>0, <1>1, <1>2, <2>1, <2>2 DEF SynthesisTypes
<1>4. AttemptInv'
  BY <1>0, <1>1 DEF AttemptInv
<1>5. SentInv'
  BY <1>0, <1>1, SameKind DEF SentInv
<1>6. SaidInv'
  <2>1. CASE saying = <<>>
    <3>1. cut' = cut
      BY <1>0, <1>1, <2>1 DEF SynthesisTypes
    <3>2. QED
      BY <1>1, <2>1, <3>1, AudioStays
  <2>2. CASE saying # <<>>
    <3>1. Streamed /\ cut'
      BY <1>0, <1>1, <2>2, KindOfPlugin
    <3>2. Rising
      BY <1>0, <3>1 DEF SaidInv
    <3>3. Rising'
      <4>1. heard \in Seq(Nat) /\ writing \in Seq(Nat) /\ saying \in Seq(Nat)
        BY <1>0 DEF SynthesisTypes
      <4>2. DEFINE s == heard \o writing
      <4>3. s \in Seq(Nat) /\ s \o <<>> = s
        BY <4>1, ConcatProperties, ConcatEmptySeq
      <4>4. Audio' = s /\ Audio = s \o saying
        BY <1>1, <4>3 DEF Audio
      <4> HIDE DEF s
      <4>5. \A i \in 1 .. Len(s) : i \in 1 .. Len(Audio) /\ Audio[i] = s[i]
        <5>1. /\ Len(Audio) = Len(s) + Len(saying)
              /\ \A i \in 1 .. Len(s) + Len(saying) : i <= Len(s) => Audio[i] = s[i]
          BY <4>1, <4>3, <4>4, ConcatProperties
        <5>2. Len(s) \in Nat /\ Len(saying) \in Nat
          BY <4>1, <4>3
        <5>3. QED
          BY <5>1, <5>2
      <4>6. QED
        BY <1>1, <3>2, <4>4, <4>5 DEF Rising
    <3>4. QED
      BY <1>1, <3>1, <3>3, SameKind DEF SaidInv, Streamed
  <2>3. QED
    BY <2>1, <2>2
<1>7. QED
  BY <1>3, <1>4, <1>5, <1>6 DEF SynthesisInv

\* The audio of an attempt was passed on: it was none, or the stream or sentence is over.
LEMMA MainStep ==
    ASSUME SynthesisInv, Tts!MainEnds
    PROVE  SynthesisInv'
<1>0. SynthesisTypes /\ AttemptInv /\ SentInv /\ SaidInv /\ Tts!TypeOK
  BY DEF SynthesisInv, SynthesisTypes
<1>1. /\ phase = "returned" /\ writing = <<>> /\ conn = "none" /\ saying = <<>>
      /\ UNCHANGED <<plugin, blank, pushed, inputEnded, taken, words, ready, leftover, heard,
                     cut>>
  BY <1>0 DEF AttemptInv, Tts!MainEnds, Tts!textVars, Tts!poolVars
<1>2. CASE Tts!Fail("api") /\ attempt' = attempt
  <2>1. ready' \in {"none", "open", "closed"} /\ words' \in {"no", "now", "before"}
        /\ (words' # "no" => inputEnded /\ taken = pushed)
    BY <1>0, <1>1 DEF Tts!TypeOK, SentInv
  <2>2. QED
    BY <1>1, <1>2, <2>1, FailKeeps
<1>3. CASE ~(Tts!Fail("api") /\ attempt' = attempt)
  <2>1. /\ phase' = IF Tts!Sentences THEN "running" ELSE "ended"
        /\ attempt' = IF Tts!Sentences THEN 0 ELSE attempt
        /\ base' = IF Tts!Sentences THEN sent ELSE base
        /\ UNCHANGED <<sent, conn, saying, eos, writing, error>>
    BY <1>3 DEF Tts!MainEnds, Tts!connVars
  <2>2. /\ sent \in Nat /\ base \in Nat /\ base <= sent /\ MaxRetry \in Nat
    BY <1>0, TextNumbers
  <2>3. SynthesisTypes'
    <3>1. Tts!TypeOK'
      BY <1>0, <1>1, <2>1, <2>2 DEF Tts!TypeOK
    <3>2. QED
      BY <1>0, <1>1, <2>1, <3>1 DEF SynthesisTypes
  <2>4. AttemptInv'
    BY <1>1, <2>1 DEF AttemptInv
  <2>5. Tts!Sentences => ~Tts!Chunked
    BY <1>0, KindOfPlugin
  <2>6. SentInv'
    BY <1>0, <1>1, <2>1, <2>5, SameKind DEF SentInv, Streamed
  <2>7. SaidInv'
    <3>1. CASE Tts!Sentences
      <4>1. heard \in Seq(Nat) /\ heard \o <<>> = heard
        BY <1>0, ConcatEmptySeq DEF SynthesisTypes
      <4>2. Audio = heard /\ Audio' = heard
        BY <1>1, <2>1, <4>1 DEF Audio
      <4>3. Holds(Audio, sent)
        BY <1>0, <1>1, <3>1 DEF SaidInv
      <4>4. Holds(heard, base)' /\ Holds(Audio, sent)'
        <5>1. base' = sent /\ sent' = sent /\ blank' = blank /\ heard' = heard
          BY <1>1, <2>1, <3>1
        <5>2. Holds(heard, sent)
          BY <4>2, <4>3
        <5>3. QED
          BY <4>2, <5>1, <5>2 DEF Holds
      <4>5. QED
        BY <1>1, <3>1, <4>4, SameKind DEF SaidInv, Streamed
    <3>2. CASE ~Tts!Sentences
      BY <1>1, <2>1, <3>2, AudioStays
    <3>3. QED
      BY <3>1, <3>2
  <2>8. QED
    BY <2>3, <2>4, <2>6, <2>7 DEF SynthesisInv
<1>4. QED
  BY <1>2, <1>3

\* A step of the stream keeps its audio whole.
LEMMA SynthesisStep == SynthesisInv /\ [Tts!Next]_ttsVars => SynthesisInv'
BY QuietStep, FailStep, CloseStep, FrameStep, TokenStep, ConnectStep, RunStep, MainStep
DEF Tts!Next

\* Nothing was said at first.
LEMMA SynthesisStart == Tts!Init => SynthesisInv
<1> SUFFICES ASSUME Tts!Init PROVE SynthesisInv
  OBVIOUS
<1>1. /\ plugin \in Plugins /\ pushed = (IF Tts!Chunked THEN MaxTokens ELSE 0)
      /\ inputEnded = Tts!Chunked /\ taken = pushed /\ sent = 0 /\ base = 0
      /\ words = (IF Tts!Chunked THEN "now" ELSE "no")
      /\ conn = "none" /\ saying = <<>> /\ eos = FALSE /\ ready \in {"none", "open"}
      /\ leftover = 0 /\ writing = <<>> /\ heard = <<>> /\ attempt = 0 /\ error = "none"
      /\ cut = FALSE /\ phase = "running"
  BY DEF Tts!Init
<1>2. MaxTokens \in Nat /\ MaxRetry \in Nat /\ PerToken \in Nat
  BY PartsAssumption
<1>3. SynthesisTypes
  <2>1. Tts!TypeOK
    BY <1>1, <1>2 DEF Tts!TypeOK
  <2>2. <<>> \in Seq(Nat)
    OBVIOUS
  <2>3. QED
    BY <1>1, <2>1, <2>2 DEF SynthesisTypes
<1>4. AttemptInv
  BY <1>1 DEF AttemptInv
<1>5. SentInv
  BY <1>1 DEF SentInv, Streamed
<1>6. Len(Audio) = 0 /\ Len(heard) = 0
  BY <1>1, <1>3, AudioIs
<1>7. Len(Tts!Frames(base + 1, sent)) = 0
  BY <1>1, NoFrames
<1>8. base * PerToken = 0 /\ sent * PerToken = 0
  BY <1>1, <1>2
<1>9. SaidInv
  <2>1. Rising
    BY <1>6 DEF Rising
  <2>2. EndsIn(Audio, Tts!Frames(base + 1, sent))
    BY <1>6, <1>7 DEF EndsIn
  <2>3. Holds(heard, base) /\ Holds(Audio, sent)
    BY <1>8 DEF Holds
  <2>4. QED
    BY <2>1, <2>2, <2>3 DEF SaidInv
<1>10. QED
  BY <1>3, <1>4, <1>5, <1>9 DEF SynthesisInv

\* What the invariant says of the stream.
LEMMA SynthesisImplies == SynthesisInv => StreamsInOrder
<1> SUFFICES ASSUME SynthesisInv PROVE StreamsInOrder
  OBVIOUS
<1>0. SynthesisTypes /\ AttemptInv /\ SentInv /\ SaidInv /\ Tts!TypeOK
  BY DEF SynthesisInv, SynthesisTypes
<1>1. /\ Len(heard) \in Nat /\ Len(Audio) = Len(heard) + Len(writing) + Len(saying)
      /\ \A i \in 1 .. Len(heard) : Audio[i] = heard[i]
  BY <1>0, AudioIs
<1>2. heard \in Seq(Nat) /\ Len(writing) \in Nat /\ Len(saying) \in Nat
  BY <1>0 DEF SynthesisTypes
<1>3. Tts!InOrder
  <2> SUFFICES ASSUME Streamed, NEW i \in 1 .. Len(heard) - 1
               PROVE  heard[i] < heard[i + 1]
    BY DEF Tts!InOrder, Streamed
  <2>1. /\ i \in 1 .. Len(heard) /\ i + 1 \in 1 .. Len(heard) /\ i < i + 1
        /\ i \in 1 .. Len(Audio) /\ i + 1 \in 1 .. Len(Audio)
    BY <1>1, <1>2
  <2>2. Audio[i] < Audio[i + 1]
    BY <1>0, <2>1 DEF SaidInv, Rising
  <2>3. QED
    BY <1>1, <2>1, <2>2
<1>4. Tts!SaysTheRest
  <2> SUFFICES ASSUME phase = "ended", ~cut PROVE Tts!SaysTheRest
    BY DEF Tts!SaysTheRest
  <2>1. writing = <<>> /\ saying = <<>>
    BY <1>0 DEF AttemptInv
  <2>2. Audio = heard
    <3>1. heard \o <<>> = heard
      BY <1>2, ConcatEmptySeq
    <3>2. QED
      BY <2>1, <3>1 DEF Audio
  <2>3. /\ pushed \in Nat /\ sent \in Nat /\ base \in Nat /\ base <= sent
        /\ PerToken \in Nat
    BY <1>0, TextNumbers
  <2>4. CASE Tts!Sentences
    <3> DEFINE rest == Tts!Frames(1, pushed)
    <3>1. \A i \in 1 .. Len(rest) : \E k \in 1 .. Len(heard) : heard[k] = rest[i]
      <4>1. /\ Len(rest) = IF blank THEN 0 ELSE pushed * PerToken
            /\ \A i \in 1 .. Len(rest) : rest[i] = i
        <5>1. /\ Len(Tts!Frames(0 + 1, pushed)) = IF blank THEN 0 ELSE (pushed - 0) * PerToken
              /\ \A i \in 1 .. Len(Tts!Frames(0 + 1, pushed)) :
                    Tts!Frames(0 + 1, pushed)[i] = 0 * PerToken + i
          BY <2>3, FramesAre
        <5>2. 0 + 1 = 1 /\ pushed - 0 = pushed /\ 0 * PerToken = 0
          BY <2>3
        <5>3. QED
          BY <5>1, <5>2
      <4>2. Holds(heard, base) /\ (blank \/ base = pushed)
        BY <1>0, <2>4 DEF SaidInv, SentInv
      <4> HIDE DEF rest
      <4>3. CASE blank
        BY <4>1, <4>3
      <4>4. CASE ~blank
        BY <4>1, <4>2, <4>4 DEF Holds
      <4>5. QED
        BY <4>3, <4>4
    <3>2. QED
      BY <2>4, <3>1 DEF Tts!SaysTheRest
  <2>5. CASE ~Tts!Sentences
    <3> DEFINE rest == Tts!Frames(base + 1, pushed)
    <3>1. sent = pushed
      BY <1>0, <2>5 DEF SentInv, Streamed
    <3>2. EndsIn(heard, rest)
      BY <1>0, <2>2, <2>5, <3>1 DEF SaidInv
    <3>3. rest \in Seq(Nat) /\ Len(rest) \in Nat
      BY <2>3, <3>1, FramesAre
    <3> HIDE DEF rest
    <3>4. SubSeq(heard, Len(heard) - Len(rest) + 1, Len(heard)) = rest
      <4> DEFINE m == Len(heard) - Len(rest)
                 s == SubSeq(heard, m + 1, Len(heard))
      <4>1. m \in Nat /\ m <= Len(heard) /\ Len(heard) - (m + 1) + 1 = Len(rest)
        BY <1>1, <3>2, <3>3 DEF EndsIn
      <4> HIDE DEF m
      <4>2. s = [i \in 1 .. Len(rest) |-> heard[(m + 1) + i - 1]]
        BY <1>1, <1>2, <4>1
      <4>3. \A i \in 1 .. Len(rest) : (m + 1) + i - 1 = m + i /\ heard[m + i] = rest[i]
        BY <3>2, <4>1 DEF EndsIn, m
      <4>4. s = [i \in 1 .. Len(rest) |-> rest[i]]
        BY <4>2, <4>3
      <4>5. rest = [i \in 1 .. Len(rest) |-> rest[i]]
        BY <3>3
      <4>6. QED
        BY <4>4, <4>5 DEF m
    <3>5. QED
      BY <2>5, <3>2, <3>4 DEF Tts!SaysTheRest, EndsIn, rest
  <2>6. QED
    BY <2>4, <2>5
<1>5. Tts!PoolIsClean /\ Tts!RetriesAreUsed
  BY <1>0 DEF SynthesisTypes, AttemptInv, Tts!PoolIsClean, Tts!RetriesAreUsed
<1>6. QED
  BY <1>0, <1>3, <1>4, <1>5 DEF StreamsInOrder

\* The speech of a stream is in order and whole over its retries, whichever plugin says it,
\* however long the text and however often the service fails.
THEOREM StreamsKeepOrder == PartSpec => []StreamsInOrder
<1>1. PartInit => SynthesisInv
  BY SynthesisStart DEF PartInit
<1>2. [PartNext]_partVars => [Tts!Next]_ttsVars
  BY DEF PartNext, partVars
<1>3. SynthesisInv /\ [PartNext]_partVars => SynthesisInv'
  BY <1>2, SynthesisStep
<1>4. QED
  BY <1>1, <1>3, SynthesisImplies, PTL DEF PartSpec
=============================================================================
