------------------------------- MODULE ProcPool -------------------------------
(***************************************************************************)
(* The pool of processes that run the jobs of a worker: ipc/proc_pool.py   *)
(* with ipc/supervised_proc.py and ipc/job_proc_executor.py.               *)
(*                                                                         *)
(* The pool keeps some processes started and initialized ahead of the jobs *)
(* (_warmed_proc_queue).  Its tasks are the main loop, which replaces the  *)
(* idle processes, one spawn task and then one monitor task per process,   *)
(* one caller of launch_job per job, and aclose().  A process is an OS     *)
(* process: it fails to initialize, crashes, or is killed at any time.     *)
(* A process is a number, in the order in which spawn tasks are created.   *)
(***************************************************************************)
EXTENDS Naturals, Sequences, FiniteSets

CONSTANTS
    Job,          \* the jobs that the worker launches
    NoJob,        \* running_job is None
    NumIdle,      \* _default_num_idle_processes
    MaxInit,      \* MAX_CONCURRENT_INITIALIZATIONS
    MaxProc,      \* bound: processes the pool may spawn
    MaxFailures   \* bound: processes that crash or fail to initialize

ASSUME ProcPoolAssumption ==
    /\ NoJob \notin Job
    /\ NumIdle \in Nat /\ MaxInit \in Nat \ {0}
    /\ MaxProc \in Nat /\ MaxFailures \in Nat

Proc == 1 .. MaxProc

VARIABLES
    spawned,    \* spawn tasks created so far
    spawn,      \* where _proc_spawn_task stands for each process
    alive,      \* the OS processes that run
    initFut,    \* SupervisedProc._initialize_fut
    asked,      \* the processes on which aclose() was called
    runningJob, \* JobExecutor.running_job
    executors,  \* _executors, once they are started
    monitored,  \* the processes with a monitor task
    warm,       \* _warmed_proc_queue
    target,     \* _target_idle_processes
    job,        \* what came of launch_job, for each job
    closed,     \* _closed
    closer,     \* where aclose() stands
    failures    \* bound: failures so far

procVars == <<alive, initFut, asked, runningJob>>
poolVars == <<executors, monitored, warm>>
closeVars == <<closed, closer>>
vars == <<spawned, spawn, procVars, poolVars, target, job, closeVars, failures>>

(* _proc_spawn_task:
     "queued"        created, or waiting for _init_sem
     "starting"      await proc.start()
     "initializing"  await proc.initialize()
     "gone"          ended, and its done callback took it out of _spawn_tasks *)
SpawnTasks   == {p \in Proc : spawn[p] \in {"queued", "starting", "initializing"}}
Initializing == {p \in Proc : spawn[p] \in {"starting", "initializing"}}
Waiting      == {j \in Job : job[j] = "waiting"}   \* _jobs_waiting_for_process

\* _supervise_task is over, so that join() and aclose() return: it awaits the
\* result of the initialization, then the end of the process.
Joined(p) == p \notin alive /\ initFut[p] # "pending"

Init ==
    /\ spawned = 0
    /\ spawn = [p \in Proc |-> "none"]
    /\ alive = {}
    /\ initFut = [p \in Proc |-> "pending"]
    /\ asked = {}
    /\ runningJob = [p \in Proc |-> NoJob]
    /\ executors = {} /\ monitored = {} /\ warm = <<>>
    /\ target = NumIdle
    /\ job = [j \in Job |-> "none"]
    /\ closed = FALSE /\ closer = "none"
    /\ failures = 0

-----------------------------------------------------------------------------
(* Spawning *)

SpawnNew(n) ==
    /\ spawned + n <= MaxProc
    /\ spawned' = spawned + n
    /\ spawn' = [p \in Proc |-> IF p \in spawned + 1 .. spawned + n THEN "queued"
                                ELSE spawn[p]]

\* Mutant: the processes being spawned are not counted.
PendingWarmOnly == Len(warm)

Pending == Len(warm) + Cardinality(SpawnTasks)

Wanted == IF target < NumIdle THEN target ELSE NumIdle

\* A turn of _main_task that finds processes to spawn.
MainLoop ==
    /\ ~closed
    /\ Pending < Wanted
    /\ SpawnNew(Wanted - Pending)
    /\ UNCHANGED <<procVars, poolVars, target, job, closeVars, failures>>

\* set_target_idle_processes, called by the worker as its load changes.
SetTarget(n) ==
    /\ n # target
    /\ target' = n
    /\ UNCHANGED <<spawned, spawn, procVars, poolVars, job, closeVars, failures>>

\* The spawn task gets _init_sem.
BeginStart(p) ==
    /\ spawn[p] = "queued"
    /\ Cardinality(Initializing) < MaxInit
    /\ spawn' = [spawn EXCEPT ![p] = IF closed THEN "gone" ELSE "starting"]
    /\ UNCHANGED <<spawned, procVars, poolVars, target, job, closeVars, failures>>

\* start() returned, and InitializeRequest is sent.
Started(p) ==
    /\ spawn[p] = "starting"
    /\ spawn' = [spawn EXCEPT ![p] = "initializing"]
    /\ alive' = alive \cup {p}
    /\ executors' = executors \cup {p}
    /\ UNCHANGED <<spawned, initFut, asked, runningJob, monitored, warm, target, job,
                   closeVars, failures>>

\* The spawn task ends by creating the monitor task.
Monitor(p) ==
    /\ spawn' = [spawn EXCEPT ![p] = "gone"]
    /\ monitored' = monitored \cup {p}

\* The process died before InitializeRequest could be sent: initialize() raises
\* DuplexClosed, and leaves _initialize_fut pending.
StartedDead(p) ==
    /\ spawn[p] = "starting"
    /\ failures < MaxFailures /\ failures' = failures + 1
    /\ Monitor(p)
    /\ executors' = executors \cup {p}
    /\ UNCHANGED <<spawned, procVars, warm, target, job, closeVars>>

\* Its InitializeResponse is received; it may have died since it was sent.
InitOk(p) ==
    /\ spawn[p] = "initializing"
    /\ initFut' = [initFut EXCEPT ![p] = "ok"]
    /\ warm' = Append(warm, p)
    /\ Monitor(p)
    /\ UNCHANGED <<spawned, alive, asked, runningJob, executors, target, job, closeVars,
                   failures>>

\* Mutant: a process whose initialization failed is used.
InitFailsWarm(p) ==
    /\ spawn[p] = "initializing"
    /\ p \notin alive /\ UNCHANGED failures
    /\ initFut' = [initFut EXCEPT ![p] = "failed"]
    /\ warm' = Append(warm, p)
    /\ Monitor(p)
    /\ UNCHANGED <<spawned, alive, asked, runningJob, executors, target, job, closeVars>>

\* Mutant: the spawn task removes the process from _executors itself.
InitFailsForgotten(p) ==
    /\ spawn[p] = "initializing"
    /\ failures < MaxFailures /\ failures' = failures + 1
    /\ initFut' = [initFut EXCEPT ![p] = "failed"]
    /\ Monitor(p)
    /\ executors' = executors \ {p}
    /\ UNCHANGED <<spawned, alive, asked, runningJob, warm, target, job, closeVars>>

\* The process died, answered with an error, or did not answer in time; in the
\* last case it is killed.
InitFails(p) ==
    /\ spawn[p] = "initializing"
    /\ \/ p \notin alive /\ UNCHANGED failures
       \/ p \in alive /\ failures < MaxFailures /\ failures' = failures + 1
    /\ initFut' = [initFut EXCEPT ![p] = "failed"]
    /\ Monitor(p)
    /\ UNCHANGED <<spawned, alive, asked, runningJob, executors, warm, target, job,
                   closeVars>>

-----------------------------------------------------------------------------
(* The end of a process *)

Exit(p) ==
    /\ p \in alive
    /\ alive' = alive \ {p}
    /\ UNCHANGED <<spawned, spawn, initFut, asked, runningJob, poolVars, target, job,
                   closeVars>>

\* It crashes, or is killed: out of memory, or no answer to a ping.
Crash(p) ==
    /\ failures < MaxFailures /\ failures' = failures + 1
    /\ Exit(p)

\* Its job is over.
FinishJob(p) == runningJob[p] # NoJob /\ Exit(p) /\ UNCHANGED failures

\* Mutant: a process that runs a job is not killed.
StopIdle(p) ==
    /\ p \in asked \/ initFut[p] = "failed"
    /\ runningJob[p] = NoJob
    /\ Exit(p) /\ UNCHANGED failures

\* It obeys ShutdownRequest, or is killed after close_timeout; it exits by itself
\* after an error in the initialization, and is killed if that takes too long.
Stop(p) ==
    /\ p \in asked \/ initFut[p] = "failed"
    /\ Exit(p) /\ UNCHANGED failures

\* _monitor_process_task: join() returns.
MonitorEnds(p) ==
    /\ p \in monitored /\ Joined(p)
    /\ monitored' = monitored \ {p}
    /\ executors' = executors \ {p}
    /\ UNCHANGED <<spawned, spawn, procVars, warm, target, job, closeVars, failures>>

-----------------------------------------------------------------------------
(* launch_job *)

\* _warmed_proc_queue.get() returns: the job is sent to the process, which fails
\* if the process has died.
TakeWarm(j) ==
    LET p == Head(warm) IN
    /\ warm # <<>>
    /\ warm' = Tail(warm)
    /\ runningJob' = [runningJob EXCEPT ![p] = j]
    /\ job' = [job EXCEPT ![j] = IF p \in alive THEN "sent" ELSE "lost"]
    /\ UNCHANGED <<alive, initFut, asked, executors, monitored>>

\* A process is in the queue: get() does not suspend, even if others wait.
LaunchNow(j) ==
    /\ job[j] = "none"
    /\ TakeWarm(j)
    /\ UNCHANGED <<spawned, spawn, target, closeVars, failures>>

\* Else a process is spawned, unless as many are being spawned as jobs wait.
LaunchLater(j) ==
    /\ job[j] = "none" /\ warm = <<>>
    /\ job' = [job EXCEPT ![j] = "waiting"]
    /\ IF Cardinality(SpawnTasks) < Cardinality(Waiting) + 1
       THEN SpawnNew(1) ELSE UNCHANGED <<spawned, spawn>>
    /\ UNCHANGED <<procVars, poolVars, target, closeVars, failures>>

\* A waiting get() is woken.  Jobs are interchangeable, so any may be the first.
Resume(j) ==
    /\ job[j] = "waiting"
    /\ TakeWarm(j)
    /\ UNCHANGED <<spawned, spawn, target, closeVars, failures>>

-----------------------------------------------------------------------------
(* aclose() *)

\* _closed is set and the main loop is cancelled.
BeginClose ==
    /\ closer = "none"
    /\ closed' = TRUE
    /\ closer' = "cancelled"
    /\ UNCHANGED <<spawned, spawn, procVars, poolVars, target, job, failures>>

\* proc.aclose() on every executor: it does nothing on one that is not started.
CloseProcesses ==
    /\ closer = "cancelled"
    /\ closer' = "processes"
    /\ asked' = asked \cup executors
    /\ UNCHANGED <<spawned, spawn, alive, initFut, runningJob, poolVars, target, job,
                   closed, failures>>

ProcessesClosed ==
    /\ closer = "processes"
    /\ \A p \in asked : Joined(p)
    /\ closer' = "spawns"
    /\ UNCHANGED <<spawned, spawn, procVars, poolVars, target, job, closed, failures>>

\* Mutant: the spawn tasks are not awaited.
SpawnsEndedNot ==
    /\ closer = "spawns"
    /\ closer' = "monitors"
    /\ UNCHANGED <<spawned, spawn, procVars, poolVars, target, job, closed, failures>>

SpawnsEnded ==
    /\ closer = "spawns"
    /\ SpawnTasks = {}
    /\ closer' = "monitors"
    /\ UNCHANGED <<spawned, spawn, procVars, poolVars, target, job, closed, failures>>

MonitorsEnded ==
    /\ closer = "monitors"
    /\ monitored = {}
    /\ closer' = "closed"
    /\ UNCHANGED <<spawned, spawn, procVars, poolVars, target, job, closed, failures>>

-----------------------------------------------------------------------------
ProcStep(p) ==
    \/ BeginStart(p) \/ Started(p) \/ StartedDead(p) \/ InitOk(p) \/ InitFails(p)
    \/ Crash(p) \/ FinishJob(p) \/ Stop(p) \/ MonitorEnds(p)

JobStep(j) == LaunchNow(j) \/ LaunchLater(j) \/ Resume(j)

CloserStep == CloseProcesses \/ ProcessesClosed \/ SpawnsEnded \/ MonitorsEnded

Next ==
    \/ MainLoop
    \/ \E n \in 0 .. NumIdle : SetTarget(n)
    \/ \E p \in Proc : ProcStep(p)
    \/ \E j \in Job : JobStep(j)
    \/ BeginClose \/ CloserStep

Spec == Init /\ [][Next]_vars

\* The main loop turns every 100 ms; the start and the initialization of a process
\* end, the latter within initialize_timeout; a process asked to stop does, within
\* close_timeout; the loop runs every ready task.  A job may run for ever.
Fairness ==
    /\ WF_vars(MainLoop)
    /\ WF_vars(CloserStep)
    /\ \A p \in Proc :
        /\ WF_vars(BeginStart(p))
        /\ WF_vars(Started(p) \/ StartedDead(p))
        /\ WF_vars(InitOk(p) \/ InitFails(p))
        /\ WF_vars(Stop(p))
        /\ WF_vars(MonitorEnds(p))
    /\ \A j \in Job : WF_vars(Resume(j))

FairSpec == Spec /\ Fairness

-----------------------------------------------------------------------------
(* Properties *)

\* The type invariant.  _executors.remove(proc) never raises ValueError: what is
\* monitored is listed.
TypeOK ==
    /\ spawned \in 0 .. MaxProc
    /\ spawn \in [Proc -> {"none", "queued", "starting", "initializing", "gone"}]
    /\ alive \subseteq Proc /\ asked \subseteq Proc
    /\ initFut \in [Proc -> {"pending", "ok", "failed"}]
    /\ runningJob \in [Proc -> Job \cup {NoJob}]
    /\ executors \subseteq Proc /\ monitored \subseteq executors
    /\ warm \in Seq(Proc)
    /\ target \in 0 .. NumIdle
    /\ job \in [Job -> {"none", "waiting", "sent", "lost"}]
    /\ closed \in BOOLEAN
    /\ closer \in {"none", "cancelled", "processes", "spawns", "monitors", "closed"}
    /\ failures \in 0 .. MaxFailures

\* launch_job of a process never raises "process already has a running job" or
\* "process not initialized": what is in the queue is there once, was initialized
\* ("process where initialization times out will never [...] be used to launch
\* jobs") and has never had a job.
WarmIsReady ==
    \A i \in 1 .. Len(warm) :
        /\ initFut[warm[i]] = "ok"
        /\ runningJob[warm[i]] = NoJob
        /\ \A k \in 1 .. Len(warm) : warm[k] = warm[i] => k = i

\* A process that lives is in _executors, where active_jobs, drain(), the
\* termination of a job and aclose() look for it.
LiveIsListed == alive \subseteq executors

\* The main loop and launch_job, which both spawn, never do so for the same need:
\* idle processes and processes to come exceed neither the number to keep idle nor
\* the number of jobs that wait.
NoOverspawn == Pending <= NumIdle \/ Pending <= Cardinality(Waiting)

\* aclose() returns only when no process of the pool is left, also those whose
\* start or initialization was under way when it was called.
ClosedLeavesNothing == closer = "closed" => alive = {} /\ Initializing = {}

\* While the worker lets the pool keep a process idle, every job that waits for a
\* process gets one, whatever processes fail and whichever job takes the process
\* meant for another.
JobsAreLaunched ==
    []~closed /\ <>[](target > 0) => \A j \in Job : job[j] = "waiting" ~> job[j] # "waiting"

\* "after initialization failure, warmup should be retried": the queue fills up
\* again, which is what start() waits for.
WarmupIsRetried ==
    []~closed /\ <>[](target = NumIdle) => []<>(Len(warm) >= NumIdle)

\* What the pool owes while it is open: processes to the jobs that wait, and idle ones.
NeedsAreMet == JobsAreLaunched /\ WarmupIsRetried

\* A process that nobody asked to stop, although aclose() waits for its monitor.
Overlooked(p) == p \in alive \ asked /\ closer \in {"spawns", "monitors"}

\* A process whose _supervise_task waits for ever.
Deaf(p) == p \in executors \ alive /\ spawn[p] = "gone" /\ initFut[p] = "pending"

\* aclose() returns, unless a process was being started when it was called, or
\* died before it could be initialized.
PoolCloses == closed ~> (closer = "closed" \/ \E p \in Proc : Overlooked(p) \/ Deaf(p))

\* "If we get the job assigned, we start a new process", also when no process is
\* kept idle, as in development mode.
EveryJobIsLaunched ==
    []~closed => \A j \in Job : job[j] = "waiting" ~> job[j] # "waiting"

\* "Number of idle processes to keep warm": the processes in the queue that live.
LiveIdleIsKept ==
    []~closed /\ <>[](target = NumIdle)
        => []<>(Cardinality({p \in alive : \E i \in 1 .. Len(warm) : warm[i] = p}) >= NumIdle)
=============================================================================
