------------------------------ MODULE JobProcess ------------------------------
(***************************************************************************)
(* A process that runs a job, and its supervision.  On the worker's side   *)
(* ipc/supervised_proc.py and ipc/job_proc_executor.py; in the process     *)
(* ipc/proc_client.py and ipc/job_proc_lazy_main.py.  This is what the     *)
(* processes of ProcPool are made of.                                      *)
(*                                                                         *)
(* The two sides share a socket pair, here one sequence of messages per    *)
(* direction, and either may die.  The process runs its user's code on its *)
(* loop, and that code may block it.                                       *)
(***************************************************************************)
EXTENDS Naturals, Sequences

CONSTANTS
    MaxTraces,  \* bound: requests for tracing information
    MaxFreezes  \* bound: times the loop of the process is blocked

VARIABLES
    worker,     \* the worker's process lives
    toProc,     \* what the worker has sent and the process not read
    toWorker,   \* what the process has sent and the worker not read
    initFut,    \* _initialize_fut
    supervise,  \* where _supervise_task stands
    launched,   \* _running_job is set
    status,     \* _job_status
    procClose,  \* where aclose() stands; _closing is set unless it is "no"
    killSent,   \* _kill_sent
    traces,     \* bound: tracing requests so far
    os,         \* the process, as the system sees it
    frozen,     \* its loop is blocked
    freezes,    \* bound: times it was
    phase,      \* whether the process has been initialized
    reader,     \* the task _read_ipc_task of entrypoint
    job,        \* the task of the job, as far as it has come
    shutdownFut \* _shutdown_fut

workerVars == <<initFut, supervise, launched, status, procClose, killSent>>
procVars   == <<os, frozen, freezes, phase, reader, job, shutdownFut>>
vars == <<worker, toProc, toWorker, workerVars, traces, procVars>>

Init ==
    /\ worker = TRUE
    /\ toProc = <<"initialize">> /\ toWorker = <<>>
    /\ initFut = "pending" /\ supervise = "initializing"
    /\ launched = FALSE /\ status = "none"
    /\ procClose = "no" /\ killSent = FALSE
    /\ traces = 0
    /\ os = "alive" /\ frozen = FALSE /\ freezes = 0
    /\ phase = "starting" /\ reader = "reading" /\ job = "none" /\ shutdownFut = "pending"

\* "clean" is an exit with code 0.
Dead == os # "alive"
Awake == os = "alive" /\ ~frozen

\* _send_kill_signal, unless the process has ended.
Kill ==
    IF os = "alive" THEN os' = "killed" /\ killSent' = TRUE
    ELSE UNCHANGED <<os, killSent>>

-----------------------------------------------------------------------------
(* The worker's side *)

\* initialize() receives the first message; if there is none to come, DuplexClosed.
InitAnswered ==
    /\ worker /\ initFut = "pending"
    /\ \/ /\ toWorker # <<>>
          /\ initFut' = IF Head(toWorker) = "initialized" THEN "done" ELSE "failed"
          /\ toWorker' = Tail(toWorker)
       \/ /\ toWorker = <<>> /\ Dead
          /\ initFut' = "failed"
          /\ UNCHANGED toWorker
    /\ UNCHANGED <<worker, toProc, supervise, launched, status, procClose, killSent, traces,
                   procVars>>

\* initialize_timeout.
InitTimeout ==
    /\ worker /\ initFut = "pending"
    /\ initFut' = "failed"
    /\ Kill
    /\ UNCHANGED <<worker, toProc, toWorker, supervise, launched, status, procClose, traces,
                   frozen, freezes, phase, reader, job, shutdownFut>>

\* _supervise_task goes on to read, ping and watch the memory of the process.
Supervise ==
    /\ worker /\ supervise = "initializing" /\ initFut # "pending"
    /\ supervise' = "serving"
    /\ UNCHANGED <<worker, toProc, toWorker, initFut, launched, status, procClose, killSent,
                   traces, procVars>>

\* _read_ipc_task and the _main_task of the executor: nothing here depends on what the
\* process says after its initialization.
ReadIpc ==
    /\ worker /\ supervise = "serving" /\ toWorker # <<>>
    /\ toWorker' = Tail(toWorker)
    /\ UNCHANGED <<worker, toProc, workerVars, traces, procVars>>

\* launch_job: only an initialized process is in the pool's queue.
LaunchJob ==
    /\ worker /\ initFut = "done" /\ ~launched /\ supervise # "done"
    /\ launched' = TRUE
    /\ status' = "running"
    /\ toProc' = Append(toProc, "start")
    /\ UNCHANGED <<worker, toWorker, initFut, supervise, procClose, killSent, traces, procVars>>

\* tracing_info, for the debug page of the worker.
AskTrace ==
    /\ worker /\ supervise # "done"
    /\ traces < MaxTraces /\ traces' = traces + 1
    /\ toProc' = Append(toProc, "trace")
    /\ UNCHANGED <<worker, toWorker, workerVars, procVars>>

AskClose ==
    /\ worker /\ procClose = "no"
    /\ procClose' = "asked"
    /\ toProc' = Append(toProc, "shutdown")
    /\ UNCHANGED <<worker, toWorker, initFut, supervise, launched, status, killSent, traces,
                   procVars>>

\* close_timeout.
CloseTimeout ==
    /\ worker /\ procClose = "asked" /\ supervise # "done"
    /\ procClose' = "timed out"
    /\ Kill
    /\ UNCHANGED <<worker, toProc, toWorker, initFut, supervise, launched, status, traces,
                   frozen, freezes, phase, reader, job, shutdownFut>>

\* ping_timeout, of a process that does not answer.
PongTimeout ==
    /\ worker /\ supervise = "serving" /\ frozen
    /\ Kill
    /\ UNCHANGED <<worker, toProc, toWorker, initFut, supervise, launched, status, procClose,
                   traces, frozen, freezes, phase, reader, job, shutdownFut>>

\* memory_limit_mb is exceeded.
MemoryKill ==
    /\ worker /\ supervise = "serving" /\ procClose = "no" /\ ~killSent
    /\ Kill
    /\ UNCHANGED <<worker, toProc, toWorker, initFut, supervise, launched, status, procClose,
                   traces, frozen, freezes, phase, reader, job, shutdownFut>>

\* Mutant: only a crash is a failure, not a process that was killed.
JoinedUnlessCrashed ==
    /\ worker /\ supervise = "serving" /\ Dead
    /\ supervise' = "done"
    /\ status' = IF os = "crashed" THEN "failed" ELSE "success"
    /\ UNCHANGED <<worker, toProc, toWorker, initFut, launched, procClose, killSent, traces,
                   procVars>>

\* The process was joined; the status of the job is that of its exit code.
Joined ==
    /\ worker /\ supervise = "serving" /\ Dead
    /\ supervise' = "done"
    /\ status' = IF os = "clean" THEN "success" ELSE "failed"
    /\ UNCHANGED <<worker, toProc, toWorker, initFut, launched, procClose, killSent, traces,
                   procVars>>

\* aclose() returns.
Closed ==
    /\ worker /\ procClose \in {"asked", "timed out"} /\ supervise = "done"
    /\ procClose' = "done"
    /\ UNCHANGED <<worker, toProc, toWorker, initFut, supervise, launched, status, killSent,
                   traces, procVars>>

WorkerDies ==
    /\ worker
    /\ worker' = FALSE
    /\ UNCHANGED <<toProc, toWorker, workerVars, traces, procVars>>

-----------------------------------------------------------------------------
(* The process *)

\* initialize_process_fnc returns, or raises, which ends the process with code 0.
InitializeProcess ==
    /\ Awake /\ phase = "starting"
    /\ toProc # <<>>
    /\ toProc' = Tail(toProc)
    /\ \/ /\ phase' = "running"
          /\ toWorker' = Append(toWorker, "initialized")
          /\ UNCHANGED os
       \/ /\ os' = "clean"
          /\ toWorker' = Append(toWorker, "error")
          /\ UNCHANGED phase
    /\ UNCHANGED <<worker, workerVars, traces, frozen, freezes, reader, job, shutdownFut>>

\* Messages are taken one at a time, none while tracing callbacks are awaited.
Receives(msg) ==
    /\ Awake /\ phase = "running" /\ reader = "reading"
    /\ toProc # <<>> /\ Head(toProc) = msg
    /\ toProc' = Tail(toProc)

\* StartJobRequest.
StartJob ==
    /\ Receives("start")
    /\ job' = IF job = "none" THEN "runs" ELSE job
    /\ UNCHANGED <<worker, toWorker, workerVars, traces, os, frozen, freezes, phase, reader,
                   shutdownFut>>

\* ShutdownRequest: without a job the process exits at once.
ReceiveShutdown ==
    /\ Receives("shutdown")
    /\ IF job = "none"
       THEN os' = "clean" /\ UNCHANGED shutdownFut
       ELSE shutdownFut' = "set" /\ UNCHANGED os
    /\ UNCHANGED <<worker, toWorker, workerVars, traces, frozen, freezes, phase, reader, job>>

\* TracingRequest: without a job the task that reads returns.
ReceiveTrace ==
    /\ Receives("trace")
    /\ reader' = IF job = "none" THEN "returned" ELSE "tracing"
    /\ UNCHANGED <<worker, toWorker, workerVars, traces, os, frozen, freezes, phase, job,
                   shutdownFut>>

TraceDone ==
    /\ Awake /\ reader = "tracing"
    /\ reader' = "reading"
    /\ toWorker' = Append(toWorker, "trace")
    /\ UNCHANGED <<worker, toProc, workerVars, traces, os, frozen, freezes, phase, job,
                   shutdownFut>>

\* ctx.shutdown() is called, or the room disconnects.
JobAsksShutdown ==
    /\ Awake /\ job = "runs" /\ shutdownFut = "pending"
    /\ shutdownFut' = "set"
    /\ UNCHANGED <<worker, toProc, toWorker, workerVars, traces, os, frozen, freezes, phase,
                   reader, job>>

\* _run_job_task leaves the room and starts the shutdown callbacks.
LeaveRoom ==
    /\ Awake /\ job = "runs" /\ shutdownFut = "set"
    /\ job' = "callbacks"
    /\ toWorker' = Append(toWorker, "exiting")
    /\ UNCHANGED <<worker, toProc, workerVars, traces, os, frozen, freezes, phase, reader,
                   shutdownFut>>

\* They have ended, or one has raised.
CallbacksEnd ==
    /\ Awake /\ job = "callbacks"
    /\ job' = "over"
    /\ UNCHANGED <<worker, toProc, toWorker, workerVars, traces, os, frozen, freezes, phase,
                   reader, shutdownFut>>

\* _exit_proc_cb.
Exit ==
    /\ Awake /\ job = "over"
    /\ os' = "clean"
    /\ UNCHANGED <<worker, toProc, toWorker, workerVars, traces, frozen, freezes, phase, reader,
                   job, shutdownFut>>

\* The socket is closed, or ping_timeout has passed: the process exits, whatever its job
\* is at.  What was sent before is read from the socket first, though maybe not handled.
OrphanExits ==
    /\ Awake /\ ~worker
    /\ os' = "clean"
    /\ UNCHANGED <<worker, toProc, toWorker, workerVars, traces, frozen, freezes, phase, reader,
                   job, shutdownFut>>

Freeze ==
    /\ Awake
    /\ freezes < MaxFreezes /\ freezes' = freezes + 1
    /\ frozen' = TRUE
    /\ UNCHANGED <<worker, toProc, toWorker, workerVars, traces, os, phase, reader, job,
                   shutdownFut>>

Thaw ==
    /\ os = "alive" /\ frozen
    /\ frozen' = FALSE
    /\ UNCHANGED <<worker, toProc, toWorker, workerVars, traces, os, freezes, phase, reader,
                   job, shutdownFut>>

Crash ==
    /\ os = "alive"
    /\ os' = "crashed"
    /\ UNCHANGED <<worker, toProc, toWorker, workerVars, traces, frozen, freezes, phase, reader,
                   job, shutdownFut>>

-----------------------------------------------------------------------------
Next ==
    \/ InitAnswered \/ InitTimeout \/ Supervise \/ ReadIpc
    \/ LaunchJob \/ AskTrace \/ AskClose \/ CloseTimeout \/ PongTimeout \/ MemoryKill
    \/ Joined \/ Closed \/ WorkerDies
    \/ InitializeProcess \/ StartJob \/ ReceiveShutdown \/ ReceiveTrace \/ TraceDone
    \/ JobAsksShutdown \/ LeaveRoom \/ CallbacksEnd \/ Exit \/ OrphanExits
    \/ Freeze \/ Thaw \/ Crash

\* The worker's timers fire and its tasks run.  Of the process only its reaction to the
\* end of the worker is assumed: callbacks and blocked loops may take for ever.
Fairness ==
    /\ WF_vars(InitAnswered \/ InitTimeout)
    /\ WF_vars(Supervise)
    /\ WF_vars(CloseTimeout)
    /\ WF_vars(PongTimeout)
    /\ WF_vars(Joined)
    /\ WF_vars(Closed)
    /\ WF_vars(OrphanExits)

Spec == Init /\ [][Next]_vars
FairSpec == Spec /\ Fairness

-----------------------------------------------------------------------------
(* Properties *)

Messages == {"initialize", "start", "trace", "shutdown"}
Answers  == {"initialized", "error", "trace", "exiting"}

TypeOK ==
    /\ worker \in BOOLEAN
    /\ toProc \in Seq(Messages) /\ toWorker \in Seq(Answers)
    /\ initFut \in {"pending", "done", "failed"}
    /\ supervise \in {"initializing", "serving", "done"}
    /\ launched \in BOOLEAN /\ status \in {"none", "running", "success", "failed"}
    /\ procClose \in {"no", "asked", "timed out", "done"} /\ killSent \in BOOLEAN
    /\ traces \in 0 .. MaxTraces
    /\ os \in {"alive", "clean", "killed", "crashed"}
    /\ frozen \in BOOLEAN /\ freezes \in 0 .. MaxFreezes
    /\ phase \in {"starting", "running"}
    /\ reader \in {"reading", "tracing", "returned"}
    /\ job \in {"none", "runs", "callbacks", "over"}
    /\ shutdownFut \in {"pending", "set"}

\* A job that is reported as a success has run, and so have its shutdown callbacks;
\* unless it was launched on a process that was asked to close before, which drops it.
SuccessHasRun ==
    launched /\ status = "success" => job = "over" \/ (job = "none" /\ procClose # "no")

\* aclose() ends, and with it the process, whatever the process does and at whatever
\* point it was asked to close; unless the worker dies.
CloseEndsProcess == procClose = "asked" ~> (procClose = "done" /\ Dead) \/ ~worker

\* A process whose worker has died exits, unless its loop is blocked.
OrphanIsGone == ~worker ~> Dead \/ frozen
=============================================================================
