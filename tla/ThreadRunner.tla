----------------------------- MODULE ThreadRunner -----------------------------
(***************************************************************************)
(* A thread that runs a job (ipc/job_thread_executor.py), for workers      *)
(* whose jobs share its process.  Executor and thread speak over a socket  *)
(* pair as those of JobProcess do, but the thread cannot be killed: the    *)
(* executor only asks, and waits for the thread to join.                   *)
(*                                                                         *)
(* The functions of the user that the thread runs are external.            *)
(***************************************************************************)
EXTENDS Naturals, Sequences

CONSTANTS
    MaxTraces   \* bound: requests for tracing information

VARIABLES
    toThread,   \* messages that were not read
    toWorker,
    initFut,    \* _initialize_fut
    main,       \* where _main_task stands
    launched,   \* _running_job is set
    status,     \* _job_status
    joinLock,   \* join() holds _lock
    joined,     \* it returned
    closing,    \* where aclose() stands
    traces,
    thread,     \* "starting", "running" or "dead"
    reader,     \* the task of entrypoint that reads the messages
    job,        \* the task of the job
    shutdownFut,\* _shutdown_fut
    raised      \* the function of the user that initializes raised

executorVars == <<initFut, main, launched, status, joinLock, joined, closing>>
threadVars   == <<thread, reader, job, shutdownFut, raised>>
vars == <<toThread, toWorker, executorVars, traces, threadVars>>

Init ==
    /\ toThread = <<>> /\ toWorker = <<>>
    /\ initFut = "unasked" /\ main = "init" /\ launched = FALSE /\ status = "none"
    /\ joinLock = FALSE /\ joined = FALSE /\ closing = "no" /\ traces = 0
    /\ thread = "starting" /\ reader = "reading" /\ job = "none" /\ shutdownFut = "pending"
    /\ raised = FALSE

-----------------------------------------------------------------------------
(* The executor *)

\* initialize() sends its request.
Ask ==
    /\ initFut = "unasked"
    /\ initFut' = "pending" /\ toThread' = Append(toThread, "initialize")
    /\ UNCHANGED <<toWorker, main, launched, status, joinLock, joined, closing, traces,
                   threadVars>>

\* The first message is the answer, whatever error it names; a closed socket has none.
Answer == IF toWorker # <<>> THEN "done" ELSE "failed"

InitAnswered ==
    /\ initFut = "pending"
    /\ toWorker # <<>> \/ thread = "dead"
    /\ initFut' = Answer
    /\ toWorker' = (IF toWorker = <<>> THEN toWorker ELSE Tail(toWorker))
    /\ UNCHANGED <<toThread, main, launched, status, joinLock, joined, closing, traces,
                   threadVars>>

\* initialize_timeout: the thread goes on.
InitTimeout ==
    /\ initFut = "pending"
    /\ initFut' = "failed"
    /\ UNCHANGED <<toThread, toWorker, main, launched, status, joinLock, joined, closing,
                   traces, threadVars>>

\* _main_task goes on, initialized or not, and _monitor_task reads.
Serve ==
    /\ main = "init" /\ initFut \in {"done", "failed"}
    /\ main' = "serving"
    /\ UNCHANGED <<toThread, toWorker, initFut, launched, status, joinLock, joined, closing,
                   traces, threadVars>>

\* _monitor_task: nothing here depends on what it reads.
Monitor ==
    /\ main = "serving" /\ toWorker # <<>>
    /\ toWorker' = Tail(toWorker)
    /\ UNCHANGED <<toThread, executorVars, traces, threadVars>>

\* launch_job: by the pool, once initialize() returned.  A dead thread reads nothing.
LaunchJob ==
    /\ initFut = "done" /\ ~launched
    /\ launched' = TRUE
    /\ status' = "running"
    /\ toThread' = Append(toThread, "start")
    /\ UNCHANGED <<toWorker, initFut, main, joinLock, joined, closing, traces, threadVars>>

\* tracing_info
AskTrace ==
    /\ traces < MaxTraces /\ main # "done" /\ closing = "no"
    /\ traces' = traces + 1 /\ toThread' = Append(toThread, "trace")
    /\ UNCHANGED <<toWorker, executorVars, threadVars>>

\* _join_fut: the thread has called join_fnc.
MainEnds ==
    /\ main = "serving" /\ thread = "dead"
    /\ main' = "done" /\ status' = "success"
    /\ UNCHANGED <<toThread, toWorker, initFut, launched, joinLock, joined, closing, traces,
                   threadVars>>

\* join(), once initialize() returned or raised.
Join ==
    /\ initFut \in {"done", "failed"} /\ ~joinLock /\ ~joined /\ closing # "lock"
    /\ joinLock' = TRUE
    /\ UNCHANGED <<toThread, toWorker, initFut, main, launched, status, joined, closing, traces,
                   threadVars>>

JoinEnds ==
    /\ joinLock /\ main = "done"
    /\ joinLock' = FALSE /\ joined' = TRUE
    /\ UNCHANGED <<toThread, toWorker, initFut, main, launched, status, closing, traces,
                   threadVars>>

\* aclose() asks the thread.
AskClose ==
    /\ closing = "no"
    /\ closing' = "asked" /\ toThread' = Append(toThread, "shutdown")
    /\ UNCHANGED <<toWorker, initFut, main, launched, status, joinLock, joined, traces,
                   threadVars>>

\* close_timeout: it waits on.
AfterTimeout == "overdue"

CloseTimeout ==
    /\ closing = "asked" /\ main # "done"
    /\ closing' = AfterTimeout
    /\ UNCHANGED <<toThread, toWorker, initFut, main, launched, status, joinLock, joined,
                   traces, threadVars>>

\* With the lock, which join() may hold until the thread has joined.
CloseLocks ==
    /\ closing \in {"asked", "overdue"} /\ ~joinLock
    /\ closing = "asked" => main = "done"
    /\ closing' = "lock"
    /\ UNCHANGED <<toThread, toWorker, initFut, main, launched, status, joinLock, joined,
                   traces, threadVars>>

Closed ==
    /\ closing = "lock" /\ main = "done"
    /\ closing' = "closed"
    /\ UNCHANGED <<toThread, toWorker, initFut, main, launched, status, joinLock, joined,
                   traces, threadVars>>

-----------------------------------------------------------------------------
(* The thread *)

Quit == thread' = "dead"

\* thread_main: the first message must be the request to initialize; the function of the
\* user may raise, and the error is sent.
Initialize ==
    /\ thread = "starting" /\ toThread # <<>>
    /\ toThread' = Tail(toThread)
    /\ \/ /\ Head(toThread) # "initialize"
          /\ Quit /\ UNCHANGED <<toWorker, raised>>
       \/ /\ Head(toThread) = "initialize"
          /\ Quit /\ raised' = TRUE /\ toWorker' = Append(toWorker, "error")
       \/ /\ Head(toThread) = "initialize"
          /\ thread' = "running" /\ toWorker' = Append(toWorker, "initialized")
          /\ UNCHANGED raised
    /\ UNCHANGED <<executorVars, traces, reader, job, shutdownFut>>

Receives(msg) ==
    /\ thread = "running" /\ reader = "reading" /\ toThread # <<>> /\ Head(toThread) = msg
    /\ toThread' = Tail(toThread)

\* StartJobRequest
StartJob ==
    /\ Receives("start")
    /\ job' = "runs"
    /\ UNCHANGED <<toWorker, executorVars, traces, thread, reader, shutdownFut, raised>>

\* ShutdownRequest: "exit immediately" without a job.
Shutdown ==
    /\ Receives("shutdown")
    /\ IF job = "none" THEN Quit /\ UNCHANGED shutdownFut
       ELSE shutdownFut' = "set" /\ UNCHANGED thread
    /\ UNCHANGED <<toWorker, executorVars, traces, reader, job, raised>>

\* TracingRequest: the callbacks are awaited before the next message is read.
Trace ==
    /\ Receives("trace")
    /\ reader' = IF job = "none" THEN "returned" ELSE "tracing"
    /\ UNCHANGED <<toWorker, executorVars, traces, thread, job, shutdownFut, raised>>

TraceEnds ==
    /\ thread = "running" /\ reader = "tracing"
    /\ reader' = "reading" /\ toWorker' = Append(toWorker, "trace")
    /\ UNCHANGED <<toThread, executorVars, traces, thread, job, shutdownFut, raised>>

\* The job asks to be shut down, or the room is disconnected.
JobAsks ==
    /\ thread = "running" /\ job = "runs" /\ shutdownFut = "pending"
    /\ shutdownFut' = "set"
    /\ UNCHANGED <<toThread, toWorker, executorVars, traces, thread, reader, job, raised>>

\* _run_job_task: the room is left, and the shutdown callbacks are awaited.
JobEnds ==
    /\ thread = "running" /\ job = "runs" /\ shutdownFut = "set"
    /\ job' = "over" /\ toWorker' = Append(toWorker, "exiting")
    /\ UNCHANGED <<toThread, executorVars, traces, thread, reader, shutdownFut, raised>>

\* _exit_proc_flag
MayExit == job = "over"

\* The loop ends, and with it the thread.
ThreadEnds ==
    /\ thread = "running" /\ MayExit
    /\ Quit
    /\ UNCHANGED <<toThread, toWorker, executorVars, traces, reader, job, shutdownFut, raised>>

-----------------------------------------------------------------------------
Next ==
    \/ Ask \/ InitAnswered \/ InitTimeout \/ Serve \/ Monitor \/ LaunchJob \/ AskTrace
    \/ MainEnds \/ Join \/ JoinEnds \/ AskClose \/ CloseTimeout \/ CloseLocks \/ Closed
    \/ Initialize \/ StartJob \/ Shutdown \/ Trace \/ TraceEnds \/ JobAsks \/ JobEnds
    \/ ThreadEnds

\* The tasks of both sides run, and the functions of the user return.
Fairness ==
    /\ WF_vars(Ask) /\ WF_vars(InitAnswered \/ InitTimeout) /\ WF_vars(Serve)
    /\ WF_vars(MainEnds) /\ WF_vars(Join) /\ WF_vars(JoinEnds) /\ WF_vars(CloseLocks)
    /\ WF_vars(Closed) /\ WF_vars(Initialize) /\ WF_vars(StartJob) /\ WF_vars(Shutdown)
    /\ WF_vars(Trace) /\ WF_vars(TraceEnds) /\ WF_vars(JobEnds) /\ WF_vars(ThreadEnds)

Spec == Init /\ [][Next]_vars /\ Fairness

-----------------------------------------------------------------------------
(* Properties *)

TypeOK ==
    /\ initFut \in {"unasked", "pending", "done", "failed"}
    /\ main \in {"init", "serving", "done"} /\ status \in {"none", "running", "success"}
    /\ closing \in {"no", "asked", "overdue", "lock", "closed"}
    /\ traces \in 0 .. MaxTraces /\ thread \in {"starting", "running", "dead"}
    /\ reader \in {"reading", "tracing", "returned"} /\ job \in {"none", "runs", "over"}

\* A job that is reported as a success has run to its end; unless the executor was asked to
\* close before, or the initialization raised: its error is taken for an answer, and the
\* job is launched on a thread that has ended.
SuccessHasRun ==
    launched /\ main = "done" /\ status = "success" =>
        job = "over" \/ closing # "no" \/ raised

\* A thread that was closed has ended: nothing of it goes on in the process of the worker.
ClosedIsOver == closing = "closed" => thread = "dead" /\ job # "runs"

\* aclose() ends, and so does the thread, at whatever point it was asked; unless a tracing
\* request found no job, for then nobody reads that the thread is to shut down.
CloseEnds == closing = "asked" ~> closing = "closed" \/ reader = "returned"
=============================================================================
