------------------------------ MODULE Inference ------------------------------
(***************************************************************************)
(* Requests of the jobs to the process that runs the inference:            *)
(* _InfClient in the process of a job (ipc/job_proc_lazy_main.py),         *)
(* JobProcExecutor and InferenceProcExecutor in the worker                 *)
(* (ipc/job_proc_executor.py, ipc/inference_proc_executor.py) and          *)
(* _InferenceProc in the process (ipc/inference_proc_lazy_main.py).        *)
(*                                                                         *)
(* A request is registered after its message was sent: when the pipe is    *)
(* full, the sender waits in between.                                      *)
(***************************************************************************)
EXTENDS Naturals, Sequences

CONSTANTS
    Jobs,    \* the processes of jobs
    PerJob   \* bound: requests of a job

VARIABLES
    client,      \* do_inference of _InfClient, for each request
    up, down,    \* the pipe between the process of each job and the worker
    gone,        \* the jobs whose process has ended
    task,        \* _do_inference_task of the worker, for each request
    active,      \* _active_requests of InferenceProcExecutor
    reading,     \* _main_task of InferenceProcExecutor runs
    queue,       \* the requests the process has not read
    run,         \* the request that is run, in a sequence
    replies,     \* the responses the worker has not read
    alive,       \* the process that runs the inference
    early        \* a request was answered, or cancelled, before it was registered

clientVars == <<client, up, down, gone>>
workerVars == <<task, active, reading, early>>
procVars   == <<queue, run, replies, alive>>
vars == <<clientVars, workerVars, procVars>>

Requests == Jobs \X (1 .. PerJob)
JobOf(r) == r[1]

Init ==
    /\ client = [r \in Requests |-> "none"]
    /\ up = [j \in Jobs |-> <<>>] /\ down = [j \in Jobs |-> <<>>] /\ gone = {}
    /\ task = [r \in Requests |-> "none"]
    /\ active = {} /\ reading = TRUE
    /\ queue = <<>> /\ run = <<>> /\ replies = <<>> /\ alive = TRUE
    /\ early = FALSE

-----------------------------------------------------------------------------
(* The process of a job *)

\* The message is in the pipe; if that is full, drain() waits.
AskInference(r) ==
    /\ client[r] = "none" /\ JobOf(r) \notin gone
    /\ \E s \in {"sending", "waiting"} : client' = [client EXCEPT ![r] = s]
    /\ up' = [up EXCEPT ![JobOf(r)] = Append(@, r)]
    /\ UNCHANGED <<down, gone, workerVars, procVars>>

AskRegistered(r) ==
    /\ client[r] = "sending" /\ JobOf(r) \notin gone
    /\ client' = [client EXCEPT ![r] = "waiting"]
    /\ UNCHANGED <<up, down, gone, workerVars, procVars>>

\* The caller is cancelled, or gives up: _active_requests keeps what was registered.
CallerCancelled(r) ==
    /\ client[r] \in {"sending", "waiting"} /\ JobOf(r) \notin gone
    /\ client' = [client EXCEPT ![r] = "cancelled"]
    /\ UNCHANGED <<up, down, gone, workerVars, procVars>>

\* _on_inference_response: who is not registered is not found later either.
ReadAnswer(j) ==
    /\ j \notin gone /\ down[j] # <<>>
    /\ LET r == Head(down[j])
       IN /\ client' = IF client[r] = "waiting" THEN [client EXCEPT ![r] = "answered"]
                       ELSE client
          /\ early' = (early \/ client[r] = "sending")
    /\ down' = [down EXCEPT ![j] = Tail(@)]
    /\ UNCHANGED <<up, gone, task, active, reading, procVars>>

-----------------------------------------------------------------------------
(* The worker *)

\* _main_task of the job's executor starts a task, which sends the request on.
StartInference(j) ==
    /\ j \notin gone /\ up[j] # <<>>
    /\ LET r == Head(up[j])
       IN \E paused \in BOOLEAN :
            /\ task' = [task EXCEPT ![r] = IF paused THEN "sending" ELSE "waiting"]
            /\ active' = IF paused THEN active ELSE active \cup {r}
            /\ queue' = IF alive THEN Append(queue, r) ELSE queue
    /\ up' = [up EXCEPT ![j] = Tail(@)]
    /\ UNCHANGED <<client, down, gone, reading, early, run, replies, alive>>

TaskRegistered(r) ==
    /\ task[r] = "sending"
    /\ task' = [task EXCEPT ![r] = "waiting"]
    /\ active' = active \cup {r}
    /\ UNCHANGED <<clientVars, reading, early, procVars>>

\* _main_task of the inference's executor: an unexpected response ends it.
ReadReply ==
    /\ reading /\ replies # <<>>
    /\ replies' = Tail(replies)
    /\ LET r == Head(replies)
       IN IF r \in active
          THEN /\ active' = active \ {r}
               /\ task' = [task EXCEPT ![r] = IF @ = "waiting" THEN "resolved" ELSE @]
               /\ UNCHANGED <<reading, early>>
          ELSE /\ reading' = FALSE
               /\ early' = (early \/ task[r] = "sending")
               /\ UNCHANGED <<active, task>>
    /\ UNCHANGED <<clientVars, queue, run, alive>>

\* The task sends the answer to the process of its job.
Answer(r) ==
    /\ task[r] = "resolved"
    /\ task' = [task EXCEPT ![r] = "done"]
    /\ down' = [down EXCEPT ![JobOf(r)] = Append(@, r)]
    /\ UNCHANGED <<client, up, gone, active, reading, early, procVars>>

\* Mutant: a cancelled task takes its request out of _active_requests.
CancelTasksCleanly(j) ==
    /\ task' = [r \in Requests |-> IF JobOf(r) = j /\ task[r] \in {"sending", "waiting"}
                                   THEN "cancelled" ELSE task[r]]
    /\ active' = {r \in active : JobOf(r) # j}
    /\ early' = (early \/ \E r \in Requests : JobOf(r) = j /\ task[r] = "sending")

\* _main_task of the job's executor cancels its tasks; what they registered stays.
CancelTasks(j) ==
    /\ task' = [r \in Requests |-> IF JobOf(r) = j /\ task[r] \in {"sending", "waiting"}
                                   THEN "cancelled" ELSE task[r]]
    /\ early' = (early \/ \E r \in Requests : JobOf(r) = j /\ task[r] = "sending")
    /\ UNCHANGED active

JobEnds(j) ==
    /\ j \notin gone
    /\ gone' = gone \cup {j}
    /\ CancelTasks(j)
    /\ UNCHANGED <<client, up, down, reading, procVars>>

-----------------------------------------------------------------------------
(* The process that runs the inference, one request after the other *)

RunInference ==
    /\ alive /\ run = <<>> /\ queue # <<>>
    /\ run' = <<Head(queue)>> /\ queue' = Tail(queue)
    /\ UNCHANGED <<clientVars, workerVars, replies, alive>>

\* The runner returned, or raised: the response says which.
Respond ==
    /\ alive /\ run # <<>>
    /\ replies' = replies \o run /\ run' = <<>>
    /\ UNCHANGED <<clientVars, workerVars, queue, alive>>

\* The process crashes or is asked to shut down: no one fails the requests it had.
InferenceEnds ==
    /\ alive
    /\ alive' = FALSE /\ queue' = <<>> /\ run' = <<>>
    /\ UNCHANGED <<clientVars, workerVars, replies>>

-----------------------------------------------------------------------------
Next ==
    \/ \E r \in Requests :
        AskInference(r) \/ AskRegistered(r) \/ CallerCancelled(r) \/ TaskRegistered(r)
            \/ Answer(r)
    \/ \E j \in Jobs : ReadAnswer(j) \/ StartInference(j) \/ JobEnds(j)
    \/ ReadReply \/ RunInference \/ Respond \/ InferenceEnds

\* The loops run their tasks, pipes are emptied and runners return.
Fairness ==
    /\ \A r \in Requests : WF_vars(AskRegistered(r)) /\ WF_vars(TaskRegistered(r))
                           /\ WF_vars(Answer(r))
    /\ \A j \in Jobs : WF_vars(ReadAnswer(j)) /\ WF_vars(StartInference(j))
    /\ WF_vars(ReadReply) /\ WF_vars(RunInference) /\ WF_vars(Respond)

Spec == Init /\ [][Next]_vars
FairSpec == Spec /\ Fairness

-----------------------------------------------------------------------------
(* Properties *)

TypeOK ==
    /\ client \in [Requests -> {"none", "sending", "waiting", "answered", "cancelled"}]
    /\ task \in [Requests -> {"none", "sending", "waiting", "resolved", "done", "cancelled"}]
    /\ gone \subseteq Jobs /\ active \subseteq Requests
    /\ reading \in BOOLEAN /\ alive \in BOOLEAN /\ early \in BOOLEAN
    /\ Len(run) <= 1

\* A request is answered, whatever other jobs and cancelled callers do, unless its job or
\* the process that runs the inference ends, or a request was overtaken by its response.
InferenceAnswers ==
    \A r \in Requests :
        client[r] = "waiting" ~>
            client[r] # "waiting" \/ JobOf(r) \in gone \/ ~alive \/ early
=============================================================================
