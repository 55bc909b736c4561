-------------------------------- MODULE Worker --------------------------------
(***************************************************************************)
(* The worker: worker.py, between the server that dispatches jobs and the  *)
(* pool of processes that runs them.                                       *)
(*                                                                         *)
(* What the worker tells the server goes through _msg_chan, a bounded      *)
(* channel that outlives the connection; the tasks that tell it wait when  *)
(* the channel is full.  The answer to a request, the server's assignment, *)
(* the launch and the end of a job, a drain, a close and the loss of the   *)
(* connection come in any order.                                           *)
(*                                                                         *)
(* The server and the pool are reduced to what the worker sees of them.  A *)
(* process is a number, takes one job at most, and leaves the list when it *)
(* ends; ProcPool models the pool itself.                                  *)
(***************************************************************************)
EXTENDS Naturals, FiniteSets, FiniteSetsExt, Sequences, SequencesExt

CONSTANTS
    Jobs, NoJob,  \* the jobs that the server may offer; a process without a job
    Capacity,     \* of _msg_chan
    MaxRetry,     \* max_retry
    MaxDrops,     \* bound: connections that are lost or not registered
    MaxProcs      \* bound: processes the pool spawns

VARIABLES
    conn,       \* where the connection task stands
    retries,    \* its retry_count
    drops,      \* bound: connections lost so far
    chan,       \* _msg_chan
    blocked,    \* what waits in _msg_chan.send
    sending,    \* what _send_task has taken and is sending, in a sequence
    lost,       \* the jobs whose answer was being sent when the connection was lost
    wasFull,    \* a sender has had to wait
    req,        \* the state of the request of each job
    pending,    \* the keys of _pending_assignments
    listed,     \* the pool's list of processes
    jobOf,      \* the job that each process runs or ran
    stopping,   \* the processes that were asked to close
    ended,      \* the jobs that ended
    tasks,      \* the tasks that run _update_job_status, with their event
    draining,   \* _draining
    drain,      \* where drain() stands
    visited,    \* how far drain() has iterated over the list of processes
    awaited,    \* the process it awaits, or 0
    close,      \* where aclose() stands
    srv,        \* what the server knows of each request
    heard,      \* the last status of each job that reached the server
    seen        \* the last status of the worker that reached the server

connVars  == <<conn, retries, drops>>
chanVars  == <<chan, blocked, wasFull>>
sendVars  == <<sending, lost>>
reqVars   == <<req, pending>>
procVars  == <<listed, jobOf, stopping, ended>>
drainVars == <<draining, drain, visited, awaited>>
srvVars   == <<srv, heard, seen>>
vars == <<connVars, chanVars, sendVars, reqVars, procVars, tasks, drainVars, close, srvVars>>

Procs == 1 .. MaxProcs
Busy(p) == jobOf[p] # NoJob

\* The messages: the answer to a request, a job's status, the worker's status.
Answer(j, accept) == <<"answer", j, accept>>
JobUpdate(j)      == <<"job", j, IF j \in ended THEN "ended" ELSE "running">>
Update(sender, s) == <<"worker", sender, s>>
AnswersIn(s) == {m[2] : m \in {n \in Range(s) : n[1] = "answer"}}
Messages ==
    ({"answer"} \X Jobs \X BOOLEAN) \cup ({"job"} \X Jobs \X {"running", "ended"})
        \cup ({"worker"} \X {"load", "drain"} \X {"available", "full"})

Init ==
    /\ conn = "connecting" /\ retries = 0 /\ drops = 0
    /\ chan = <<>> /\ blocked = {} /\ wasFull = FALSE
    /\ sending = <<>> /\ lost = {}
    /\ req = [j \in Jobs |-> "none"] /\ pending = {}
    /\ listed = <<>> /\ jobOf = [p \in Procs |-> NoJob] /\ stopping = {} /\ ended = {}
    /\ tasks = {}
    /\ draining = FALSE /\ drain = "no" /\ visited = 0 /\ awaited = 0
    /\ close = "no"
    /\ srv = [j \in Jobs |-> "none"]
    /\ heard = [j \in Jobs |-> "none"]
    /\ seen = "available"

-----------------------------------------------------------------------------
(* drain(): the list of the processes is iterated as it is, while the processes that
   end are removed from it.  What follows in the list is passed over up to the next
   process with a job, without a suspension.                                        *)

VisitFrom(k) ==
    LET ahead == {i \in k + 1 .. Len(listed) : Busy(listed[i])} IN
    IF ahead = {}
    THEN drain' = "done" /\ visited' = 0 /\ awaited' = 0
    ELSE /\ drain' = "waiting"
         /\ visited' = Min(ahead)
         /\ awaited' = listed[Min(ahead)]

-----------------------------------------------------------------------------
(* _queue_msg, and what its caller does once the message is in the channel *)

\* An accepted request is registered as a pending assignment.
Put(m) ==
    /\ chan' = Append(chan, m)
    /\ IF m[1] = "answer"
       THEN /\ req' = [req EXCEPT ![m[2]] = IF m[3] THEN "waiting" ELSE "done"]
            /\ pending' = IF m[3] THEN pending \cup {m[2]} ELSE pending
       ELSE UNCHANGED reqVars
    /\ IF m[1] = "worker" /\ m[2] = "drain"
       THEN VisitFrom(0)
       ELSE UNCHANGED <<drain, visited, awaited>>

\* Mutant: the channel is not bounded.
QueueAlways(m) == Put(m) /\ UNCHANGED <<blocked, wasFull>>

Queue(m) ==
    IF Len(chan) < Capacity
    THEN Put(m) /\ UNCHANGED <<blocked, wasFull>>
    ELSE /\ blocked' = blocked \cup {m}
         /\ wasFull' = TRUE
         /\ req' = IF m[1] = "answer" THEN [req EXCEPT ![m[2]] = "answering"] ELSE req
         /\ drain' = IF m[1] = "worker" /\ m[2] = "drain" THEN "telling" ELSE drain
         /\ UNCHANGED <<chan, pending, visited, awaited>>

\* A sender is woken; another one may have come first.
Unblock(m) ==
    /\ m \in blocked /\ Len(chan) < Capacity
    /\ blocked' = blocked \ {m}
    /\ Put(m)
    /\ UNCHANGED <<connVars, wasFull, sendVars, procVars, tasks, draining, close,
                   srvVars>>

-----------------------------------------------------------------------------
(* The connection: _connection_task and _run_ws *)

NewTry(n) ==
    IF n >= MaxRetry THEN conn' = "failed" /\ retries' = n
    ELSE conn' = "connecting" /\ retries' = n + 1

ConnectFails ==
    /\ conn = "connecting"
    /\ NewTry(retries)
    /\ UNCHANGED <<drops, chanVars, sendVars, reqVars, procVars, tasks, drainVars, close,
                   srvVars>>

\* The retries are counted anew before the worker is registered.
RegisterFails ==
    /\ conn = "connecting" /\ drops < MaxDrops
    /\ drops' = drops + 1
    /\ NewTry(0)
    /\ UNCHANGED <<chanVars, sendVars, reqVars, procVars, tasks, drainVars, close, srvVars>>

Register ==
    /\ conn = "connecting"
    /\ conn' = "up" /\ retries' = 0
    /\ UNCHANGED <<drops, chanVars, sendVars, reqVars, procVars, tasks, drainVars, close,
                   srvVars>>

\* The connection is lost: the tasks of _run_ws are cancelled, with what they send.
Drop ==
    /\ conn = "up" /\ drops < MaxDrops
    /\ drops' = drops + 1
    /\ conn' = IF MaxRetry = 0 THEN "failed" ELSE "dropped"
    /\ retries' = 1
    /\ sending' = <<>>
    /\ lost' = lost \cup AnswersIn(sending)
    /\ blocked' = {m \in blocked : m[2] # "load"}
    /\ UNCHANGED <<chan, wasFull, reqVars, procVars, tasks, drainVars, close, srvVars>>

Reconnect ==
    /\ conn = "dropped"
    /\ conn' = "connecting"
    /\ UNCHANGED <<retries, drops, chanVars, sendVars, reqVars, procVars, tasks, drainVars,
                   close, srvVars>>

SendTaskTakes ==
    /\ conn = "up" /\ sending = <<>> /\ chan # <<>>
    /\ sending' = <<Head(chan)>> /\ chan' = Tail(chan)
    /\ UNCHANGED <<connVars, blocked, wasFull, lost, reqVars, procVars, tasks, drainVars, close,
                   srvVars>>

\* The server receives a message.
Sent ==
    /\ conn = "up" /\ sending # <<>>
    /\ sending' = <<>>
    /\ LET m == Head(sending) IN
       CASE m[1] = "answer" ->
                /\ srv' = [srv EXCEPT ![m[2]] = IF m[3] THEN "accepted" ELSE "refused"]
                /\ UNCHANGED <<heard, seen>>
         [] m[1] = "job" ->
                heard' = [heard EXCEPT ![m[2]] = m[3]] /\ UNCHANGED <<srv, seen>>
         [] m[1] = "worker" ->
                seen' = m[3] /\ UNCHANGED <<srv, heard>>
    /\ UNCHANGED <<connVars, chanVars, lost, reqVars, procVars, tasks, drainVars, close>>

\* _update_worker_status, every UPDATE_STATUS_INTERVAL.
LoadTick ==
    /\ conn = "up" /\ \A m \in blocked : m[2] # "load"
    /\ \E s \in {"available", "full"} :
        /\ draining => s = "full"
        /\ Queue(Update("load", s))
    /\ UNCHANGED <<connVars, sendVars, procVars, tasks, draining, close, srvVars>>

-----------------------------------------------------------------------------
(* Requests and assignments *)

\* _handle_availability: the task of request_fnc starts.
Offer(j) ==
    /\ conn = "up" /\ srv[j] = "none"
    /\ srv' = [srv EXCEPT ![j] = "offered"]
    /\ req' = [req EXCEPT ![j] = "asked"]
    /\ UNCHANGED <<connVars, chanVars, sendVars, pending, procVars, tasks, drainVars, close,
                   heard, seen>>

\* request_fnc accepts; or it rejects, raises or returns without an answer.
AnswerRequest(j) ==
    /\ req[j] = "asked"
    /\ \E accept \in BOOLEAN : Queue(Answer(j, accept))
    /\ UNCHANGED <<connVars, sendVars, procVars, tasks, draining, close, srvVars>>

\* _handle_assignment: it comes too late for a request that has timed out.
Assign(j) ==
    /\ conn = "up" /\ srv[j] = "accepted"
    /\ srv' = [srv EXCEPT ![j] = "assigned"]
    /\ pending' = pending \ {j}
    /\ req' = IF req[j] = "waiting" THEN [req EXCEPT ![j] = "assigned"] ELSE req
    /\ UNCHANGED <<connVars, chanVars, sendVars, procVars, tasks, drainVars, close, heard, seen>>

\* ASSIGNMENT_TIMEOUT: the entry of the request stays.
AssignmentTimeout(j) ==
    /\ req[j] = "waiting"
    /\ req' = [req EXCEPT ![j] = "timed out"]
    /\ UNCHANGED <<connVars, chanVars, sendVars, pending, procVars, tasks, drainVars, close,
                   srvVars>>

\* The pool's launch_job has a process for the job.
Launch(j) ==
    /\ req[j] = "assigned"
    /\ \E p \in Range(listed) :
        /\ ~Busy(p) /\ p \notin stopping
        /\ jobOf' = [jobOf EXCEPT ![p] = j]
    /\ req' = [req EXCEPT ![j] = "launched"]
    /\ tasks' = tasks \cup {<<j, "launched">>}
    /\ UNCHANGED <<connVars, chanVars, sendVars, pending, listed, stopping, ended, drainVars,
                   close, srvVars>>

\* A pool that is closed may still hand out a process that has ended.
LaunchIsLost(j) ==
    /\ req[j] = "assigned" /\ close # "no"
    /\ req' = [req EXCEPT ![j] = "lost"]
    /\ UNCHANGED <<connVars, chanVars, sendVars, pending, procVars, tasks, drainVars, close,
                   srvVars>>

\* _handle_termination: a job that has no process yet is ignored.
Terminate(j) ==
    /\ conn = "up" /\ srv[j] = "assigned"
    /\ stopping' = stopping \cup {p \in Range(listed) : jobOf[p] = j}
    /\ UNCHANGED <<connVars, chanVars, sendVars, reqVars, listed, jobOf, ended, tasks, drainVars,
                   close, srvVars>>

-----------------------------------------------------------------------------
(* The processes, and the tasks that tell their status *)

Spawn(p) ==
    /\ close = "no"
    /\ p = 1 + Cardinality({q \in Procs : Busy(q) \/ q \in Range(listed)})
    /\ p \notin Range(listed)
    /\ listed' = Append(listed, p)
    /\ UNCHANGED <<connVars, chanVars, sendVars, reqVars, jobOf, stopping, ended, tasks,
                   drainVars, close, srvVars>>

\* process_closed is emitted, and the process leaves the list before a drain that
\* awaited it goes on.
ProcEnds(p) ==
    /\ p \in Range(listed) /\ (Busy(p) \/ p \in stopping)
    /\ listed' = RemoveAt(listed, CHOOSE n \in DOMAIN listed : listed[n] = p)
    /\ IF Busy(p)
       THEN ended' = ended \cup {jobOf[p]} /\ tasks' = tasks \cup {<<jobOf[p], "closed">>}
       ELSE UNCHANGED <<ended, tasks>>
    /\ UNCHANGED <<connVars, chanVars, sendVars, reqVars, jobOf, stopping, drainVars, close,
                   srvVars>>

\* Mutant: the status is that of the event which started the task.
UpdateByEvent(j, event) ==
    /\ <<j, event>> \in tasks
    /\ tasks' = tasks \ {<<j, event>>}
    /\ Queue(<<"job", j, IF event = "closed" THEN "ended" ELSE "running">>)
    /\ UNCHANGED <<connVars, sendVars, procVars, draining, close, srvVars>>

\* _update_job_status reads the status when it runs.
UpdateJobStatus(j, event) ==
    /\ <<j, event>> \in tasks
    /\ tasks' = tasks \ {<<j, event>>}
    /\ Queue(JobUpdate(j))
    /\ UNCHANGED <<connVars, sendVars, procVars, draining, close, srvVars>>

-----------------------------------------------------------------------------
(* drain() and aclose() *)

\* The status is not told while the worker connects.
Drain ==
    /\ ~draining /\ close = "no"
    /\ draining' = TRUE
    /\ IF conn \in {"connecting", "failed"}
       THEN VisitFrom(0) /\ UNCHANGED <<chanVars, reqVars>>
       ELSE Queue(Update("drain", "full"))
    /\ UNCHANGED <<connVars, sendVars, procVars, tasks, close, srvVars>>

\* The process has ended, and has left the list.
DrainGoesOn ==
    /\ drain = "waiting" /\ awaited \notin Range(listed)
    /\ VisitFrom(visited)
    /\ UNCHANGED <<connVars, chanVars, sendVars, reqVars, procVars, tasks, draining,
                   close, srvVars>>

DrainTimeout ==
    /\ drain = "waiting"
    /\ drain' = "timed out" /\ visited' = 0 /\ awaited' = 0
    /\ UNCHANGED <<connVars, chanVars, sendVars, reqVars, procVars, tasks, draining,
                   close, srvVars>>

\* The connection is cancelled, and the pool asks every process to close.
Close ==
    /\ close = "no" /\ drain \in {"no", "done", "timed out"}
    /\ close' = "pool"
    /\ conn' = "cancelled"
    /\ sending' = <<>> /\ lost' = lost \cup AnswersIn(sending)
    /\ blocked' = {m \in blocked : m[2] # "load"}
    /\ stopping' = stopping \cup Range(listed)
    /\ UNCHANGED <<retries, drops, chan, wasFull, reqVars, listed, jobOf, ended, tasks,
                   drainVars, srvVars>>

PoolClosed ==
    /\ close = "pool" /\ listed = <<>>
    /\ close' = "tasks"
    /\ UNCHANGED <<connVars, chanVars, sendVars, reqVars, procVars, tasks, drainVars, srvVars>>

\* Every task of _tasks has ended.
FinishClose ==
    /\ close = "tasks"
    /\ tasks = {} /\ blocked = {}
    /\ \A j \in Jobs : req[j] \notin {"asked", "answering", "waiting", "assigned"}
    /\ close' = "done"
    /\ UNCHANGED <<connVars, chanVars, sendVars, reqVars, procVars, tasks, drainVars, srvVars>>

-----------------------------------------------------------------------------
Next ==
    \/ ConnectFails \/ RegisterFails \/ Register \/ Drop \/ Reconnect
    \/ SendTaskTakes \/ Sent \/ LoadTick
    \/ \E m \in blocked : Unblock(m)
    \/ \E j \in Jobs :
        \/ Offer(j) \/ AnswerRequest(j) \/ Assign(j) \/ AssignmentTimeout(j)
        \/ Launch(j) \/ LaunchIsLost(j) \/ Terminate(j)
        \/ \E event \in {"launched", "closed"} : UpdateJobStatus(j, event)
    \/ \E p \in Procs : Spawn(p) \/ ProcEnds(p)
    \/ Drain \/ DrainGoesOn \/ DrainTimeout
    \/ Close \/ PoolClosed \/ FinishClose

\* The loop runs its tasks; a try to connect ends; request_fnc returns; an assignment
\* times out; a process that was asked to close ends.  SF: a woken sender may be
\* overtaken by one that runs in the same turn of the loop, but not for ever.
Fairness ==
    /\ WF_vars(ConnectFails \/ RegisterFails \/ Register)
    /\ WF_vars(Reconnect)
    /\ WF_vars(SendTaskTakes \/ Sent)
    /\ WF_vars(LoadTick)
    /\ SF_vars(\E m \in blocked : m[1] # "worker" /\ Unblock(m))
    /\ WF_vars(\E m \in blocked : Unblock(m))
    /\ \A j \in Jobs :
        /\ WF_vars(AnswerRequest(j))
        /\ WF_vars(AssignmentTimeout(j))
        /\ WF_vars(\E event \in {"launched", "closed"} : UpdateJobStatus(j, event))
    /\ \A p \in Procs : WF_vars(p \in stopping /\ ProcEnds(p))
    /\ WF_vars(DrainGoesOn)
    /\ WF_vars(PoolClosed)
    /\ WF_vars(FinishClose)

Spec == Init /\ [][Next]_vars
FairSpec == Spec /\ Fairness

-----------------------------------------------------------------------------
(* Properties *)

TypeOK ==
    /\ conn \in {"connecting", "up", "dropped", "failed", "cancelled"}
    /\ retries \in 0 .. MaxRetry + 1 /\ drops \in 0 .. MaxDrops
    /\ chan \in Seq(Messages) /\ Len(chan) <= Capacity
    /\ blocked \subseteq Messages /\ wasFull \in BOOLEAN
    /\ sending \in Seq(Messages) /\ Len(sending) <= 1 /\ lost \subseteq Jobs
    /\ req \in [Jobs -> {"none", "asked", "answering", "waiting", "assigned", "launched",
                         "timed out", "done", "lost"}]
    /\ pending \subseteq Jobs
    /\ listed \in Seq(Procs) /\ jobOf \in [Procs -> Jobs \cup {NoJob}]
    /\ stopping \subseteq Procs /\ ended \subseteq Jobs
    /\ tasks \subseteq Jobs \X {"launched", "closed"}
    /\ draining \in BOOLEAN
    /\ drain \in {"no", "telling", "waiting", "done", "timed out"}
    /\ visited \in 0 .. MaxProcs /\ awaited \in 0 .. MaxProcs
    /\ close \in {"no", "pool", "tasks", "done"}
    /\ srv \in [Jobs -> {"none", "offered", "accepted", "refused", "assigned"}]
    /\ heard \in [Jobs -> {"none", "running", "ended"}]
    /\ seen \in {"available", "full"}

\* The server, once told that a job ended, is not told that it runs, although two tasks
\* tell the status of a job and either may run first; unless the channel was full, where
\* a sender may overtake another one.
StatusNeverGoesBack ==
    [][\A j \in Jobs : heard[j] = "ended" => heard'[j] = "ended" \/ wasFull]_vars

\* Nobody is left to tell the server anything.
Unconnected == conn \in {"failed", "cancelled"}

\* The server gets an answer to every request, over a loss of the connection and a full
\* channel; unless the answer itself was being sent at that moment.
RequestIsAnswered ==
    \A j \in Jobs :
        req[j] = "asked" ~> srv[j] # "offered" \/ j \in lost \/ Unconnected

\* From some time after a drain on, the server sees that the worker is full, although
\* an update is dropped while the worker connects and older ones wait in the channel.
DrainIsSeen == draining ~> [](seen = "full" \/ Unconnected)

\* A close ends, unless a job was assigned that gets no process from the closed pool, or
\* a message waits for room in a channel that nobody reads any more.
CloseEnds ==
    close = "pool" ~> \/ close = "done"
                      \/ \E j \in Jobs : req[j] = "assigned"
                      \/ blocked # {} /\ Len(chan) = Capacity
=============================================================================
