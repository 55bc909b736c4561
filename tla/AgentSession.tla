----------------------------- MODULE AgentSession -----------------------------
(***************************************************************************)
(* The life of a session: voice/agent_session.py, with start, drain and    *)
(* aclose of voice/agent_activity.py.                                      *)
(*                                                                         *)
(* A session runs one activity at a time.  start() starts the first one,   *)
(* update_agent() replaces it from a task of its own, and aclose() may be  *)
(* called by the application, after an error and at the shutdown of the    *)
(* job.  start and aclose exclude each other by _lock, hand-overs by       *)
(* _activity_lock, and the operations of one activity by its own _lock:    *)
(* a close and a hand-over do not exclude each other.                      *)
(*                                                                         *)
(* An agent is a number, in the order of the calls of start and            *)
(* update_agent, and stands for the task of that call and for the activity *)
(* it creates.  An asyncio.Lock is the sequence of the tasks that want it: *)
(* its head holds it.                                                      *)
(***************************************************************************)
EXTENDS Naturals, FiniteSets, Sequences, SequencesExt

CONSTANTS
    User,       \* the task of the application, or the tool, that calls session.aclose()
    Others,     \* who else closes the session: _on_error, the shutdown of the job
    Drainer,    \* a task of the application that calls session.drain()
    MaxAgents   \* bound: calls of start and update_agent

VARIABLES
    started,       \* _started
    agent,         \* _agent
    activity,      \* _activity, or 0
    nextActivity,  \* _next_activity, or 0
    sessionLock,   \* _lock
    updateLock,    \* _activity_lock
    lockOf,        \* _lock of each activity
    life,          \* what each activity has gone through
    speech,        \* what runs in each activity
    starts,        \* the agents that start() was called with
    requests,      \* bound: calls of start and update_agent
    at,            \* the await at which each task stands
    target,        \* the activity whose method that task has called
    closeEvents,   \* "close" events that were emitted
    sessions,      \* times _started was set
    early,         \* update_agent was called while a start was under way
    overlap        \* a close and a hand-over have been under way together

lockVars == <<sessionLock, updateLock, lockOf>>
taskVars == <<at, target>>
reqVars  == <<starts, requests>>
vars == <<started, agent, activity, nextActivity, lockVars, life, speech, reqVars,
          taskVars, closeEvents, sessions, early, overlap>>

Agents  == 1 .. MaxAgents
Closers == {User} \cup Others
Tasks   == Agents \cup Closers \cup {Drainer}

\* life: "cut" is closed without a drain.  _draining is set from "draining" on.
IsDraining(a) == life[a] \in {"draining", "closed"}
Live == {a \in Agents : life[a] \in {"running", "draining"}}

\* An asyncio.Lock: a task joins its queue, holds it at the head, and frees it for the next.
HeldBy(lock, p) == lock # <<>> /\ Head(lock) = p
Joined(lock, p) == Append(lock, p)
Freed(lock)     == Tail(lock)

\* The task p has called a method of activity a, and stands at its lock.
Calls(p, a, method) ==
    /\ target' = [target EXCEPT ![p] = a]
    /\ at' = [at EXCEPT ![p] = method]
    /\ lockOf' = [lockOf EXCEPT ![a] = Joined(@, p)]

Holds(p) == target[p] # 0 /\ HeldBy(lockOf[target[p]], p)
Released(p) == [lockOf EXCEPT ![target[p]] = Freed(@)]

HandOvers == {n \in Agents : n \notin starts /\ at[n] \notin {"none", "done"}}
Closing   == \E c \in Closers : HeldBy(sessionLock, c)

Init ==
    /\ started = FALSE
    /\ agent = 0 /\ activity = 0 /\ nextActivity = 0
    /\ sessionLock = <<>> /\ updateLock = <<>>
    /\ lockOf = [a \in Agents |-> <<>>]
    /\ life = [a \in Agents |-> "none"]
    /\ speech = [a \in Agents |-> "none"]
    /\ starts = {} /\ requests = 0
    /\ at = [p \in Tasks |-> "none"]
    /\ target = [p \in Tasks |-> 0]
    /\ closeEvents = 0 /\ sessions = 0
    /\ early = FALSE /\ overlap = FALSE

-----------------------------------------------------------------------------
(* start and update_agent *)

Start ==
    /\ requests < MaxAgents
    /\ requests' = requests + 1
    /\ starts' = starts \cup {requests + 1}
    /\ at' = [at EXCEPT ![requests + 1] = "sessionLock"]
    /\ sessionLock' = Joined(sessionLock, requests + 1)
    /\ UNCHANGED <<started, agent, activity, nextActivity, updateLock, lockOf, life, speech,
                   target, closeEvents, sessions, early, overlap>>

\* A session that runs is left as it is; else _agent is set and the room is started.
StartLocked(n) ==
    /\ at[n] = "sessionLock" /\ HeldBy(sessionLock, n)
    /\ IF started
       THEN /\ at' = [at EXCEPT ![n] = "done"]
            /\ sessionLock' = Freed(sessionLock)
            /\ UNCHANGED <<agent, sessions>>
       ELSE /\ at' = [at EXCEPT ![n] = "room"]
            /\ agent' = n
            /\ UNCHANGED <<sessionLock, sessions>>
    /\ UNCHANGED <<started, activity, nextActivity, updateLock, lockOf, life, speech, reqVars,
                   target, closeEvents, early, overlap>>

RoomStarted(n) ==
    /\ at[n] = "room"
    /\ at' = [at EXCEPT ![n] = "updateLock"]
    /\ updateLock' = Joined(updateLock, n)
    /\ UNCHANGED <<started, agent, activity, nextActivity, sessionLock, lockOf, life, speech,
                   reqVars, target, closeEvents, sessions, early, overlap>>

\* update_agent starts the task of a hand-over only once the session has started.
HandsOver == started

UpdateAgent ==
    LET n == requests + 1 IN
    /\ requests < MaxAgents
    /\ requests' = n
    /\ agent' = n
    /\ IF HandsOver
       THEN /\ at' = [at EXCEPT ![n] = "updateLock"]
            /\ updateLock' = Joined(updateLock, n)
       ELSE /\ at' = [at EXCEPT ![n] = "done"]
            /\ UNCHANGED updateLock
    /\ overlap' = (overlap \/ (started /\ Closing))
    /\ early' = (early \/ ~started)
    /\ UNCHANGED <<started, activity, nextActivity, sessionLock, lockOf, life, speech, starts,
                   target, closeEvents, sessions>>

\* _update_activity_task: the next activity is created, and the previous one drained.
UpdateLocked(n) ==
    /\ at[n] = "updateLock" /\ HeldBy(updateLock, n)
    /\ life' = [life EXCEPT ![n] = "created"]
    /\ IF activity # 0
       THEN /\ nextActivity' = n
            /\ Calls(n, activity, "drain")
            /\ UNCHANGED activity
       ELSE /\ activity' = n /\ nextActivity' = 0
            /\ Calls(n, n, "start")
    /\ UNCHANGED <<started, agent, sessionLock, updateLock, speech, reqVars, closeEvents,
                   sessions, early, overlap>>

\* AgentActivity.start has ended: on_enter may speak.  If it was called by start(), the
\* session has started.
ActivityStarted(n) ==
    /\ at[n] = "start" /\ Holds(n)
    /\ life' = [life EXCEPT ![n] = "running"]
    /\ speech' \in {speech, [speech EXCEPT ![n] = "plays"]}
    /\ lockOf' = Released(n)
    /\ updateLock' = Freed(updateLock)
    /\ at' = [at EXCEPT ![n] = "done"]
    /\ target' = [target EXCEPT ![n] = 0]
    /\ IF n \in starts
       THEN /\ started' = TRUE
            /\ sessions' = sessions + 1
            /\ sessionLock' = Freed(sessionLock)
       ELSE UNCHANGED <<started, sessions, sessionLock>>
    /\ UNCHANGED <<agent, activity, nextActivity, reqVars, closeEvents, early, overlap>>

-----------------------------------------------------------------------------
(* What runs in an activity *)

\* say, generate_reply: a draining activity passes them on to the next one.
Speak ==
    /\ activity # 0
    /\ LET a == IF IsDraining(activity) THEN nextActivity ELSE activity IN
       /\ a # 0
       /\ speech[a] = "none"
       /\ speech' = [speech EXCEPT ![a] = "plays"]
    /\ UNCHANGED <<started, agent, activity, nextActivity, lockVars, life, reqVars, taskVars,
                   closeEvents, sessions, early, overlap>>

\* The last speech and tool of an activity end; not while a tool waits for the close.
SpeechEnds(a) ==
    /\ life[a] \in {"running", "draining"}
    /\ speech[a] = "plays" \/ (speech[a] = "closes" /\ at[User] = "none")
    /\ speech' = [speech EXCEPT ![a] = "none"]
    /\ UNCHANGED <<started, agent, activity, nextActivity, lockVars, life, reqVars, taskVars,
                   closeEvents, sessions, early, overlap>>

-----------------------------------------------------------------------------
(* AgentActivity.drain and aclose, for any task that calls them *)

\* What the task p does when drain() of its activity has returned, with the activity
\* that _activity names by then.  A close may have left none: then the task of a
\* hand-over dies, and _next_activity stays.
AfterDrain(p) ==
    LET goesOn == p \in Agents /\ activity # 0 IN
    /\ at' = [at EXCEPT ![p] = CASE goesOn       -> "close"
                                 [] p \in Closers -> "speech"
                                 [] p \in Agents /\ ~goesOn -> "done"
                                 [] OTHER         -> "none"]
    /\ target' = [target EXCEPT ![p] = IF goesOn THEN activity ELSE 0]
    /\ lockOf' = IF goesOn THEN [Released(p) EXCEPT ![activity] = Joined(@, p)]
                 ELSE Released(p)
    /\ updateLock' = IF p \in Agents /\ ~goesOn THEN Freed(updateLock) ELSE updateLock

\* The first call of drain runs on_exit, which may speak, and awaits the main task.
BeginDrain(p) ==
    /\ at[p] = "drain" /\ Holds(p)
    /\ IF life[target[p]] # "running"
       THEN AfterDrain(p) /\ UNCHANGED <<life, speech>>
       ELSE /\ life' = [life EXCEPT ![target[p]] = "draining"]
            /\ speech' \in {speech} \cup
                    (IF speech[target[p]] = "none"
                     THEN {[speech EXCEPT ![target[p]] = "plays"]} ELSE {})
            /\ at' = [at EXCEPT ![p] = "draining"]
            /\ UNCHANGED <<updateLock, lockOf, target>>
    /\ UNCHANGED <<started, agent, activity, nextActivity, sessionLock, reqVars, closeEvents,
                   sessions, early, overlap>>

\* Mutant: drain does not wait for the main task.
EndDrainAtOnce(p) ==
    /\ at[p] = "draining"
    /\ AfterDrain(p)
    /\ UNCHANGED <<started, agent, activity, nextActivity, sessionLock, life, speech,
                   reqVars, closeEvents, sessions, early, overlap>>

\* The main task has exited: every speech and tool has ended.
EndDrain(p) ==
    /\ at[p] = "draining"
    /\ speech[target[p]] = "none"
    /\ AfterDrain(p)
    /\ UNCHANGED <<started, agent, activity, nextActivity, sessionLock, life, speech,
                   reqVars, closeEvents, sessions, early, overlap>>

\* aclose() cancels the main task.
Closed(a) == [life EXCEPT ![a] = IF IsDraining(a) THEN "closed" ELSE "cut"]

\* A hand-over goes on to start the next activity.
HandOverCloses(n) ==
    /\ n \in Agents /\ at[n] = "close" /\ Holds(n)
    /\ life' = Closed(target[n])
    /\ activity' = nextActivity /\ nextActivity' = 0
    /\ target' = [target EXCEPT ![n] = nextActivity]
    /\ at' = [at EXCEPT ![n] = "start"]
    /\ lockOf' = [Released(n) EXCEPT ![nextActivity] = Joined(@, n)]
    /\ UNCHANGED <<started, agent, sessionLock, updateLock, speech, reqVars, closeEvents,
                   sessions, early, overlap>>

\* A close goes on to close the room.
CloserCloses(c) ==
    /\ c \in Closers /\ at[c] = "close" /\ Holds(c)
    /\ life' = Closed(target[c])
    /\ activity' = 0
    /\ target' = [target EXCEPT ![c] = 0]
    /\ at' = [at EXCEPT ![c] = "closeRoom"]
    /\ lockOf' = Released(c)
    /\ UNCHANGED <<started, agent, nextActivity, sessionLock, updateLock, speech, reqVars,
                   closeEvents, sessions, early, overlap>>

-----------------------------------------------------------------------------
(* aclose of the session *)

CallClose(c) ==
    /\ at' = [at EXCEPT ![c] = "sessionLock"]
    /\ sessionLock' = Joined(sessionLock, c)
    /\ UNCHANGED <<started, agent, activity, nextActivity, updateLock, lockOf, life, reqVars,
                   target, closeEvents, sessions, early, overlap>>

\* aclose(), awaited by the application, maybe in a tool of the activity that speaks.
CloseByUser ==
    /\ at[User] = "none"
    /\ speech' \in {speech} \cup {[speech EXCEPT ![a] = "closes"] :
                                    a \in {b \in Live : speech[b] = "plays"}}
    /\ CallClose(User)

\* _on_error, unless a close after another error is under way; and the callback that the
\* first start registered for the shutdown of the job.
CloseByOther(c) ==
    /\ at[c] = "none" /\ sessions > 0
    /\ CallClose(c)
    /\ UNCHANGED speech

\* Mutant: _started is not looked at again once the lock is held.
CloseLockedAnyway(c) ==
    /\ c \in Closers /\ at[c] = "sessionLock" /\ HeldBy(sessionLock, c)
    /\ at' = [at EXCEPT ![c] = IF activity # 0 THEN "interrupt" ELSE "closeRoom"]
    /\ overlap' = (overlap \/ HandOvers # {})
    /\ UNCHANGED <<started, agent, activity, nextActivity, lockVars, life, speech, reqVars,
                   target, closeEvents, sessions, early>>

\* A session that has not started, or is closed already, is left as it is.
CloseLocked(c) ==
    /\ c \in Closers /\ at[c] = "sessionLock" /\ HeldBy(sessionLock, c)
    /\ IF started
       THEN /\ at' = [at EXCEPT ![c] = IF activity # 0 THEN "interrupt" ELSE "closeRoom"]
            /\ overlap' = (overlap \/ HandOvers # {})
            /\ UNCHANGED sessionLock
       ELSE /\ at' = [at EXCEPT ![c] = "none"]
            /\ sessionLock' = Freed(sessionLock)
            /\ UNCHANGED overlap
    /\ UNCHANGED <<started, agent, activity, nextActivity, updateLock, lockOf, life, speech,
                   reqVars, target, closeEvents, sessions, early>>

\* The interrupted speech has ended, or is uninterruptible.
Interrupted(c) ==
    /\ at[c] = "interrupt"
    /\ Calls(c, activity, "drain")
    /\ UNCHANGED <<started, agent, activity, nextActivity, sessionLock, updateLock, life,
                   speech, reqVars, closeEvents, sessions, early, overlap>>

\* What a hand-over may have put in place of the drained activity is read again; before
\* it starts, it has no current speech.
CurrentSpeechEnded(c) ==
    /\ at[c] = "speech"
    /\ speech[activity] = "none" \/ life[activity] = "created"
    /\ Calls(c, activity, "close")
    /\ UNCHANGED <<started, agent, activity, nextActivity, sessionLock, updateLock, life,
                   speech, reqVars, closeEvents, sessions, early, overlap>>

\* The forwarding of audio was cancelled and the room closed.
FinishClose(c) ==
    /\ at[c] = "closeRoom"
    /\ started' = FALSE
    /\ closeEvents' = closeEvents + 1
    /\ at' = [at EXCEPT ![c] = "none"]
    /\ sessionLock' = Freed(sessionLock)
    /\ UNCHANGED <<agent, activity, nextActivity, updateLock, lockOf, life, speech, reqVars,
                   target, sessions, early, overlap>>

\* session.drain(), which takes neither lock of the session.
CallDrain ==
    /\ at[Drainer] = "none" /\ activity # 0
    /\ Calls(Drainer, activity, "drain")
    /\ UNCHANGED <<started, agent, activity, nextActivity, sessionLock, updateLock, life,
                   speech, reqVars, closeEvents, sessions, early, overlap>>

-----------------------------------------------------------------------------
Next ==
    \/ Start \/ UpdateAgent \/ Speak
    \/ CloseByUser \/ CallDrain
    \/ \E c \in Others : CloseByOther(c)
    \/ \E n \in Agents :
        \/ StartLocked(n) \/ RoomStarted(n) \/ UpdateLocked(n) \/ ActivityStarted(n)
        \/ SpeechEnds(n) \/ HandOverCloses(n)
    \/ \E c \in Closers :
        CloseLocked(c) \/ Interrupted(c) \/ CurrentSpeechEnded(c) \/ CloserCloses(c)
            \/ FinishClose(c)
    \/ \E p \in Tasks : BeginDrain(p) \/ EndDrain(p)

\* The loop runs its tasks, the room and the activity start, and speeches end.  The close
\* awaits one handle, so a speech that follows it does not hold the close up: hence SF.
Fairness ==
    /\ \A n \in Agents :
        WF_vars(StartLocked(n) \/ RoomStarted(n) \/ UpdateLocked(n) \/ ActivityStarted(n)
                \/ HandOverCloses(n))
    /\ \A c \in Closers :
        WF_vars(CloseLocked(c) \/ Interrupted(c) \/ CloserCloses(c) \/ FinishClose(c))
    /\ \A c \in Closers : SF_vars(CurrentSpeechEnded(c))
    /\ \A p \in Tasks : WF_vars(BeginDrain(p) \/ EndDrain(p))
    /\ \A a \in Agents : WF_vars(SpeechEnds(a))

Spec == Init /\ [][Next]_vars
FairSpec == Spec /\ Fairness

-----------------------------------------------------------------------------
(* Properties *)

TypeOK ==
    /\ started \in BOOLEAN /\ early \in BOOLEAN /\ overlap \in BOOLEAN
    /\ agent \in 0 .. MaxAgents /\ activity \in 0 .. MaxAgents
    /\ nextActivity \in 0 .. MaxAgents
    /\ sessionLock \in Seq(Tasks) /\ updateLock \in Seq(Agents)
    /\ lockOf \in [Agents -> Seq(Tasks)]
    /\ life \in [Agents -> {"none", "created", "running", "draining", "closed", "cut"}]
    /\ speech \in [Agents -> {"none", "plays", "closes"}]
    /\ starts \subseteq Agents /\ requests \in 0 .. MaxAgents
    /\ at \in [Tasks -> {"none", "sessionLock", "room", "updateLock", "start", "drain",
                         "draining", "close", "interrupt", "speech", "closeRoom", "done"}]
    /\ target \in [Tasks -> 0 .. MaxAgents]
    /\ closeEvents \in 0 .. MaxAgents /\ sessions \in 0 .. MaxAgents

\* One agent runs at a time, over any number of starts, hand-overs and closes, and a
\* session that is closed has none; unless a close and a hand-over were under way
\* together, which no lock prevents.
OneAgentRuns ==
    ~overlap => Cardinality(Live) <= 1 /\ (~started /\ updateLock = <<>> => Live = {})

\* The close event is emitted once for every time the session started, whoever closes
\* it: the application, an error and the job's shutdown may do so at once.
ClosedOnce == sessions = closeEvents + (IF started THEN 1 ELSE 0)

\* Neither a hand-over nor a close cuts what the agent says or a tool does; except a
\* close that finds another activity than the one it drained.
NothingIsCut ==
    [][\A a \in Live : life'[a] \in {"closed", "cut"} =>
            overlap \/ (life'[a] = "closed" /\ speech[a] = "none")]_vars

\* A tool that awaits the close of the session, which waits for the tool.
ToolAwaitsClose == \E a \in Agents : speech[a] = "closes"

\* A close ends, however many other closes, starts and hand-overs it waits for; unless
\* a tool of the activity awaits it.
CloseEnds ==
    \A c \in Closers : at[c] # "none" ~> (at[c] = "none" \/ ToolAwaitsClose)

\* The agent that was asked for last is the one that runs in the end, since hand-overs
\* are served in order; unless it was asked for during a start, which only notes it.
LatestAgentRuns ==
    started ~> \/ activity = agent /\ agent \in Live
               \/ ~started \/ early \/ overlap \/ ToolAwaitsClose
=============================================================================
