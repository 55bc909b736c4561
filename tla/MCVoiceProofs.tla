----------------------------- MODULE MCVoiceProofs -----------------------------
(***************************************************************************)
(* What holds of the components of MCVoice for every value of the          *)
(* constants.  The components share no state, so each has an invariant of  *)
(* its own.                                                                *)
(***************************************************************************)
EXTENDS MCVoice, FiniteSetTheorems, SequenceTheorems, WellFoundedInduction, TLAPS

-----------------------------------------------------------------------------
(* The agents of a session *)

Queues == Seq(Session!Tasks)

LockTypes ==
    /\ sessionLock \in Queues /\ updateLock \in Queues
    /\ lockOf \in [Session!Agents -> Queues]

SessionTypes ==
    /\ started \in BOOLEAN /\ overlap \in BOOLEAN
    /\ activity \in 0 .. MaxAgents /\ nextActivity \in 0 .. MaxAgents
    /\ life \in [Session!Agents -> {"none", "created", "running", "draining", "closed", "cut"}]
    /\ speech \in [Session!Agents -> {"none", "plays", "closes"}]
    /\ starts \subseteq Session!Agents /\ requests \in 0 .. MaxAgents
    /\ sessions \in Nat /\ closeEvents \in Nat
    /\ at \in [Session!Tasks -> {"none", "sessionLock", "room", "updateLock", "start", "drain",
                                 "draining", "close", "interrupt", "speech", "closeRoom", "done"}]
    /\ target \in [Session!Tasks -> 0 .. MaxAgents]

\* The stages in which a task of start, update_agent or a close holds a lock.
Replaces == {"start", "drain", "draining", "close"}
Closes(c) == at[c] \notin {"none", "sessionLock"}
NoHandOver == \A n \in Session!Agents : n \in starts \/ at[n] \in {"none", "done"}

\* Who is past a lock holds it: _lock of the session, _activity_lock, and _lock of the
\* activity that is draining.  A start holds it until the session has started, and a close
\* only once it has.
StartHolds ==
    \A n \in starts : at[n] \in {"room", "updateLock"} \cup Replaces =>
                           Session!HeldBy(sessionLock, n) /\ ~started
HandOverHolds ==
    \A n \in Session!Agents : at[n] \in Replaces => Session!HeldBy(updateLock, n)
CloseHolds ==
    \A c \in Session!Closers : Closes(c) => Session!HeldBy(sessionLock, c) /\ started
DrainHolds ==
    \A p \in Session!Tasks : at[p] = "draining" => Session!Holds(p)
LocksHeld == StartHolds /\ HandOverHolds /\ CloseHolds /\ DrainHolds

\* The stages of each kind of task, and what did not begin yet.
TasksKnown ==
    /\ \A n \in Session!Agents : /\ at[n] \notin {"interrupt", "speech", "closeRoom"}
                                 /\ at[n] \in {"sessionLock", "room"} => n \in starts
                                 /\ n > requests => at[n] = "none" /\ n \notin starts
    /\ \A c \in Session!Closers : at[c] \notin {"room", "updateLock", "start", "done"}
    /\ at[Drainer] \in {"none", "drain", "draining"}

\* The one activity that may run: it is created by the task that starts it, and without one
\* the session has ended or not begun.
OneActivity ==
    /\ Session!Live \subseteq {activity}
    /\ activity # 0 => /\ life[activity] \in {"created", "running", "draining"}
                       /\ life[activity] = "created" => at[activity] = "start"
    /\ ~started => NoHandOver /\ (activity # 0 => at[activity] = "start")
    /\ nextActivity # 0 => at[nextActivity] \in {"drain", "draining", "close"}

\* What a task that replaces the activity has in hand at each stage.
HandOverStages ==
    \A n \in Session!Agents :
        /\ at[n] \in {"none", "sessionLock", "room", "updateLock"} => life[n] = "none"
        /\ at[n] = "start" => activity = n /\ target[n] = n /\ life[n] = "created"
        /\ at[n] \in {"drain", "draining", "close"} =>
              /\ n \notin starts /\ activity # 0 /\ target[n] = activity /\ nextActivity = n
              /\ life[n] = "created"
        /\ at[n] = "close" => life[activity] = "draining"

\* A close and a hand-over are not under way together, and what a close has in hand.
CloseStages ==
    \A c \in Session!Closers : Closes(c) =>
        /\ NoHandOver
        /\ at[c] # "closeRoom" => activity # 0
        /\ at[c] \in {"drain", "draining", "close"} => target[c] = activity
        /\ at[c] \in {"speech", "close"} => life[activity] = "draining"
        /\ at[c] = "closeRoom" => activity = 0

\* An activity drains as long as someone waits for that, and as long as something runs in
\* it someone does.
DrainWaits ==
    /\ \A p \in Session!Tasks : at[p] = "draining" => life[target[p]] = "draining"
    /\ \A a \in Session!Agents : life[a] = "draining" /\ speech[a] # "none" =>
           \E p \in Session!Tasks : at[p] = "draining" /\ target[p] = a

SessionInv ==
    /\ LockTypes /\ SessionTypes /\ LocksHeld /\ TasksKnown /\ Session!ClosedOnce
    /\ overlap \/ (OneActivity /\ HandOverStages /\ CloseStages /\ DrainWaits)

\* A lock has one holder, which stays its holder while others join, until it frees the lock.
LEMMA LocksQueue ==
    /\ <<>> \in Queues
    /\ \A lock \in Queues, p \in Session!Tasks : Session!Joined(lock, p) \in Queues
    /\ \A lock \in Queues : \A p : Session!HeldBy(lock, p) => Session!Freed(lock) \in Queues
    /\ \A lock \in Queues, p \in Session!Tasks : \A q :
          Session!HeldBy(lock, q) => Session!HeldBy(Session!Joined(lock, p), q)
    /\ \A lock, p, q : Session!HeldBy(lock, p) /\ Session!HeldBy(lock, q) => p = q
    /\ \A p : ~Session!HeldBy(<<>>, p)
<1>1. \A lock, p, q : Session!HeldBy(lock, p) /\ Session!HeldBy(lock, q) => p = q
  BY DEF Session!HeldBy
<1>2. <<>> \in Queues
  BY EmptySeq DEF Queues
<1>3. ASSUME NEW lock \in Queues, NEW p \in Session!Tasks
      PROVE  /\ Append(lock, p) \in Queues
             /\ lock # <<>> => Append(lock, p) # <<>> /\ Head(Append(lock, p)) = Head(lock)
  <2>1. /\ Append(lock, p) \in Queues /\ Len(Append(lock, p)) = Len(lock) + 1
        /\ \A i \in 1 .. Len(lock) : Append(lock, p)[i] = lock[i]
        /\ Len(lock) \in Nat /\ Append(lock, p) # <<>>
    BY AppendProperties, LenProperties DEF Queues
  <2>2. ASSUME lock # <<>> PROVE Head(Append(lock, p)) = Head(lock)
    <3>1. Len(lock) \in Nat \ {0}
      BY <2>1, <2>2, EmptySeq, Zenon DEF Queues
    <3>2. 1 \in 1 .. Len(lock) /\ Head(lock) = lock[1] /\ Head(Append(lock, p)) = Append(lock, p)[1]
      BY <3>1
    <3>3. QED
      BY <2>1, <3>2
  <2>3. QED
    BY <2>1, <2>2
<1>4. ASSUME NEW lock \in Queues, lock # <<>> PROVE Tail(lock) \in Queues
  BY <1>4, HeadTailProperties DEF Queues
<1>5. QED
  BY <1>1, <1>2, <1>3, <1>4 DEF Session!HeldBy, Session!Joined, Session!Freed

\* The tasks are different ones, and the agents are numbers from 1 on.
LEMMA TasksDiffer ==
    /\ Session!Agents \subseteq Session!Tasks /\ Session!Closers \subseteq Session!Tasks
    /\ User \in Session!Closers /\ Drainer \in Session!Tasks /\ Drainer \notin Session!Closers
    /\ Drainer \notin Session!Agents
    /\ \A n \in Session!Agents : n \notin Session!Closers /\ n \in Nat /\ n # 0
    /\ \A n \in 0 .. MaxAgents : n = 0 \/ n \in Session!Agents
    /\ \A n \in 0 .. MaxAgents : n < MaxAgents => n + 1 \in Session!Agents
    /\ 0 \in 0 .. MaxAgents /\ \A n \in Session!Agents : n \in 0 .. MaxAgents
    /\ \A p \in Session!Tasks : p \in Session!Agents \/ p \in Session!Closers \/ p = Drainer
    /\ MaxAgents \in Nat /\ Others \subseteq Session!Closers /\ 0 \notin Session!Agents
BY VoiceAssumption DEF Session!Agents, Session!Closers, Session!Tasks

\* A session begins without agents.
LEMMA SessionStart == Session!Init => SessionInv
<1> SUFFICES ASSUME Session!Init PROVE SessionInv
  OBVIOUS
<1>1. LockTypes /\ SessionTypes
  BY TasksDiffer, LocksQueue DEF Session!Init, LockTypes, SessionTypes
<1>2. LocksHeld /\ TasksKnown /\ Session!ClosedOnce
  BY TasksDiffer
     DEF Session!Init, LocksHeld, StartHolds, HandOverHolds, CloseHolds, DrainHolds, TasksKnown,
         Session!ClosedOnce, Closes, Replaces
<1>3. OneActivity /\ HandOverStages /\ CloseStages /\ DrainWaits
  BY TasksDiffer DEF Session!Init, OneActivity, HandOverStages, CloseStages, DrainWaits,
     Session!Live, NoHandOver, Closes
<1>4. QED
  BY <1>1, <1>2, <1>3 DEF SessionInv

\* Who calls a method of an activity waits for its lock; the tasks that drain hold theirs.
LEMMA CallJoins ==
    ASSUME LockTypes, SessionTypes, DrainHolds, NEW p \in Session!Tasks,
           NEW a \in 0 .. MaxAgents, NEW method, method # "draining",
           Session!Calls(p, a, method)
    PROVE  DrainHolds'
<1>1. SUFFICES ASSUME NEW q \in Session!Tasks, at'[q] = "draining" PROVE Session!Holds(q)'
  BY DEF DrainHolds
<1>2. q # p /\ at[q] = "draining" /\ target'[q] = target[q]
  BY <1>1 DEF Session!Calls, SessionTypes
<1>3. target[q] \in Session!Agents /\ Session!HeldBy(lockOf[target[q]], q)
  BY <1>1, <1>2, TasksDiffer DEF DrainHolds, Session!Holds, SessionTypes
<1>4. lockOf'[target[q]] \in {lockOf[target[q]], Session!Joined(lockOf[target[q]], p)}
  BY <1>3 DEF Session!Calls, LockTypes
<1>5. Session!HeldBy(lockOf'[target[q]], q)
  BY <1>3, <1>4, LocksQueue DEF LockTypes
<1>6. QED
  BY <1>2, <1>3, <1>5, TasksDiffer DEF Session!Holds

\* Whoever has drained an activity frees its lock, and a hand-over that goes on waits for it
\* again; the other tasks that drain hold theirs.
LEMMA DrainFrees ==
    ASSUME NEW p \in Session!Tasks, LockTypes, SessionTypes, LocksHeld, TasksKnown,
           at[p] \in {"drain", "draining"}, Session!Holds(p), Session!AfterDrain(p)
    PROVE  updateLock' \in Queues /\ lockOf' \in [Session!Agents -> Queues] /\ DrainHolds'
<1>1. target[p] \in Session!Agents /\ Session!HeldBy(lockOf[target[p]], p)
  BY TasksDiffer DEF SessionTypes, Session!Holds
<1>2. /\ Session!Released(p) \in [Session!Agents -> Queues]
      /\ \A q \in Session!Tasks \ {p} : at[q] = "draining" =>
            target[q] \in Session!Agents /\ Session!HeldBy(Session!Released(p)[target[q]], q)
  BY <1>1, LocksQueue, TasksDiffer DEF LockTypes, SessionTypes, LocksHeld, DrainHolds,
     Session!Holds, Session!Released
<1>3. updateLock' \in Queues
  BY LocksQueue DEF LockTypes, LocksHeld, HandOverHolds, Replaces, Session!AfterDrain
<1>4. /\ \A q \in Session!Tasks \ {p} : at'[q] = at[q] /\ target'[q] = target[q]
      /\ at'[p] # "draining"
      /\ lockOf' = Session!Released(p) \/
            /\ activity \in Session!Agents
            /\ lockOf' = [Session!Released(p) EXCEPT ![activity] = Session!Joined(@, p)]
  BY TasksDiffer DEF SessionTypes, Session!AfterDrain
<1>5. /\ lockOf' \in [Session!Agents -> Queues]
      /\ \A q \in Session!Tasks \ {p} : at[q] = "draining" =>
            Session!HeldBy(lockOf'[target[q]], q)
  BY <1>2, <1>4, LocksQueue
<1>6. DrainHolds'
  BY <1>2, <1>4, <1>5, TasksDiffer DEF DrainHolds, Session!Holds
<1>7. QED
  BY <1>3, <1>5, <1>6

\* Each step of a start, a hand-over, a close, a drain and what runs keeps the session.
LEMMA SessionStep == SessionInv /\ [Session!Next]_sessionVars => SessionInv'
<1> SUFFICES ASSUME SessionInv, [Session!Next]_sessionVars PROVE SessionInv'
  OBVIOUS
<1> USE DEF Session!lockVars, Session!taskVars, Session!reqVars
<1>b. LockTypes /\ SessionTypes /\ LocksHeld /\ TasksKnown /\ Session!ClosedOnce
  BY DEF SessionInv
<1>o. ~overlap => OneActivity /\ HandOverStages /\ CloseStages /\ DrainWaits
  BY DEF SessionInv
<1>u. \A n, m \in Session!Agents : at[n] \in Replaces /\ at[m] \in Replaces => n = m
  BY <1>b, LocksQueue DEF LocksHeld, HandOverHolds
<1>v. /\ \A c, d \in Session!Closers : Closes(c) /\ Closes(d) => c = d
      /\ \A c \in Session!Closers, n \in starts : Closes(c) => at[n] \in {"none", "sessionLock", "done"}
  BY <1>b, LocksQueue, TasksDiffer
     DEF LocksHeld, StartHolds, CloseHolds, SessionTypes, TasksKnown, Replaces
<1>w. \A c \in Session!Closers : \A p : Closes(c) /\ Session!HeldBy(sessionLock, p) => p = c
  BY <1>b, LocksQueue DEF LocksHeld, CloseHolds
<1>1. CASE Session!Start
  <2>1. LockTypes'
    BY <1>b, LocksQueue, TasksDiffer, <1>1 DEF Session!Start, LockTypes, SessionTypes
  <2>2. SessionTypes'
    BY <1>b, TasksDiffer, <1>1 DEF Session!Start, SessionTypes
  <2>3. LocksHeld'
    BY <1>b, LocksQueue, TasksDiffer, <1>1
       DEF Session!Start, LockTypes, SessionTypes, LocksHeld, StartHolds, HandOverHolds,
           CloseHolds, DrainHolds, Replaces, Closes, Session!Holds
  <2>4. TasksKnown'
    BY <1>b, TasksDiffer, <1>1 DEF Session!Start, SessionTypes, TasksKnown
  <2>5. Session!ClosedOnce'
    BY <1>b, <1>1 DEF Session!Start, Session!ClosedOnce
  <2>6. ASSUME ~overlap'
        PROVE  ~overlap /\ OneActivity /\ HandOverStages /\ CloseStages /\ DrainWaits
    BY <1>o, <1>1, <2>6 DEF Session!Start
  <2>7. ASSUME ~overlap' PROVE OneActivity'
    BY <1>b, TasksDiffer, <1>1, <2>6, <2>7
       DEF Session!Start, SessionTypes, TasksKnown, OneActivity, Session!Live, NoHandOver
  <2>8. ASSUME ~overlap' PROVE HandOverStages'
    BY <1>b, <1>1, <2>6, <2>8 DEF Session!Start, SessionTypes, TasksKnown, HandOverStages
  <2>9. ASSUME ~overlap' PROVE CloseStages'
    BY <1>1, <2>6, <2>9 DEF Session!Start, CloseStages, Closes, NoHandOver
  <2>10. ASSUME ~overlap' PROVE DrainWaits'
    BY <1>b, TasksDiffer, <1>1, <2>6, <2>10
       DEF Session!Start, SessionTypes, TasksKnown, DrainWaits
  <2>11. QED
    BY <2>1, <2>2, <2>3, <2>4, <2>5, <2>7, <2>8, <2>9, <2>10 DEF SessionInv
<1>2. CASE Session!UpdateAgent
  <2>0. /\ requests + 1 \in Session!Agents /\ at[requests + 1] = "none" /\ requests + 1 \notin starts
        /\ \A p \in Session!Tasks \ {requests + 1} : at'[p] = at[p]
        /\ at'[requests + 1] \in {"updateLock", "done"}
        /\ started' = started /\ sessionLock' = sessionLock
        /\ \A p : Session!HeldBy(updateLock, p) => Session!HeldBy(updateLock', p)
    BY <1>b, LocksQueue, TasksDiffer, <1>2
       DEF Session!UpdateAgent, LockTypes, SessionTypes, TasksKnown
  <2>1. LockTypes'
    BY <1>b, LocksQueue, TasksDiffer, <1>2 DEF Session!UpdateAgent, LockTypes, SessionTypes
  <2>2. SessionTypes'
    BY <1>b, TasksDiffer, <1>2 DEF Session!UpdateAgent, SessionTypes
  <2>3. LocksHeld'
    <3>1. StartHolds'
      BY <1>b, LocksQueue, TasksDiffer, <1>2
         DEF Session!UpdateAgent, Session!HandsOver, Session!Closing, LocksHeld, LockTypes,
             SessionTypes, StartHolds, HandOverHolds, CloseHolds, DrainHolds, TasksKnown,
             Replaces, Closes, Session!Holds
    <3>2. HandOverHolds'
      BY <1>b, <2>0, TasksDiffer DEF LocksHeld, HandOverHolds, Replaces
    <3>3. CloseHolds'
      BY <1>b, <2>0, TasksDiffer DEF LocksHeld, CloseHolds, Closes
    <3>4. DrainHolds'
      BY <1>b, LocksQueue, TasksDiffer, <1>2
         DEF Session!UpdateAgent, Session!HandsOver, Session!Closing, LocksHeld, LockTypes,
             SessionTypes, StartHolds, HandOverHolds, CloseHolds, DrainHolds, TasksKnown,
             Replaces, Closes, Session!Holds
    <3>5. QED
      BY <3>1, <3>2, <3>3, <3>4 DEF LocksHeld
  <2>4. TasksKnown'
    BY <1>b, TasksDiffer, <1>2 DEF Session!UpdateAgent, SessionTypes, TasksKnown
  <2>5. Session!ClosedOnce'
    BY <1>b, <1>2 DEF Session!UpdateAgent, Session!ClosedOnce
  <2>6. ASSUME ~overlap'
        PROVE  ~overlap /\ OneActivity /\ HandOverStages /\ CloseStages /\ DrainWaits
    BY <1>o, <1>2, <2>6 DEF Session!UpdateAgent
  <2>7. ASSUME ~overlap' PROVE OneActivity'
    BY <1>b, TasksDiffer, <1>2, <2>6, <2>7
       DEF Session!UpdateAgent, Session!HandsOver, SessionTypes, TasksKnown, OneActivity,
           Session!Live, NoHandOver
  <2>8. ASSUME ~overlap' PROVE HandOverStages'
    BY <1>b, TasksDiffer, <1>2, <2>6, <2>8
       DEF Session!UpdateAgent, SessionTypes, TasksKnown, HandOverStages
  <2>9. ASSUME ~overlap' PROVE CloseStages'
    <3>1. \A c \in Session!Closers : ~Closes(c)
      BY <1>b, <1>2, <2>9 DEF Session!UpdateAgent, LocksHeld, CloseHolds, Session!Closing
    <3>2. QED
      BY <2>0, <3>1, TasksDiffer DEF CloseStages, Closes
  <2>10. ASSUME ~overlap' PROVE DrainWaits'
    BY <1>b, TasksDiffer, <1>2, <2>6, <2>10
       DEF Session!UpdateAgent, SessionTypes, TasksKnown, DrainWaits
  <2>11. QED
    BY <2>1, <2>2, <2>3, <2>4, <2>5, <2>7, <2>8, <2>9, <2>10 DEF SessionInv
<1>3. CASE Session!Speak
  <2>1. LockTypes'
    BY <1>b, <1>3 DEF Session!Speak, LockTypes
  <2>2. SessionTypes'
    BY <1>b, <1>3 DEF Session!Speak, SessionTypes
  <2>3. LocksHeld'
    BY <1>b, <1>3
       DEF Session!Speak, LocksHeld, StartHolds, HandOverHolds, CloseHolds, DrainHolds, Closes,
           Session!Holds
  <2>4. TasksKnown'
    BY <1>b, <1>3 DEF Session!Speak, TasksKnown
  <2>5. Session!ClosedOnce'
    BY <1>b, <1>3 DEF Session!Speak, Session!ClosedOnce
  <2>6. ASSUME ~overlap'
        PROVE  ~overlap /\ OneActivity /\ HandOverStages /\ CloseStages /\ DrainWaits
    BY <1>o, <1>3, <2>6 DEF Session!Speak
  <2>7. ASSUME ~overlap' PROVE OneActivity'
    BY <1>3, <2>6, <2>7 DEF Session!Speak, OneActivity, Session!Live, NoHandOver
  <2>8. ASSUME ~overlap' PROVE HandOverStages'
    BY <1>3, <2>6, <2>8 DEF Session!Speak, HandOverStages
  <2>9. ASSUME ~overlap' PROVE CloseStages'
    BY <1>3, <2>6, <2>9 DEF Session!Speak, CloseStages, Closes, NoHandOver
  <2>10. ASSUME ~overlap' PROVE DrainWaits'
    BY <1>3, <2>6, <2>10
       DEF Session!Speak, Session!IsDraining, OneActivity, HandOverStages, DrainWaits
  <2>11. QED
    BY <2>1, <2>2, <2>3, <2>4, <2>5, <2>7, <2>8, <2>9, <2>10 DEF SessionInv
<1>4. CASE Session!CloseByUser
  <2>1. LockTypes'
    BY <1>b, LocksQueue, TasksDiffer, <1>4 DEF Session!CloseByUser, Session!CallClose, LockTypes
  <2>2. SessionTypes'
    BY <1>b, <1>4 DEF Session!CloseByUser, Session!CallClose, SessionTypes
  <2>3. LocksHeld'
    BY <1>b, LocksQueue, TasksDiffer, <1>4
       DEF Session!CloseByUser, Session!CallClose, LockTypes, LocksHeld, StartHolds,
           HandOverHolds, CloseHolds, DrainHolds, Replaces, Closes, Session!Holds
  <2>4. TasksKnown'
    BY <1>b, TasksDiffer, <1>4 DEF Session!CloseByUser, Session!CallClose, TasksKnown
  <2>5. Session!ClosedOnce'
    BY <1>b, <1>4 DEF Session!CloseByUser, Session!CallClose, Session!ClosedOnce
  <2>6. ASSUME ~overlap'
        PROVE  ~overlap /\ OneActivity /\ HandOverStages /\ CloseStages /\ DrainWaits
    BY <1>o, <1>4, <2>6 DEF Session!CloseByUser, Session!CallClose
  <2>7. ASSUME ~overlap' PROVE OneActivity'
    BY TasksDiffer, <1>4, <2>6, <2>7
       DEF Session!CloseByUser, Session!CallClose, OneActivity, Session!Live, NoHandOver
  <2>8. ASSUME ~overlap' PROVE HandOverStages'
    BY <1>4, <2>6, <2>8 DEF Session!CloseByUser, Session!CallClose, HandOverStages
  <2>9. ASSUME ~overlap' PROVE CloseStages'
    BY TasksDiffer, <1>4, <2>6, <2>9
       DEF Session!CloseByUser, Session!CallClose, CloseStages, Closes, NoHandOver
  <2>10. ASSUME ~overlap' PROVE DrainWaits'
    BY <1>4, <2>6, <2>10
       DEF Session!CloseByUser, Session!CallClose, OneActivity, DrainWaits, Session!Live
  <2>11. QED
    BY <2>1, <2>2, <2>3, <2>4, <2>5, <2>7, <2>8, <2>9, <2>10 DEF SessionInv
<1>5. CASE Session!CallDrain
  <2>1. LockTypes'
    BY <1>b, LocksQueue, TasksDiffer, <1>5 DEF Session!CallDrain, Session!Calls, LockTypes
  <2>2. SessionTypes'
    BY <1>b, <1>5 DEF Session!CallDrain, Session!Calls, SessionTypes
  <2>3. LocksHeld'
    <3>1. DrainHolds'
      BY <1>b, <1>5, CallJoins, TasksDiffer
         DEF Session!CallDrain, SessionTypes, LocksHeld
    <3>2. StartHolds' /\ HandOverHolds' /\ CloseHolds'
      BY <1>b, <1>5, TasksDiffer
         DEF Session!CallDrain, Session!Calls, SessionTypes, LocksHeld, StartHolds,
             HandOverHolds, CloseHolds, Replaces, Closes
    <3>3. QED
      BY <3>1, <3>2 DEF LocksHeld
  <2>4. TasksKnown'
    BY <1>b, TasksDiffer, <1>5 DEF Session!CallDrain, Session!Calls, TasksKnown
  <2>5. Session!ClosedOnce'
    BY <1>b, <1>5 DEF Session!CallDrain, Session!ClosedOnce
  <2>6. ASSUME ~overlap'
        PROVE  ~overlap /\ OneActivity /\ HandOverStages /\ CloseStages /\ DrainWaits
    BY <1>o, <1>5, <2>6 DEF Session!CallDrain
  <2>7. ASSUME ~overlap' PROVE OneActivity'
    BY TasksDiffer, <1>5, <2>6, <2>7
       DEF Session!CallDrain, Session!Calls, OneActivity, Session!Live, NoHandOver
  <2>8. ASSUME ~overlap' PROVE HandOverStages'
    BY TasksDiffer, <1>5, <2>6, <2>8 DEF Session!CallDrain, Session!Calls, HandOverStages
  <2>9. ASSUME ~overlap' PROVE CloseStages'
    BY TasksDiffer, <1>5, <2>6, <2>9
       DEF Session!CallDrain, Session!Calls, CloseStages, Closes, NoHandOver
  <2>10. ASSUME ~overlap' PROVE DrainWaits'
    BY <1>5, <2>6, <2>10 DEF Session!CallDrain, Session!Calls, DrainWaits
  <2>11. QED
    BY <2>1, <2>2, <2>3, <2>4, <2>5, <2>7, <2>8, <2>9, <2>10 DEF SessionInv
<1>6. ASSUME NEW c \in Others, Session!CloseByOther(c) PROVE SessionInv'
  <2>1. LockTypes'
    BY <1>b, LocksQueue, TasksDiffer, <1>6 DEF Session!CloseByOther, Session!CallClose, LockTypes
  <2>2. SessionTypes'
    BY <1>b, <1>6 DEF Session!CloseByOther, Session!CallClose, SessionTypes
  <2>3. LocksHeld'
    BY <1>b, LocksQueue, TasksDiffer, <1>6
       DEF Session!CloseByOther, Session!CallClose, LockTypes, LocksHeld, StartHolds,
           HandOverHolds, CloseHolds, DrainHolds, Replaces, Closes, Session!Holds
  <2>4. TasksKnown'
    BY <1>b, TasksDiffer, <1>6 DEF Session!CloseByOther, Session!CallClose, TasksKnown
  <2>5. Session!ClosedOnce'
    BY <1>b, <1>6 DEF Session!CloseByOther, Session!CallClose, Session!ClosedOnce
  <2>6. ASSUME ~overlap'
        PROVE  ~overlap /\ OneActivity /\ HandOverStages /\ CloseStages /\ DrainWaits
    BY <1>o, <1>6, <2>6 DEF Session!CloseByOther, Session!CallClose
  <2>7. ASSUME ~overlap' PROVE OneActivity'
    BY TasksDiffer, <1>6, <2>6, <2>7
       DEF Session!CloseByOther, Session!CallClose, OneActivity, Session!Live, NoHandOver
  <2>8. ASSUME ~overlap' PROVE HandOverStages'
    BY <1>6, <2>6, <2>8 DEF Session!CloseByOther, Session!CallClose, HandOverStages
  <2>9. ASSUME ~overlap' PROVE CloseStages'
    BY TasksDiffer, <1>6, <2>6, <2>9
       DEF Session!CloseByOther, Session!CallClose, CloseStages, Closes, NoHandOver
  <2>10. ASSUME ~overlap' PROVE DrainWaits'
    BY <1>6, <2>6, <2>10 DEF Session!CloseByOther, Session!CallClose, DrainWaits
  <2>11. QED
    BY <2>1, <2>2, <2>3, <2>4, <2>5, <2>7, <2>8, <2>9, <2>10 DEF SessionInv
<1>7. ASSUME NEW n \in Session!Agents, Session!StartLocked(n) PROVE SessionInv'
  <2>0. /\ \A c \in Session!Closers : ~Closes(c) /\ at'[c] = at[c]
    BY <1>w, TasksDiffer, <1>7, <1>b DEF Session!StartLocked, SessionTypes
  <2>1. LockTypes'
    BY <1>b, LocksQueue, <1>7 DEF Session!StartLocked, LockTypes
  <2>2. SessionTypes'
    BY <1>b, <1>7 DEF Session!StartLocked, SessionTypes
  <2>3. LocksHeld'
    <3>1. StartHolds'
      BY <1>b, TasksDiffer, <1>7
         DEF Session!StartLocked, LocksHeld, SessionTypes, StartHolds, Replaces
    <3>2. HandOverHolds'
      BY <1>b, TasksDiffer, <1>7
         DEF Session!StartLocked, LocksHeld, SessionTypes, HandOverHolds, TasksKnown, Replaces
    <3>3. CloseHolds'
      BY <2>0 DEF CloseHolds, Closes
    <3>4. DrainHolds'
      BY <1>b, <1>7 DEF Session!StartLocked, LocksHeld, SessionTypes, DrainHolds, Session!Holds
    <3>5. QED
      BY <3>1, <3>2, <3>3, <3>4 DEF LocksHeld
  <2>4. TasksKnown'
    BY <1>b, TasksDiffer, <1>7 DEF Session!StartLocked, SessionTypes, TasksKnown
  <2>5. Session!ClosedOnce'
    BY <1>b, <1>7 DEF Session!StartLocked, Session!ClosedOnce
  <2>6. ASSUME ~overlap'
        PROVE  ~overlap /\ OneActivity /\ HandOverStages /\ CloseStages /\ DrainWaits
    BY <1>o, <1>7, <2>6 DEF Session!StartLocked
  <2>7. ASSUME ~overlap' PROVE OneActivity'
    BY <1>b, TasksDiffer, <1>7, <2>6, <2>7
       DEF Session!StartLocked, SessionTypes, OneActivity, Session!Live, NoHandOver
  <2>8. ASSUME ~overlap' PROVE HandOverStages'
    BY <1>b, TasksDiffer, <1>7, <2>6, <2>8 DEF Session!StartLocked, SessionTypes, HandOverStages
  <2>9. ASSUME ~overlap' PROVE CloseStages'
    BY <1>b, TasksDiffer, <1>7, <2>6, <2>9
       DEF Session!StartLocked, SessionTypes, CloseStages, Closes, NoHandOver
  <2>10. ASSUME ~overlap' PROVE DrainWaits'
    BY <1>b, <1>7, <2>6, <2>10 DEF Session!StartLocked, SessionTypes, DrainWaits
  <2>11. QED
    BY <2>1, <2>2, <2>3, <2>4, <2>5, <2>7, <2>8, <2>9, <2>10 DEF SessionInv
<1>8. ASSUME NEW n \in Session!Agents, Session!RoomStarted(n) PROVE SessionInv'
  <2>1. LockTypes'
    BY <1>b, LocksQueue, TasksDiffer, <1>8 DEF Session!RoomStarted, LockTypes
  <2>2. SessionTypes'
    BY <1>b, <1>8 DEF Session!RoomStarted, SessionTypes
  <2>3. LocksHeld'
    <3>1. StartHolds'
      BY <1>b, <1>8 DEF Session!RoomStarted, LocksHeld, StartHolds
    <3>2. HandOverHolds'
      BY <1>b, LocksQueue, TasksDiffer, <1>8
         DEF Session!RoomStarted, LocksHeld, LockTypes, HandOverHolds, Replaces
    <3>3. CloseHolds'
      BY <1>b, <1>8 DEF Session!RoomStarted, LocksHeld, CloseHolds, Closes
    <3>4. DrainHolds'
      BY <1>b, <1>8 DEF Session!RoomStarted, LocksHeld, DrainHolds, Session!Holds
    <3>5. QED
      BY <3>1, <3>2, <3>3, <3>4 DEF LocksHeld
  <2>4. TasksKnown'
    BY <1>b, <1>8 DEF Session!RoomStarted, TasksKnown
  <2>5. Session!ClosedOnce'
    BY <1>b, <1>8 DEF Session!RoomStarted, Session!ClosedOnce
  <2>6. ASSUME ~overlap'
        PROVE  ~overlap /\ OneActivity /\ HandOverStages /\ CloseStages /\ DrainWaits
    BY <1>o, <1>8, <2>6 DEF Session!RoomStarted
  <2>7. ASSUME ~overlap' PROVE OneActivity'
    BY <1>8, <2>6, <2>7 DEF Session!RoomStarted, OneActivity, Session!Live, NoHandOver
  <2>8. ASSUME ~overlap' PROVE HandOverStages'
    BY <1>8, <2>6, <2>8 DEF Session!RoomStarted, HandOverStages
  <2>9. ASSUME ~overlap' PROVE CloseStages'
    BY <1>8, <2>6, <2>9 DEF Session!RoomStarted, CloseStages, Closes, NoHandOver
  <2>10. ASSUME ~overlap' PROVE DrainWaits'
    BY <1>8, <2>6, <2>10 DEF Session!RoomStarted, DrainWaits
  <2>11. QED
    BY <2>1, <2>2, <2>3, <2>4, <2>5, <2>7, <2>8, <2>9, <2>10 DEF SessionInv
<1>9. ASSUME NEW n \in Session!Agents, Session!UpdateLocked(n) PROVE SessionInv'
  <2>0. /\ \A p \in Session!Tasks \ {n} : at'[p] = at[p] /\ target'[p] = target[p]
        /\ at[n] = "updateLock" /\ at'[n] \in {"drain", "start"}
        /\ started' = started /\ sessionLock' = sessionLock /\ updateLock' = updateLock /\ starts' = starts
        /\ \E a \in Session!Agents : lockOf' = [lockOf EXCEPT ![a] = Session!Joined(@, n)]
    BY <1>b, TasksDiffer, <1>9 DEF Session!UpdateLocked, Session!Calls, SessionTypes
  <2>1. LockTypes'
    BY <1>b, <2>0, LocksQueue, TasksDiffer DEF LockTypes
  <2>2. SessionTypes'
    BY <1>b, TasksDiffer, <1>9 DEF Session!UpdateLocked, Session!Calls, SessionTypes
  <2>3. LocksHeld'
    <3>1. StartHolds'
      BY <1>b, <2>0, TasksDiffer DEF LocksHeld, StartHolds, SessionTypes
    <3>2. HandOverHolds'
      BY <1>b, TasksDiffer, <1>9
         DEF Session!UpdateLocked, Session!Calls, LocksHeld, SessionTypes, HandOverHolds
    <3>3. CloseHolds'
      BY <1>b, <2>0, TasksDiffer DEF LocksHeld, CloseHolds, Closes
    <3>4. DrainHolds'
      <4>1. PICK a \in Session!Agents : lockOf' = [lockOf EXCEPT ![a] = Session!Joined(@, n)]
        BY <2>0
      <4>2. \A q \in Session!Agents : \A p : Session!HeldBy(lockOf[q], p) => Session!HeldBy(lockOf'[q], p)
        BY <1>b, <4>1, LocksQueue, TasksDiffer DEF LockTypes
      <4>3. QED
        BY <1>b, <2>0, <4>2 DEF LocksHeld, DrainHolds, Session!Holds
    <3>5. QED
      BY <3>1, <3>2, <3>3, <3>4 DEF LocksHeld
  <2>4. TasksKnown'
    BY <1>b, TasksDiffer, <1>9 DEF Session!UpdateLocked, Session!Calls, SessionTypes, TasksKnown
  <2>5. Session!ClosedOnce'
    BY <1>b, <1>9 DEF Session!UpdateLocked, Session!ClosedOnce
  <2>6. ASSUME ~overlap'
        PROVE  ~overlap /\ OneActivity /\ HandOverStages /\ CloseStages /\ DrainWaits
    BY <1>o, <1>9, <2>6 DEF Session!UpdateLocked
  <2>7. ASSUME ~overlap' PROVE OneActivity'
    BY <1>b, TasksDiffer, <1>9, <2>6, <2>7
       DEF Session!UpdateLocked, Session!Calls, SessionTypes, OneActivity, HandOverStages,
           Session!Live, NoHandOver
  <2>8. ASSUME ~overlap' PROVE HandOverStages'
    <3>1. \A m \in Session!Agents : at[m] \notin Replaces
      BY <1>b, <1>9, LocksQueue DEF Session!UpdateLocked, LocksHeld, HandOverHolds, Replaces
    <3>2. life[n] = "none" /\ activity # n /\ (activity # 0 => n \notin starts)
      <4>1. at[n] = "updateLock" /\ life[n] = "none"
        BY <1>9, <2>6, <2>8 DEF Session!UpdateLocked, HandOverStages
      <4>2. activity # n
        BY <2>6, <2>8, <4>1, TasksDiffer DEF OneActivity
      <4>3. n \in starts => ~started
        BY <1>b, <4>1 DEF LocksHeld, StartHolds
      <4>4. activity # 0 /\ ~started => at[activity] = "start" /\ activity \in Session!Agents
        BY <1>b, <2>6, <2>8, TasksDiffer DEF OneActivity, SessionTypes
      <4> QED BY <3>1, <4>1, <4>2, <4>3, <4>4 DEF Replaces
    <3>3. /\ at'[n] \in {"drain", "start"} /\ starts' = starts /\ life'[n] = "created"
          /\ \A m \in Session!Agents \ {n} : at'[m] = at[m] /\ life'[m] = life[m]
      BY <1>b, <1>9, TasksDiffer DEF Session!UpdateLocked, Session!Calls, SessionTypes
    <3>4. /\ at'[n] = "start" => activity' = n /\ target'[n] = n
          /\ at'[n] = "drain" => activity' = activity /\ activity # 0 /\ target'[n] = activity
                                 /\ nextActivity' = n
      BY <1>b, <1>9, TasksDiffer DEF Session!UpdateLocked, Session!Calls, SessionTypes
    <3>5. SUFFICES ASSUME NEW m \in Session!Agents
          PROVE  /\ at'[m] \in {"none", "sessionLock", "room", "updateLock"} => life'[m] = "none"
                 /\ at'[m] = "start" =>
                       activity' = m /\ target'[m] = m /\ life'[m] = "created"
                 /\ at'[m] \in {"drain", "draining", "close"} =>
                       /\ m \notin starts' /\ activity' # 0 /\ target'[m] = activity'
                       /\ nextActivity' = m /\ life'[m] = "created"
                 /\ at'[m] = "close" => life'[activity'] = "draining"
      BY DEF HandOverStages
    <3>6. CASE m = n
      BY <3>2, <3>3, <3>4, <3>6
    <3>7. CASE m # n
      BY <2>6, <2>8, <3>1, <3>3, <3>7 DEF HandOverStages, Replaces
    <3> QED BY <3>6, <3>7
  <2>9. ASSUME ~overlap' PROVE CloseStages'
    BY <1>b, <1>v, TasksDiffer, <1>9, <2>6, <2>9
       DEF Session!UpdateLocked, Session!Calls, SessionTypes, CloseStages, Closes, NoHandOver
  <2>10. ASSUME ~overlap' PROVE DrainWaits'
    BY <1>b, <1>9, <2>6, <2>10
       DEF Session!UpdateLocked, Session!Calls, SessionTypes, HandOverStages, DrainWaits
  <2>11. QED
    BY <2>1, <2>2, <2>3, <2>4, <2>5, <2>7, <2>8, <2>9, <2>10 DEF SessionInv
<1>10. ASSUME NEW n \in Session!Agents, Session!ActivityStarted(n) PROVE SessionInv'
  <2>0. /\ \A p \in Session!Tasks \ {n} : at'[p] = at[p] /\ target'[p] = target[p]
        /\ at[n] = "start" /\ at'[n] = "done" /\ starts' = starts
        /\ target[n] \in Session!Agents /\ Session!HeldBy(lockOf[target[n]], n)
        /\ lockOf' = [lockOf EXCEPT ![target[n]] = Session!Freed(@)]
        /\ IF n \in starts THEN started' = TRUE ELSE started' = started /\ sessionLock' = sessionLock
    BY <1>b, TasksDiffer, <1>10
       DEF Session!ActivityStarted, Session!Holds, Session!Released, SessionTypes
  <2>1. LockTypes'
    BY <1>b, LocksQueue, TasksDiffer, <1>10
       DEF Session!ActivityStarted, Session!Released, LockTypes, SessionTypes, LocksHeld,
           StartHolds, HandOverHolds, CloseHolds, DrainHolds, Replaces, Closes, Session!Holds
  <2>2. SessionTypes'
    <3>1. closeEvents' \in Nat /\ started' \in BOOLEAN /\ sessions' \in {sessions, sessions + 1}
      BY <1>b, <1>10 DEF Session!ActivityStarted, SessionTypes
    <3>3. sessions' \in Nat
      BY <1>b, <3>1 DEF SessionTypes
    <3>2. QED
      BY <1>b, <3>1, TasksDiffer, <1>10 DEF Session!ActivityStarted, SessionTypes
  <2>3. LocksHeld'
    <3>1. StartHolds'
      <4>1. n \in starts => \A m \in starts : at[m] \in {"room", "updateLock"} \cup Replaces => m = n
        BY <1>b, <2>0, LocksQueue DEF LocksHeld, StartHolds, Replaces
      <4>2. QED
        BY <1>b, <2>0, <4>1, TasksDiffer DEF LocksHeld, StartHolds, SessionTypes, Replaces
    <3>2. HandOverHolds'
      BY <1>b, LocksQueue, TasksDiffer, <1>10
         DEF Session!ActivityStarted, LocksHeld, SessionTypes, HandOverHolds, Replaces
    <3>3. CloseHolds'
      BY <1>b, <1>10
         DEF Session!ActivityStarted, LocksHeld, StartHolds, CloseHolds, Replaces, Closes
    <3>4. DrainHolds'
      BY <1>b, <2>0, LocksQueue, TasksDiffer
         DEF LockTypes, SessionTypes, LocksHeld, DrainHolds, Session!Holds
    <3>5. QED
      BY <3>1, <3>2, <3>3, <3>4 DEF LocksHeld
  <2>4. TasksKnown'
    BY <1>b, <1>10 DEF Session!ActivityStarted, TasksKnown
  <2>5. Session!ClosedOnce'
    BY <1>b, <1>10
       DEF Session!ActivityStarted, SessionTypes, Session!ClosedOnce, LocksHeld, StartHolds,
           Replaces
  <2>6. ASSUME ~overlap'
        PROVE  ~overlap /\ OneActivity /\ HandOverStages /\ CloseStages /\ DrainWaits
    BY <1>o, <1>10, <2>6 DEF Session!ActivityStarted
  <2>7. ASSUME ~overlap' PROVE OneActivity'
    BY <1>b, <1>10, <2>6, <2>7
       DEF Session!ActivityStarted, SessionTypes, OneActivity, HandOverStages, Session!Live,
           NoHandOver
  <2>8. ASSUME ~overlap' PROVE HandOverStages'
    BY <1>b, TasksDiffer, <1>10, <2>6, <2>8
       DEF Session!ActivityStarted, SessionTypes, HandOverStages
  <2>9. ASSUME ~overlap' PROVE CloseStages'
    BY <1>v, <1>10, <2>6, <2>9 DEF Session!ActivityStarted, CloseStages, Closes, NoHandOver
  <2>10. ASSUME ~overlap' PROVE DrainWaits'
    BY <1>10, <2>6, <2>10
       DEF Session!ActivityStarted, OneActivity, HandOverStages, DrainWaits, Session!Live
  <2>11. QED
    BY <2>1, <2>2, <2>3, <2>4, <2>5, <2>7, <2>8, <2>9, <2>10 DEF SessionInv
<1>11. ASSUME NEW n \in Session!Agents, Session!SpeechEnds(n) PROVE SessionInv'
  <2>1. LockTypes'
    BY <1>b, <1>11 DEF Session!SpeechEnds, LockTypes
  <2>2. SessionTypes'
    BY <1>b, <1>11 DEF Session!SpeechEnds, SessionTypes
  <2>3. LocksHeld'
    BY <1>b, <1>11
       DEF Session!SpeechEnds, LocksHeld, StartHolds, HandOverHolds, CloseHolds, DrainHolds,
           Closes, Session!Holds
  <2>4. TasksKnown'
    BY <1>b, <1>11 DEF Session!SpeechEnds, TasksKnown
  <2>5. Session!ClosedOnce'
    BY <1>b, <1>11 DEF Session!SpeechEnds, Session!ClosedOnce
  <2>6. ASSUME ~overlap'
        PROVE  ~overlap /\ OneActivity /\ HandOverStages /\ CloseStages /\ DrainWaits
    BY <1>o, <1>11, <2>6 DEF Session!SpeechEnds
  <2>7. ASSUME ~overlap' PROVE OneActivity'
    BY <1>11, <2>6, <2>7 DEF Session!SpeechEnds, OneActivity, Session!Live, NoHandOver
  <2>8. ASSUME ~overlap' PROVE HandOverStages'
    BY <1>11, <2>6, <2>8 DEF Session!SpeechEnds, HandOverStages
  <2>9. ASSUME ~overlap' PROVE CloseStages'
    BY <1>11, <2>6, <2>9 DEF Session!SpeechEnds, CloseStages, Closes, NoHandOver
  <2>10. ASSUME ~overlap' PROVE DrainWaits'
    BY <1>11, <2>6, <2>10 DEF Session!SpeechEnds, DrainWaits
  <2>11. QED
    BY <2>1, <2>2, <2>3, <2>4, <2>5, <2>7, <2>8, <2>9, <2>10 DEF SessionInv
<1>12. ASSUME NEW n \in Session!Agents, Session!HandOverCloses(n) PROVE SessionInv'
  <2>1. LockTypes'
    BY <1>b, LocksQueue, TasksDiffer, <1>12
       DEF Session!HandOverCloses, Session!Released, LockTypes, SessionTypes, Session!Holds
  <2>2. SessionTypes'
    BY <1>b, TasksDiffer, <1>12 DEF Session!HandOverCloses, Session!Closed, SessionTypes
  <2>3. LocksHeld'
    <3>1. StartHolds'
      BY <1>b, <1>12 DEF Session!HandOverCloses, LocksHeld, StartHolds, Replaces
    <3>2. HandOverHolds'
      BY <1>b, <1>12 DEF Session!HandOverCloses, LocksHeld, HandOverHolds, Replaces
    <3>3. CloseHolds'
      BY <1>b, <1>12 DEF Session!HandOverCloses, LocksHeld, CloseHolds, Closes
    <3>4. DrainHolds'
      BY <1>b, LocksQueue, TasksDiffer, <1>12
         DEF Session!HandOverCloses, Session!Closed, Session!IsDraining, Session!Released,
             LocksHeld, LockTypes, SessionTypes, StartHolds, HandOverHolds, CloseHolds,
             DrainHolds, TasksKnown, Replaces, Closes, Session!Holds
    <3>5. QED
      BY <3>1, <3>2, <3>3, <3>4 DEF LocksHeld
  <2>4. TasksKnown'
    BY <1>b, TasksDiffer, <1>12 DEF Session!HandOverCloses, TasksKnown
  <2>5. Session!ClosedOnce'
    BY <1>b, <1>12 DEF Session!HandOverCloses, Session!ClosedOnce
  <2>6. ASSUME ~overlap'
        PROVE  ~overlap /\ OneActivity /\ HandOverStages /\ CloseStages /\ DrainWaits
    BY <1>o, <1>12, <2>6 DEF Session!HandOverCloses
  <2>7. ASSUME ~overlap' PROVE OneActivity'
    BY <1>b, TasksDiffer, <1>12, <2>6, <2>7
       DEF Session!HandOverCloses, Session!Closed, SessionTypes, OneActivity, HandOverStages,
           Session!Live
  <2>8. ASSUME ~overlap' PROVE HandOverStages'
    BY <1>b, TasksDiffer, <1>12, <2>6, <2>8
       DEF Session!HandOverCloses, Session!Closed, SessionTypes, HandOverStages
  <2>9. ASSUME ~overlap' PROVE CloseStages'
    BY <1>v, <1>12, <2>6, <2>9 DEF Session!HandOverCloses, CloseStages, Closes, NoHandOver
  <2>10. ASSUME ~overlap' PROVE DrainWaits'
    <3>1. \A q \in Session!Tasks : at[q] = "draining" => q # n /\ target[q] # target[n]
      BY <1>b, LocksQueue, <1>12 DEF Session!HandOverCloses, LocksHeld, DrainHolds, Session!Holds
    <3>2. /\ \A q \in Session!Tasks \ {n} : at'[q] = at[q] /\ target'[q] = target[q]
          /\ at'[n] = "start" /\ speech' = speech
          /\ \A a \in Session!Agents \ {target[n]} : life'[a] = life[a]
          /\ \A q \in Session!Tasks : target[q] \in Session!Agents \/ target[q] = 0
          /\ target[n] \in Session!Agents /\ life'[target[n]] # "draining"
      BY <1>b, TasksDiffer, <1>12
         DEF Session!HandOverCloses, Session!Holds, Session!Closed, SessionTypes
    <3>3. \A q \in Session!Tasks : at[q] = "draining" => target[q] \in Session!Agents
      BY <1>b, <3>2 DEF LocksHeld, DrainHolds, Session!Holds
    <3>4. QED
      BY <2>6, <2>10, <3>1, <3>2, <3>3 DEF DrainWaits
  <2>11. QED
    BY <2>1, <2>2, <2>3, <2>4, <2>5, <2>7, <2>8, <2>9, <2>10 DEF SessionInv
<1>13. ASSUME NEW c \in Session!Closers, Session!CloseLocked(c) PROVE SessionInv'
  <2>0. /\ \A p \in Session!Tasks \ {c} : at'[p] = at[p]
        /\ at[c] = "sessionLock" /\ Session!HeldBy(sessionLock, c)
        /\ started' = started
        /\ IF started THEN sessionLock' = sessionLock ELSE at'[c] = "none"
    BY <1>b, TasksDiffer, <1>13 DEF Session!CloseLocked, SessionTypes
  <2>w. \A d \in Session!Closers : ~Closes(d)
    BY <1>w, <2>0 DEF Closes
  <2>1. LockTypes'
    BY <1>b, LocksQueue, <1>13 DEF Session!CloseLocked, LockTypes
  <2>2. SessionTypes'
    BY <1>b, <1>13 DEF Session!CloseLocked, SessionTypes
  <2>3. LocksHeld'
    <3>1. StartHolds'
      BY <1>b, LocksQueue, TasksDiffer, <1>13
         DEF Session!CloseLocked, LocksHeld, SessionTypes, StartHolds
    <3>2. HandOverHolds'
      BY <1>b, TasksDiffer, <1>13
         DEF Session!CloseLocked, LocksHeld, SessionTypes, HandOverHolds, Replaces
    <3>3. CloseHolds'
      BY <2>0, <2>w, TasksDiffer DEF CloseHolds, Closes
    <3>4. DrainHolds'
      BY <1>b, <1>13 DEF Session!CloseLocked, LocksHeld, SessionTypes, DrainHolds, Session!Holds
    <3>5. QED
      BY <3>1, <3>2, <3>3, <3>4 DEF LocksHeld
  <2>4. TasksKnown'
    BY <1>b, TasksDiffer, <1>13 DEF Session!CloseLocked, SessionTypes, TasksKnown
  <2>5. Session!ClosedOnce'
    BY <1>b, <1>13 DEF Session!CloseLocked, Session!ClosedOnce
  <2>6. ASSUME ~overlap'
        PROVE  ~overlap /\ OneActivity /\ HandOverStages /\ CloseStages /\ DrainWaits
    BY <1>o, <1>13, <2>6 DEF Session!CloseLocked
  <2>7. ASSUME ~overlap' PROVE OneActivity'
    BY <1>b, TasksDiffer, <1>13, <2>6, <2>7
       DEF Session!CloseLocked, SessionTypes, OneActivity, Session!Live, NoHandOver
  <2>8. ASSUME ~overlap' PROVE HandOverStages'
    BY <1>b, TasksDiffer, <1>13, <2>6, <2>8 DEF Session!CloseLocked, SessionTypes, HandOverStages
  <2>9. ASSUME ~overlap' PROVE CloseStages'
    <3>1. \A d \in Session!Closers \ {c} : ~Closes(d)'
      BY <2>0, <2>w, TasksDiffer DEF Closes
    <3>2. at'[c] = "none" \/ /\ at'[c] = (IF activity # 0 THEN "interrupt" ELSE "closeRoom")
                             /\ Session!HandOvers = {}
      BY <1>b, TasksDiffer, <1>13, <2>9 DEF Session!CloseLocked, SessionTypes
    <3>3. at'[c] # "none" => NoHandOver'
      BY <2>0, <3>2, TasksDiffer, <1>13 DEF Session!CloseLocked, Session!HandOvers, NoHandOver
    <3>4. activity' = activity
      BY <1>13 DEF Session!CloseLocked
    <3>5. QED
      BY <3>1, <3>2, <3>3, <3>4 DEF CloseStages, Closes
  <2>10. ASSUME ~overlap' PROVE DrainWaits'
    BY <1>b, <1>13, <2>6, <2>10 DEF Session!CloseLocked, SessionTypes, DrainWaits
  <2>11. QED
    BY <2>1, <2>2, <2>3, <2>4, <2>5, <2>7, <2>8, <2>9, <2>10 DEF SessionInv
<1>14. ASSUME NEW c \in Session!Closers, Session!Interrupted(c) PROVE SessionInv'
  <2>1. LockTypes'
    BY <1>b, LocksQueue, TasksDiffer, <1>14 DEF Session!Interrupted, Session!Calls, LockTypes
  <2>2. SessionTypes'
    BY <1>b, <1>14 DEF Session!Interrupted, Session!Calls, SessionTypes
  <2>3. LocksHeld'
    <3>1. DrainHolds'
      BY <1>b, <1>14, CallJoins, TasksDiffer
         DEF Session!Interrupted, SessionTypes, LocksHeld
    <3>2. StartHolds' /\ HandOverHolds' /\ CloseHolds'
      BY <1>b, <1>14, TasksDiffer
         DEF Session!Interrupted, Session!Calls, SessionTypes, LocksHeld, StartHolds,
             HandOverHolds, CloseHolds, Replaces, Closes
    <3>3. QED
      BY <3>1, <3>2 DEF LocksHeld
  <2>4. TasksKnown'
    BY <1>b, <1>14 DEF Session!Interrupted, Session!Calls, TasksKnown
  <2>5. Session!ClosedOnce'
    BY <1>b, <1>14 DEF Session!Interrupted, Session!ClosedOnce
  <2>6. ASSUME ~overlap'
        PROVE  ~overlap /\ OneActivity /\ HandOverStages /\ CloseStages /\ DrainWaits
    BY <1>o, <1>14, <2>6 DEF Session!Interrupted
  <2>7. ASSUME ~overlap' PROVE OneActivity'
    BY <1>b, <1>v, TasksDiffer, <1>14, <2>6, <2>7
       DEF Session!Interrupted, SessionTypes, OneActivity, CloseStages, Closes, Session!Live,
           NoHandOver
  <2>8. ASSUME ~overlap' PROVE HandOverStages'
    BY TasksDiffer, <1>14, <2>6, <2>8 DEF Session!Interrupted, Session!Calls, HandOverStages
  <2>9. ASSUME ~overlap' PROVE CloseStages'
    BY <1>b, <1>14, <2>6, <2>9
       DEF Session!Interrupted, Session!Calls, SessionTypes, CloseStages, Closes, NoHandOver
  <2>10. ASSUME ~overlap' PROVE DrainWaits'
    BY <1>14, <2>6, <2>10 DEF Session!Interrupted, Session!Calls, DrainWaits
  <2>11. QED
    BY <2>1, <2>2, <2>3, <2>4, <2>5, <2>7, <2>8, <2>9, <2>10 DEF SessionInv
<1>15. ASSUME NEW c \in Session!Closers, Session!CurrentSpeechEnded(c) PROVE SessionInv'
  <2>1. LockTypes'
    BY <1>b, LocksQueue, TasksDiffer, <1>15
       DEF Session!CurrentSpeechEnded, Session!Calls, LockTypes
  <2>2. SessionTypes'
    BY <1>b, <1>15 DEF Session!CurrentSpeechEnded, Session!Calls, SessionTypes
  <2>3. LocksHeld'
    <3>1. DrainHolds'
      BY <1>b, <1>15, CallJoins, TasksDiffer
         DEF Session!CurrentSpeechEnded, SessionTypes, LocksHeld
    <3>2. StartHolds' /\ HandOverHolds' /\ CloseHolds'
      BY <1>b, <1>15, TasksDiffer
         DEF Session!CurrentSpeechEnded, Session!Calls, SessionTypes, LocksHeld, StartHolds,
             HandOverHolds, CloseHolds, Replaces, Closes
    <3>3. QED
      BY <3>1, <3>2 DEF LocksHeld
  <2>4. TasksKnown'
    BY <1>b, <1>15 DEF Session!CurrentSpeechEnded, Session!Calls, TasksKnown
  <2>5. Session!ClosedOnce'
    BY <1>b, <1>15 DEF Session!CurrentSpeechEnded, Session!ClosedOnce
  <2>6. ASSUME ~overlap'
        PROVE  ~overlap /\ OneActivity /\ HandOverStages /\ CloseStages /\ DrainWaits
    BY <1>o, <1>15, <2>6 DEF Session!CurrentSpeechEnded
  <2>7. ASSUME ~overlap' PROVE OneActivity'
    BY <1>b, <1>v, TasksDiffer, <1>15, <2>6, <2>7
       DEF Session!CurrentSpeechEnded, SessionTypes, OneActivity, CloseStages, Closes,
           Session!Live, NoHandOver
  <2>8. ASSUME ~overlap' PROVE HandOverStages'
    BY TasksDiffer, <1>15, <2>6, <2>8
       DEF Session!CurrentSpeechEnded, Session!Calls, HandOverStages
  <2>9. ASSUME ~overlap' PROVE CloseStages'
    BY <1>b, <1>15, <2>6, <2>9
       DEF Session!CurrentSpeechEnded, Session!Calls, SessionTypes, CloseStages, Closes,
           NoHandOver
  <2>10. ASSUME ~overlap' PROVE DrainWaits'
    BY <1>15, <2>6, <2>10 DEF Session!CurrentSpeechEnded, Session!Calls, DrainWaits
  <2>11. QED
    BY <2>1, <2>2, <2>3, <2>4, <2>5, <2>7, <2>8, <2>9, <2>10 DEF SessionInv
<1>16. ASSUME NEW c \in Session!Closers, Session!CloserCloses(c) PROVE SessionInv'
  <2>0. /\ \A p \in Session!Tasks \ {c} : at'[p] = at[p] /\ target'[p] = target[p]
        /\ at'[c] = "closeRoom"
        /\ target[c] \in Session!Agents /\ Session!HeldBy(lockOf[target[c]], c)
        /\ lockOf' = [lockOf EXCEPT ![target[c]] = Session!Freed(@)]
    BY <1>b, TasksDiffer, <1>16
       DEF Session!CloserCloses, Session!Holds, Session!Released, SessionTypes
  <2>1. LockTypes'
    BY <1>b, LocksQueue, <1>16
       DEF Session!CloserCloses, Session!Released, LockTypes, Session!Holds
  <2>2. SessionTypes'
    BY <1>b, TasksDiffer, <1>16 DEF Session!CloserCloses, Session!Closed, SessionTypes
  <2>3. LocksHeld'
    <3>1. StartHolds'
      BY <1>b, <1>16 DEF Session!CloserCloses, LocksHeld, StartHolds, Replaces
    <3>2. HandOverHolds'
      BY <1>b, TasksDiffer, <1>16 DEF Session!CloserCloses, LocksHeld, HandOverHolds
    <3>3. CloseHolds'
      BY <1>b, <1>16 DEF Session!CloserCloses, LocksHeld, CloseHolds, Closes
    <3>4. DrainHolds'
      BY <1>b, <2>0, LocksQueue, TasksDiffer
         DEF LockTypes, SessionTypes, LocksHeld, DrainHolds, Session!Holds
    <3>5. QED
      BY <3>1, <3>2, <3>3, <3>4 DEF LocksHeld
  <2>4. TasksKnown'
    BY <1>b, TasksDiffer, <1>16 DEF Session!CloserCloses, TasksKnown
  <2>5. Session!ClosedOnce'
    BY <1>b, <1>16 DEF Session!CloserCloses, Session!ClosedOnce
  <2>6. ASSUME ~overlap'
        PROVE  ~overlap /\ OneActivity /\ HandOverStages /\ CloseStages /\ DrainWaits
    BY <1>o, <1>16, <2>6 DEF Session!CloserCloses
  <2>7. ASSUME ~overlap' PROVE OneActivity'
    BY <1>b, TasksDiffer, <1>16, <2>6, <2>7
       DEF Session!CloserCloses, Session!Closed, SessionTypes, OneActivity, CloseStages, Closes,
           Session!Live, NoHandOver
  <2>8. ASSUME ~overlap' PROVE HandOverStages'
    BY <1>16, <2>6, <2>8
       DEF Session!CloserCloses, Session!Closed, HandOverStages, CloseStages, Closes, NoHandOver
  <2>9. ASSUME ~overlap' PROVE CloseStages'
    BY <1>b, <1>v, TasksDiffer, <1>16, <2>6, <2>9
       DEF Session!CloserCloses, SessionTypes, CloseStages, Closes, NoHandOver
  <2>10. ASSUME ~overlap' PROVE DrainWaits'
    <3>1. \A q \in Session!Tasks : at[q] = "draining" => q # c /\ target[q] # target[c]
      BY <1>b, LocksQueue, <1>16 DEF Session!CloserCloses, LocksHeld, DrainHolds, Session!Holds
    <3>2. /\ \A q \in Session!Tasks \ {c} : at'[q] = at[q] /\ target'[q] = target[q]
          /\ at'[c] = "closeRoom" /\ speech' = speech
          /\ \A a \in Session!Agents \ {target[c]} : life'[a] = life[a]
          /\ \A q \in Session!Tasks : target[q] \in Session!Agents \/ target[q] = 0
          /\ target[c] \in Session!Agents /\ life'[target[c]] # "draining"
      BY <1>b, TasksDiffer, <1>16
         DEF Session!CloserCloses, Session!Holds, Session!Closed, SessionTypes
    <3>3. \A q \in Session!Tasks : at[q] = "draining" => target[q] \in Session!Agents
      BY <1>b, <3>2 DEF LocksHeld, DrainHolds, Session!Holds
    <3>4. QED
      BY <2>6, <2>10, <3>1, <3>2, <3>3 DEF DrainWaits
  <2>11. QED
    BY <2>1, <2>2, <2>3, <2>4, <2>5, <2>7, <2>8, <2>9, <2>10 DEF SessionInv
<1>17. ASSUME NEW c \in Session!Closers, Session!FinishClose(c) PROVE SessionInv'
  <2>0. /\ \A p \in Session!Tasks \ {c} : at'[p] = at[p]
        /\ at[c] = "closeRoom" /\ Closes(c) /\ starts' = starts
    BY <1>17 DEF Session!FinishClose, Closes
  <2>1. LockTypes'
    BY <1>b, LocksQueue, <1>17 DEF Session!FinishClose, LockTypes, LocksHeld, CloseHolds, Closes
  <2>2. SessionTypes'
    <3>1. sessions' \in Nat /\ closeEvents' \in Nat
      BY <1>b, <1>17 DEF Session!FinishClose, SessionTypes
    <3>2. QED
      BY <1>b, <3>1, <1>17 DEF Session!FinishClose, SessionTypes
  <2>3. LocksHeld'
    <3>1. StartHolds'
      BY <1>b, <1>v, <2>0, TasksDiffer DEF StartHolds, SessionTypes, Replaces
    <3>2. HandOverHolds'
      BY <1>b, TasksDiffer, <1>17 DEF Session!FinishClose, LocksHeld, HandOverHolds
    <3>3. CloseHolds'
      BY <1>b, LocksQueue, TasksDiffer, <1>17
         DEF Session!FinishClose, LocksHeld, SessionTypes, StartHolds, CloseHolds, TasksKnown,
             Closes
    <3>4. DrainHolds'
      BY <1>b, <1>17 DEF Session!FinishClose, LocksHeld, DrainHolds, Session!Holds
    <3>5. QED
      BY <3>1, <3>2, <3>3, <3>4 DEF LocksHeld
  <2>4. TasksKnown'
    BY <1>b, <1>17 DEF Session!FinishClose, TasksKnown
  <2>5. Session!ClosedOnce'
    BY <1>b, <1>17 DEF Session!FinishClose, Session!ClosedOnce, LocksHeld, CloseHolds, Closes
  <2>6. ASSUME ~overlap'
        PROVE  ~overlap /\ OneActivity /\ HandOverStages /\ CloseStages /\ DrainWaits
    BY <1>o, <1>17, <2>6 DEF Session!FinishClose
  <2>7. ASSUME ~overlap' PROVE OneActivity'
    BY <1>17, <2>6, <2>7
       DEF Session!FinishClose, OneActivity, CloseStages, Closes, Session!Live, NoHandOver
  <2>8. ASSUME ~overlap' PROVE HandOverStages'
    BY TasksDiffer, <1>17, <2>6, <2>8 DEF Session!FinishClose, HandOverStages
  <2>9. ASSUME ~overlap' PROVE CloseStages'
    BY <1>17, <2>6, <2>9 DEF Session!FinishClose, CloseStages, Closes, NoHandOver
  <2>10. ASSUME ~overlap' PROVE DrainWaits'
    BY <1>17, <2>6, <2>10 DEF Session!FinishClose, DrainWaits
  <2>11. QED
    BY <2>1, <2>2, <2>3, <2>4, <2>5, <2>7, <2>8, <2>9, <2>10 DEF SessionInv
<1>18. ASSUME NEW p \in Session!Tasks, Session!BeginDrain(p) PROVE SessionInv'
  <2>0. \/ Session!AfterDrain(p)
        \/ /\ \A q \in Session!Tasks \ {p} : at'[q] = at[q]
           /\ at'[p] = "draining" /\ updateLock' = updateLock /\ lockOf' = lockOf /\ target' = target
    BY <1>b, <1>18 DEF Session!BeginDrain, SessionTypes
  <2>w. /\ at[p] = "drain" /\ Session!Holds(p) /\ p \in Session!Tasks
        /\ sessionLock' = sessionLock /\ started' = started
        /\ \A c \in Session!Closers : Closes(c)' => Closes(c)
    BY <1>b, <1>18, TasksDiffer DEF Session!BeginDrain, Session!AfterDrain, SessionTypes, Closes
  <2>1. LockTypes'
    BY <1>b, <2>0, <2>w, DrainFrees DEF LockTypes
  <2>2. SessionTypes'
    BY <1>b, TasksDiffer, <1>18 DEF Session!BeginDrain, Session!AfterDrain, SessionTypes
  <2>3. LocksHeld'
    <3>1. StartHolds'
      BY <1>b, LocksQueue, TasksDiffer, <1>18
         DEF Session!BeginDrain, Session!AfterDrain, Session!Released, LocksHeld, LockTypes,
             SessionTypes, StartHolds, HandOverHolds, CloseHolds, DrainHolds, TasksKnown,
             Replaces, Closes, Session!Holds
    <3>2. HandOverHolds'
      BY <1>b, LocksQueue, TasksDiffer, <1>18
         DEF Session!BeginDrain, Session!AfterDrain, Session!Released, LocksHeld, LockTypes,
             SessionTypes, StartHolds, HandOverHolds, CloseHolds, DrainHolds, TasksKnown,
             Replaces, Closes, Session!Holds
    <3>3. CloseHolds'
      BY <1>b, <2>w DEF LocksHeld, CloseHolds
    <3>4. DrainHolds'
      BY <1>b, <2>0, <2>w, DrainFrees DEF LocksHeld, DrainHolds, Session!Holds
    <3>5. QED
      BY <3>1, <3>2, <3>3, <3>4 DEF LocksHeld
  <2>4. TasksKnown'
    BY <1>b, TasksDiffer, <1>18
       DEF Session!BeginDrain, Session!AfterDrain, SessionTypes, TasksKnown
  <2>5. Session!ClosedOnce'
    BY <1>b, <1>18 DEF Session!BeginDrain, Session!ClosedOnce
  <2>6. ASSUME ~overlap'
        PROVE  ~overlap /\ OneActivity /\ HandOverStages /\ CloseStages /\ DrainWaits
    BY <1>o, <1>18, <2>6 DEF Session!BeginDrain
  <2>7. ASSUME ~overlap' PROVE OneActivity'
    BY <1>b, TasksDiffer, <1>18, <2>6, <2>7
       DEF Session!BeginDrain, Session!AfterDrain, SessionTypes, OneActivity, HandOverStages,
           Session!Live, NoHandOver
  <2>8. ASSUME ~overlap' PROVE HandOverStages'
    BY <1>b, <1>u, TasksDiffer, <1>18, <2>6, <2>8
       DEF Session!BeginDrain, Session!AfterDrain, SessionTypes, OneActivity, HandOverStages,
           Replaces
  <2>9. ASSUME ~overlap' PROVE CloseStages'
    BY <1>b, <1>v, TasksDiffer, <1>18, <2>6, <2>9
       DEF Session!BeginDrain, Session!AfterDrain, SessionTypes, OneActivity, CloseStages,
           Closes, NoHandOver
  <2>10. ASSUME ~overlap' PROVE DrainWaits'
    <3>1. \A q \in Session!Tasks : at[q] = "draining" => target[q] \in Session!Agents
      BY <1>b, TasksDiffer DEF LocksHeld, DrainHolds, Session!Holds, SessionTypes
    <3>2. CASE life[target[p]] # "running"
      <4>1. /\ \A q \in Session!Tasks \ {p} : at'[q] = at[q] /\ target'[q] = target[q]
            /\ at'[p] # "draining" /\ life' = life /\ speech' = speech
        BY <1>b, <1>18, <3>2 DEF Session!BeginDrain, Session!AfterDrain, SessionTypes
      <4>4. QED
        BY <2>6, <2>10, <2>w, <4>1 DEF DrainWaits
    <3>3. CASE life[target[p]] = "running"
      <4>1. /\ \A q \in Session!Tasks \ {p} : at'[q] = at[q]
            /\ target' = target /\ at'[p] = "draining" /\ target[p] \in Session!Agents
            /\ life'[target[p]] = "draining"
            /\ \A a \in Session!Agents \ {target[p]} : life'[a] = life[a] /\ speech'[a] = speech[a]
        BY <1>b, <1>18, <3>3, TasksDiffer DEF Session!BeginDrain, Session!Holds, SessionTypes
      <4>4. QED
        BY <2>6, <2>10, <3>1, <4>1 DEF DrainWaits
    <3>4. QED
      BY <3>2, <3>3
  <2>11. QED
    BY <2>1, <2>2, <2>3, <2>4, <2>5, <2>7, <2>8, <2>9, <2>10 DEF SessionInv
<1>19. ASSUME NEW p \in Session!Tasks, Session!EndDrain(p) PROVE SessionInv'
  <2>w. /\ at[p] = "draining" /\ Session!Holds(p) /\ p \in Session!Tasks
        /\ sessionLock' = sessionLock /\ Session!AfterDrain(p)
    BY <1>b, <1>19 DEF Session!EndDrain, LocksHeld, DrainHolds
  <2>e. /\ \A q \in Session!Tasks \ {p} : at'[q] = at[q] /\ target'[q] = target[q]
        /\ activity' = activity /\ nextActivity' = nextActivity /\ life' = life
        /\ speech' = speech /\ starts' = starts
        /\ p \in Session!Closers => at'[p] = "speech"
        /\ p = Drainer => at'[p] = "none"
        /\ p \in Session!Agents => IF activity # 0 THEN at'[p] = "close" /\ target'[p] = activity
                                                   ELSE at'[p] = "done"
    BY <1>b, TasksDiffer, <1>19 DEF Session!EndDrain, Session!AfterDrain, SessionTypes
  <2>1. LockTypes'
    BY <1>b, <2>w, DrainFrees DEF LockTypes
  <2>2. SessionTypes'
    BY <1>b, TasksDiffer, <1>19 DEF Session!EndDrain, Session!AfterDrain, SessionTypes
  <2>3. LocksHeld'
    <3>1. StartHolds'
      BY <1>b, <1>19 DEF Session!EndDrain, Session!AfterDrain, LocksHeld, StartHolds, Replaces
    <3>2. HandOverHolds'
      BY <1>b, LocksQueue, <1>19
         DEF Session!EndDrain, Session!AfterDrain, LocksHeld, SessionTypes, HandOverHolds,
             Replaces
    <3>3. CloseHolds'
      BY <1>b, <1>19 DEF Session!EndDrain, Session!AfterDrain, LocksHeld, CloseHolds, Closes
    <3>4. DrainHolds'
      BY <1>b, <2>w, DrainFrees
    <3>5. QED
      BY <3>1, <3>2, <3>3, <3>4 DEF LocksHeld
  <2>4. TasksKnown'
    BY <1>b, TasksDiffer, <1>19 DEF Session!EndDrain, Session!AfterDrain, TasksKnown
  <2>5. Session!ClosedOnce'
    BY <1>b, <1>19 DEF Session!EndDrain, Session!ClosedOnce
  <2>6. ASSUME ~overlap'
        PROVE  ~overlap /\ OneActivity /\ HandOverStages /\ CloseStages /\ DrainWaits
    BY <1>o, <1>19, <2>6 DEF Session!EndDrain
  <2>7. ASSUME ~overlap' PROVE OneActivity'
    BY <1>b, TasksDiffer, <1>19, <2>6, <2>7
       DEF Session!EndDrain, Session!AfterDrain, SessionTypes, OneActivity, HandOverStages,
           Session!Live, NoHandOver
  <2>8. ASSUME ~overlap' PROVE HandOverStages'
    BY <2>e, <2>6, <2>8, <2>w, TasksDiffer DEF HandOverStages, DrainWaits
  <2>9. ASSUME ~overlap' PROVE CloseStages'
    BY <2>e, <2>6, <2>9, <2>w, TasksDiffer DEF CloseStages, DrainWaits, Closes, NoHandOver
  <2>10. ASSUME ~overlap' PROVE DrainWaits'
    BY <1>b, <1>19, <2>6, <2>10 DEF Session!EndDrain, Session!AfterDrain, SessionTypes, DrainWaits
  <2>11. QED
    BY <2>1, <2>2, <2>3, <2>4, <2>5, <2>7, <2>8, <2>9, <2>10 DEF SessionInv
<1>20. CASE UNCHANGED sessionVars
  BY <1>20
     DEF sessionVars, SessionInv, LockTypes, SessionTypes, LocksHeld, StartHolds, HandOverHolds,
         CloseHolds, DrainHolds, TasksKnown, Session!ClosedOnce, OneActivity, HandOverStages,
         CloseStages, DrainWaits, Session!Live, NoHandOver, Session!Holds, Closes
<1>21. QED
  BY <1>1, <1>2, <1>3, <1>4, <1>5, <1>6, <1>7, <1>8, <1>9, <1>10, <1>11, <1>12, <1>13, <1>14,
     <1>15, <1>16, <1>17, <1>18, <1>19, <1>20 DEF Session!Next

\* Of the agents only the one that is the activity runs, and none without one.
LEMMA SessionImplies == SessionInv => Session!OneAgentRuns /\ Session!ClosedOnce
<1> SUFFICES ASSUME SessionInv PROVE Session!OneAgentRuns /\ Session!ClosedOnce
  OBVIOUS
<1>1. ASSUME ~overlap PROVE Cardinality(Session!Live) <= 1
  <2>1. Session!Live = {} \/ Session!Live = {activity}
    BY <1>1 DEF SessionInv, OneActivity
  <2>2. Cardinality({}) = 0 /\ Cardinality({activity}) = 1
    BY FS_EmptySet, FS_Singleton
  <2>3. QED
    BY <2>1, <2>2
<1>2. ASSUME ~overlap, ~started, updateLock = <<>> PROVE Session!Live = {}
  <2>1. Session!Live \subseteq {activity} /\ (activity # 0 => at[activity] = "start")
    BY <1>2 DEF SessionInv, OneActivity
  <2>2. activity \notin Session!Agents
    BY <1>2, <2>1, TasksDiffer, LocksQueue DEF SessionInv, LocksHeld, HandOverHolds, Replaces
  <2>3. QED
    BY <2>1, <2>2 DEF Session!Live
<1>3. Session!ClosedOnce
  BY DEF SessionInv
<1>4. Session!Cardinality(Session!Live) = Cardinality(Session!Live)
  BY DEF Session!Cardinality, Cardinality
<1>5. QED
  BY <1>1, <1>2, <1>3, <1>4, Zenon DEF Session!OneAgentRuns

\* Only a hand-over and a close end an activity, the one that was drained, and nothing runs
\* in it: whoever still waits for that would hold the lock that they hold.
LEMMA NothingEndsEarly ==
    SessionInv /\ [Session!Next]_sessionVars =>
        \A a \in Session!Live : life'[a] \in {"closed", "cut"} =>
            overlap \/ (life'[a] = "closed" /\ speech[a] = "none")
<1> SUFFICES ASSUME SessionInv, [Session!Next]_sessionVars, ~overlap,
                    NEW a \in Session!Live, life'[a] \in {"closed", "cut"}
             PROVE  life'[a] = "closed" /\ speech[a] = "none"
  OBVIOUS
<1>b. LockTypes /\ SessionTypes /\ LocksHeld /\ a \in Session!Agents
  BY DEF SessionInv, Session!Live
<1>o. OneActivity /\ HandOverStages /\ CloseStages /\ DrainWaits
  BY DEF SessionInv
<1>a. a = activity /\ life[a] \in {"running", "draining"}
  BY <1>o DEF OneActivity, Session!Live
<1>1. ASSUME NEW p \in Session!Tasks, at[p] = "close", Session!Holds(p), target[p] = activity,
             life[activity] = "draining", life' = Session!Closed(target[p])
      PROVE  life'[a] = "closed" /\ speech[a] = "none"
  <2>1. life'[a] = "closed"
    BY <1>1, <1>a DEF Session!Closed, Session!IsDraining
  <2>2. \A q \in Session!Tasks : at[q] = "draining" => target[q] # a
    BY <1>1, <1>a, <1>b, LocksQueue DEF LocksHeld, DrainHolds, Session!Holds
  <2>3. QED
    BY <1>1, <1>a, <1>b, <1>o, <2>1, <2>2 DEF DrainWaits
<1>2. ASSUME NEW n \in Session!Agents, Session!HandOverCloses(n)
      PROVE  life'[a] = "closed" /\ speech[a] = "none"
  BY <1>1, <1>2, <1>o, TasksDiffer DEF Session!HandOverCloses, HandOverStages
<1>3. ASSUME NEW c \in Session!Closers, Session!CloserCloses(c)
      PROVE  life'[a] = "closed" /\ speech[a] = "none"
  BY <1>1, <1>3, <1>o, TasksDiffer DEF Session!CloserCloses, CloseStages, Closes
<1>4. CASE life' = life
  BY <1>4, <1>a
<1>5. ASSUME NEW n \in Session!Agents, NEW new \in {"created", "running", "draining"},
             life' = [life EXCEPT ![n] = new]
      PROVE  FALSE
  BY <1>5, <1>a
<1>6. ASSUME NEW p \in Session!Tasks, Session!BeginDrain(p) PROVE life' = life \/
             \E n \in Session!Agents : life' = [life EXCEPT ![n] = "draining"]
  BY <1>6, <1>b DEF Session!BeginDrain, SessionTypes
<1>7. ASSUME NEW n \in Session!Agents,
             Session!UpdateLocked(n) \/ Session!ActivityStarted(n)
      PROVE  FALSE
  BY <1>5, <1>7 DEF Session!UpdateLocked, Session!ActivityStarted
<1>8. QED
  BY <1>2, <1>3, <1>4, <1>5, <1>6, <1>7
     DEF Session!Next, Session!Start, Session!UpdateAgent, Session!Speak, Session!CloseByUser,
         Session!CloseByOther, Session!CallDrain, Session!CallClose, Session!StartLocked,
         Session!RoomStarted, Session!SpeechEnds, Session!CloseLocked, Session!Interrupted,
         Session!CurrentSpeechEnded, Session!FinishClose, Session!EndDrain, sessionVars

\* One agent runs at a time, the close event is emitted once for each start, and neither a
\* hand-over nor a close cuts what the agent says or a tool does, over any number of agents
\* and of tasks that close the session; except when a close and a hand-over were under way
\* together.
THEOREM AgentsKeepTurns == Spec => AgentsTakeTurns
<1>1. Init => SessionInv
  BY SessionStart DEF Init
<1>2. [Next]_vars => [Session!Next]_sessionVars
  BY DEF Next, vars
<1>3. SessionInv /\ [Next]_vars => SessionInv'
  BY <1>2, SessionStep
<1>4. SessionInv /\ [Next]_vars =>
          [\A a \in Session!Live : life'[a] \in {"closed", "cut"} =>
              overlap \/ (life'[a] = "closed" /\ speech[a] = "none")]_(Session!vars)
  BY <1>2, NothingEndsEarly
<1>5. QED
  BY <1>1, <1>3, <1>4, SessionImplies, PTL DEF Spec, AgentsTakeTurns, Session!NothingIsCut

-----------------------------------------------------------------------------
(* The end of the user's turn *)

TurnTypes ==
    /\ hasStt \in BOOLEAN /\ segment \in Nat \ {0} /\ interim \in Nat /\ oldStt \in BOOLEAN
    /\ speaking \in BOOLEAN /\ awayTimer \in BOOLEAN /\ committed \in BOOLEAN
    /\ dropped \subseteq Nat

Texts == Seq(Nat \X {"interim", "final"})

\* The task that waits for the end of a turn does not run over the user's speech, unless
\* it was started for a commit.
WaitsInSilence == eou \in Turns!EouRuns /\ speaking => eouOfCommit

\* What may be told after what.
Earlier(a, b) == a[1] < b[1] \/ (a[1] = b[1] /\ a[2] = "interim")
Rising(s)     == \A i, j \in 1 .. Len(s) : i < j => Earlier(s[i], s[j])
UpTo(s, n)    == \A i \in 1 .. Len(s) : Earlier(s[i], <<n, "final">>)
IsIn(n, s)    == \E i \in 1 .. Len(s) : s[i] = <<n, "final">>

\* The interim text is of the segment the STT is at; there is none while the stream that was
\* replaced still runs, and none is taken after a commit by hand.
InterimIsNext ==
    /\ interim \in {0, segment}
    /\ oldStt => interim = 0
    /\ mode = "manual" /\ committed => interim = 0

\* What was told and what will be, so far, comes before the segment that is next.
SaidInOrder ==
    /\ told \in Texts /\ transcript \in Texts
    /\ Rising(told \o transcript)
    /\ UpTo(told \o transcript, IF oldStt THEN segment - 1 ELSE segment)
    /\ \A n \in 1 .. segment - 1 : n \in dropped \/ IsIn(n, told \o transcript)

TurnInv ==
    /\ TurnTypes /\ Turns!IdleIsTimed /\ WaitsInSilence /\ InterimIsNext /\ SaidInOrder

-----------------------------------------------------------------------------
\* What is at the end of one of two sequences is at the end of the two.
LEMMA EndOfBoth ==
    ASSUME NEW T, NEW t \in Seq(T), NEW s \in Seq(T), NEW e \in T
    PROVE  /\ Append(s, e) \in Seq(T) /\ t \o s \in Seq(T)
           /\ Len(t \o s) \in Nat /\ Len(t \o Append(s, e)) = Len(t \o s) + 1
           /\ \A i \in 1 .. Len(t \o s) : (t \o Append(s, e))[i] = (t \o s)[i]
           /\ (t \o Append(s, e))[Len(t \o s) + 1] = e
<1> DEFINE u == Append(s, e)
<1>1. u \in Seq(T) /\ Len(u) = Len(s) + 1 /\ u[Len(s) + 1] = e
      /\ \A i \in 1 .. Len(s) : u[i] = s[i]
  BY AppendProperties
<1>2. Len(t) \in Nat /\ Len(s) \in Nat
  BY LenProperties
<1> HIDE DEF u
<1>3. /\ t \o s \in Seq(T) /\ Len(t \o s) = Len(t) + Len(s)
      /\ \A i \in 1 .. Len(t) + Len(s) :
            (t \o s)[i] = IF i <= Len(t) THEN t[i] ELSE s[i - Len(t)]
  BY ConcatProperties
<1>4. /\ Len(t \o u) = Len(t) + Len(s) + 1
      /\ \A i \in 1 .. Len(t) + Len(s) + 1 :
            (t \o u)[i] = IF i <= Len(t) THEN t[i] ELSE u[i - Len(t)]
  <2>1. /\ Len(t \o u) = Len(t) + Len(u)
        /\ \A i \in 1 .. Len(t) + Len(u) :
              (t \o u)[i] = IF i <= Len(t) THEN t[i] ELSE u[i - Len(t)]
    BY <1>1, ConcatProperties
  <2>2. Len(t) + Len(u) = Len(t) + Len(s) + 1
    BY <1>1, <1>2
  <2> QED BY <2>1, <2>2
<1>5. ASSUME NEW i \in 1 .. Len(t) + Len(s) PROVE (t \o u)[i] = (t \o s)[i]
  <2>1. CASE i <= Len(t)
    BY <1>2, <1>3, <1>4, <2>1
  <2>2. CASE ~(i <= Len(t))
    <3>1. i - Len(t) \in 1 .. Len(s) /\ i \in 1 .. Len(t) + Len(s) + 1
      BY <1>2, <2>2
    <3> QED BY <1>1, <1>3, <1>4, <2>2, <3>1
  <2> QED BY <2>1, <2>2
<1>6. (t \o u)[Len(t) + Len(s) + 1] = e
  <2>1. /\ Len(t) + Len(s) + 1 \in 1 .. Len(t) + Len(s) + 1
        /\ ~(Len(t) + Len(s) + 1 <= Len(t))
        /\ Len(t) + Len(s) + 1 - Len(t) = Len(s) + 1
    BY <1>2
  <2> QED BY <1>1, <1>4, <2>1
<1> QED BY <1>1, <1>2, <1>3, <1>4, <1>5, <1>6 DEF u

\* A text that comes after all that was said can be added.
LEMMA SayMore ==
    ASSUME NEW t \in Texts, NEW s \in Texts, NEW n \in Nat, NEW kind \in {"interim", "final"},
           Rising(t \o s), UpTo(t \o s, n)
    PROVE  /\ Append(s, <<n, kind>>) \in Texts
           /\ Rising(t \o Append(s, <<n, kind>>))
           /\ UpTo(t \o Append(s, <<n, kind>>), n + 1)
           /\ kind = "interim" => UpTo(t \o Append(s, <<n, kind>>), n)
           /\ \A m \in Nat : IsIn(m, t \o s) => IsIn(m, t \o Append(s, <<n, kind>>))
           /\ kind = "final" => IsIn(n, t \o Append(s, <<n, kind>>))
<1> DEFINE T == Nat \X {"interim", "final"}
           e == <<n, kind>>
           a == t \o s
           b == t \o Append(s, e)
           k == Len(a)
<1>1. e \in T
  OBVIOUS
<1>2. /\ Append(s, e) \in Seq(T) /\ a \in Seq(T) /\ k \in Nat /\ Len(b) = k + 1
      /\ \A i \in 1 .. k : b[i] = a[i]
      /\ b[k + 1] = e
  <2> HIDE DEF T, e
  <2> QED BY <1>1, EndOfBoth DEF Texts, T
<1>3. \A i \in 1 .. k : a[i] \in T
  <2> HIDE DEF a, T
  <2> QED BY <1>2
<1>4. Rising(a) /\ UpTo(a, n)
  OBVIOUS
<1>5. \A i \in 1 .. k : a[i][1] \in Nat
  BY <1>3
<1>6. e[1] = n /\ e[2] = kind
  OBVIOUS
<1> HIDE DEF a, b, k
<1>7. Rising(b)
  <2> SUFFICES ASSUME NEW i \in 1 .. k + 1, NEW j \in 1 .. k + 1, i < j
               PROVE  Earlier(b[i], b[j])
    BY <1>2 DEF Rising, k
  <2>1. CASE j \in 1 .. k
    <3>1. i \in 1 .. k
      BY <1>2, <2>1
    <3> QED BY <1>2, <1>4, <2>1, <3>1 DEF Rising, k
  <2>2. CASE j = k + 1
    <3>1. i \in 1 .. k
      BY <1>2, <2>2
    <3>2. Earlier(a[i], <<n, "final">>)
      BY <1>4, <3>1 DEF UpTo, k
    <3> QED BY <1>2, <1>6, <2>2, <3>1, <3>2 DEF Earlier
  <2> QED BY <1>2, <2>1, <2>2
<1>8. UpTo(b, n + 1)
  <2> SUFFICES ASSUME NEW i \in 1 .. k + 1
               PROVE  Earlier(b[i], <<n + 1, "final">>)
    BY <1>2 DEF UpTo, k
  <2>1. CASE i \in 1 .. k
    BY <1>2, <1>4, <1>5, <2>1 DEF UpTo, Earlier, k
  <2>2. CASE i = k + 1
    BY <1>2, <1>6, <2>2 DEF Earlier
  <2> QED BY <1>2, <2>1, <2>2
<1>9. kind = "interim" => UpTo(b, n)
  <2> SUFFICES ASSUME kind = "interim", NEW i \in 1 .. k + 1
               PROVE  Earlier(b[i], <<n, "final">>)
    BY <1>2 DEF UpTo, k
  <2>1. CASE i \in 1 .. k
    BY <1>2, <1>4, <2>1 DEF UpTo, k
  <2>2. CASE i = k + 1
    BY <1>2, <1>6, <2>2 DEF Earlier
  <2> QED BY <1>2, <2>1, <2>2
<1>10. ASSUME NEW m \in Nat, IsIn(m, a) PROVE IsIn(m, b)
  <2>1. PICK i \in 1 .. k : a[i] = <<m, "final">>
    BY <1>10 DEF IsIn, k
  <2>2. i \in 1 .. Len(b) /\ b[i] = <<m, "final">>
    BY <1>2, <2>1
  <2> QED BY <2>2 DEF IsIn
<1>11. kind = "final" => IsIn(n, b)
  BY <1>2, <1>6 DEF IsIn
<1> QED BY <1>2, <1>7, <1>8, <1>9, <1>10, <1>11 DEF a, b, Texts, T

\* What comes before a segment comes before the later ones.
LEMMA UpToLater ==
    ASSUME NEW a \in Texts, NEW n \in Nat, NEW m \in Nat, n <= m, UpTo(a, n)
    PROVE  UpTo(a, m)
<1> SUFFICES ASSUME NEW i \in 1 .. Len(a) PROVE Earlier(a[i], <<m, "final">>)
  BY DEF UpTo
<1>1. a[i] \in Nat \X {"interim", "final"}
  BY ElementOfSeq DEF Texts
<1>2. Earlier(a[i], <<n, "final">>)
  BY DEF UpTo
<1> QED BY <1>1, <1>2 DEF Earlier

\* When the turn under way is taken nothing that was said changes; when it is dropped, its
\* segments are.
LEMMA TurnIsLeft ==
    ASSUME NEW t \in Texts, NEW s \in Texts, NEW n \in Nat, Rising(t \o s), UpTo(t \o s, n)
    PROVE  /\ <<>> \in Texts /\ t \o s \in Texts
           /\ (t \o s) \o <<>> = t \o s /\ t \o <<>> = t
           /\ Rising(t) /\ UpTo(t, n)
           /\ \A m : IsIn(m, t \o s) => IsIn(m, t) \/ m \in Turns!SegmentsOf(s)
<1> DEFINE a == t \o s
<1>1. /\ a \in Texts /\ Len(a) = Len(t) + Len(s)
      /\ \A i \in 1 .. Len(t) + Len(s) :
            a[i] = IF i <= Len(t) THEN t[i] ELSE s[i - Len(t)]
  BY ConcatProperties DEF Texts
<1>2. Len(t) \in Nat /\ Len(s) \in Nat /\ DOMAIN s = 1 .. Len(s)
  BY LenProperties DEF Texts
<1>3. <<>> \in Texts
  BY EmptySeq DEF Texts
<1>4. a \o <<>> = a /\ t \o <<>> = t
  BY <1>1, ConcatEmptySeq DEF Texts
<1>5. Rising(a) /\ UpTo(a, n)
  OBVIOUS
<1> HIDE DEF a
<1>6. \A i \in 1 .. Len(t) : i \in 1 .. Len(a) /\ a[i] = t[i]
  BY <1>1, <1>2
<1>7. Rising(t)
  BY <1>5, <1>6 DEF Rising
<1>8. UpTo(t, n)
  BY <1>5, <1>6 DEF UpTo
<1>9. ASSUME NEW m, IsIn(m, a) PROVE IsIn(m, t) \/ m \in Turns!SegmentsOf(s)
  <2>1. PICK i \in 1 .. Len(a) : a[i] = <<m, "final">>
    BY <1>9 DEF IsIn
  <2>2. CASE i <= Len(t)
    <3>1. i \in 1 .. Len(t) /\ t[i] = <<m, "final">>
      BY <1>1, <1>2, <2>1, <2>2
    <3> QED BY <3>1 DEF IsIn
  <2>3. CASE ~(i <= Len(t))
    <3>1. i - Len(t) \in 1 .. Len(s) /\ s[i - Len(t)] = <<m, "final">>
      BY <1>1, <1>2, <2>1, <2>3
    <3>2. <<m, "final">> \in Turns!Range(s) /\ <<m, "final">>[1] = m
      BY <1>2, <3>1 DEF Turns!Range
    <3> QED BY <3>2 DEF Turns!SegmentsOf
  <2> QED BY <2>2, <2>3
<1> QED BY <1>1, <1>3, <1>4, <1>7, <1>8, <1>9 DEF a

\* A final transcript of the segment that is next, or was before the stream was replaced.
LEMMA FinalKeeps ==
    ASSUME TurnTypes, told \in Texts, transcript \in Texts,
           NEW n \in Nat, Rising(told \o transcript), UpTo(told \o transcript, n),
           Turns!FinalTranscript(n), told' = told
    PROVE  /\ transcript' \in Texts /\ Rising(told' \o transcript')
           /\ UpTo(told' \o transcript', n + 1)
           /\ n \in dropped' \/ IsIn(n, told' \o transcript')
           /\ dropped \subseteq dropped' /\ dropped' \subseteq Nat
           /\ \A m \in Nat : IsIn(m, told \o transcript) => IsIn(m, told' \o transcript')
<1> USE DEF Turns!FinalTranscript
<1>1. CASE Turns!Ignored("final")
  <2>1. UpTo(told \o transcript, n + 1)
    <3>1. told \o transcript \in Texts
      BY TurnIsLeft
    <3> QED BY <3>1, UpToLater
  <2> QED BY <1>1, <2>1 DEF TurnTypes
<1>2. CASE ~Turns!Ignored("final")
  <2>1. transcript' = Append(transcript, <<n, "final">>) /\ dropped' = dropped
    BY <1>2
  <2> QED BY <2>1, SayMore DEF TurnTypes
<1> QED BY <1>1, <1>2

\* Every step keeps what was said in order, and all of it.
LEMMA SaidStays ==
    ASSUME TurnInv, Turns!Next
    PROVE  SaidInOrder' /\ dropped' \subseteq Nat
<1> DEFINE n == IF oldStt THEN segment - 1 ELSE segment
           all == told \o transcript
<1>t. /\ told \in Texts /\ transcript \in Texts /\ segment \in Nat \ {0} /\ dropped \subseteq Nat
      /\ oldStt \in BOOLEAN
  BY DEF TurnInv, TurnTypes, SaidInOrder
<1>n. n \in Nat /\ n <= segment /\ segment - 1 \in Nat
  BY <1>t
<1>a. /\ Rising(all) /\ UpTo(all, n)
      /\ \A m \in 1 .. segment - 1 : m \in dropped \/ IsIn(m, all)
  BY DEF TurnInv, SaidInOrder
<1>l. /\ <<>> \in Texts /\ all \in Texts /\ all \o <<>> = all /\ told \o <<>> = told
      /\ Rising(told) /\ UpTo(told, n)
      /\ \A m : IsIn(m, all) => IsIn(m, told) \/ m \in Turns!SegmentsOf(transcript)
  BY <1>t, <1>n, <1>a, TurnIsLeft
<1>s. Turns!SegmentsOf(transcript) \subseteq Nat
  <2>1. \A i \in 1 .. Len(transcript) : transcript[i] \in Nat \X {"interim", "final"}
    BY <1>t, ElementOfSeq DEF Texts
  <2>2. DOMAIN transcript = 1 .. Len(transcript)
    BY <1>t, LenProperties DEF Texts
  <2> QED BY <2>1, <2>2 DEF Turns!SegmentsOf, Turns!Range
<1>u. ASSUME UNCHANGED <<segment, oldStt, told, transcript, dropped>>
      PROVE  SaidInOrder' /\ dropped' \subseteq Nat
  BY <1>u, <1>t, <1>a DEF SaidInOrder
<1>1. CASE Turns!EndTurn
  <2>1. UNCHANGED <<segment, oldStt>> /\ transcript' = <<>>
    BY <1>1 DEF Turns!EndTurn, Turns!sttVars
  <2>2. CASE draining
    <3>1. told' = told /\ dropped' = dropped \cup Turns!SegmentsOf(transcript)
      BY <1>1, <2>2 DEF Turns!EndTurn
    <3> QED BY <1>t, <1>a, <1>l, <1>s, <2>1, <3>1 DEF SaidInOrder
  <2>3. CASE ~draining
    <3>1. told' = all /\ dropped' = dropped
      BY <1>1, <2>3 DEF Turns!EndTurn
    <3> QED BY <1>t, <1>a, <1>l, <2>1, <3>1 DEF SaidInOrder
  <2> QED BY <2>2, <2>3
<1>2. CASE Turns!SttFinal
  <2>1. ~oldStt /\ oldStt' = oldStt /\ segment' = segment + 1 /\ told' = told
        /\ Turns!FinalTranscript(segment)
    BY <1>2 DEF Turns!SttFinal
  <2>2. /\ transcript' \in Texts /\ Rising(told' \o transcript')
        /\ UpTo(told' \o transcript', segment + 1)
        /\ segment \in dropped' \/ IsIn(segment, told' \o transcript')
        /\ dropped \subseteq dropped' /\ dropped' \subseteq Nat
        /\ \A m \in Nat : IsIn(m, all) => IsIn(m, told' \o transcript')
    BY <1>t, <1>a, <2>1, FinalKeeps DEF TurnInv
  <2>3. \A m \in 1 .. segment : m \in dropped' \/ IsIn(m, told' \o transcript')
    BY <1>t, <1>a, <2>2
  <2>4. segment' - 1 = segment
    BY <1>t, <2>1
  <2> QED BY <1>t, <2>1, <2>2, <2>3, <2>4 DEF SaidInOrder
<1>3. CASE Turns!OldSttFinal
  <2>1. oldStt /\ oldStt' = FALSE /\ segment' = segment /\ told' = told
        /\ Turns!FinalTranscript(segment - 1)
    BY <1>3 DEF Turns!OldSttFinal
  <2>2. /\ transcript' \in Texts /\ Rising(told' \o transcript')
        /\ UpTo(told' \o transcript', segment - 1 + 1)
        /\ dropped \subseteq dropped' /\ dropped' \subseteq Nat
        /\ \A m \in Nat : IsIn(m, all) => IsIn(m, told' \o transcript')
    BY <1>t, <1>n, <1>a, <2>1, FinalKeeps DEF TurnInv
  <2>3. \A m \in 1 .. segment - 1 : m \in dropped' \/ IsIn(m, told' \o transcript')
    BY <1>t, <1>a, <2>2
  <2>4. segment - 1 + 1 = segment
    BY <1>t
  <2> QED BY <1>t, <2>1, <2>2, <2>3, <2>4 DEF SaidInOrder
<1>4. CASE Turns!OldSttCancelled
  <2>1. oldStt' = FALSE /\ UNCHANGED <<segment, told, transcript, dropped>>
    BY <1>4 DEF Turns!OldSttCancelled, Turns!textVars
  <2>2. UpTo(all, segment)
    BY <1>t, <1>n, <1>a, <1>l, UpToLater
  <2> QED BY <1>t, <1>a, <2>1, <2>2 DEF SaidInOrder
<1>5. CASE Turns!FinishCommit
  <2>1. UNCHANGED <<segment, oldStt, told, dropped>>
    BY <1>5 DEF Turns!FinishCommit, Turns!sttVars
  <2>2. CASE interim = 0
    <3>1. transcript' = transcript
      BY <1>5, <2>2 DEF Turns!FinishCommit
    <3> QED BY <1>u, <2>1, <3>1
  <2>3. CASE interim # 0
    <3>1. interim = segment /\ ~oldStt
      BY <2>3 DEF TurnInv, InterimIsNext
    <3>2. transcript' = Append(transcript, <<segment, "interim">>)
      BY <1>5, <2>3, <3>1 DEF Turns!FinishCommit
    <3>3. /\ transcript' \in Texts /\ Rising(told \o transcript')
          /\ UpTo(told \o transcript', segment)
          /\ \A m \in Nat : IsIn(m, all) => IsIn(m, told \o transcript')
      BY <1>t, <1>a, <3>1, <3>2, SayMore
    <3>4. \A m \in 1 .. segment - 1 : m \in dropped \/ IsIn(m, told \o transcript')
      BY <1>t, <1>a, <3>3
    <3> QED BY <1>t, <2>1, <3>1, <3>3, <3>4 DEF SaidInOrder
  <2> QED BY <2>2, <2>3
<1>6. CASE Turns!ClearUserTurn
  <2>1. /\ transcript' = <<>> /\ told' = told /\ oldStt' = hasStt /\ segment' = segment + 1
        /\ dropped' = dropped \cup Turns!SegmentsOf(transcript) \cup {segment}
    BY <1>6 DEF Turns!ClearUserTurn
  <2>2. UpTo(told, segment) /\ UpTo(told, segment + 1)
    BY <1>t, <1>n, <1>l, UpToLater
  <2>3. \A m \in 1 .. segment : m \in dropped' \/ IsIn(m, told)
    BY <1>t, <1>a, <1>l, <2>1
  <2>4. segment' - 1 = segment
    BY <1>t, <2>1
  <2> QED BY <1>t, <1>l, <1>s, <2>1, <2>2, <2>3, <2>4 DEF SaidInOrder
<1>7. CASE Turns!HandOver
  <2>1. /\ transcript' = <<>> /\ UNCHANGED <<told, oldStt, segment>>
        /\ dropped' = dropped \cup Turns!SegmentsOf(transcript)
    BY <1>7 DEF Turns!HandOver, Turns!sttVars
  <2> QED BY <1>t, <1>a, <1>l, <1>s, <2>1 DEF SaidInOrder
<1>8. CASE \/ \E s \in Turns!AgentState \ {"initializing"} : Turns!AgentChanges(s)
           \/ Turns!AwayTimeout \/ Turns!EouPredicted \/ Turns!EouFails \/ Turns!RefuseTurn
           \/ Turns!VadStart \/ Turns!VadEnd \/ Turns!SttInterim \/ Turns!SttEnd
           \/ Turns!CommitUserTurn \/ Turns!Drain
  <2>1. UNCHANGED <<segment, oldStt, told, transcript, dropped>>
    BY <1>8 DEF Turns!AgentChanges, Turns!AwayTimeout, Turns!EouPredicted, Turns!EouFails,
       Turns!RefuseTurn, Turns!VadStart, Turns!VadEnd, Turns!SttInterim, Turns!SttEnd,
       Turns!CommitUserTurn, Turns!Drain, Turns!sttVars, Turns!textVars
  <2> QED BY <1>u, <2>1
<1> QED BY <1>1, <1>2, <1>3, <1>4, <1>5, <1>6, <1>7, <1>8 DEF Turns!Next

\* Who speaks, and the timer of the user who is away.
IdleRules ==
    speaking \in BOOLEAN /\ awayTimer \in BOOLEAN /\ Turns!IdleIsTimed

\* The task that waits for the end of the turn, and the interim text.
TextRules ==
    /\ hasStt \in BOOLEAN /\ segment \in Nat \ {0} /\ interim \in Nat /\ oldStt \in BOOLEAN
    /\ committed \in BOOLEAN /\ WaitsInSilence /\ InterimIsNext

\* Every step keeps the timer of the user who is away.
LEMMA IdleStays ==
    ASSUME IdleRules, Turns!Next
    PROVE  IdleRules'
<1> USE DEF IdleRules, Turns!IdleIsTimed
<1>1. CASE \E s \in Turns!AgentState \ {"initializing"} : Turns!AgentChanges(s)
  <2>1. PICK s : Turns!AgentChanges(s)
    BY <1>1
  <2>2. /\ UNCHANGED <<speaking, userState>> /\ agentState' = s
        /\ awayTimer' = (s = "listening" /\ userState = "listening")
    BY <2>1 DEF Turns!AgentChanges, Turns!SetAgentState, Turns!vadVars
  <2> QED BY <2>2
<1>2. CASE Turns!AwayTimeout
  BY <1>2 DEF Turns!AwayTimeout, Turns!SetUserState, Turns!vadVars
<1>3. CASE Turns!VadStart
  BY <1>3 DEF Turns!VadStart, Turns!SetUserState
<1>4. CASE Turns!VadEnd
  BY <1>4 DEF Turns!VadEnd, Turns!SetUserState
<1>5. CASE Turns!HandOver
  BY <1>5 DEF Turns!HandOver, Turns!stateVars
<1>6. CASE \/ Turns!EouPredicted \/ Turns!EouFails \/ Turns!RefuseTurn \/ Turns!EndTurn
           \/ Turns!SttFinal \/ Turns!SttInterim \/ Turns!SttEnd \/ Turns!OldSttFinal
           \/ Turns!OldSttCancelled \/ Turns!CommitUserTurn \/ Turns!FinishCommit
           \/ Turns!ClearUserTurn \/ Turns!Drain
  <2>1. UNCHANGED <<speaking, userState, agentState, awayTimer>>
    BY <1>6 DEF Turns!EouPredicted, Turns!EouFails, Turns!RefuseTurn, Turns!EndTurn,
       Turns!SttFinal, Turns!SttInterim, Turns!SttEnd, Turns!OldSttFinal,
       Turns!OldSttCancelled, Turns!CommitUserTurn, Turns!FinishCommit,
       Turns!ClearUserTurn, Turns!Drain, Turns!vadVars, Turns!stateVars
  <2> QED BY <2>1
<1> QED BY <1>1, <1>2, <1>3, <1>4, <1>5, <1>6 DEF Turns!Next

\* Every step keeps the interim text and the task that waits for the end of the turn.
LEMMA TextsStay ==
    ASSUME TextRules, speaking \in BOOLEAN, Turns!Next
    PROVE  TextRules'
<1> USE DEF TextRules, WaitsInSilence, InterimIsNext, Turns!EouRuns, Turns!sttVars,
        Turns!vadVars, Turns!textVars, Turns!eouVars
<1>1. CASE \E s \in Turns!AgentState \ {"initializing"} : Turns!AgentChanges(s)
  BY <1>1 DEF Turns!AgentChanges
<1>2. CASE Turns!AwayTimeout
  BY <1>2 DEF Turns!AwayTimeout
<1>3. CASE Turns!EouPredicted
  BY <1>3 DEF Turns!EouPredicted
<1>4. CASE Turns!EouFails
  BY <1>4 DEF Turns!EouFails
<1>5. CASE Turns!RefuseTurn
  BY <1>5 DEF Turns!RefuseTurn
<1>6. CASE Turns!EndTurn
  BY <1>6 DEF Turns!EndTurn
<1>7. CASE Turns!VadStart
  BY <1>7 DEF Turns!VadStart
<1>8. CASE Turns!VadEnd
  BY <1>8 DEF Turns!VadEnd, Turns!RunEouDetection
<1>9. CASE Turns!SttFinal
  BY <1>9 DEF Turns!SttFinal, Turns!FinalTranscript, Turns!Ignored, Turns!RunEouDetection
<1>10. CASE Turns!SttInterim
  BY <1>10 DEF Turns!SttInterim, Turns!Ignored
<1>11. CASE Turns!SttEnd
  BY <1>11 DEF Turns!SttEnd, Turns!RunEouDetection
<1>12. CASE Turns!OldSttFinal
  BY <1>12 DEF Turns!OldSttFinal, Turns!FinalTranscript, Turns!Ignored, Turns!RunEouDetection
<1>13. CASE Turns!OldSttCancelled
  BY <1>13 DEF Turns!OldSttCancelled
<1>14. CASE Turns!CommitUserTurn
  BY <1>14 DEF Turns!CommitUserTurn
<1>15. CASE Turns!FinishCommit
  BY <1>15 DEF Turns!FinishCommit, Turns!RunEouDetection
<1>16. CASE Turns!ClearUserTurn
  <2>1. /\ interim' = 0 /\ committed' = FALSE /\ segment' = segment + 1
        /\ UNCHANGED <<hasStt, speaking, eou, eouOfCommit>>
    BY <1>16 DEF Turns!ClearUserTurn
  <2>2. oldStt' \in BOOLEAN
    BY <1>16, Zenon DEF Turns!ClearUserTurn
  <2>3. WaitsInSilence'
    BY <2>1
  <2>4. InterimIsNext'
    BY <2>1
  <2>5. hasStt' \in BOOLEAN
    BY <2>1
  <2>6. interim' \in Nat
    BY <2>1
  <2>7. segment' \in Nat \ {0}
    BY <2>1
  <2>8. committed' \in BOOLEAN
    BY <2>1
  <2> QED BY <2>2, <2>3, <2>4, <2>5, <2>6, <2>7, <2>8
<1>17. CASE Turns!Drain
  BY <1>17 DEF Turns!Drain
<1>18. CASE Turns!HandOver
  BY <1>18 DEF Turns!HandOver
<1> QED
  BY <1>1, <1>2, <1>3, <1>4, <1>5, <1>6, <1>7, <1>8, <1>9, <1>10, <1>11, <1>12, <1>13, <1>14,
     <1>15, <1>16, <1>17, <1>18
     DEF Turns!Next

\* Nothing has been said, and nobody speaks.
LEMMA TurnsStart ==
    ASSUME Init
    PROVE  TurnInv
<1>1. TurnTypes /\ Turns!IdleIsTimed /\ WaitsInSilence /\ InterimIsNext
  <2>1. /\ segment = 1 /\ interim = 0 /\ oldStt = FALSE /\ speaking = FALSE
        /\ awayTimer = FALSE /\ committed = FALSE /\ dropped = {} /\ eou = "none"
        /\ agentState = "initializing" /\ hasStt \in BOOLEAN
    BY Zenon DEF Init, Turns!Init
  <2>2. TurnTypes
    <3>1. 0 \in Nat /\ 1 \in Nat \ {0}
      OBVIOUS
    <3>2. dropped \subseteq Nat
      BY <2>1
    <3> QED BY <2>1, <3>1, <3>2, Zenon DEF TurnTypes
  <2>3. Turns!IdleIsTimed
    BY <2>1 DEF Turns!IdleIsTimed
  <2>4. WaitsInSilence
    BY <2>1 DEF WaitsInSilence, Turns!EouRuns
  <2>5. InterimIsNext
    BY <2>1 DEF InterimIsNext
  <2> QED BY <2>2, <2>3, <2>4, <2>5
<1>2. <<>> \in Texts /\ <<>> \o <<>> = <<>> /\ Len(<<>>) = 0
  BY EmptySeq, ConcatEmptySeq DEF Texts
<1>3. told = <<>> /\ transcript = <<>> /\ segment = 1
  BY DEF Init, Turns!Init
<1>4. Rising(<<>>) /\ \A n : UpTo(<<>>, n)
  BY <1>2 DEF Rising, UpTo
<1>5. SaidInOrder
  BY <1>2, <1>3, <1>4 DEF SaidInOrder
<1> QED BY <1>1, <1>5 DEF TurnInv

\* Every step of the turn detection, and of another component, keeps its invariant.
LEMMA TurnsStep ==
    ASSUME TurnInv, [Next]_vars
    PROVE  TurnInv'
<1>1. CASE UNCHANGED turnVars
  BY <1>1 DEF turnVars, TurnInv, TurnTypes, Turns!IdleIsTimed, WaitsInSilence, InterimIsNext,
     SaidInOrder
<1>2. CASE Turns!Next
  <2>1. SaidInOrder' /\ dropped' \subseteq Nat
    BY <1>2, SaidStays
  <2>2. IdleRules' /\ TextRules'
    BY <1>2, IdleStays, TextsStay DEF TurnInv, TurnTypes, IdleRules, TextRules
  <2> QED BY <2>1, <2>2 DEF TurnInv, TurnTypes, IdleRules, TextRules
<1> QED BY <1>1, <1>2 DEF Next, vars

\* What was said in order was said once, and all of it.
LEMMA TurnsImply ==
    ASSUME TurnInv
    PROVE  Turns!TranscriptIsKept /\ Turns!IdleIsTimed
BY DEF TurnInv, SaidInOrder, Rising, Earlier, IsIn, Turns!TranscriptIsKept

\* No step of another component changes the turn, and no task that waits ends a turn over
\* the user's speech.
LEMMA NoneOverSpeech ==
    ASSUME TurnInv
    PROVE  eou = "sleeping" /\ eou' \in {"taken", "refused"} => ~speaking \/ eouOfCommit
BY DEF TurnInv, WaitsInSilence, Turns!EouRuns

\* What the STT finalized is told in order and once unless it was ignored, cleared or handed
\* over, no turn ends over the user's speech unless it was committed, and the user who is
\* away is timed exactly while neither speaks, over any number of segments.
THEOREM TurnsStayWhole ==
    Spec => /\ []Turns!TranscriptIsKept /\ []Turns!IdleIsTimed /\ Turns!NoTurnOverSpeech
<1>1. Init => TurnInv
  BY TurnsStart
<1>2. TurnInv /\ [Next]_vars => TurnInv'
  BY TurnsStep
<1>3. TurnInv => Turns!TranscriptIsKept /\ Turns!IdleIsTimed
  BY TurnsImply
<1>4. TurnInv => [eou = "sleeping" /\ eou' \in {"taken", "refused"}
                    => ~speaking \/ eouOfCommit]_Turns!vars
  BY NoneOverSpeech
<1> QED BY <1>1, <1>2, <1>3, <1>4, PTL DEF Spec, Turns!NoTurnOverSpeech

-----------------------------------------------------------------------------
(* The recognition stream and the fallback adapter *)

SttTypes ==
    /\ plugin \in Plugins
    /\ audio \in Nat /\ unread \in Nat /\ inService \in Nat /\ transcribed \in Nat /\ lost \in Nat
    /\ retries \in Nat /\ failures \in Nat
    /\ faults \in Nat /\ updates \in Nat /\ expiries \in Nat

\* The failures since the last transcript are the retries taken, and the last one if its
\* retry is still to come or none is left.
RetriesCount ==
    /\ sttPhase = "running" => failures = retries
    /\ sttPhase = "waiting" \/ (sttPhase = "error" /\ raised = "api") => failures = retries + 1
    /\ sttPhase = "error" /\ raised = "api" => retries = MaxRetry

\* The loop is told to connect again by a change of the options or of a session's age, and
\* the audio has all been sent only once it has ended.
LoopKnows ==
    /\ wake => updates + expiries > 0 /\ plugin \notin {"speechmatics", "aws"}
    /\ sender => inputEnded

HearInv ==
    /\ SttTypes /\ RetriesCount /\ LoopKnows
    /\ Stt!AudioIsKept /\ Stt!SomeKeepListening

\* What the plugins' tables have in common: a loop that is left before the last answers is
\* one of three; and three loops connect again whatever the service and the options do.
LEMMA PluginsHear ==
    ASSUME plugin \in Plugins
    PROVE  /\ plugin \notin {"assemblyai", "gladia", "azure"} =>
                  Stt!Profile.leave \in {"closed", "never"}
           /\ plugin \in {"assemblyai", "azure", "aws"} =>
                  /\ Stt!Profile.connect = "other"
                  /\ Stt!Profile.reconnect \in {"again", "none"}
                  /\ Stt!Profile.close \subseteq {"api", "other", "again"}
           /\ plugin \in {"speechmatics", "aws"} <=> Stt!Profile.reconnect = "none"
           /\ Stt!Profile.expires => plugin \notin {"speechmatics", "aws"}
           /\ Stt!Profile.connect \in {"api", "other", "again"}
           /\ Stt!Profile.reconnect \in {"again", "cancelled", "none"}
           /\ Stt!Profile.close \subseteq {"api", "other", "again", "over"}
BY VoiceAssumption DEF Stt!Profile, Stt!Deepgram, Stt!Assemblyai, Stt!Speechmatics, Stt!Openai,
   Stt!Google, Stt!Gladia, Stt!Azure, Stt!Aws

\* A stream begins with all its audio to be heard.
LEMMA HearStart ==
    ASSUME Init
    PROVE  HearInv /\ Adapter!SomeoneForwards
<1>1. HearInv
  BY VoiceAssumption
     DEF Init, Stt!Init, HearInv, SttTypes, RetriesCount, LoopKnows, Stt!AudioIsKept,
         Stt!SomeKeepListening, Stt!KeepsListening, SttRuns
<1>2. Adapter!SomeoneForwards
  BY DEF Init, Adapter!Init, Adapter!SomeoneForwards
<1> QED BY <1>1, <1>2

\* Every step of a stream keeps its audio, its retries and what its loop knows.
LEMMA HearStep ==
    ASSUME HearInv, [Next]_vars
    PROVE  HearInv'
<1> USE VoiceAssumption DEF HearInv, SttTypes, RetriesCount, LoopKnows, Stt!AudioIsKept,
        Stt!SomeKeepListening, Stt!KeepsListening, Stt!Over
<1>1. CASE UNCHANGED sttVars
  BY <1>1 DEF sttVars
<1>2. CASE Stt!PushFrame
  BY <1>2 DEF Stt!PushFrame, Stt!inputVars, Stt!audioVars, Stt!retryVars, Stt!bounds
<1>3. CASE Stt!EndInput
  BY <1>3 DEF Stt!EndInput, Stt!inputVars, Stt!audioVars, Stt!retryVars, Stt!bounds
<1>4. CASE Stt!UpdateOptions
  BY <1>4, PluginsHear
     DEF Stt!UpdateOptions, Stt!inputVars, Stt!audioVars, Stt!retryVars, Stt!bounds
<1>5. CASE Stt!Retry
  BY <1>5 DEF Stt!Retry, Stt!inputVars, Stt!audioVars, Stt!retryVars, Stt!bounds
<1>6. CASE Stt!Connect
  BY <1>6 DEF Stt!Connect, Stt!inputVars, Stt!audioVars, Stt!retryVars, Stt!bounds
<1>7. CASE Stt!ConnectFails
  BY <1>7, PluginsHear
     DEF Stt!ConnectFails, Stt!Leave, Stt!inputVars, Stt!audioVars, Stt!retryVars, Stt!bounds
<1>8. CASE Stt!FindsStopped
  BY <1>8, PluginsHear
     DEF Stt!FindsStopped, Stt!Leave, Stt!inputVars, Stt!audioVars, Stt!retryVars, Stt!bounds
<1>9. CASE Stt!SendFrame
  BY <1>9 DEF Stt!SendFrame, Stt!inputVars, Stt!audioVars, Stt!retryVars, Stt!bounds
<1>10. CASE Stt!SendEnds
  BY <1>10 DEF Stt!SendEnds, Stt!Runs, Stt!inputVars, Stt!audioVars, Stt!retryVars, Stt!bounds
<1>11. CASE Stt!Transcript
  BY <1>11, PluginsHear
     DEF Stt!Transcript, Stt!Runs, Stt!RetriesAfterTranscript, Stt!inputVars, Stt!audioVars,
         Stt!retryVars, Stt!bounds
<1>12. CASE Stt!Reconnect
  BY <1>12, PluginsHear
     DEF Stt!Reconnect, Stt!Leave, Stt!Runs, Stt!inputVars, Stt!audioVars, Stt!retryVars,
         Stt!bounds
<1>13. CASE Stt!ServiceCloses
  BY <1>13, PluginsHear
     DEF Stt!ServiceCloses, Stt!Leave, Stt!Runs, Stt!inputVars, Stt!audioVars, Stt!retryVars,
         Stt!bounds
<1>14. CASE Stt!RunEnds
  BY <1>14, PluginsHear
     DEF Stt!RunEnds, Stt!Leave, Stt!Runs, Stt!MayLeave, Stt!inputVars, Stt!audioVars,
         Stt!retryVars, Stt!bounds
<1> QED
  BY <1>1, <1>2, <1>3, <1>4, <1>5, <1>6, <1>7, <1>8, <1>9, <1>10, <1>11, <1>12, <1>13, <1>14
     DEF Next, vars, Stt!Next

\* What keeps the audio and the retries is part of the invariant.
LEMMA HearImplies ==
    ASSUME HearInv
    PROVE  Stt!AudioIsKept /\ Stt!RetriesAreUsed /\ Stt!SomeKeepListening
BY DEF HearInv, SttTypes, RetriesCount, Stt!RetriesAreUsed

\* A stream of the adapter that runs has a provider to forward to, or waits for the next one.
LEMMA ForwarderStays ==
    ASSUME Adapter!SomeoneForwards, [Next]_vars
    PROVE  Adapter!SomeoneForwards'
<1> USE DEF Adapter!SomeoneForwards, Adapter!inputVars, Adapter!adapterVars
<1>1. CASE UNCHANGED adapterVars
  BY <1>1 DEF adapterVars
<1>2. CASE Adapter!Next
  BY <1>2 DEF Adapter!Next, Adapter!PushFrame, Adapter!EndInput, Adapter!Close,
     Adapter!NewStream, Adapter!Forward, Adapter!ForwardEnds, Adapter!MainFails,
     Adapter!FallBack, Adapter!ForwardTo, Adapter!MainEnds, Adapter!RecoveryHears,
     Adapter!RecoveryFails, Adapter!RecoveryEnds
<1> QED BY <1>1, <1>2 DEF Next, vars

\* The audio of the user is transcribed, on its way or lost with a connection, no error ends
\* a stream with retries left, a loop goes on listening unless its plugin leaves it, and the
\* adapter forwards to some provider, for every number of retries and of providers.
THEOREM AudioStaysHeard ==
    Spec => /\ []Stt!AudioIsKept /\ []Stt!RetriesAreUsed /\ []Stt!SomeKeepListening
            /\ []Adapter!SomeoneForwards
<1>1. Init => HearInv /\ Adapter!SomeoneForwards
  BY HearStart
<1>2. HearInv /\ [Next]_vars => HearInv'
  BY HearStep
<1>3. Adapter!SomeoneForwards /\ [Next]_vars => Adapter!SomeoneForwards'
  BY ForwarderStays
<1>4. HearInv => Stt!AudioIsKept /\ Stt!RetriesAreUsed /\ Stt!SomeKeepListening
  BY HearImplies
<1> QED BY <1>1, <1>2, <1>3, <1>4, PTL DEF Spec

\* The audio of the user is heard and what it says told, over any number of retries, of
\* providers, of segments and of turns.
THEOREM UserStaysHeard == Spec => UserIsHeard
BY TurnsStayWhole, AudioStaysHeard, PTL DEF UserIsHeard

-----------------------------------------------------------------------------
(* The playout of the speeches *)

Inner    == [capturing : BOOLEAN, segments : Nat, finished : Nat, pushed : Nat, queued : Nat,
             clear : BOOLEAN, flush : BOOLEAN]
Outer    == [capturing : BOOLEAN, segments : Nat, finished : Nat, pushed : BOOLEAN]
Segments == [closed : BOOLEAN, audio : BOOLEAN, audioEnd : BOOLEAN, texts : SUBSET Nat,
             textEnd : BOOLEAN, shown : BOOLEAN, completed : BOOLEAN]
Waits    == [speech : Nat, kind : {"reply", "clear"}, target : Nat, woken : BOOLEAN]

OutputTypes ==
    /\ cur \in Nat /\ frames \in Nat /\ rotations \in Nat
    /\ interrupted \in BOOLEAN /\ first \in BOOLEAN /\ doomed \in BOOLEAN /\ mute \in BOOLEAN
    /\ tCapturing \in BOOLEAN
    /\ phase \in {"over", "forwarding", "waiting", "cancelling", "clearing"}
    /\ af \in {"next", "barrier", "barrier2", "starting", "source", "raised", "done"}
    /\ tf \in {"next", "barrier", "barrier2", "end", "raised", "done"}
    /\ startedFut \in {"pending", "done", "cancelled"}
    /\ inner \in Inner /\ outer \in Outer /\ impl \in Segments /\ waiters \subseteq Waits

\* The audio of the current speech, as the two outputs have counted it: not at all, or to
\* its end; by the outer one only, as the track is not subscribed to; or by both.
Silent ==
    /\ outer.segments = outer.finished /\ inner.finished = outer.finished
    /\ inner.segments = inner.finished /\ inner.pushed = 0
    /\ ~inner.flush /\ ~inner.capturing /\ ~outer.capturing /\ ~outer.pushed
    /\ af \in {"next", "barrier", "raised", "done"}
CountedOnce ==
    /\ outer.segments = outer.finished + 1 /\ inner.finished = outer.finished
    /\ inner.segments = inner.finished /\ inner.pushed = 0
    /\ ~inner.flush /\ ~inner.capturing /\ ~outer.pushed
    /\ af \in {"starting", "raised", "done"} /\ (outer.capturing <=> af # "done")
    /\ af # "starting" => phase \in {"cancelling", "clearing"}
Playing ==
    /\ outer.segments = outer.finished + 1 /\ inner.finished = outer.finished
    /\ inner.segments = inner.finished + 1 /\ inner.pushed > 0
    /\ af # "starting" /\ startedFut = "done"
    /\ (inner.flush <=> af = "done")
    /\ (inner.capturing <=> af # "done") /\ (outer.capturing <=> af # "done")

\* A reply is over once its tasks are and what they counted was played; until then it has
\* a call of wait_for_playout for it.
Pending == outer.finished < outer.segments
Awaited(kind) == \E w \in waiters : w.speech = cur /\ w.kind = kind /\ w.target = outer.segments
ReplyStages ==
    /\ phase \in {"over", "clearing"} \/ (phase = "waiting" /\ ~interrupted) =>
          af = "done" /\ tf = "done"
    /\ phase = "cancelling" => af \in {"raised", "done"} /\ tf \in {"raised", "done"}
    /\ phase = "over" => ~Pending
    /\ phase = "clearing" /\ Pending => Awaited("clear")
    /\ phase = "waiting" /\ ~interrupted /\ Pending => Awaited("reply")
    /\ startedFut = "cancelled" => Pending /\ phase \in {"cancelling", "clearing"}
    /\ inner.clear => phase = "clearing" /\ Pending

\* As long as no rotation was cancelled and no audio ended before its text, a segment that
\* holds the text of an earlier speech, or whose audio has ended, is to be replaced, and no
\* audio is counted until it is.
Clean == ~mute /\ ~doomed
Uncancelled == phase \in {"forwarding", "waiting"}
TasksInStep ==
    /\ af = "done" => tf \in {"next", "raised", "done"}
    /\ af = "raised" \/ tf = "raised" => phase = "cancelling"
    /\ Uncancelled /\ tf = "next" => frames = 0 /\ af \in {"next", "done"} /\ ~Pending
    /\ tf = "barrier2" => tCapturing

SegmentIsOwn ==
    /\ impl.closed => rotations > 0
    /\ rotations = 0 \/ Pending => impl.texts \subseteq {cur}
    /\ af = "done" /\ impl.texts # {} => rotations > 0 \/ outer.pushed
    /\ rotations = 0 /\ impl.audioEnd => af = "done" /\ outer.pushed
    /\ Pending /\ af # "done" => rotations = 0
    /\ tf \in {"barrier", "barrier2"} /\ rotations = 0 => ~impl.textEnd
    /\ first => Pending \/ (af = "done" /\ last \subseteq {cur})
    /\ phase = "over" => record \subseteq {cur}

\* The text of a speech that is not interrupted is in the segment that its audio plays.
TextIsPlayed ==
    /\ frames > 0 /\ af \in {"next", "source"} => Pending
    /\ Pending /\ af = "next" => outer.pushed
    /\ af = "done" /\ Pending => outer.pushed
    /\ tf = "end" => tCapturing /\ impl.texts = {cur} /\ rotations = 0
    /\ tf = "done" /\ (af # "done" \/ outer.pushed) =>
          impl.texts = {cur} /\ impl.textEnd /\ rotations = 0
    /\ af = "done" /\ outer.pushed => tf = "done" /\ impl.audioEnd
    /\ af = "done" /\ frames > 0 /\ ~Pending => last = {cur}

OutputInv ==
    /\ OutputTypes /\ (Silent \/ CountedOnce \/ Playing) /\ ReplyStages
    /\ Clean => TasksInStep /\ SegmentIsOwn /\ (Uncancelled => TextIsPlayed)

\* The fields of the records have their types.
LEMMA FieldTypes ==
    ASSUME OutputTypes
    PROVE  /\ inner.segments \in Nat /\ inner.finished \in Nat /\ inner.pushed \in Nat
           /\ inner.queued \in Nat /\ inner.capturing \in BOOLEAN /\ inner.clear \in BOOLEAN
           /\ inner.flush \in BOOLEAN
           /\ outer.segments \in Nat /\ outer.finished \in Nat
           /\ outer.capturing \in BOOLEAN /\ outer.pushed \in BOOLEAN
           /\ impl.texts \subseteq Nat /\ impl.closed \in BOOLEAN /\ impl.textEnd \in BOOLEAN
           /\ impl.audioEnd \in BOOLEAN /\ impl.audio \in BOOLEAN /\ impl.shown \in BOOLEAN
           /\ impl.completed \in BOOLEAN
BY DEF OutputTypes, Inner, Outer, Segments

\* What the participant's output counts when it takes a frame.
LEMMA FrameIsTaken ==
    ASSUME OutputTypes, Output!TakeFrame
    PROVE  /\ af' = "source" /\ inner' \in Inner
           /\ inner'.segments = (IF inner.capturing THEN inner.segments ELSE inner.segments + 1)
           /\ inner'.pushed = inner.pushed + 1
           /\ inner'.capturing = TRUE
           /\ inner'.finished = inner.finished /\ inner'.flush = inner.flush
           /\ inner'.clear = inner.clear
<1> USE DEF Output!TakeFrame
<1>1. inner \in Inner
  BY DEF OutputTypes
<1>2. af' = "source"
  OBVIOUS
<1>3. /\ inner'.segments = (IF inner.capturing THEN inner.segments ELSE inner.segments + 1)
      /\ inner'.pushed = inner.pushed + 1 /\ inner'.queued = inner.queued + 1
      /\ inner'.capturing = TRUE
      /\ inner'.finished = inner.finished /\ inner'.flush = inner.flush
      /\ inner'.clear = inner.clear
  BY <1>1 DEF Inner
<1>4. inner' = [capturing |-> inner'.capturing, segments |-> inner'.segments,
                finished |-> inner'.finished, pushed |-> inner'.pushed,
                queued |-> inner'.queued, clear |-> inner'.clear, flush |-> inner'.flush]
  BY <1>1 DEF Inner
<1>5. inner' \in Inner
  <2>1. inner'.segments \in Nat
    BY <1>3, FieldTypes
  <2>2. inner'.pushed \in Nat /\ inner'.queued \in Nat
    BY <1>3, FieldTypes
  <2>3. inner'.capturing \in BOOLEAN /\ inner'.clear \in BOOLEAN /\ inner'.flush \in BOOLEAN
        /\ inner'.finished \in Nat
    BY <1>3, FieldTypes, Zenon
  <2> HIDE DEF Output!TakeFrame
  <2> QED BY <1>4, <2>1, <2>2, <2>3 DEF Inner
<1> QED BY <1>2, <1>3, <1>5

\* What the two outputs count when a frame passes the barrier.
LEMMA FrameIsCounted ==
    ASSUME OutputTypes, (Silent \/ Playing), startedFut # "cancelled", af # "done",
           UNCHANGED startedFut, Output!CountFrame
    PROVE  /\ inner' \in Inner /\ outer' \in Outer
           /\ af' \in {"starting", "source"} /\ (startedFut = "pending" => af' = "starting")
           /\ (CountedOnce \/ Playing)'
           /\ Pending' /\ outer'.pushed = outer.pushed /\ inner'.clear = inner.clear
           /\ Playing => outer'.segments = outer.segments
           /\ outer'.finished = outer.finished
<1>1. outer \in Outer
  BY DEF OutputTypes
<1>2. /\ outer'.segments = (IF outer.capturing THEN outer.segments ELSE outer.segments + 1)
      /\ outer'.capturing = TRUE /\ outer'.finished = outer.finished
      /\ outer'.pushed = outer.pushed
  BY <1>1 DEF Output!CountFrame, Outer
<1>3. outer' = [capturing |-> outer'.capturing, segments |-> outer'.segments,
                finished |-> outer'.finished, pushed |-> outer'.pushed]
  BY <1>1 DEF Output!CountFrame, Outer
<1>4. outer' \in Outer
  <2>1. outer'.segments \in Nat
    BY <1>2, FieldTypes
  <2>2. outer'.capturing \in BOOLEAN /\ outer'.pushed \in BOOLEAN /\ outer'.finished \in Nat
    BY <1>2, FieldTypes, Zenon
  <2> QED BY <1>3, <2>1, <2>2 DEF Outer
<1>5. CASE startedFut = "pending"
  <2>1. af' = "starting" /\ inner' = inner
    BY <1>5 DEF Output!CountFrame
  <2>2. Silent
    BY <1>5 DEF Playing
  <2>3. CountedOnce'
    BY <1>2, <2>1, <2>2, FieldTypes DEF Silent, CountedOnce
  <2>4. Pending'
    BY <1>2, <2>2, FieldTypes DEF Silent, Pending
  <2> QED BY <1>2, <1>4, <1>5, <2>1, <2>2, <2>3, <2>4 DEF OutputTypes, Silent, Playing
<1>6. CASE startedFut = "done"
  <2>1. Output!TakeFrame
    BY <1>6 DEF Output!CountFrame
  <2>2. /\ af' = "source" /\ inner' \in Inner
        /\ inner'.segments = (IF inner.capturing THEN inner.segments ELSE inner.segments + 1)
        /\ inner'.pushed = inner.pushed + 1
        /\ inner'.capturing = TRUE
        /\ inner'.finished = inner.finished /\ inner'.flush = inner.flush
        /\ inner'.clear = inner.clear
    BY <2>1, FrameIsTaken
  <2>3. CASE Silent
    <3>1. Playing'
      BY <1>2, <1>6, <2>2, <2>3, FieldTypes DEF Silent, Playing
    <3> QED BY <1>2, <1>4, <1>6, <2>2, <2>3, <3>1, FieldTypes DEF Silent, Playing, Pending
  <2>4. CASE Playing
    <3>2. Playing'
      BY <1>2, <1>6, <2>2, <2>4, FieldTypes DEF Playing
    <3> QED BY <1>2, <1>4, <1>6, <2>2, <2>4, <3>2, FieldTypes DEF Playing, Pending
  <2> QED BY <2>3, <2>4
<1> QED BY <1>5, <1>6 DEF OutputTypes

\* The invariant when a frame that is counted is the first of its speech or goes on with it.
LEMMA CountKeeps ==
    ASSUME OutputInv, af \in {"next", "barrier"}, Uncancelled => tf # "next" \/ ~Clean, rotations = 0,
           Output!CountFrame, frames' \in Nat,
           UNCHANGED <<cur, phase, interrupted, first, tf, startedFut, event, waiters, last,
                       impl, tCapturing, rotations, doomed, mute>>
    PROVE  OutputInv'
<1>1. /\ OutputTypes /\ Uncancelled /\ startedFut # "cancelled" /\ (Silent \/ Playing)
      /\ phase \in {"forwarding", "waiting"} /\ (phase = "waiting" => interrupted)
      /\ ~inner.clear
  BY DEF OutputInv, OutputTypes, ReplyStages, Uncancelled, CountedOnce
<1>2. /\ inner' \in Inner /\ outer' \in Outer
      /\ af' \in {"starting", "source"} /\ (startedFut = "pending" => af' = "starting")
      /\ (CountedOnce \/ Playing)'
      /\ Pending' /\ outer'.pushed = outer.pushed /\ inner'.clear = inner.clear
      /\ outer'.finished = outer.finished
  BY <1>1, FrameIsCounted
<1>3. OutputTypes'
  BY <1>1, <1>2 DEF OutputTypes
<1>4. ReplyStages'
  BY <1>1, <1>2 DEF ReplyStages
<1>5. ASSUME Clean' PROVE TasksInStep' /\ SegmentIsOwn' /\ TextIsPlayed'
  <2>1. Clean /\ TasksInStep /\ SegmentIsOwn /\ TextIsPlayed /\ tf # "next"
    BY <1>1, <1>5 DEF OutputInv, Clean
  <2>2. TasksInStep'
    BY <1>1, <1>2, <2>1 DEF TasksInStep
  <2>3. SegmentIsOwn'
    BY <1>1, <1>2, <2>1 DEF SegmentIsOwn
  <2>4. TextIsPlayed'
    BY <1>1, <1>2, <2>1 DEF TextIsPlayed
  <2> QED BY <2>2, <2>3, <2>4
<1> QED BY <1>2, <1>3, <1>4, <1>5 DEF OutputInv

\* A call of wait_for_playout waits for every segment counted so far.
LEMMA WaitCounts ==
    ASSUME OutputTypes, NEW kind \in {"reply", "clear"}, Output!Wait(kind), cur' = cur,
           outer' = outer
    PROVE  waiters' \subseteq Waits /\ (Pending => Awaited(kind)')
<1>1. CASE Pending
  <2>1. ~(outer.finished >= outer.segments)
    BY <1>1, FieldTypes DEF Pending
  <2> DEFINE w == [speech |-> cur, kind |-> kind, target |-> outer.segments, woken |-> FALSE]
  <2>2. waiters' = waiters \cup {w}
    BY <2>1 DEF Output!Wait
  <2>3. w \in Waits
    BY FieldTypes DEF OutputTypes, Waits
  <2>4. w.speech = cur /\ w.kind = kind /\ w.target = outer.segments /\ w \in waiters'
    BY <2>2
  <2> HIDE DEF w
  <2>5. Awaited(kind)'
    BY <2>4 DEF Awaited
  <2> QED BY <2>2, <2>3, <2>5 DEF OutputTypes
<1>2. CASE ~Pending
  <2>1. outer.finished >= outer.segments
    BY <1>2, FieldTypes DEF Pending
  <2> QED BY <1>2, <2>1 DEF Output!Wait, OutputTypes
<1> QED BY <1>1, <1>2

\* A call that is woken too early goes on waiting.
LEMMA WakeKeeps ==
    ASSUME OutputTypes, NEW w \in waiters, Output!Wake(w), Pending,
           NEW kind \in {"reply", "clear"}, Awaited(kind)
    PROVE  Awaited(kind)'
<1>1. PICK v \in waiters : v.speech = cur /\ v.kind = kind /\ v.target = outer.segments
  BY DEF Awaited
<1>2. cur' = cur /\ outer' = outer
  BY DEF Output!Wake, Output!speechVars, Output!sinkVars
<1>3. CASE v # w
  <2>1. v \in waiters'
    BY <1>3 DEF Output!Wake
  <2> QED BY <1>1, <1>2, <2>1 DEF Awaited
<1>4. CASE v = w
  <2>1. ~(outer.finished >= w.target)
    BY <1>1, <1>4, FieldTypes DEF Pending
  <2>2. [w EXCEPT !.woken = FALSE] \in waiters'
    BY <2>1 DEF Output!Wake
  <2>3. w \in Waits
    BY DEF OutputTypes
  <2> DEFINE u == [w EXCEPT !.woken = FALSE]
  <2>4. u.speech = cur /\ u.kind = kind /\ u.target = outer.segments
    BY <1>1, <1>4, <2>3 DEF Waits
  <2>5. u \in waiters'
    BY <2>2
  <2> HIDE DEF u
  <2> QED BY <1>2, <2>4, <2>5 DEF Awaited
<1> QED BY <1>3, <1>4

\* Every step of the outputs keeps the invariant.
LEMMA OutputStep ==
    ASSUME OutputInv, Output!Next
    PROVE  OutputInv'
<1>1. CASE Output!ShowText
  <2>1. OutputTypes'
    <3>1. inner' \in Inner
      BY <1>1 DEF OutputInv, OutputTypes, Output!ShowText, Output!sinkVars
    <3>2. outer' \in Outer
      BY <1>1 DEF OutputInv, OutputTypes, Output!ShowText, Output!sinkVars
    <3>3. impl' \in Segments
      BY <1>1 DEF OutputInv, OutputTypes, Segments, Output!ShowText
    <3>4. waiters' \subseteq Waits
      BY <1>1 DEF OutputInv, OutputTypes, Output!ShowText, Output!waitVars
    <3> QED
      BY <1>1, <3>3, <3>4
         DEF OutputInv, OutputTypes, Output!ShowText, Output!speechVars, Output!taskVars,
             Output!sinkVars
  <2>2. (Silent \/ CountedOnce \/ Playing)'
    <3>1. CASE Silent
      BY <1>1, <3>1 DEF Silent, Output!ShowText, Output!taskVars, Output!sinkVars
    <3>2. CASE CountedOnce
      BY <1>1, <3>2
         DEF CountedOnce, Output!ShowText, Output!speechVars, Output!taskVars, Output!sinkVars
    <3>3. CASE Playing
      BY <1>1, <3>3 DEF Playing, Output!ShowText, Output!taskVars, Output!sinkVars
    <3> QED BY <3>1, <3>2, <3>3 DEF OutputInv
  <2>3. ReplyStages'
    BY <1>1
       DEF OutputInv, ReplyStages, Pending, Awaited, Output!ShowText, Output!speechVars,
           Output!taskVars, Output!sinkVars, Output!waitVars
  <2>4. Clean' => Clean
    BY <1>1 DEF Clean, Output!ShowText
  <2>5. Clean' => TasksInStep'
    BY <1>1, <2>4
       DEF OutputInv, Pending, TasksInStep, Uncancelled, Output!ShowText, Output!speechVars,
           Output!taskVars, Output!sinkVars
  <2>6. Clean' => SegmentIsOwn'
    BY <1>1, <2>4
       DEF OutputInv, Pending, SegmentIsOwn, Output!ShowText, Output!speechVars,
           Output!taskVars, Output!sinkVars, Output!waitVars
  <2>7. Clean' /\ Uncancelled' => TextIsPlayed'
    BY <1>1, <2>4
       DEF OutputInv, Pending, TextIsPlayed, Uncancelled, Output!ShowText, Output!speechVars,
           Output!taskVars, Output!sinkVars, Output!waitVars
  <2> QED BY <2>1, <2>2, <2>3, <2>5, <2>6, <2>7 DEF OutputInv
<1>2. CASE Output!RotateCloses
  <2>1. OutputTypes'
    <3>1. inner' \in Inner
      BY <1>2 DEF OutputInv, OutputTypes, Output!RotateCloses, Output!sinkVars
    <3>2. outer' \in Outer
      BY <1>2 DEF OutputInv, OutputTypes, Output!RotateCloses, Output!sinkVars
    <3>3. impl' \in Segments
      BY <1>2 DEF OutputInv, OutputTypes, Segments, Output!RotateCloses
    <3>4. waiters' \subseteq Waits
      BY <1>2 DEF OutputInv, OutputTypes, Output!RotateCloses, Output!waitVars
    <3> QED
      BY <1>2, <3>3, <3>4
         DEF OutputInv, OutputTypes, Output!RotateCloses, Output!speechVars, Output!taskVars,
             Output!sinkVars
  <2>2. (Silent \/ CountedOnce \/ Playing)'
    <3>1. CASE Silent
      BY <1>2, <3>1 DEF Silent, Output!RotateCloses, Output!taskVars, Output!sinkVars
    <3>2. CASE CountedOnce
      BY <1>2, <3>2
         DEF CountedOnce, Output!RotateCloses, Output!speechVars, Output!taskVars,
             Output!sinkVars
    <3>3. CASE Playing
      BY <1>2, <3>3 DEF Playing, Output!RotateCloses, Output!taskVars, Output!sinkVars
    <3> QED BY <3>1, <3>2, <3>3 DEF OutputInv
  <2>3. ReplyStages'
    BY <1>2
       DEF OutputInv, ReplyStages, Pending, Awaited, Output!RotateCloses, Output!speechVars,
           Output!taskVars, Output!sinkVars, Output!waitVars
  <2>4. Clean' => Clean
    BY <1>2 DEF Clean, Output!RotateCloses
  <2>5. Clean' => TasksInStep'
    BY <1>2, <2>4
       DEF OutputInv, Pending, TasksInStep, Uncancelled, Output!RotateCloses, Output!speechVars,
           Output!taskVars, Output!sinkVars
  <2>6. Clean' => SegmentIsOwn'
    BY <1>2, <2>4
       DEF OutputInv, Pending, SegmentIsOwn, Output!RotateCloses, Output!speechVars,
           Output!taskVars, Output!sinkVars, Output!waitVars
  <2>7. Clean' /\ Uncancelled' => TextIsPlayed'
    BY <1>2, <2>4
       DEF OutputInv, Pending, TextIsPlayed, Uncancelled, Output!RotateCloses,
           Output!speechVars, Output!taskVars, Output!sinkVars, Output!waitVars
  <2> QED BY <2>1, <2>2, <2>3, <2>5, <2>6, <2>7 DEF OutputInv
<1>3. CASE Output!RotateEnds
  <2>1. OutputTypes'
    <3>1. inner' \in Inner
      BY <1>3 DEF OutputInv, OutputTypes, Output!RotateEnds, Output!sinkVars
    <3>2. outer' \in Outer
      BY <1>3 DEF OutputInv, OutputTypes, Output!RotateEnds, Output!sinkVars
    <3>3. impl' \in Segments
      BY <1>3 DEF Segments, Output!RotateEnds, Output!NewSegment
    <3>4. waiters' \subseteq Waits
      BY <1>3 DEF OutputInv, OutputTypes, Output!RotateEnds, Output!waitVars
    <3> QED
      BY <1>3, <3>3, <3>4
         DEF OutputInv, OutputTypes, Output!RotateEnds, Output!speechVars, Output!taskVars,
             Output!sinkVars
  <2>2. (Silent \/ CountedOnce \/ Playing)'
    <3>1. CASE Silent
      BY <1>3, <3>1 DEF Silent, Output!RotateEnds, Output!taskVars, Output!sinkVars
    <3>2. CASE CountedOnce
      BY <1>3, <3>2
         DEF CountedOnce, Output!RotateEnds, Output!speechVars, Output!taskVars, Output!sinkVars
    <3>3. CASE Playing
      BY <1>3, <3>3 DEF Playing, Output!RotateEnds, Output!taskVars, Output!sinkVars
    <3> QED BY <3>1, <3>2, <3>3 DEF OutputInv
  <2>3. ReplyStages'
    BY <1>3
       DEF OutputInv, ReplyStages, Pending, Awaited, Output!RotateEnds, Output!speechVars,
           Output!taskVars, Output!sinkVars, Output!waitVars
  <2>4. Clean' => Clean
    BY <1>3 DEF Clean, Output!RotateEnds
  <2>5. Clean' => TasksInStep'
    BY <1>3, <2>4
       DEF OutputInv, Pending, TasksInStep, Uncancelled, Output!RotateEnds, Output!speechVars,
           Output!taskVars, Output!sinkVars
  <2>6. Clean' => SegmentIsOwn'
    BY <1>3, <2>4
       DEF OutputInv, Pending, SegmentIsOwn, Output!RotateEnds, Output!NewSegment,
           Output!speechVars, Output!taskVars, Output!sinkVars, Output!waitVars
  <2>7. Clean' /\ Uncancelled' => TextIsPlayed'
    BY <1>3, <2>4
       DEF OutputInv, Pending, TextIsPlayed, Uncancelled, Output!RotateEnds, Output!speechVars,
           Output!taskVars, Output!sinkVars, Output!waitVars
  <2> QED BY <2>1, <2>2, <2>3, <2>5, <2>6, <2>7 DEF OutputInv
<1>4. CASE Output!RotateDies
  <2>1. OutputTypes'
    <3>1. inner' \in Inner
      BY <1>4 DEF OutputInv, OutputTypes, Output!RotateDies, Output!sinkVars
    <3>2. outer' \in Outer
      BY <1>4 DEF OutputInv, OutputTypes, Output!RotateDies, Output!sinkVars
    <3>3. impl' \in Segments
      BY <1>4 DEF OutputInv, OutputTypes, Output!RotateDies
    <3>4. waiters' \subseteq Waits
      BY <1>4 DEF OutputInv, OutputTypes, Output!RotateDies, Output!waitVars
    <3> QED
      BY <1>4, <3>4
         DEF OutputInv, OutputTypes, Output!RotateDies, Output!speechVars, Output!sinkVars
  <2>2. (Silent \/ CountedOnce \/ Playing)'
    <3>1. CASE Silent
      BY <1>4, <3>1 DEF Silent, Output!RotateDies, Output!sinkVars
    <3>2. CASE CountedOnce
      BY <1>4, <3>2
         DEF CountedOnce, Output!RotateDies, Output!Barriers, Output!speechVars, Output!sinkVars
    <3>3. CASE Playing
      BY <1>4, <3>3 DEF Playing, Output!RotateDies, Output!Barriers, Output!sinkVars
    <3> QED BY <3>1, <3>2, <3>3 DEF OutputInv
  <2>3. ReplyStages'
    BY <1>4
       DEF OutputInv, ReplyStages, Pending, Awaited, Output!RotateDies, Output!Barriers,
           Output!speechVars, Output!sinkVars, Output!waitVars
  <2>4. Clean' => Clean
    BY <1>4 DEF Clean, Output!RotateDies
  <2>5. Clean' => TasksInStep'
    BY <1>4 DEF Clean, Output!RotateDies
  <2>6. Clean' => SegmentIsOwn'
    BY <1>4 DEF Clean, Output!RotateDies
  <2>7. Clean' /\ Uncancelled' => TextIsPlayed'
    BY <1>4 DEF Clean, Output!RotateDies
  <2> QED BY <2>1, <2>2, <2>3, <2>5, <2>6, <2>7 DEF OutputInv
<1>5. CASE Output!NextFrame
  <2>1. /\ af = "next" /\ tf # "next" /\ frames' = frames + 1
        /\ UNCHANGED <<cur, phase, interrupted, first, record, tf, startedFut, event, waiters, last,
                       impl, tCapturing, rotations, doomed, mute>>
    BY <1>5 DEF Output!NextFrame, Output!waitVars, Output!syncVars
  <2>2. OutputTypes /\ frames' \in Nat
    BY <2>1 DEF OutputInv, OutputTypes
  <2>3. CASE rotations > 0
    <3>1. af' = "barrier" /\ UNCHANGED <<inner, outer>>
      BY <1>5, <2>3 DEF Output!NextFrame
    <3>2. OutputTypes'
      BY <2>1, <2>2, <3>1 DEF OutputTypes
    <3>3. (Silent \/ Playing)'
      BY <2>1, <3>1 DEF OutputInv, Silent, CountedOnce, Playing
    <3>4. ReplyStages'
      BY <2>1, <3>1 DEF OutputInv, ReplyStages
    <3>5. ASSUME Clean' PROVE TasksInStep' /\ SegmentIsOwn' /\ (Uncancelled' => TextIsPlayed')
      <4>1. Clean /\ TasksInStep /\ SegmentIsOwn /\ (Uncancelled => TextIsPlayed)
        BY <2>1, <3>5 DEF OutputInv, Clean
      <4>2. TasksInStep'
        BY <2>1, <3>1, <4>1 DEF TasksInStep, Uncancelled
      <4>3. SegmentIsOwn'
        BY <2>1, <2>3, <3>1, <4>1 DEF SegmentIsOwn, Pending
      <4>4. Uncancelled' => TextIsPlayed'
        BY <2>1, <2>3, <3>1, <4>1 DEF TextIsPlayed, Uncancelled, Pending
      <4> QED BY <4>2, <4>3, <4>4
    <3> QED BY <3>2, <3>3, <3>4, <3>5 DEF OutputInv
  <2>4. CASE ~(rotations > 0)
    <3>1. rotations = 0
      BY <2>2, <2>4 DEF OutputTypes
    <3>2. Output!CountFrame
      BY <1>5, <2>4 DEF Output!NextFrame
    <3> QED BY <2>1, <2>2, <3>1, <3>2, CountKeeps
  <2> QED BY <2>3, <2>4
<1>6. CASE Output!PassBarrier
  <2>1. /\ af = "barrier" /\ rotations = 0 /\ Output!CountFrame
        /\ UNCHANGED <<frames, cur, phase, interrupted, first, tf, startedFut, event, waiters,
                       last, impl, tCapturing, rotations, doomed, mute>>
    BY <1>6 DEF Output!PassBarrier, Output!speechVars, Output!waitVars, Output!syncVars
  <2>2. frames' \in Nat
    BY <2>1 DEF OutputInv, OutputTypes
  <2>3. Uncancelled => tf # "next" \/ ~Clean
    BY <2>1 DEF OutputInv, TasksInStep
  <2> QED BY <2>1, <2>2, <2>3, CountKeeps
<1>7. CASE Output!FrameGoesOn
  <2>1. OutputTypes'
    <3>1. inner' \in Inner
      BY <1>7, FrameIsTaken DEF OutputInv, Output!FrameGoesOn
    <3>2. outer' \in Outer
      BY <1>7 DEF OutputInv, OutputTypes, Output!FrameGoesOn
    <3>3. impl' \in Segments
      BY <1>7 DEF OutputInv, OutputTypes, Output!FrameGoesOn, Output!syncVars
    <3>4. waiters' \subseteq Waits
      BY <1>7 DEF OutputInv, OutputTypes, Output!FrameGoesOn, Output!waitVars
    <3> QED
      BY <1>7, <3>1, <3>4
         DEF OutputInv, OutputTypes, Output!FrameGoesOn, Output!TakeFrame, Output!speechVars,
             Output!syncVars
  <2>2. (Silent \/ CountedOnce \/ Playing)'
    <3>1. CASE Silent
      BY <1>7, <3>1 DEF Silent, Output!FrameGoesOn
    <3>2. CASE CountedOnce
      <4>1. /\ Output!TakeFrame /\ startedFut = "done" /\ af = "starting"
            /\ UNCHANGED <<startedFut, outer>>
        BY <1>7 DEF Output!FrameGoesOn
      <4>2. /\ af' = "source"
            /\ inner'.segments = (IF inner.capturing THEN inner.segments ELSE inner.segments + 1)
            /\ inner'.pushed = inner.pushed + 1
            /\ inner'.capturing = TRUE
            /\ inner'.finished = inner.finished /\ inner'.flush = inner.flush
        BY <4>1, FrameIsTaken DEF OutputInv
      <4>3. Playing'
        BY <3>2, <4>1, <4>2, FieldTypes DEF OutputInv, CountedOnce, Playing
      <4> QED BY <4>3
    <3>3. CASE Playing
      BY <1>7, <3>3 DEF Playing, Output!FrameGoesOn
    <3> QED BY <3>1, <3>2, <3>3 DEF OutputInv
  <2>3. ReplyStages'
    BY <1>7 DEF OutputInv, ReplyStages, Output!FrameGoesOn, Output!TakeFrame, Output!speechVars
  <2>4. Clean' => Clean
    BY <1>7 DEF Clean, Output!FrameGoesOn, Output!syncVars
  <2>5. Clean' => TasksInStep'
    BY <1>7, <2>4
       DEF OutputInv, TasksInStep, Uncancelled, Output!FrameGoesOn, Output!TakeFrame,
           Output!speechVars, Output!syncVars
  <2>6. Clean' => SegmentIsOwn'
    BY <1>7, <2>4
       DEF OutputInv, Pending, SegmentIsOwn, Output!FrameGoesOn, Output!TakeFrame,
           Output!speechVars, Output!syncVars
  <2>7. Clean' /\ Uncancelled' => TextIsPlayed'
    BY <1>7, <2>4
       DEF OutputInv, OutputTypes, Outer, Silent, CountedOnce, Playing, Pending, TextIsPlayed,
           Uncancelled, Output!FrameGoesOn, Output!TakeFrame, Output!speechVars, Output!syncVars
  <2> QED BY <2>1, <2>2, <2>3, <2>5, <2>6, <2>7 DEF OutputInv
<1>8. CASE Output!FrameTaken
  <2>1. OutputTypes'
    <3>1. inner' \in Inner
      BY <1>8 DEF OutputInv, OutputTypes, Output!FrameTaken
    <3>2. outer' \in Outer
      BY <1>8 DEF OutputInv, OutputTypes, Outer, Output!FrameTaken
    <3>3. impl' \in Segments
      BY <1>8 DEF OutputInv, OutputTypes, Segments, Output!FrameTaken, Output!PushAudio
    <3>4. waiters' \subseteq Waits
      BY <1>8 DEF OutputInv, OutputTypes, Output!FrameTaken, Output!waitVars
    <3>5. CASE impl.audioEnd
      BY <1>8, <3>1, <3>2, <3>3, <3>4, <3>5
         DEF OutputInv, OutputTypes, Output!FrameTaken, Output!waitVars
    <3>6. CASE ~impl.audioEnd
      BY <1>8, <3>1, <3>2, <3>3, <3>4, <3>6
         DEF OutputInv, OutputTypes, Output!FrameTaken, Output!waitVars
    <3> QED BY <3>5, <3>6
  <2>2. (Silent \/ CountedOnce \/ Playing)'
    <3>1. CASE Silent
      BY <1>8, <3>1 DEF Silent, Output!FrameTaken
    <3>2. CASE CountedOnce
      BY <1>8, <3>2 DEF CountedOnce, Output!FrameTaken
    <3>3. CASE Playing
      BY <1>8, <3>3 DEF Playing, Output!FrameTaken
    <3> QED BY <3>1, <3>2, <3>3 DEF OutputInv
  <2>3. ReplyStages'
    BY <1>8 DEF OutputInv, ReplyStages, Output!FrameTaken
  <2>4. Clean' => Clean
    BY <1>8 DEF Clean, Output!FrameTaken
  <2>5. ASSUME Clean' PROVE TasksInStep'
    <3>1. (af = "done" => tf \in {"next", "raised", "done"})'
      BY <1>8 DEF Output!FrameTaken
    <3>2. (af = "raised" \/ tf = "raised" => phase = "cancelling")'
      BY <1>8, <2>4, <2>5 DEF OutputInv, TasksInStep, Output!FrameTaken
    <3>3. (Uncancelled /\ tf = "next" => frames = 0 /\ af \in {"next", "done"} /\ ~Pending)'
      BY <1>8, <2>4, <2>5 DEF OutputInv, TasksInStep, Uncancelled, Output!FrameTaken
    <3>4. (tf = "barrier2" => tCapturing)'
      BY <1>8, <2>4, <2>5 DEF OutputInv, TasksInStep, Output!FrameTaken
    <3> QED BY <3>1, <3>2, <3>3, <3>4 DEF TasksInStep
  <2>6. Clean' => SegmentIsOwn'
    BY <1>8, <2>4
       DEF OutputInv, OutputTypes, Outer, Segments, Silent, CountedOnce, Playing, Pending,
           SegmentIsOwn, Output!FrameTaken, Output!PushAudio
  <2>7. Clean' /\ Uncancelled' => TextIsPlayed'
    BY <1>8, <2>4
       DEF OutputInv, OutputTypes, Segments, Pending, SegmentIsOwn, TextIsPlayed, Uncancelled,
           Output!FrameTaken, Output!PushAudio
  <2> QED BY <2>1, <2>2, <2>3, <2>5, <2>6, <2>7 DEF OutputInv
<1>9. CASE Output!FlushAudio
  <2>1. OutputTypes'
    <3>1. inner' \in Inner
      BY <1>9 DEF OutputInv, OutputTypes, Inner, Output!FlushAudio
    <3>2. outer' \in Outer
      BY <1>9 DEF OutputInv, OutputTypes, Outer, Output!FlushAudio
    <3>3. impl' \in Segments
      BY <1>9
         DEF OutputInv, OutputTypes, Segments, Output!FlushAudio, Output!EndAudio,
             Output!speechVars
    <3>4. waiters' \subseteq Waits
      BY <1>9 DEF OutputInv, OutputTypes, Output!FlushAudio, Output!waitVars
    <3> QED
      BY <1>9, <3>1, <3>2, <3>3, <3>4
         DEF OutputInv, OutputTypes, Output!FlushAudio, Output!speechVars
  <2>2. (Silent \/ CountedOnce \/ Playing)'
    <3>1. CASE Silent
      <4>1. /\ inner'.capturing = FALSE /\ inner'.segments = inner.segments
            /\ inner'.finished = inner.finished /\ inner'.pushed = inner.pushed
            /\ inner'.flush = (inner.flush \/ inner.pushed > 0)
        BY <1>9 DEF OutputInv, OutputTypes, Inner, Output!FlushAudio
      <4>2. /\ outer'.capturing = FALSE /\ outer'.segments = outer.segments
            /\ outer'.finished = outer.finished /\ outer'.pushed = outer.pushed
            /\ af' = "done" /\ startedFut' = startedFut /\ phase' = phase /\ af # "done"
        BY <1>9 DEF Output!FlushAudio, Output!speechVars
      <4>3. ~(inner.flush \/ inner.pushed > 0)
        BY <3>1 DEF Silent
      <4> QED BY <3>1, <4>1, <4>2, <4>3 DEF Silent
    <3>2. CASE CountedOnce
      <4>1. /\ inner'.capturing = FALSE /\ inner'.segments = inner.segments
            /\ inner'.finished = inner.finished /\ inner'.pushed = inner.pushed
            /\ inner'.flush = (inner.flush \/ inner.pushed > 0)
        BY <1>9 DEF OutputInv, OutputTypes, Inner, Output!FlushAudio
      <4>2. /\ outer'.capturing = FALSE /\ outer'.segments = outer.segments
            /\ outer'.finished = outer.finished /\ outer'.pushed = outer.pushed
            /\ af' = "done" /\ startedFut' = startedFut /\ phase' = phase /\ af # "done"
        BY <1>9 DEF Output!FlushAudio, Output!speechVars
      <4>3. ~(inner.flush \/ inner.pushed > 0)
        BY <3>2 DEF CountedOnce
      <4>4. phase \in {"cancelling", "clearing"}
        BY <1>9, <3>2 DEF CountedOnce, Output!FlushAudio
      <4> QED BY <3>2, <4>1, <4>2, <4>3, <4>4 DEF CountedOnce
    <3>3. CASE Playing
      BY <1>9, <3>3 DEF OutputInv, OutputTypes, Inner, Playing, Output!FlushAudio
    <3> QED BY <3>1, <3>2, <3>3 DEF OutputInv
  <2>3. ReplyStages'
    BY <1>9 DEF OutputInv, ReplyStages, Pending, Output!FlushAudio, Output!speechVars
  <2>4. Clean' => Clean /\ (af = "next" => tf \in {"next", "done"})
    BY <1>9, Zenon DEF Clean, Output!FlushAudio
  <2>5. ASSUME Clean' PROVE TasksInStep'
    <3>1. (af = "done" => tf \in {"next", "raised", "done"})'
      BY <1>9, <2>4, <2>5 DEF OutputInv, ReplyStages, TasksInStep, Output!FlushAudio
    <3>2. (af = "raised" \/ tf = "raised" => phase = "cancelling")'
      BY <1>9, <2>4, <2>5 DEF OutputInv, TasksInStep, Output!FlushAudio, Output!speechVars
    <3>3. (Uncancelled /\ tf = "next" => frames = 0 /\ af \in {"next", "done"} /\ ~Pending)'
      BY <1>9, <2>4, <2>5
         DEF OutputInv, Pending, TasksInStep, Uncancelled, Output!FlushAudio, Output!speechVars
    <3>4. (tf = "barrier2" => tCapturing)'
      BY <1>9, <2>4, <2>5 DEF OutputInv, TasksInStep, Output!FlushAudio
    <3> QED BY <3>1, <3>2, <3>3, <3>4 DEF TasksInStep
  <2>6. Clean' => SegmentIsOwn'
    BY <1>9, <2>4
       DEF OutputInv, OutputTypes, Segments, Pending, SegmentIsOwn, Output!FlushAudio,
           Output!EndAudio, Output!speechVars
  <2>7. ASSUME Clean' /\ Uncancelled' PROVE TextIsPlayed'
    <3>1. (frames > 0 /\ af \in {"next", "source"} => Pending)'
      BY <1>9 DEF Output!FlushAudio
    <3>2. (Pending /\ af = "next" => outer.pushed)'
      BY <1>9 DEF Output!FlushAudio
    <3>3. (af = "done" /\ Pending => outer.pushed)'
      BY <1>9, <2>4, <2>7
         DEF OutputInv, Pending, TasksInStep, TextIsPlayed, Uncancelled, Output!FlushAudio,
             Output!speechVars
    <3>4. (tf = "end" => tCapturing /\ impl.texts = {cur} /\ rotations = 0)'
      BY <1>9, <2>4, <2>7
         DEF OutputInv, TasksInStep, Uncancelled, Output!FlushAudio, Output!speechVars
    <3>5. (tf = "done" /\ (af # "done" \/ outer.pushed) => impl.texts = {cur} /\ impl.textEnd /\ rotations = 0)'
      BY <1>9, <2>4, <2>7
         DEF OutputInv, OutputTypes, Segments, TextIsPlayed, Uncancelled, Output!FlushAudio,
             Output!EndAudio, Output!speechVars
    <3>6. (af = "done" /\ outer.pushed => tf = "done" /\ impl.audioEnd)'
      BY <1>9, <2>4, <2>7
         DEF OutputInv, OutputTypes, Outer, Segments, Silent, CountedOnce, Playing, Pending,
             TasksInStep, SegmentIsOwn, Uncancelled, Output!FlushAudio, Output!EndAudio,
             Output!speechVars
    <3>7. (af = "done" /\ frames > 0 /\ ~Pending => last = {cur})'
      BY <1>9, <2>4, <2>7
         DEF OutputInv, Pending, TasksInStep, TextIsPlayed, Uncancelled, Output!FlushAudio,
             Output!speechVars
    <3> QED BY <3>1, <3>2, <3>3, <3>4, <3>5, <3>6, <3>7 DEF TextIsPlayed
  <2> QED BY <2>1, <2>2, <2>3, <2>5, <2>6, <2>7 DEF OutputInv
<1>10. CASE Output!NextText
  <2>1. OutputTypes'
    <3>1. inner' \in Inner
      BY <1>10 DEF OutputInv, OutputTypes, Output!NextText, Output!sinkVars
    <3>2. outer' \in Outer
      BY <1>10 DEF OutputInv, OutputTypes, Output!NextText, Output!sinkVars
    <3>3. impl' \in Segments
      BY <1>10
         DEF OutputInv, OutputTypes, Segments, Output!NextText, Output!CaptureText,
             Output!PushText
    <3>4. waiters' \subseteq Waits
      BY <1>10 DEF OutputInv, OutputTypes, Output!NextText, Output!waitVars
    <3>5. mute' \in BOOLEAN
      BY <1>10, Zenon DEF OutputInv, OutputTypes, Output!NextText
    <3>6. rotations' \in Nat /\ tf' \in {"barrier", "barrier2", "end"} /\ tCapturing' \in BOOLEAN
      <4>1. rotations \in Nat /\ tCapturing \in BOOLEAN
        BY DEF OutputInv, OutputTypes
      <4>2. \/ tf' = "barrier" /\ UNCHANGED <<tCapturing, rotations>>
            \/ Output!CaptureText
        BY <1>10 DEF Output!NextText
      <4>3. CASE tf' = "barrier" /\ UNCHANGED <<tCapturing, rotations>>
        BY <4>1, <4>3
      <4>4. CASE Output!CaptureText
        BY <4>1, <4>4 DEF Output!CaptureText
      <4> QED BY <4>2, <4>3, <4>4
    <3>7. UNCHANGED <<cur, phase, interrupted, frames, first, record, af, startedFut, inner,
                      outer, waiters, doomed>>
      BY <1>10 DEF Output!NextText, Output!speechVars, Output!sinkVars, Output!waitVars
    <3> QED BY <3>3, <3>5, <3>6, <3>7 DEF OutputInv, OutputTypes
  <2>2. (Silent \/ CountedOnce \/ Playing)'
    <3>1. CASE Silent
      BY <1>10, <3>1 DEF Silent, Output!NextText, Output!sinkVars
    <3>2. CASE CountedOnce
      BY <1>10, <3>2 DEF CountedOnce, Output!NextText, Output!speechVars, Output!sinkVars
    <3>3. CASE Playing
      BY <1>10, <3>3 DEF Playing, Output!NextText, Output!sinkVars
    <3> QED BY <3>1, <3>2, <3>3 DEF OutputInv
  <2>3. ReplyStages'
    BY <1>10 DEF OutputInv, ReplyStages, Output!NextText, Output!speechVars, Output!sinkVars
  <2>4. Clean' => Clean /\ af # "done"
    BY <1>10, Zenon DEF Clean, Output!NextText
  <2>5. ASSUME Clean' PROVE TasksInStep'
    <3>1. (af = "done" => tf \in {"next", "raised", "done"})'
      BY <1>10, <2>4, <2>5 DEF Output!NextText
    <3>2. (af = "raised" \/ tf = "raised" => phase = "cancelling")'
      BY <1>10, <2>4, <2>5
         DEF OutputInv, TasksInStep, Output!NextText, Output!CaptureText, Output!speechVars
    <3>3. (Uncancelled /\ tf = "next" => frames = 0 /\ af \in {"next", "done"} /\ ~Pending)'
      BY <1>10 DEF Output!NextText, Output!CaptureText
    <3>4. (tf = "barrier2" => tCapturing)'
      BY <1>10 DEF Output!NextText, Output!CaptureText
    <3> QED BY <3>1, <3>2, <3>3, <3>4 DEF TasksInStep
  <2>6. ASSUME Clean' PROVE SegmentIsOwn'
    <3>1. (impl.closed => rotations > 0)'
      BY <1>10, <2>4, <2>6
         DEF OutputInv, OutputTypes, Segments, SegmentIsOwn, Output!NextText,
             Output!CaptureText, Output!PushText
    <3>2. (rotations = 0 \/ Pending => impl.texts \subseteq {cur})'
      BY <1>10, <2>4, <2>6
         DEF OutputInv, OutputTypes, Segments, Pending, SegmentIsOwn, Output!NextText,
             Output!CaptureText, Output!PushText, Output!speechVars, Output!sinkVars
    <3>3. (af = "done" /\ impl.texts # {} => rotations > 0 \/ outer.pushed)'
      BY <1>10, <2>4, <2>6 DEF Output!NextText
    <3>4. (rotations = 0 /\ impl.audioEnd => af = "done" /\ outer.pushed)'
      BY <1>10, <2>4, <2>6
         DEF OutputInv, OutputTypes, Segments, SegmentIsOwn, Output!NextText,
             Output!CaptureText, Output!PushText
    <3>5. (Pending /\ af # "done" => rotations = 0)'
      BY <1>10, <2>4, <2>6
         DEF OutputInv, OutputTypes, ReplyStages, Pending, TasksInStep, Uncancelled,
             Output!NextText, Output!sinkVars
    <3>6. (tf \in {"barrier", "barrier2"} /\ rotations = 0 => ~impl.textEnd)'
      BY <1>10 DEF OutputInv, OutputTypes, Output!NextText, Output!CaptureText
    <3>7. (first => Pending \/ (af = "done" /\ last \subseteq {cur}))'
      BY <1>10, <2>4, <2>6
         DEF OutputInv, Pending, SegmentIsOwn, Output!NextText, Output!speechVars,
             Output!sinkVars
    <3>8. (phase = "over" => record \subseteq {cur})'
      BY <1>10, <2>4, <2>6 DEF OutputInv, SegmentIsOwn, Output!NextText, Output!speechVars
    <3> QED BY <3>1, <3>2, <3>3, <3>4, <3>5, <3>6, <3>7, <3>8 DEF SegmentIsOwn
  <2>7. Clean' /\ Uncancelled' => TextIsPlayed'
    BY <1>10, <2>4
       DEF OutputInv, OutputTypes, Segments, Pending, SegmentIsOwn, TextIsPlayed, Uncancelled,
           Output!NextText, Output!CaptureText, Output!PushText, Output!speechVars,
           Output!sinkVars
  <2> QED BY <2>1, <2>2, <2>3, <2>5, <2>6, <2>7 DEF OutputInv
<1>11. CASE Output!TextPassesBarrier
  <2>1. OutputTypes'
    <3>1. inner' \in Inner
      BY <1>11 DEF OutputInv, OutputTypes, Output!TextPassesBarrier, Output!sinkVars
    <3>2. outer' \in Outer
      BY <1>11 DEF OutputInv, OutputTypes, Output!TextPassesBarrier, Output!sinkVars
    <3>3. impl' \in Segments
      BY <1>11
         DEF OutputInv, OutputTypes, Segments, Output!TextPassesBarrier, Output!CaptureText,
             Output!PushText
    <3>4. waiters' \subseteq Waits
      BY <1>11 DEF OutputInv, OutputTypes, Output!TextPassesBarrier, Output!waitVars
    <3>5. rotations' \in Nat /\ tf' \in {"barrier2", "end"} /\ tCapturing' \in BOOLEAN
      <4>1. rotations \in Nat /\ tCapturing \in BOOLEAN
        BY DEF OutputInv, OutputTypes
      <4>2. \/ tf' = "end" /\ UNCHANGED <<tCapturing, rotations>>
            \/ Output!CaptureText
        BY <1>11 DEF Output!TextPassesBarrier
      <4>3. CASE tf' = "end" /\ UNCHANGED <<tCapturing, rotations>>
        BY <4>1, <4>3
      <4>4. CASE Output!CaptureText
        BY <4>1, <4>4 DEF Output!CaptureText
      <4> QED BY <4>2, <4>3, <4>4
    <3>6. UNCHANGED <<cur, phase, interrupted, frames, first, record, af, startedFut, inner,
                      outer, waiters, doomed, mute>>
      BY <1>11 DEF Output!TextPassesBarrier, Output!speechVars, Output!sinkVars, Output!waitVars
    <3> QED BY <3>3, <3>5, <3>6 DEF OutputInv, OutputTypes
  <2>2. (Silent \/ CountedOnce \/ Playing)'
    <3>1. CASE Silent
      BY <1>11, <3>1 DEF Silent, Output!TextPassesBarrier, Output!sinkVars
    <3>2. CASE CountedOnce
      BY <1>11, <3>2 DEF CountedOnce, Output!TextPassesBarrier, Output!speechVars, Output!sinkVars
    <3>3. CASE Playing
      BY <1>11, <3>3 DEF Playing, Output!TextPassesBarrier, Output!sinkVars
    <3> QED BY <3>1, <3>2, <3>3 DEF OutputInv
  <2>3. ReplyStages'
    BY <1>11
       DEF OutputInv, ReplyStages, Output!TextPassesBarrier, Output!speechVars, Output!sinkVars
  <2>4. Clean' => Clean
    BY <1>11 DEF Clean, Output!TextPassesBarrier
  <2>5. Clean' => TasksInStep'
    BY <1>11, <2>4
       DEF OutputInv, TasksInStep, Output!TextPassesBarrier, Output!CaptureText,
           Output!speechVars
  <2>6. Clean' => SegmentIsOwn'
    BY <1>11, <2>4
       DEF OutputInv, OutputTypes, Segments, Pending, TasksInStep, SegmentIsOwn,
           Output!TextPassesBarrier, Output!CaptureText, Output!PushText, Output!speechVars,
           Output!sinkVars
  <2>7. ASSUME Clean' /\ Uncancelled' PROVE TextIsPlayed'
    <3>1. (frames > 0 /\ af \in {"next", "source"} => Pending)'
      BY <1>11, <2>4, <2>7
         DEF OutputInv, Pending, TextIsPlayed, Uncancelled, Output!TextPassesBarrier,
             Output!speechVars, Output!sinkVars
    <3>2. (Pending /\ af = "next" => outer.pushed)'
      BY <1>11, <2>4, <2>7
         DEF OutputInv, Pending, TextIsPlayed, Uncancelled, Output!TextPassesBarrier,
             Output!speechVars, Output!sinkVars
    <3>3. (af = "done" /\ Pending => outer.pushed)'
      BY <1>11, <2>4, <2>7 DEF OutputInv, TasksInStep, Output!TextPassesBarrier
    <3>4. (tf = "end" => tCapturing /\ impl.texts = {cur} /\ rotations = 0)'
      BY <1>11, <2>4, <2>7
         DEF OutputInv, OutputTypes, Segments, TasksInStep, SegmentIsOwn,
             Output!TextPassesBarrier, Output!CaptureText, Output!PushText, Output!speechVars
    <3>5. (tf = "done" /\ (af # "done" \/ outer.pushed) => impl.texts = {cur} /\ impl.textEnd /\ rotations = 0)'
      BY <1>11 DEF Output!TextPassesBarrier, Output!CaptureText
    <3>6. (af = "done" /\ outer.pushed => tf = "done" /\ impl.audioEnd)'
      BY <1>11, <2>4, <2>7
         DEF OutputInv, TextIsPlayed, Uncancelled, Output!TextPassesBarrier, Output!speechVars,
             Output!sinkVars
    <3>7. (af = "done" /\ frames > 0 /\ ~Pending => last = {cur})'
      BY <1>11, <2>4, <2>7 DEF OutputInv, TasksInStep, Output!TextPassesBarrier
    <3> QED BY <3>1, <3>2, <3>3, <3>4, <3>5, <3>6, <3>7 DEF TextIsPlayed
  <2> QED BY <2>1, <2>2, <2>3, <2>5, <2>6, <2>7 DEF OutputInv
<1>12. CASE Output!FlushText
  <2>1. OutputTypes'
    <3>1. inner' \in Inner
      BY <1>12 DEF OutputInv, OutputTypes, Output!FlushText, Output!sinkVars
    <3>2. outer' \in Outer
      BY <1>12 DEF OutputInv, OutputTypes, Output!FlushText, Output!sinkVars
    <3>3. impl' \in Segments
      BY <1>12 DEF OutputInv, OutputTypes, Segments, Output!FlushText, Output!EndText
    <3>4. waiters' \subseteq Waits
      BY <1>12 DEF OutputInv, OutputTypes, Output!FlushText, Output!waitVars
    <3> QED
      BY <1>12, <3>1, <3>2, <3>3, <3>4
         DEF OutputInv, OutputTypes, Output!FlushText, Output!EndText, Output!speechVars,
             Output!sinkVars, Output!waitVars
  <2>2. (Silent \/ CountedOnce \/ Playing)'
    <3>1. CASE Silent
      BY <1>12, <3>1 DEF Silent, Output!FlushText, Output!sinkVars
    <3>2. CASE CountedOnce
      BY <1>12, <3>2 DEF CountedOnce, Output!FlushText, Output!speechVars, Output!sinkVars
    <3>3. CASE Playing
      BY <1>12, <3>3 DEF Playing, Output!FlushText, Output!sinkVars
    <3> QED BY <3>1, <3>2, <3>3 DEF OutputInv
  <2>3. ReplyStages'
    BY <1>12
       DEF OutputInv, ReplyStages, Pending, Output!FlushText, Output!speechVars, Output!sinkVars
  <2>4. Clean' => Clean
    BY <1>12 DEF Clean, Output!FlushText
  <2>5. Clean' => TasksInStep'
    BY <1>12, <2>4 DEF OutputInv, TasksInStep, Output!FlushText, Output!speechVars
  <2>6. Clean' => SegmentIsOwn'
    BY <1>12, <2>4
       DEF OutputInv, Pending, SegmentIsOwn, Output!FlushText, Output!EndText,
           Output!speechVars, Output!sinkVars, Output!waitVars
  <2>7. Clean' /\ Uncancelled' => TextIsPlayed'
    BY <1>12, <2>4
       DEF OutputInv, Pending, TasksInStep, SegmentIsOwn, TextIsPlayed, Uncancelled,
           Output!FlushText, Output!EndText, Output!speechVars, Output!sinkVars
  <2> QED BY <2>1, <2>2, <2>3, <2>5, <2>6, <2>7 DEF OutputInv
<1>13. CASE Output!Started
  <2>1. OutputTypes'
    <3>1. inner' \in Inner
      BY <1>13 DEF OutputInv, OutputTypes, Output!Started
    <3>2. outer' \in Outer
      BY <1>13 DEF OutputInv, OutputTypes, Output!Started
    <3>3. impl' \in Segments
      BY <1>13 DEF OutputInv, OutputTypes, Output!Started, Output!syncVars
    <3>4. waiters' \subseteq Waits
      BY <1>13 DEF OutputInv, OutputTypes, Output!Started, Output!waitVars
    <3> QED
      BY <1>13, <3>4
         DEF OutputInv, OutputTypes, Output!Started, Output!speechVars, Output!taskVars,
             Output!syncVars
  <2>2. (Silent \/ CountedOnce \/ Playing)'
    <3>1. CASE Silent
      BY <1>13, <3>1 DEF Silent, Output!Started, Output!taskVars
    <3>2. CASE CountedOnce
      BY <1>13, <3>2 DEF CountedOnce, Output!Started, Output!speechVars, Output!taskVars
    <3>3. CASE Playing
      BY <1>13, <3>3 DEF Playing, Output!Started
    <3> QED BY <3>1, <3>2, <3>3 DEF OutputInv
  <2>3. ReplyStages'
    BY <1>13
       DEF OutputInv, ReplyStages, Pending, Awaited, Output!Started, Output!speechVars,
           Output!taskVars, Output!waitVars
  <2>4. Clean' => Clean
    BY <1>13 DEF Clean, Output!Started, Output!syncVars
  <2>5. Clean' => TasksInStep'
    BY <1>13, <2>4
       DEF OutputInv, Pending, TasksInStep, Uncancelled, Output!Started, Output!speechVars,
           Output!taskVars, Output!syncVars
  <2>6. Clean' => SegmentIsOwn'
    BY <1>13, <2>4
       DEF OutputInv, Pending, SegmentIsOwn, Output!Started, Output!speechVars, Output!taskVars,
           Output!waitVars, Output!syncVars
  <2>7. Clean' /\ Uncancelled' => TextIsPlayed'
    BY <1>13, <2>4
       DEF OutputInv, Pending, TextIsPlayed, Uncancelled, Output!Started, Output!speechVars,
           Output!taskVars, Output!waitVars, Output!syncVars
  <2> QED BY <2>1, <2>2, <2>3, <2>5, <2>6, <2>7 DEF OutputInv
<1>14. CASE Output!PlayFrame
  <2>1. OutputTypes'
    <3>1. inner' \in Inner
      BY <1>14 DEF OutputInv, OutputTypes, Inner, Output!PlayFrame
    <3>2. outer' \in Outer
      BY <1>14 DEF OutputInv, OutputTypes, Output!PlayFrame
    <3>3. impl' \in Segments
      BY <1>14 DEF OutputInv, OutputTypes, Output!PlayFrame, Output!syncVars
    <3>4. waiters' \subseteq Waits
      BY <1>14 DEF OutputInv, OutputTypes, Output!PlayFrame, Output!waitVars
    <3> QED
      BY <1>14, <3>1, <3>4
         DEF OutputInv, OutputTypes, Output!PlayFrame, Output!speechVars, Output!taskVars,
             Output!syncVars
  <2>2. (Silent \/ CountedOnce \/ Playing)'
    <3>1. CASE Silent
      BY <1>14, <3>1 DEF Silent, Output!PlayFrame, Output!taskVars
    <3>2. CASE CountedOnce
      BY <1>14, <3>2 DEF CountedOnce, Output!PlayFrame, Output!speechVars, Output!taskVars
    <3>3. CASE Playing
      BY <1>14, <3>3 DEF Playing, Output!PlayFrame, Output!taskVars
    <3> QED BY <3>1, <3>2, <3>3 DEF OutputInv
  <2>3. ReplyStages'
    BY <1>14
       DEF OutputInv, ReplyStages, Pending, Awaited, Output!PlayFrame, Output!speechVars,
           Output!taskVars, Output!waitVars
  <2>4. Clean' => Clean
    BY <1>14 DEF Clean, Output!PlayFrame, Output!syncVars
  <2>5. Clean' => TasksInStep'
    BY <1>14, <2>4
       DEF OutputInv, Pending, TasksInStep, Uncancelled, Output!PlayFrame, Output!speechVars,
           Output!taskVars, Output!syncVars
  <2>6. Clean' => SegmentIsOwn'
    BY <1>14, <2>4
       DEF OutputInv, Pending, SegmentIsOwn, Output!PlayFrame, Output!speechVars,
           Output!taskVars, Output!waitVars, Output!syncVars
  <2>7. Clean' /\ Uncancelled' => TextIsPlayed'
    BY <1>14, <2>4
       DEF OutputInv, Pending, TextIsPlayed, Uncancelled, Output!PlayFrame, Output!speechVars,
           Output!taskVars, Output!waitVars, Output!syncVars
  <2> QED BY <2>1, <2>2, <2>3, <2>5, <2>6, <2>7 DEF OutputInv
<1>15. CASE Output!FlushEnds
  <2>1. /\ inner.flush
        /\ UNCHANGED <<cur, phase, interrupted, frames, first, record, af, tf, startedFut,
                       tCapturing, doomed, mute>>
    BY <1>15 DEF Output!FlushEnds, Output!speechVars, Output!taskVars
  <2>2. OutputTypes /\ Playing /\ ReplyStages /\ af = "done"
    BY <2>1 DEF OutputInv, Silent, CountedOnce, Playing
  <2>3. inner.finished < inner.segments /\ outer.finished < outer.segments
    BY <2>2, FieldTypes DEF Playing
  <2>4. /\ impl' = Output!MarkFinished(impl, inner.clear) /\ rotations' = rotations + 1
        /\ waiters' = {[w EXCEPT !.woken = TRUE] : w \in waiters}
        /\ last' = Output!Transcript(impl')
        /\ outer' = [outer EXCEPT !.finished = outer.finished + 1, !.pushed = FALSE]
    <3>1. /\ impl' = Output!MarkFinished(impl, inner.clear) /\ rotations' = rotations + 1
          /\ IF outer.finished < outer.segments
             THEN /\ event' = TRUE
                  /\ waiters' = {[w EXCEPT !.woken = TRUE] : w \in waiters}
                  /\ last' = Output!Transcript(impl')
                  /\ outer' = [outer EXCEPT !.finished = outer.finished + 1, !.pushed = FALSE]
             ELSE outer' = [outer EXCEPT !.pushed = FALSE] /\ UNCHANGED <<event, waiters, last>>
      BY <1>15, <2>3 DEF Output!FlushEnds, Output!waitVars
    <3> QED BY <2>3, <3>1
  <2>5. inner' = [inner EXCEPT !.pushed = 0, !.queued = 0, !.clear = FALSE, !.flush = FALSE,
                               !.finished = inner.finished + 1]
    BY <1>15, <2>3 DEF Output!FlushEnds
  <2>6. /\ inner'.capturing = inner.capturing /\ inner'.segments = inner.segments
        /\ inner'.finished = inner.finished + 1 /\ inner'.pushed = 0 /\ inner'.clear = FALSE
        /\ inner'.flush = FALSE /\ inner' \in Inner
    <3>1. inner \in Inner /\ inner.finished + 1 \in Nat
      BY <2>2, FieldTypes DEF OutputTypes
    <3> DEFINE n == inner.finished + 1
    <3>2. inner' = [inner EXCEPT !.pushed = 0, !.queued = 0, !.clear = FALSE, !.flush = FALSE,
                                 !.finished = n] /\ n \in Nat
      BY <2>5, <3>1
    <3> HIDE DEF n
    <3>3. /\ inner'.capturing = inner.capturing /\ inner'.segments = inner.segments
          /\ inner'.finished = n /\ inner'.pushed = 0 /\ inner'.clear = FALSE
          /\ inner'.flush = FALSE /\ inner' \in Inner
      BY <3>1, <3>2 DEF Inner
    <3> QED BY <3>3 DEF n
  <2>7. /\ outer'.capturing = outer.capturing /\ outer'.segments = outer.segments
        /\ outer'.finished = outer.finished + 1 /\ outer'.pushed = FALSE
        /\ outer' \in Outer
    <3>1. outer \in Outer /\ outer.finished + 1 \in Nat
      BY <2>2, FieldTypes DEF OutputTypes
    <3> DEFINE n == outer.finished + 1
    <3>2. outer' = [outer EXCEPT !.finished = n, !.pushed = FALSE] /\ n \in Nat
      BY <2>4, <3>1
    <3> HIDE DEF n
    <3>3. /\ outer'.capturing = outer.capturing /\ outer'.segments = outer.segments
          /\ outer'.finished = n /\ outer'.pushed = FALSE /\ outer' \in Outer
      BY <3>1, <3>2 DEF Outer
    <3> QED BY <3>3 DEF n
  <2>8. /\ impl' \in Segments
        /\ impl'.texts = impl.texts /\ impl'.closed = impl.closed
        /\ impl'.textEnd = impl.textEnd /\ impl'.audioEnd = impl.audioEnd
        /\ ~impl.closed /\ impl.textEnd /\ impl.audioEnd /\ ~inner.clear => impl'.completed
    BY <2>2, <2>4 DEF OutputTypes, Segments, Output!MarkFinished
  <2>9. waiters' \subseteq Waits
    <3>1. \A w \in waiters : [w EXCEPT !.woken = TRUE] \in Waits
      BY <2>2 DEF OutputTypes, Waits
    <3> QED BY <2>4, <3>1
  <2>10. OutputTypes'
    <3>1. rotations' \in Nat
      BY <2>2, <2>4 DEF OutputTypes
    <3> QED BY <2>1, <2>2, <2>6, <2>7, <2>8, <2>9, <3>1 DEF OutputTypes
  <2>11. Silent' /\ ~Pending'
    BY <2>1, <2>2, <2>6, <2>7, FieldTypes DEF Silent, Playing, Pending
  <2>12. ReplyStages'
    BY <2>1, <2>2, <2>6, <2>11 DEF ReplyStages, Playing
  <2>13. ASSUME Clean' PROVE TasksInStep' /\ SegmentIsOwn' /\ (Uncancelled' => TextIsPlayed')
    <3>1. TasksInStep /\ SegmentIsOwn /\ (Uncancelled => TextIsPlayed)
      BY <2>1, <2>13 DEF OutputInv, Clean
    <3>2. Pending /\ impl.texts \subseteq {cur} /\ rotations' > 0
      BY <2>2, <2>3, <2>4, <3>1 DEF Pending, SegmentIsOwn, OutputTypes
    <3>3. TasksInStep'
      BY <2>1, <2>2, <2>11, <3>1 DEF TasksInStep, Uncancelled
    <3>4. last' \subseteq {cur}
      BY <2>4, <2>8, <3>2 DEF Output!Transcript
    <3>5. SegmentIsOwn'
      BY <2>1, <2>2, <2>7, <2>8, <2>11, <3>1, <3>2, <3>4 DEF SegmentIsOwn
    <3>6. ASSUME Uncancelled' PROVE TextIsPlayed'
      <4>1. Uncancelled /\ TextIsPlayed /\ ~inner.clear
        BY <2>1, <2>2, <3>1, <3>6 DEF Uncancelled, ReplyStages
      <4>2. tf = "done" /\ impl.texts = {cur} /\ impl.textEnd /\ impl.audioEnd /\ rotations = 0
        BY <2>2, <3>2, <4>1 DEF TextIsPlayed
      <4>3. ~impl.closed
        BY <3>1, <4>2 DEF SegmentIsOwn
      <4>4. last' = {cur}
        BY <2>4, <2>8, <4>1, <4>2, <4>3 DEF Output!Transcript
      <4> QED BY <2>1, <2>2, <2>7, <2>11, <4>2, <4>4 DEF TextIsPlayed
    <3> QED BY <3>3, <3>5, <3>6
  <2> QED BY <2>10, <2>11, <2>12, <2>13 DEF OutputInv
<1>16. CASE \E w \in waiters : Output!Wake(w)
  <2>1. OutputTypes'
    <3>1. inner' \in Inner
      BY <1>16 DEF OutputInv, OutputTypes, Output!Wake, Output!sinkVars
    <3>2. outer' \in Outer
      BY <1>16 DEF OutputInv, OutputTypes, Output!Wake, Output!sinkVars
    <3>3. impl' \in Segments
      BY <1>16 DEF OutputInv, OutputTypes, Output!Wake, Output!syncVars
    <3>4. waiters' \subseteq Waits
      BY <1>16
         DEF OutputInv, OutputTypes, Waits, Outer, Output!Wake, Output!speechVars,
             Output!taskVars, Output!sinkVars, Output!syncVars
    <3> QED
      BY <1>16, <3>4
         DEF OutputInv, OutputTypes, Output!Wake, Output!speechVars, Output!taskVars,
             Output!sinkVars, Output!syncVars
  <2>2. (Silent \/ CountedOnce \/ Playing)'
    <3>1. CASE Silent
      BY <1>16, <3>1 DEF Silent, Output!Wake, Output!taskVars, Output!sinkVars
    <3>2. CASE CountedOnce
      BY <1>16, <3>2
         DEF CountedOnce, Output!Wake, Output!speechVars, Output!taskVars, Output!sinkVars
    <3>3. CASE Playing
      BY <1>16, <3>3 DEF Playing, Output!Wake, Output!taskVars, Output!sinkVars
    <3> QED BY <3>1, <3>2, <3>3 DEF OutputInv
  <2>3. ReplyStages'
    <3>1. (phase \in {"over", "clearing"} \/ (phase = "waiting" /\ ~interrupted) => af = "done" /\ tf = "done")'
      BY <1>16 DEF OutputInv, ReplyStages, Output!Wake, Output!speechVars, Output!taskVars
    <3>2. (phase = "cancelling" => af \in {"raised", "done"} /\ tf \in {"raised", "done"})'
      BY <1>16 DEF OutputInv, ReplyStages, Output!Wake, Output!speechVars, Output!taskVars
    <3>3. (phase = "over" => ~Pending)'
      BY <1>16
         DEF OutputInv, ReplyStages, Pending, Output!Wake, Output!speechVars, Output!sinkVars
    <3>4. (phase = "clearing" /\ Pending => Awaited("clear"))'
      <4>1. PICK w \in waiters : Output!Wake(w)
        BY <1>16
      <4>2. UNCHANGED <<cur, phase, interrupted, outer>>
        BY <4>1 DEF Output!Wake, Output!speechVars, Output!sinkVars
      <4>3. (Pending' => Pending) /\ OutputTypes /\ ReplyStages
        BY <4>2 DEF OutputInv, Pending
      <4> QED BY <4>1, <4>2, <4>3, WakeKeeps DEF ReplyStages
    <3>5. (phase = "waiting" /\ ~interrupted /\ Pending => Awaited("reply"))'
      <4>1. PICK w \in waiters : Output!Wake(w)
        BY <1>16
      <4>2. UNCHANGED <<cur, phase, interrupted, outer>>
        BY <4>1 DEF Output!Wake, Output!speechVars, Output!sinkVars
      <4>3. (Pending' => Pending) /\ OutputTypes /\ ReplyStages
        BY <4>2 DEF OutputInv, Pending
      <4> QED BY <4>1, <4>2, <4>3, WakeKeeps DEF ReplyStages
    <3>6. (startedFut = "cancelled" => Pending /\ phase \in {"cancelling", "clearing"})'
      BY <1>16
         DEF OutputInv, ReplyStages, Pending, Output!Wake, Output!speechVars, Output!sinkVars
    <3>7. (inner.clear => phase = "clearing" /\ Pending)'
      BY <1>16
         DEF OutputInv, ReplyStages, Pending, Output!Wake, Output!speechVars, Output!sinkVars
    <3> QED BY <3>1, <3>2, <3>3, <3>4, <3>5, <3>6, <3>7 DEF ReplyStages
  <2>4. Clean' => Clean
    BY <1>16 DEF Clean, Output!Wake, Output!syncVars
  <2>5. Clean' => TasksInStep'
    BY <1>16, <2>4
       DEF OutputInv, Pending, TasksInStep, Uncancelled, Output!Wake, Output!speechVars,
           Output!taskVars, Output!sinkVars, Output!syncVars
  <2>6. Clean' => SegmentIsOwn'
    BY <1>16, <2>4
       DEF OutputInv, Pending, SegmentIsOwn, Output!Wake, Output!speechVars, Output!taskVars,
           Output!sinkVars, Output!syncVars
  <2>7. Clean' /\ Uncancelled' => TextIsPlayed'
    BY <1>16, <2>4
       DEF OutputInv, Pending, TextIsPlayed, Uncancelled, Output!Wake, Output!speechVars,
           Output!taskVars, Output!sinkVars, Output!syncVars
  <2> QED BY <2>1, <2>2, <2>3, <2>5, <2>6, <2>7 DEF OutputInv
<1>17. CASE Output!StartSpeech
  <2>1. OutputTypes'
    <3>1. inner' \in Inner
      BY <1>17 DEF OutputInv, OutputTypes, Output!StartSpeech, Output!sinkVars
    <3>2. outer' \in Outer
      BY <1>17 DEF OutputInv, OutputTypes, Output!StartSpeech, Output!sinkVars
    <3>3. impl' \in Segments
      BY <1>17 DEF OutputInv, OutputTypes, Output!StartSpeech, Output!syncVars
    <3>4. waiters' \subseteq Waits
      BY <1>17 DEF OutputInv, OutputTypes, Output!StartSpeech, Output!waitVars
    <3>5. cur' \in Nat /\ frames' = 0 /\ phase' = "forwarding"
      BY <1>17 DEF OutputInv, OutputTypes, Output!StartSpeech
    <3>6. /\ interrupted' = FALSE /\ first' = FALSE /\ af' = "next" /\ tf' = "next"
          /\ UNCHANGED <<rotations, doomed, mute, tCapturing, startedFut>>
      BY <1>17 DEF Output!StartSpeech, Output!sinkVars, Output!syncVars
    <3> QED BY <3>1, <3>2, <3>3, <3>4, <3>5, <3>6 DEF OutputInv, OutputTypes
  <2>2. (Silent \/ CountedOnce \/ Playing)'
    <3>1. CASE Silent
      BY <1>17, <3>1 DEF Silent, Output!StartSpeech, Output!sinkVars
    <3>2. CASE CountedOnce
      BY <1>17, <3>2 DEF OutputInv, ReplyStages, CountedOnce, Output!StartSpeech
    <3>3. CASE Playing
      BY <1>17, <3>3
         DEF OutputInv, OutputTypes, Inner, ReplyStages, Playing, Pending, Output!StartSpeech
    <3> QED BY <3>1, <3>2, <3>3 DEF OutputInv
  <2>3. ReplyStages'
    BY <1>17 DEF OutputInv, ReplyStages, Output!StartSpeech, Output!sinkVars
  <2>4. Clean' => Clean
    BY <1>17 DEF Clean, Output!StartSpeech, Output!syncVars
  <2>5. Clean' => TasksInStep'
    BY <1>17 DEF OutputInv, ReplyStages, Pending, TasksInStep, Output!StartSpeech, Output!sinkVars
  <2>6. Clean' => SegmentIsOwn'
    BY <1>17, <2>4
       DEF OutputInv, OutputTypes, Outer, ReplyStages, Silent, CountedOnce, Playing, Pending,
           SegmentIsOwn, Output!StartSpeech, Output!sinkVars, Output!syncVars
  <2>7. Clean' /\ Uncancelled' => TextIsPlayed'
    BY <1>17
       DEF OutputInv, ReplyStages, Pending, TextIsPlayed, Output!StartSpeech, Output!sinkVars
  <2> QED BY <2>1, <2>2, <2>3, <2>5, <2>6, <2>7 DEF OutputInv
<1>18. CASE Output!Interrupt
  <2>1. OutputTypes'
    <3>1. inner' \in Inner
      BY <1>18 DEF OutputInv, OutputTypes, Output!Interrupt, Output!sinkVars
    <3>2. outer' \in Outer
      BY <1>18 DEF OutputInv, OutputTypes, Output!Interrupt, Output!sinkVars
    <3>3. impl' \in Segments
      BY <1>18 DEF OutputInv, OutputTypes, Output!Interrupt, Output!syncVars
    <3>4. waiters' \subseteq Waits
      BY <1>18 DEF OutputInv, OutputTypes, Output!Interrupt, Output!waitVars
    <3> QED
      BY <1>18, <3>4
         DEF OutputInv, OutputTypes, Output!Interrupt, Output!taskVars, Output!sinkVars,
             Output!syncVars
  <2>2. (Silent \/ CountedOnce \/ Playing)'
    <3>1. CASE Silent
      BY <1>18, <3>1 DEF Silent, Output!Interrupt, Output!taskVars, Output!sinkVars
    <3>2. CASE CountedOnce
      BY <1>18, <3>2 DEF CountedOnce, Output!Interrupt, Output!taskVars, Output!sinkVars
    <3>3. CASE Playing
      BY <1>18, <3>3 DEF Playing, Output!Interrupt, Output!taskVars, Output!sinkVars
    <3> QED BY <3>1, <3>2, <3>3 DEF OutputInv
  <2>3. ReplyStages'
    BY <1>18 DEF OutputInv, ReplyStages, Output!Interrupt, Output!sinkVars
  <2>4. Clean' => Clean
    BY <1>18 DEF Clean, Output!Interrupt, Output!syncVars
  <2>5. Clean' => TasksInStep'
    BY <1>18, <2>4
       DEF OutputInv, Pending, TasksInStep, Uncancelled, Output!Interrupt, Output!taskVars,
           Output!sinkVars, Output!syncVars
  <2>6. Clean' => SegmentIsOwn'
    BY <1>18, <2>4
       DEF OutputInv, Pending, SegmentIsOwn, Output!Interrupt, Output!taskVars, Output!sinkVars,
           Output!waitVars, Output!syncVars
  <2>7. Clean' /\ Uncancelled' => TextIsPlayed'
    BY <1>18, <2>4
       DEF OutputInv, Pending, TextIsPlayed, Uncancelled, Output!Interrupt, Output!taskVars,
           Output!sinkVars, Output!waitVars, Output!syncVars
  <2> QED BY <2>1, <2>2, <2>3, <2>5, <2>6, <2>7 DEF OutputInv
<1>19. CASE Output!WaitForPlayout
  <2>1. OutputTypes'
    <3>1. inner' \in Inner
      BY <1>19 DEF OutputInv, OutputTypes, Output!WaitForPlayout, Output!sinkVars
    <3>2. outer' \in Outer
      BY <1>19 DEF OutputInv, OutputTypes, Output!WaitForPlayout, Output!sinkVars
    <3>3. impl' \in Segments
      BY <1>19 DEF OutputInv, OutputTypes, Output!WaitForPlayout, Output!syncVars
    <3>4. waiters' \subseteq Waits
      BY <1>19, WaitCounts DEF OutputInv, Output!WaitForPlayout, Output!sinkVars
    <3> QED
      BY <1>19, <3>4
         DEF OutputInv, OutputTypes, Output!WaitForPlayout, Output!taskVars, Output!sinkVars,
             Output!syncVars
  <2>2. (Silent \/ CountedOnce \/ Playing)'
    <3>1. CASE Silent
      BY <1>19, <3>1 DEF Silent, Output!WaitForPlayout, Output!taskVars, Output!sinkVars
    <3>2. CASE CountedOnce
      BY <1>19, <3>2 DEF CountedOnce, Output!WaitForPlayout, Output!taskVars, Output!sinkVars
    <3>3. CASE Playing
      BY <1>19, <3>3 DEF Playing, Output!WaitForPlayout, Output!taskVars, Output!sinkVars
    <3> QED BY <3>1, <3>2, <3>3 DEF OutputInv
  <2>3. ReplyStages'
    <3>1. (phase \in {"over", "clearing"} \/ (phase = "waiting" /\ ~interrupted) => af = "done" /\ tf = "done")'
      BY <1>19 DEF Output!WaitForPlayout, Output!taskVars
    <3>2. (phase = "cancelling" => af \in {"raised", "done"} /\ tf \in {"raised", "done"})'
      BY <1>19 DEF Output!WaitForPlayout
    <3>3. (phase = "over" => ~Pending)'
      BY <1>19 DEF Output!WaitForPlayout
    <3>4. (phase = "clearing" /\ Pending => Awaited("clear"))'
      BY <1>19 DEF Output!WaitForPlayout
    <3>5. (phase = "waiting" /\ ~interrupted /\ Pending => Awaited("reply"))'
      <4>1. Pending' => Pending
        BY <1>19 DEF Output!WaitForPlayout, Output!sinkVars, Pending
      <4> QED BY <1>19, <4>1, WaitCounts DEF OutputInv, Output!WaitForPlayout, Output!sinkVars
    <3>6. (startedFut = "cancelled" => Pending /\ phase \in {"cancelling", "clearing"})'
      BY <1>19 DEF OutputInv, ReplyStages, Output!WaitForPlayout, Output!sinkVars
    <3>7. (inner.clear => phase = "clearing" /\ Pending)'
      BY <1>19 DEF OutputInv, ReplyStages, Output!WaitForPlayout, Output!sinkVars
    <3> QED BY <3>1, <3>2, <3>3, <3>4, <3>5, <3>6, <3>7 DEF ReplyStages
  <2>4. Clean' => Clean
    BY <1>19 DEF Clean, Output!WaitForPlayout, Output!syncVars
  <2>5. Clean' => TasksInStep'
    BY <1>19, <2>4
       DEF OutputInv, Pending, TasksInStep, Uncancelled, Output!WaitForPlayout, Output!taskVars,
           Output!sinkVars, Output!syncVars
  <2>6. Clean' => SegmentIsOwn'
    BY <1>19, <2>4
       DEF OutputInv, Pending, SegmentIsOwn, Output!WaitForPlayout, Output!taskVars,
           Output!sinkVars, Output!syncVars
  <2>7. Clean' /\ Uncancelled' => TextIsPlayed'
    BY <1>19, <2>4
       DEF OutputInv, Pending, TextIsPlayed, Uncancelled, Output!WaitForPlayout,
           Output!taskVars, Output!sinkVars, Output!syncVars
  <2> QED BY <2>1, <2>2, <2>3, <2>5, <2>6, <2>7 DEF OutputInv
<1>20. CASE Output!PlayedOut
  <2>1. OutputTypes'
    <3>1. inner' \in Inner
      BY <1>20 DEF OutputInv, OutputTypes, Output!PlayedOut, Output!sinkVars
    <3>2. outer' \in Outer
      BY <1>20 DEF OutputInv, OutputTypes, Output!PlayedOut, Output!sinkVars
    <3>3. impl' \in Segments
      BY <1>20 DEF OutputInv, OutputTypes, Output!PlayedOut, Output!syncVars
    <3>4. waiters' \subseteq Waits
      BY <1>20 DEF OutputInv, OutputTypes, Output!PlayedOut, Output!waitVars
    <3> QED
      BY <1>20, <3>4
         DEF OutputInv, OutputTypes, Output!PlayedOut, Output!taskVars, Output!sinkVars,
             Output!syncVars
  <2>2. (Silent \/ CountedOnce \/ Playing)'
    <3>1. CASE Silent
      BY <1>20, <3>1 DEF Silent, Output!PlayedOut, Output!taskVars, Output!sinkVars
    <3>2. CASE CountedOnce
      BY <1>20, <3>2 DEF CountedOnce, Output!PlayedOut, Output!taskVars, Output!sinkVars
    <3>3. CASE Playing
      BY <1>20, <3>3 DEF Playing, Output!PlayedOut, Output!taskVars, Output!sinkVars
    <3> QED BY <3>1, <3>2, <3>3 DEF OutputInv
  <2>3. ReplyStages'
    BY <1>20
       DEF OutputInv, ReplyStages, Pending, Awaited, Output!PlayedOut, Output!Waited,
           Output!taskVars, Output!sinkVars
  <2>4. Clean' => Clean
    BY <1>20 DEF Clean, Output!PlayedOut, Output!syncVars
  <2>5. Clean' => TasksInStep'
    BY <1>20 DEF OutputInv, ReplyStages, TasksInStep, Output!PlayedOut, Output!taskVars
  <2>6. Clean' => SegmentIsOwn'
    BY <1>20, <2>4
       DEF OutputInv, Pending, SegmentIsOwn, Output!PlayedOut, Output!taskVars, Output!sinkVars,
           Output!waitVars, Output!syncVars
  <2>7. Clean' /\ Uncancelled' => TextIsPlayed'
    BY <1>20 DEF Uncancelled, Output!PlayedOut
  <2> QED BY <2>1, <2>2, <2>3, <2>5, <2>6, <2>7 DEF OutputInv
<1>21. CASE Output!CancelTasks
  <2>1. OutputTypes'
    <3>1. inner' \in Inner
      BY <1>21 DEF OutputInv, OutputTypes, Output!CancelTasks
    <3>2. outer' \in Outer
      BY <1>21 DEF OutputInv, OutputTypes, Output!CancelTasks
    <3>3. impl' \in Segments
      BY <1>21 DEF OutputInv, OutputTypes, Output!CancelTasks
    <3>4. waiters' \subseteq Waits
      BY <1>21 DEF OutputInv, OutputTypes, Output!CancelTasks, Output!waitVars
    <3> QED
      BY <1>21, <3>4 DEF OutputInv, OutputTypes, Output!CancelTasks, Output!Barriers
  <2>2. (Silent \/ CountedOnce \/ Playing)'
    <3>1. CASE Silent
      BY <1>21, <3>1 DEF Silent, Output!CancelTasks
    <3>2. CASE CountedOnce
      BY <1>21, <3>2 DEF CountedOnce, Output!CancelTasks
    <3>3. CASE Playing
      BY <1>21, <3>3 DEF Playing, Output!CancelTasks
    <3> QED BY <3>1, <3>2, <3>3 DEF OutputInv
  <2>3. ReplyStages'
    BY <1>21
       DEF OutputInv, OutputTypes, Inner, ReplyStages, Silent, CountedOnce, Playing, Pending,
           Output!CancelTasks
  <2>4. Clean' => Clean
    BY <1>21 DEF Clean, Output!CancelTasks
  <2>5. Clean' => TasksInStep'
    BY <1>21 DEF TasksInStep, Output!CancelTasks
  <2>6. Clean' => SegmentIsOwn'
    BY <1>21, <2>4
       DEF OutputInv, Pending, SegmentIsOwn, Output!CancelTasks, Output!Barriers,
           Output!waitVars
  <2>7. Clean' /\ Uncancelled' => TextIsPlayed'
    BY <1>21 DEF Uncancelled, Output!CancelTasks
  <2> QED BY <2>1, <2>2, <2>3, <2>5, <2>6, <2>7 DEF OutputInv
<1>22. CASE Output!ClearBuffer
  <2>1. OutputTypes'
    <3>1. inner' \in Inner
      BY <1>22 DEF OutputInv, OutputTypes, Inner, Output!ClearBuffer
    <3>2. outer' \in Outer
      BY <1>22 DEF OutputInv, OutputTypes, Output!ClearBuffer
    <3>3. impl' \in Segments
      BY <1>22 DEF OutputInv, OutputTypes, Output!ClearBuffer, Output!syncVars
    <3>4. waiters' \subseteq Waits
      BY <1>22, WaitCounts DEF OutputInv, Output!ClearBuffer
    <3> QED
      BY <1>22, <3>1, <3>4
         DEF OutputInv, OutputTypes, Output!ClearBuffer, Output!taskVars, Output!syncVars
  <2>2. (Silent \/ CountedOnce \/ Playing)'
    <3>1. CASE Silent
      BY <1>22, <3>1 DEF Silent, Output!ClearBuffer, Output!taskVars
    <3>2. CASE CountedOnce
      BY <1>22, <3>2 DEF CountedOnce, Output!ClearBuffer, Output!taskVars
    <3>3. CASE Playing
      BY <1>22, <3>3 DEF Playing, Output!ClearBuffer, Output!taskVars
    <3> QED BY <3>1, <3>2, <3>3 DEF OutputInv
  <2>3. ReplyStages'
    <3>1. (phase \in {"over", "clearing"} \/ (phase = "waiting" /\ ~interrupted) => af = "done" /\ tf = "done")'
      BY <1>22 DEF Output!ClearBuffer, Output!taskVars
    <3>2. (phase = "cancelling" => af \in {"raised", "done"} /\ tf \in {"raised", "done"})'
      BY <1>22 DEF Output!ClearBuffer
    <3>3. (phase = "over" => ~Pending)'
      BY <1>22 DEF Output!ClearBuffer
    <3>4. (phase = "clearing" /\ Pending => Awaited("clear"))'
      <4>1. Pending' => Pending
        BY <1>22 DEF Output!ClearBuffer, Pending
      <4> QED BY <1>22, <4>1, WaitCounts DEF OutputInv, Output!ClearBuffer
    <3>5. (phase = "waiting" /\ ~interrupted /\ Pending => Awaited("reply"))'
      BY <1>22 DEF Output!ClearBuffer
    <3>6. (startedFut = "cancelled" => Pending /\ phase \in {"cancelling", "clearing"})'
      BY <1>22 DEF OutputInv, ReplyStages, Pending, Output!ClearBuffer
    <3>7. (inner.clear => phase = "clearing" /\ Pending)'
      BY <1>22
         DEF OutputInv, OutputTypes, Outer, ReplyStages, Silent, CountedOnce, Playing, Pending,
             Output!ClearBuffer
    <3> QED BY <3>1, <3>2, <3>3, <3>4, <3>5, <3>6, <3>7 DEF ReplyStages
  <2>4. Clean' => Clean
    BY <1>22 DEF Clean, Output!ClearBuffer, Output!syncVars
  <2>5. Clean' => TasksInStep'
    BY <1>22 DEF TasksInStep, Output!ClearBuffer, Output!taskVars
  <2>6. Clean' => SegmentIsOwn'
    BY <1>22, <2>4
       DEF OutputInv, Pending, SegmentIsOwn, Output!ClearBuffer, Output!taskVars,
           Output!syncVars
  <2>7. Clean' /\ Uncancelled' => TextIsPlayed'
    BY <1>22 DEF Uncancelled, Output!ClearBuffer
  <2> QED BY <2>1, <2>2, <2>3, <2>5, <2>6, <2>7 DEF OutputInv
<1>23. CASE Output!RecordInterrupted
  <2>1. OutputTypes'
    <3>1. inner' \in Inner
      BY <1>23 DEF OutputInv, OutputTypes, Output!RecordInterrupted, Output!sinkVars
    <3>2. outer' \in Outer
      BY <1>23 DEF OutputInv, OutputTypes, Output!RecordInterrupted, Output!sinkVars
    <3>3. impl' \in Segments
      BY <1>23 DEF OutputInv, OutputTypes, Output!RecordInterrupted, Output!syncVars
    <3>4. waiters' \subseteq Waits
      BY <1>23 DEF OutputInv, OutputTypes, Output!RecordInterrupted, Output!waitVars
    <3> QED
      BY <1>23, <3>4
         DEF OutputInv, OutputTypes, Output!RecordInterrupted, Output!taskVars, Output!sinkVars,
             Output!syncVars
  <2>2. (Silent \/ CountedOnce \/ Playing)'
    <3>1. CASE Silent
      BY <1>23, <3>1 DEF Silent, Output!RecordInterrupted, Output!taskVars, Output!sinkVars
    <3>2. CASE CountedOnce
      <4>1. phase = "clearing" /\ ~Awaited("clear")
        BY <1>23 DEF Output!RecordInterrupted, Output!Waited, Awaited
      <4>2. Pending
        BY <3>2, FieldTypes DEF OutputInv, CountedOnce, Pending
      <4> QED BY <4>1, <4>2 DEF OutputInv, ReplyStages
    <3>3. CASE Playing
      BY <1>23, <3>3 DEF Playing, Output!RecordInterrupted, Output!taskVars, Output!sinkVars
    <3> QED BY <3>1, <3>2, <3>3 DEF OutputInv
  <2>3. ReplyStages'
    BY <1>23
       DEF OutputInv, ReplyStages, Pending, Awaited, Output!RecordInterrupted, Output!Waited,
           Output!taskVars, Output!sinkVars
  <2>4. Clean' => Clean
    BY <1>23 DEF Clean, Output!RecordInterrupted, Output!syncVars
  <2>5. Clean' => TasksInStep'
    BY <1>23 DEF OutputInv, ReplyStages, TasksInStep, Output!RecordInterrupted, Output!taskVars
  <2>6. Clean' => SegmentIsOwn'
    <3>1. phase = "clearing" /\ ~Awaited("clear")
      BY <1>23 DEF Output!RecordInterrupted, Output!Waited, Awaited
    <3>2. ~Pending
      BY <3>1 DEF OutputInv, ReplyStages
    <3>3. /\ record' = (IF first THEN last ELSE {})
          /\ UNCHANGED <<cur, first, af, tf, outer, impl, last, rotations, doomed, mute>>
      BY <1>23
         DEF Output!RecordInterrupted, Output!taskVars, Output!sinkVars, Output!waitVars,
             Output!syncVars
    <3>4. SUFFICES ASSUME Clean PROVE SegmentIsOwn'
      BY <3>3 DEF Clean
    <3> QED BY <3>2, <3>3, <3>4 DEF OutputInv, SegmentIsOwn, Pending
  <2>7. Clean' /\ Uncancelled' => TextIsPlayed'
    BY <1>23 DEF Uncancelled, Output!RecordInterrupted
  <2> QED BY <2>1, <2>2, <2>3, <2>5, <2>6, <2>7 DEF OutputInv
<1> QED BY <1>1, <1>2, <1>3, <1>4, <1>5, <1>6, <1>7, <1>8, <1>9, <1>10, <1>11, <1>12, <1>13,
   <1>14, <1>15, <1>16, <1>17, <1>18, <1>19, <1>20, <1>21, <1>22, <1>23 DEF Output!Next

\* The outputs begin without a speech.
LEMMA OutputStart ==
    ASSUME Init
    PROVE  OutputInv
<1> USE DEF Init, Output!Init
<1>1. inner \in Inner /\ outer \in Outer /\ impl \in Segments /\ waiters \subseteq Waits
  BY DEF Inner, Outer, Segments, Output!NewSegment
<1>2. OutputTypes
  BY <1>1 DEF OutputTypes
<1>3. Silent /\ ReplyStages
  BY DEF Silent, ReplyStages, Pending
<1>4. TasksInStep /\ SegmentIsOwn /\ (Uncancelled => TextIsPlayed)
  BY DEF TasksInStep, SegmentIsOwn, Uncancelled, Pending
<1> QED BY <1>2, <1>3, <1>4 DEF OutputInv

\* The tasks that forwarded a speech have ended until the next speech.
LEMMA DoneStaysDone ==
    ASSUME Output!Next, af = "done"
    PROVE  af' \in {"done", "next"}
<1>1. CASE Output!ShowText
  BY <1>1 DEF Output!ShowText, Output!taskVars, Output!Barriers
<1>2. CASE Output!RotateCloses
  BY <1>2 DEF Output!RotateCloses, Output!taskVars, Output!Barriers
<1>3. CASE Output!RotateEnds
  BY <1>3 DEF Output!RotateEnds, Output!taskVars, Output!Barriers
<1>4. CASE Output!RotateDies
  BY <1>4 DEF Output!RotateDies, Output!taskVars, Output!Barriers
<1>5. CASE Output!NextFrame
  BY <1>5 DEF Output!NextFrame, Output!taskVars, Output!Barriers
<1>6. CASE Output!PassBarrier
  BY <1>6 DEF Output!PassBarrier, Output!taskVars, Output!Barriers
<1>7. CASE Output!FrameGoesOn
  BY <1>7 DEF Output!FrameGoesOn, Output!taskVars, Output!Barriers
<1>8. CASE Output!FrameTaken
  BY <1>8 DEF Output!FrameTaken, Output!taskVars, Output!Barriers
<1>9. CASE Output!FlushAudio
  BY <1>9 DEF Output!FlushAudio, Output!taskVars, Output!Barriers
<1>10. CASE Output!NextText
  BY <1>10 DEF Output!NextText, Output!taskVars, Output!Barriers
<1>11. CASE Output!TextPassesBarrier
  BY <1>11 DEF Output!TextPassesBarrier, Output!taskVars, Output!Barriers
<1>12. CASE Output!FlushText
  BY <1>12 DEF Output!FlushText, Output!taskVars, Output!Barriers
<1>13. CASE Output!Started
  BY <1>13 DEF Output!Started, Output!taskVars, Output!Barriers
<1>14. CASE Output!PlayFrame
  BY <1>14 DEF Output!PlayFrame, Output!taskVars, Output!Barriers
<1>15. CASE Output!FlushEnds
  BY <1>15 DEF Output!FlushEnds, Output!taskVars, Output!Barriers
<1>16. CASE \E w \in waiters : Output!Wake(w)
  BY <1>16 DEF Output!Wake, Output!taskVars, Output!Barriers
<1>17. CASE Output!StartSpeech
  BY <1>17 DEF Output!StartSpeech, Output!taskVars, Output!Barriers
<1>18. CASE Output!Interrupt
  BY <1>18 DEF Output!Interrupt, Output!taskVars, Output!Barriers
<1>19. CASE Output!WaitForPlayout
  BY <1>19 DEF Output!WaitForPlayout, Output!taskVars, Output!Barriers
<1>20. CASE Output!PlayedOut
  BY <1>20 DEF Output!PlayedOut, Output!taskVars, Output!Barriers
<1>21. CASE Output!CancelTasks
  BY <1>21 DEF Output!CancelTasks, Output!taskVars, Output!Barriers
<1>22. CASE Output!ClearBuffer
  BY <1>22 DEF Output!ClearBuffer, Output!taskVars, Output!Barriers
<1>23. CASE Output!RecordInterrupted
  BY <1>23 DEF Output!RecordInterrupted, Output!taskVars, Output!Barriers
<1> QED BY <1>1, <1>2, <1>3, <1>4, <1>5, <1>6, <1>7, <1>8, <1>9, <1>10, <1>11, <1>12, <1>13,
   <1>14, <1>15, <1>16, <1>17, <1>18, <1>19, <1>20, <1>21, <1>22, <1>23 DEF Output!Next

\* A reply that is not interrupted is over only when its audio has been played.
LEMMA OnlyPlayedOut ==
    ASSUME Output!Next, phase = "waiting", phase' = "over"
    PROVE  Output!PlayedOut
<1>1. CASE Output!ShowText
  BY <1>1 DEF Output!ShowText, Output!speechVars
<1>2. CASE Output!RotateCloses
  BY <1>2 DEF Output!RotateCloses, Output!speechVars
<1>3. CASE Output!RotateEnds
  BY <1>3 DEF Output!RotateEnds, Output!speechVars
<1>4. CASE Output!RotateDies
  BY <1>4 DEF Output!RotateDies, Output!speechVars
<1>5. CASE Output!NextFrame
  BY <1>5 DEF Output!NextFrame, Output!speechVars
<1>6. CASE Output!PassBarrier
  BY <1>6 DEF Output!PassBarrier, Output!speechVars
<1>7. CASE Output!FrameGoesOn
  BY <1>7 DEF Output!FrameGoesOn, Output!speechVars
<1>8. CASE Output!FrameTaken
  BY <1>8 DEF Output!FrameTaken, Output!speechVars
<1>9. CASE Output!FlushAudio
  BY <1>9 DEF Output!FlushAudio, Output!speechVars
<1>10. CASE Output!NextText
  BY <1>10 DEF Output!NextText, Output!speechVars
<1>11. CASE Output!TextPassesBarrier
  BY <1>11 DEF Output!TextPassesBarrier, Output!speechVars
<1>12. CASE Output!FlushText
  BY <1>12 DEF Output!FlushText, Output!speechVars
<1>13. CASE Output!Started
  BY <1>13 DEF Output!Started, Output!speechVars
<1>14. CASE Output!PlayFrame
  BY <1>14 DEF Output!PlayFrame, Output!speechVars
<1>15. CASE Output!FlushEnds
  BY <1>15 DEF Output!FlushEnds, Output!speechVars
<1>16. CASE \E w \in waiters : Output!Wake(w)
  BY <1>16 DEF Output!Wake, Output!speechVars
<1>17. CASE Output!StartSpeech
  BY <1>17 DEF Output!StartSpeech, Output!speechVars
<1>18. CASE Output!Interrupt
  BY <1>18 DEF Output!Interrupt, Output!speechVars
<1>19. CASE Output!WaitForPlayout
  BY <1>19 DEF Output!WaitForPlayout, Output!speechVars
<1>20. CASE Output!PlayedOut
  BY <1>20
<1>21. CASE Output!CancelTasks
  BY <1>21 DEF Output!CancelTasks, Output!speechVars
<1>22. CASE Output!ClearBuffer
  BY <1>22 DEF Output!ClearBuffer, Output!speechVars
<1>23. CASE Output!RecordInterrupted
  BY <1>23 DEF Output!RecordInterrupted, Output!speechVars
<1> QED BY <1>1, <1>2, <1>3, <1>4, <1>5, <1>6, <1>7, <1>8, <1>9, <1>10, <1>11, <1>12, <1>13,
   <1>14, <1>15, <1>16, <1>17, <1>18, <1>19, <1>20, <1>21, <1>22, <1>23 DEF Output!Next

\* A step of another component leaves the outputs as they are.
LEMMA OutputKeeps ==
    ASSUME OutputInv, [Next]_vars
    PROVE  OutputInv'
<1>1. CASE UNCHANGED outputVars
  <2>1. /\ UNCHANGED <<cur, phase, interrupted, frames, first, record, af, tf>>
        /\ UNCHANGED <<startedFut, inner, outer, waiters, last>>
        /\ UNCHANGED <<impl, tCapturing, rotations, doomed, mute>>
    BY <1>1 DEF outputVars
  <2>2. OutputTypes' /\ (Silent \/ CountedOnce \/ Playing)'
    BY <2>1 DEF OutputInv, OutputTypes, Silent, CountedOnce, Playing
  <2>3. ReplyStages'
    BY <2>1 DEF OutputInv, ReplyStages, Pending, Awaited
  <2>4. (Clean => TasksInStep /\ SegmentIsOwn /\ (Uncancelled => TextIsPlayed))'
    BY <2>1 DEF OutputInv, Clean, TasksInStep, SegmentIsOwn, Uncancelled, TextIsPlayed, Pending
  <2> QED BY <2>2, <2>3, <2>4 DEF OutputInv
<1>2. CASE Output!Next
  BY <1>2, OutputStep
<1> QED BY <1>1, <1>2 DEF Next, vars

\* The recorded text is the own text of the speech.
LEMMA OutputImplies ==
    ASSUME OutputInv
    PROVE  Output!OwnTranscript
BY DEF OutputInv, Clean, SegmentIsOwn, Output!OwnTranscript

\* No step ends a reply before its transcript is whole, and none takes a frame or starts a
\* flush while one runs.
LEMMA OutputMoves ==
    ASSUME OutputInv, [Next]_vars
    PROVE  /\ phase = "waiting" /\ phase' = "over" /\ frames > 0 => last = {cur} \/ mute \/ doomed
           /\ af # af' /\ (af' = "source" \/ (af' = "done" /\ outer.pushed)) => ~inner.flush
<1>1. CASE UNCHANGED outputVars
  BY <1>1 DEF outputVars
<1>2. CASE Output!Next
  <2>1. ASSUME phase = "waiting", phase' = "over", frames > 0, Clean
        PROVE  last = {cur}
    <3>1. ~interrupted /\ ~Awaited("reply")
      BY <1>2, <2>1, OnlyPlayedOut DEF Output!PlayedOut, Output!Waited, Awaited
    <3>2. ~Pending /\ af = "done"
      BY <2>1, <3>1 DEF OutputInv, ReplyStages
    <3>3. TextIsPlayed
      BY <2>1 DEF OutputInv, Uncancelled
    <3> QED BY <2>1, <3>2, <3>3 DEF TextIsPlayed
  <2>2. ASSUME af # af', af' = "source" \/ af' = "done", inner.flush
        PROVE  FALSE
    <3>1. af = "done"
      BY <2>2 DEF OutputInv, Silent, CountedOnce, Playing
    <3> QED BY <1>2, <2>2, <3>1, DoneStaysDone
  <2> QED BY <2>1, <2>2 DEF Clean
<1> QED BY <1>1, <1>2 DEF Next, vars

\* The message recorded for an interrupted speech holds no text of another, a speech that
\* was played has its text for a transcript, and the audio of two speeches never overlaps.
THEOREM SpeechesPlayAlone == Spec => PlayedAsRecorded
<1>1. Init => OutputInv
  BY OutputStart
<1>2. OutputInv /\ [Next]_vars => OutputInv'
  BY OutputKeeps
<1>3. OutputInv => Output!OwnTranscript
  BY OutputImplies
<1>4. OutputInv /\ [Next]_vars
        => [phase = "waiting" /\ phase' = "over" /\ frames > 0
              => last = {cur} \/ mute \/ doomed]_Output!vars
  BY OutputMoves
<1>5. OutputInv /\ [Next]_vars
        => [af # af' /\ (af' = "source" \/ (af' = "done" /\ outer.pushed))
              => ~inner.flush]_Output!vars
  BY OutputMoves
<1> QED BY <1>1, <1>2, <1>3, <1>4, <1>5, PTL
     DEF Spec, PlayedAsRecorded, Output!PlayedInFull, Output!FlushIsExclusive

-----------------------------------------------------------------------------
(* The types of all the variables *)

\* The types of the turn detection; a stream that was replaced had begun a segment.
TextTypes == transcript \in Seq(Turns!Said) /\ told \in Seq(Turns!Said)
CountTypes ==
    /\ segment \in 1 .. MaxSegments + 1 /\ speeches \in 0 .. MaxSpeeches
    /\ interim \in 0 .. MaxSegments /\ byHand \in 0 .. MaxByHand
    /\ dropped \subseteq Turns!Segment
    /\ oldStt \in BOOLEAN /\ (oldStt => segment > 1)
FlagTypes ==
    /\ mode \in Modes /\ hasStt \in BOOLEAN /\ speaking \in BOOLEAN /\ draining \in BOOLEAN
    /\ committed \in BOOLEAN /\ commit \in BOOLEAN
    /\ eou \in {"none", "detecting", "sleeping", "taken", "refused", "failed", "cancelled"}
    /\ eouOfCommit \in BOOLEAN
    /\ userState \in {"listening", "speaking", "away"}
    /\ agentState \in Turns!AgentState /\ awayTimer \in BOOLEAN

\* What is taken, appended or cleared of a text of segments is one.
LEMMA TextsTyped ==
    ASSUME TextTypes, CountTypes, Turns!Next
    PROVE  TextTypes' /\ Turns!SegmentsOf(transcript) \subseteq Turns!Segment
<1> USE VoiceAssumption DEF VoiceAssumption
<1> DEFINE Saids == Seq(Turns!Said)
<1>1. /\ <<>> \in Saids
      /\ \A s \in Saids, e \in Turns!Said : Append(s, e) \in Saids
      /\ \A s, t \in Saids : s \o t \in Saids
  BY EmptySeq, AppendProperties, ConcatProperties
<1>2. Turns!SegmentsOf(transcript) \subseteq Turns!Segment
  <2> SUFFICES ASSUME NEW i \in DOMAIN transcript
               PROVE  transcript[i][1] \in Turns!Segment
    BY DEF Turns!SegmentsOf, Turns!Range
  <2>1. transcript[i] \in Turns!Said
    BY ElementOfSeq, LenProperties DEF TextTypes
  <2> QED BY <2>1 DEF Turns!Said
<1>3. \A n \in Turns!Segment : <<n, "final">> \in Turns!Said /\ <<n, "interim">> \in Turns!Said
  BY DEF Turns!Said
<1>4. transcript \in Saids /\ told \in Saids
  BY DEF TextTypes
<1> HIDE DEF Saids
<1>5. \A n \in Turns!Segment : Turns!FinalTranscript(n) => transcript' \in Saids
  BY <1>1, <1>3, <1>4 DEF Turns!FinalTranscript
<1>6. transcript' \in Saids /\ told' \in Saids
  <2>1. CASE Turns!EndTurn
    BY <2>1, <1>1, <1>4 DEF Turns!EndTurn
  <2>2. CASE Turns!SttFinal
    BY <2>2, <1>4, <1>5 DEF Turns!SttFinal
  <2>3. CASE Turns!OldSttFinal
    <3>1. segment - 1 \in Turns!Segment
      BY <2>3 DEF CountTypes, Turns!OldSttFinal, Turns!Segment
    <3> QED BY <2>3, <1>4, <1>5, <3>1 DEF Turns!OldSttFinal
  <2>4. CASE Turns!FinishCommit
    <3>1. interim # 0 => interim \in Turns!Segment
      BY DEF CountTypes, Turns!Segment
    <3> QED BY <2>4, <1>1, <1>3, <1>4, <3>1 DEF Turns!FinishCommit
  <2>5. CASE Turns!ClearUserTurn \/ Turns!HandOver
    BY <2>5, <1>1, <1>4 DEF Turns!ClearUserTurn, Turns!HandOver
  <2>6. CASE \/ \E s \in Turns!AgentState \ {"initializing"} : Turns!AgentChanges(s)
             \/ Turns!AwayTimeout \/ Turns!EouPredicted \/ Turns!EouFails \/ Turns!RefuseTurn
             \/ Turns!VadStart \/ Turns!VadEnd \/ Turns!SttInterim \/ Turns!SttEnd
             \/ Turns!OldSttCancelled \/ Turns!CommitUserTurn \/ Turns!Drain
    BY <2>6, <1>4
       DEF Turns!AgentChanges, Turns!AwayTimeout, Turns!EouPredicted, Turns!EouFails,
           Turns!RefuseTurn, Turns!VadStart, Turns!VadEnd, Turns!SttInterim, Turns!SttEnd,
           Turns!OldSttCancelled, Turns!CommitUserTurn, Turns!Drain, Turns!textVars
  <2> QED
    BY <2>1, <2>2, <2>3, <2>4, <2>5, <2>6 DEF Turns!Next
<1> QED BY <1>2, <1>6 DEF TextTypes, Saids

\* Every step of the turn detection keeps the types of the numbers it counts.
LEMMA CountsTyped ==
    ASSUME TextTypes, CountTypes, FlagTypes, Turns!Next
    PROVE  CountTypes'
<1>0. MaxSegments \in Nat /\ MaxSpeeches \in Nat /\ MaxByHand \in Nat
  BY VoiceAssumption DEF VoiceAssumption
<1>1. Turns!SegmentsOf(transcript) \subseteq Turns!Segment
  BY TextsTyped
<1>2. ASSUME NEW n \in Turns!Segment, Turns!FinalTranscript(n)
      PROVE  interim' \in 0 .. MaxSegments /\ dropped' \subseteq Turns!Segment
  <2>1. dropped \cup {n} \subseteq Turns!Segment /\ dropped \subseteq Turns!Segment
    BY DEF CountTypes
  <2>2. dropped' \in {dropped, dropped \cup {n}} /\ interim' \in {interim, 0}
    BY <1>2 DEF Turns!FinalTranscript
  <2> QED BY <1>0, <2>1, <2>2 DEF CountTypes
<1>3. CASE UNCHANGED <<segment, oldStt, speeches, interim, dropped, byHand>>
  BY <1>3 DEF CountTypes
<1>4. CASE Turns!EndTurn
  <2>1. /\ UNCHANGED <<segment, oldStt, speeches, interim, byHand>>
        /\ dropped' \in {dropped, dropped \cup Turns!SegmentsOf(transcript)}
    BY <1>4 DEF Turns!EndTurn, Turns!sttVars, Turns!vadVars, Turns!handVars
  <2> QED BY <1>1, <2>1 DEF CountTypes
<1>5. CASE Turns!VadStart
  BY <1>0, <1>5 DEF CountTypes, Turns!VadStart, Turns!sttVars, Turns!textVars, Turns!handVars
<1>6. CASE Turns!SttFinal
  <2>1. segment \in Turns!Segment /\ Turns!FinalTranscript(segment)
    BY <1>6 DEF Turns!SttFinal
  <2>2. interim' \in 0 .. MaxSegments /\ dropped' \subseteq Turns!Segment
    BY <2>1, <1>2
  <2>3. segment' = segment + 1 /\ UNCHANGED <<oldStt, speeches, byHand>>
    BY <1>6 DEF Turns!SttFinal, Turns!vadVars, Turns!handVars
  <2> QED BY <1>0, <2>1, <2>2, <2>3 DEF CountTypes, Turns!Segment
<1>7. CASE Turns!SttInterim
  <2>1. interim' \in Turns!Segment /\ UNCHANGED <<segment, oldStt, speeches, dropped, byHand>>
    BY <1>7 DEF Turns!SttInterim, Turns!sttVars, Turns!vadVars, Turns!handVars
  <2> QED BY <1>0, <2>1 DEF CountTypes, Turns!Segment
<1>8. CASE Turns!OldSttFinal
  <2>1. segment - 1 \in Turns!Segment
    BY <1>0, <1>8 DEF CountTypes, Turns!OldSttFinal, Turns!Segment
  <2>2. interim' \in 0 .. MaxSegments /\ dropped' \subseteq Turns!Segment
    BY <1>2, <1>8, <2>1 DEF Turns!OldSttFinal
  <2>3. oldStt' = FALSE /\ UNCHANGED <<segment, speeches, byHand>>
    BY <1>8 DEF Turns!OldSttFinal, Turns!vadVars, Turns!handVars
  <2> QED BY <2>2, <2>3 DEF CountTypes
<1>9. CASE Turns!OldSttCancelled
  BY <1>9 DEF CountTypes, Turns!OldSttCancelled, Turns!vadVars, Turns!textVars, Turns!handVars
<1>10. CASE Turns!CommitUserTurn
  BY <1>0, <1>10
     DEF CountTypes, Turns!CommitUserTurn, Turns!sttVars, Turns!vadVars, Turns!textVars
<1>11. CASE Turns!FinishCommit
  BY <1>0, <1>11 DEF CountTypes, Turns!FinishCommit, Turns!sttVars, Turns!vadVars
<1>12. CASE Turns!ClearUserTurn
  <2>1. /\ segment \in Turns!Segment /\ segment' = segment + 1 /\ interim' = 0
        /\ byHand < MaxByHand /\ byHand' = byHand + 1
        /\ dropped' = dropped \cup Turns!SegmentsOf(transcript) \cup {segment}
        /\ speeches' = speeches
    BY <1>12 DEF Turns!ClearUserTurn, Turns!vadVars
  <2>2. oldStt' \in BOOLEAN
    BY <1>12 DEF FlagTypes, Turns!ClearUserTurn
  <2>3. oldStt' => segment' > 1
    BY <2>1 DEF Turns!Segment
  <2>4. dropped' \subseteq Turns!Segment
    BY <1>1, <2>1 DEF CountTypes
  <2>5. segment' \in 1 .. MaxSegments + 1 /\ interim' \in 0 .. MaxSegments
    BY <1>0, <2>1 DEF Turns!Segment
  <2>6. byHand' \in 0 .. MaxByHand
    BY <1>0, <2>1 DEF CountTypes
  <2> QED BY <2>1, <2>2, <2>3, <2>4, <2>5, <2>6 DEF CountTypes
<1>13. CASE Turns!HandOver
  <2>1. /\ UNCHANGED <<segment, oldStt, speeches, byHand>> /\ interim' = 0
        /\ dropped' = dropped \cup Turns!SegmentsOf(transcript)
    BY <1>13 DEF Turns!HandOver, Turns!sttVars
  <2> QED BY <1>0, <1>1, <2>1 DEF CountTypes
<1>14. CASE \/ \E s \in Turns!AgentState \ {"initializing"} : Turns!AgentChanges(s)
            \/ Turns!AwayTimeout \/ Turns!EouPredicted \/ Turns!EouFails \/ Turns!RefuseTurn
            \/ Turns!VadEnd \/ Turns!SttEnd \/ Turns!Drain
  BY <1>3, <1>14
     DEF Turns!AgentChanges, Turns!AwayTimeout, Turns!EouPredicted, Turns!EouFails,
         Turns!RefuseTurn, Turns!VadEnd, Turns!SttEnd, Turns!Drain, Turns!sttVars,
         Turns!vadVars, Turns!textVars, Turns!handVars
<1> QED
  BY <1>4, <1>5, <1>6, <1>7, <1>8, <1>9, <1>10, <1>11, <1>12, <1>13, <1>14 DEF Turns!Next

\* Every step of the turn detection keeps the types of its flags and states.
LEMMA FlagsTyped ==
    ASSUME FlagTypes, Turns!Next
    PROVE  FlagTypes'
<1> DEFINE Eous == {"none", "detecting", "sleeping", "taken", "refused", "failed", "cancelled"}
<1>1. ASSUME NEW text, NEW ofCommit \in BOOLEAN, Turns!RunEouDetection(text, ofCommit)
      PROVE  eou' \in Eous /\ eouOfCommit' \in BOOLEAN
  BY <1>1 DEF FlagTypes, Turns!RunEouDetection, Turns!eouVars
<1>2. ASSUME NEW n, Turns!FinalTranscript(n)
      PROVE  eou' \in Eous /\ eouOfCommit' \in BOOLEAN
  <2>1. committed \in BOOLEAN /\ eou \in Eous /\ eouOfCommit \in BOOLEAN
    BY DEF FlagTypes
  <2>2. \/ UNCHANGED Turns!eouVars
        \/ Turns!RunEouDetection(transcript', committed)
    BY <1>2 DEF Turns!FinalTranscript
  <2> QED BY <1>1, <2>1, <2>2 DEF Turns!eouVars
<1>3. ASSUME NEW s \in {"listening", "speaking", "away"}, Turns!SetUserState(s)
      PROVE  userState' = s /\ awayTimer' \in BOOLEAN /\ agentState' = agentState
  BY <1>3 DEF FlagTypes, Turns!SetUserState
<1>4. CASE \E s \in Turns!AgentState \ {"initializing"} : Turns!AgentChanges(s)
  <2>1. PICK s \in Turns!AgentState : Turns!AgentChanges(s)
    BY <1>4
  <2>2. /\ agentState' = s /\ awayTimer' \in BOOLEAN
        /\ UNCHANGED <<mode, hasStt, speaking, draining, committed, commit, eou, eouOfCommit,
                       userState>>
    BY <2>1
       DEF Turns!AgentChanges, Turns!SetAgentState, Turns!vadVars, Turns!handVars,
           Turns!eouVars
  <2> QED BY <2>2 DEF FlagTypes
<1>5. CASE Turns!AwayTimeout
  <2>1. UNCHANGED <<mode, hasStt, speaking, draining, committed, commit, eou, eouOfCommit>>
    BY <1>5 DEF Turns!AwayTimeout, Turns!vadVars, Turns!handVars, Turns!eouVars
  <2> QED BY <1>3, <1>5, <2>1 DEF FlagTypes, Turns!AwayTimeout
<1>6. CASE Turns!EouPredicted
  BY <1>6
     DEF FlagTypes, Turns!EouPredicted, Turns!vadVars, Turns!handVars, Turns!stateVars
<1>7. CASE Turns!EouFails
  BY <1>7 DEF FlagTypes, Turns!EouFails, Turns!vadVars, Turns!handVars, Turns!stateVars
<1>8. CASE Turns!RefuseTurn
  BY <1>8 DEF FlagTypes, Turns!RefuseTurn, Turns!vadVars, Turns!handVars, Turns!stateVars
<1>9. CASE Turns!EndTurn
  BY <1>9 DEF FlagTypes, Turns!EndTurn, Turns!vadVars, Turns!handVars, Turns!stateVars
<1>10. CASE Turns!VadStart
  <2>1. UNCHANGED <<mode, hasStt, draining, committed, commit, eouOfCommit>> /\ speaking' = TRUE
    BY <1>10 DEF Turns!VadStart, Turns!handVars
  <2>2. eou' \in {eou, "cancelled"} /\ Turns!SetUserState("speaking")
    BY <1>10 DEF Turns!VadStart
  <2> QED BY <1>3, <2>1, <2>2 DEF FlagTypes
<1>11. CASE Turns!VadEnd
  <2>1. UNCHANGED <<mode, hasStt, draining, committed, commit>> /\ speaking' = FALSE
    BY <1>11 DEF Turns!VadEnd, Turns!handVars
  <2>2. Turns!SetUserState("listening")
    BY <1>11 DEF Turns!VadEnd
  <2>3. eou' \in Eous /\ eouOfCommit' \in BOOLEAN
    BY <1>1, <1>11 DEF FlagTypes, Turns!VadEnd, Turns!eouVars
  <2> QED BY <1>3, <2>1, <2>2, <2>3 DEF FlagTypes
<1>12. CASE Turns!SttFinal \/ Turns!OldSttFinal
  <2>1. eou' \in Eous /\ eouOfCommit' \in BOOLEAN
    BY <1>2, <1>12 DEF Turns!SttFinal, Turns!OldSttFinal
  <2>2. UNCHANGED <<mode, hasStt, speaking, draining, committed, commit, userState, agentState,
                    awayTimer>>
    BY <1>12
       DEF Turns!SttFinal, Turns!OldSttFinal, Turns!vadVars, Turns!handVars, Turns!stateVars
  <2> QED BY <2>1, <2>2 DEF FlagTypes
<1>13. CASE Turns!SttInterim \/ Turns!OldSttCancelled
  <2>1. UNCHANGED <<mode, hasStt, speaking, draining, committed, commit, eou, eouOfCommit,
                    userState, agentState, awayTimer>>
    BY <1>13
       DEF Turns!SttInterim, Turns!OldSttCancelled, Turns!vadVars, Turns!handVars,
           Turns!eouVars, Turns!stateVars
  <2> QED BY <2>1 DEF FlagTypes
<1>14. CASE Turns!SttEnd
  <2>1. eou' \in Eous /\ eouOfCommit' \in BOOLEAN
    BY <1>1, <1>14 DEF FlagTypes, Turns!SttEnd, Turns!eouVars
  <2>2. /\ UNCHANGED <<mode, hasStt, speaking, draining, commit, userState, agentState,
                       awayTimer>>
        /\ committed' = TRUE
    BY <1>14 DEF Turns!SttEnd, Turns!vadVars, Turns!handVars, Turns!stateVars
  <2> QED BY <2>1, <2>2 DEF FlagTypes
<1>15. CASE Turns!CommitUserTurn \/ Turns!ClearUserTurn \/ Turns!Drain
  <2>1. UNCHANGED <<mode, hasStt, speaking, eou, eouOfCommit, userState, agentState, awayTimer>>
    BY <1>15
       DEF Turns!CommitUserTurn, Turns!ClearUserTurn, Turns!Drain, Turns!vadVars,
           Turns!eouVars, Turns!stateVars
  <2>2. CASE Turns!CommitUserTurn \/ Turns!Drain
    BY <2>1, <2>2 DEF FlagTypes, Turns!CommitUserTurn, Turns!Drain, Turns!handVars
  <2>3. CASE Turns!ClearUserTurn
    BY <2>1, <2>3 DEF FlagTypes, Turns!ClearUserTurn
  <2> QED BY <1>15, <2>2, <2>3
<1>16. CASE Turns!FinishCommit
  <2>1. eou' \in Eous /\ eouOfCommit' \in BOOLEAN
    BY <1>1, <1>16 DEF Turns!FinishCommit
  <2>2. /\ UNCHANGED <<mode, hasStt, speaking, draining, userState, agentState, awayTimer>>
        /\ committed' = TRUE /\ commit' = FALSE
    BY <1>16 DEF Turns!FinishCommit, Turns!vadVars, Turns!stateVars
  <2> QED BY <2>1, <2>2 DEF FlagTypes
<1>17. CASE Turns!HandOver
  BY <1>17 DEF FlagTypes, Turns!HandOver, Turns!stateVars
<1> QED
  BY <1>4, <1>5, <1>6, <1>7, <1>8, <1>9, <1>10, <1>11, <1>12, <1>13, <1>14, <1>15, <1>16, <1>17
     DEF Turns!Next

\* The types of the turn detection are those of TurnDetection.
LEMMA TurnsTyped ==
    TextTypes /\ CountTypes /\ FlagTypes => Turns!TypeOK
BY DEF TextTypes, CountTypes, FlagTypes, Turns!TypeOK, Turns!EouRuns, Turns!EouEnded

-----------------------------------------------------------------------------
\* What the bounds and the phases of a stream are: it waits for a retry only while there is
\* one left.
StreamTypes ==
    /\ audio \in 0 .. MaxFrames /\ retries \in 0 .. MaxRetry
    /\ sttPhase \in {"running", "waiting", "ended", "cancelled", "error"}
    /\ faults \in 0 .. MaxFaults /\ updates \in 0 .. MaxUpdates /\ expiries \in 0 .. MaxExpiries
    /\ sttPhase = "waiting" => retries < MaxRetry

\* Every step of a stream keeps its bounds and phases.
LEMMA StreamTypesStay ==
    ASSUME HearInv, StreamTypes, Stt!Next
    PROVE  StreamTypes'
<1>0. /\ MaxFrames \in Nat /\ MaxRetry \in Nat /\ MaxFaults \in Nat /\ MaxUpdates \in Nat
      /\ MaxExpiries \in Nat
  BY VoiceAssumption DEF VoiceAssumption
<1>1. ASSUME NEW outcome \in {"api", "other", "over", "again", "cancelled"}, Stt!Leave(outcome)
      PROVE  /\ sttPhase' \in {"running", "waiting", "ended", "cancelled", "error"}
             /\ sttPhase' = "waiting" => retries # MaxRetry
  BY <1>1 DEF Stt!Leave
<1>2. CASE Stt!PushFrame \/ Stt!EndInput
  BY <1>0, <1>2
     DEF StreamTypes, Stt!PushFrame, Stt!EndInput, Stt!retryVars, Stt!bounds
<1>3. CASE Stt!UpdateOptions
  BY <1>0, <1>3
     DEF StreamTypes, Stt!UpdateOptions, Stt!inputVars, Stt!retryVars
<1>4. CASE Stt!Retry
  BY <1>0, <1>4 DEF StreamTypes, Stt!Retry, Stt!inputVars, Stt!bounds
<1>5. CASE Stt!Connect \/ Stt!SendEnds
  BY <1>5
     DEF StreamTypes, Stt!Connect, Stt!SendEnds, Stt!inputVars, Stt!retryVars, Stt!bounds
<1>6. CASE Stt!SendFrame
  BY <1>6 DEF StreamTypes, Stt!SendFrame, Stt!retryVars, Stt!bounds
<1>7. CASE Stt!Transcript
  BY <1>0, <1>7
     DEF StreamTypes, Stt!Transcript, Stt!RetriesAfterTranscript, Stt!inputVars, Stt!Runs
<1>8. CASE Stt!FindsStopped
  BY <1>0, <1>1, <1>8 DEF StreamTypes, Stt!FindsStopped, Stt!inputVars, Stt!bounds
<1>9. CASE Stt!ConnectFails
  <2>1. Stt!Profile.connect \in {"api", "other", "again"}
    BY PluginsHear DEF HearInv, SttTypes
  <2> QED
    BY <1>0, <1>1, <1>9, <2>1 DEF StreamTypes, Stt!ConnectFails, Stt!inputVars
<1>10. CASE Stt!Reconnect
  <2>1. Stt!Profile.reconnect \in {"again", "cancelled"}
    BY <1>10, PluginsHear DEF HearInv, SttTypes, LoopKnows, Stt!Reconnect
  <2> QED BY <1>0, <1>1, <1>10, <2>1 DEF StreamTypes, Stt!Reconnect, Stt!inputVars, Stt!bounds
<1>11. CASE Stt!ServiceCloses
  <2>1. Stt!Profile.close \subseteq {"api", "other", "again", "over"}
    BY PluginsHear DEF HearInv, SttTypes
  <2>2. \E outcome \in {"api", "other", "again", "over"} : Stt!Leave(outcome)
    BY <1>11, <2>1 DEF Stt!ServiceCloses
  <2> QED BY <1>0, <1>1, <1>11, <2>2 DEF StreamTypes, Stt!ServiceCloses, Stt!inputVars
<1>12. CASE Stt!RunEnds
  BY <1>0, <1>1, <1>12 DEF StreamTypes, Stt!RunEnds, Stt!inputVars, Stt!bounds
<1> QED
  BY <1>2, <1>3, <1>4, <1>5, <1>6, <1>7, <1>8, <1>9, <1>10, <1>11, <1>12 DEF Stt!Next

\* What is transcribed, lost and on its way adds up to what was pushed.
LEMMA StreamTyped ==
    ASSUME HearInv, StreamTypes
    PROVE  Stt!TypeOK
BY DEF HearInv, SttTypes, StreamTypes, Stt!AudioIsKept, Stt!TypeOK

\* A set of numbers that is not empty has a least one: it is the provider that is tried.
LEMMA FirstProvider ==
    ASSUME NEW S \in SUBSET Nat, S # {}
    PROVE  Adapter!First(S) \in S
<1>1. PICK p \in S : \A q \in S : <<q, p>> \notin OpToRel(<, Nat)
  BY NatLessThanWellFounded, WFMin, Zenon
<1>2. ASSUME NEW q \in S PROVE ~(q < p)
  BY <1>1, Zenon DEF OpToRel
<1>3. \E r \in S : \A q \in S : r <= q
  BY <1>2
<1> QED BY <1>3 DEF Adapter!First

\* A stream of the adapter has a provider and its recoveries are of streams so far.
LEMMA AdapterTypesStay ==
    ASSUME Adapter!TypeOK, Adapter!Next
    PROVE  Adapter!TypeOK'
<1>0. MaxFrames \in Nat /\ NumProviders \in Nat \ {0} /\ MaxStreams \in Nat
  BY VoiceAssumption DEF VoiceAssumption
<1>1. ASSUME NEW S, NEW n \in 1 .. stream', Adapter!TryRecovery(S, n), stream' >= stream,
             stream' \in Nat
      PROVE  /\ recovery' \in [Adapter!Providers -> Adapter!Recoveries]
             /\ owner' \in [Adapter!Providers -> 1 .. stream']
  <2>1. \A p \in Adapter!Providers : owner[p] \in 1 .. stream'
    BY <1>0, <1>1 DEF Adapter!TypeOK
  <2>2. owner' \in [Adapter!Providers -> 1 .. stream']
    BY <1>1, <2>1 DEF Adapter!TryRecovery
  <2> QED BY <1>1, <2>2 DEF Adapter!TypeOK, Adapter!TryRecovery, Adapter!Recoveries
<1>2. CASE Adapter!PushFrame \/ Adapter!EndInput \/ Adapter!Close
  BY <1>0, <1>2
     DEF Adapter!TypeOK, Adapter!PushFrame, Adapter!EndInput, Adapter!Close,
         Adapter!adapterVars
<1>3. CASE Adapter!NewStream
  <2> DEFINE may == Adapter!Candidates(1, status, allFailed')
  <2>1. may \subseteq Adapter!Providers /\ may # {}
    <3>1. 1 \in Adapter!Providers
      BY <1>0 DEF Adapter!Providers
    <3> QED BY <1>3, <3>1 DEF Adapter!NewStream, Adapter!Candidates, Adapter!AllFailed,
               Adapter!Providers
  <2>2. main' \in Adapter!Providers
    BY <1>3, <2>1, FirstProvider DEF Adapter!NewStream, Adapter!Providers
  <2>3. /\ recovery' \in [Adapter!Providers -> Adapter!Recoveries]
        /\ owner' \in [Adapter!Providers -> 1 .. stream']
    BY <1>0, <1>1, <1>3 DEF Adapter!TypeOK, Adapter!NewStream
  <2> QED BY <1>0, <1>3, <2>2, <2>3 DEF Adapter!TypeOK, Adapter!NewStream
<1>4. CASE Adapter!Forward
  <2>1. recovery' \in [Adapter!Providers -> Adapter!Recoveries]
    BY <1>4 DEF Adapter!TypeOK, Adapter!Forward, Adapter!Recoveries
  <2> QED BY <1>0, <1>4, <2>1 DEF Adapter!TypeOK, Adapter!Forward
<1>5. CASE Adapter!ForwardEnds \/ Adapter!MainFails \/ Adapter!MainEnds
  BY <1>5 DEF Adapter!TypeOK, Adapter!ForwardEnds, Adapter!MainFails, Adapter!MainEnds,
     Adapter!adapterVars, Adapter!inputVars
<1>6. CASE Adapter!FallBack
  <2> DEFINE next == Adapter!Candidates(main + 1, status, allFailed)
             passed == {p \in Adapter!Providers : p >= main
                                            /\ (next # {} => p < Adapter!First(next))}
  <2>0. next \subseteq Adapter!Providers
    BY DEF Adapter!Candidates
  <2>1. CASE next # {}
    <3>1. /\ Adapter!TryRecovery(passed, stream) /\ main' = Adapter!First(next)
          /\ mainState' = "listening" /\ forward' = "running"
          /\ UNCHANGED <<stream, streamPhase, waiting, pushed>>
          /\ status' = [status EXCEPT ![main] = FALSE]
      BY <1>6, <2>1 DEF Adapter!FallBack, Adapter!ForwardTo, Adapter!inputVars
    <3>2. main' \in Adapter!Providers
      BY <2>0, <2>1, <3>1, FirstProvider DEF Adapter!Providers
    <3>3. /\ recovery' \in [Adapter!Providers -> Adapter!Recoveries]
          /\ owner' \in [Adapter!Providers -> 1 .. stream']
      BY <1>0, <1>1, <3>1 DEF Adapter!TypeOK
    <3> QED BY <3>1, <3>2, <3>3 DEF Adapter!TypeOK
  <2>2. CASE next = {}
    <3>1. /\ UNCHANGED <<stream, main, waiting, pushed>>
          /\ status' = [status EXCEPT ![main] = FALSE]
          /\ forward' = "done" /\ streamPhase' = "error" /\ mainState' = "closed"
          /\ recovery' \in [Adapter!Providers -> Adapter!Recoveries]
          /\ owner' \in [Adapter!Providers -> 1 .. stream]
      BY <1>6, <2>2 DEF Adapter!FallBack, Adapter!TypeOK, Adapter!Recoveries, Adapter!inputVars
    <3> QED BY <3>1 DEF Adapter!TypeOK
  <2> QED BY <2>1, <2>2
<1>7. CASE \E p \in Adapter!Providers : \/ Adapter!RecoveryHears(p) \/ Adapter!RecoveryFails(p)
                                        \/ Adapter!RecoveryEnds(p)
  BY <1>7
     DEF Adapter!TypeOK, Adapter!RecoveryHears, Adapter!RecoveryFails, Adapter!RecoveryEnds,
         Adapter!Recoveries, Adapter!inputVars
<1> QED
  BY <1>2, <1>3, <1>4, <1>5, <1>6, <1>7 DEF Adapter!Next

-----------------------------------------------------------------------------
\* What bounds the outputs: each speech counts one segment at most, and no text is of a
\* speech that was not begun.
OutputBounds ==
    /\ cur <= MaxReplies /\ frames <= MaxFrames /\ event \in BOOLEAN
    /\ phase # "over" \/ tf # "done" => cur > 0
    /\ record \subseteq Output!Speeches /\ last \subseteq Output!Speeches
    /\ impl.texts \subseteq Output!Speeches
    /\ inner.queued <= inner.pushed
    /\ outer.segments <= cur
    /\ af # "done" /\ ~outer.capturing => outer.segments < cur

\* The first frame of a speech counts a segment, and the next ones do not.
LEMMA FrameIsBounded ==
    ASSUME OutputTypes, OutputBounds, Output!CountFrame, af # "done"
    PROVE  /\ inner'.queued <= inner'.pushed
           /\ outer'.segments <= cur /\ af' # "done" /\ outer'.capturing
<1>1. /\ inner.queued \in Nat /\ inner.pushed \in Nat /\ inner.queued <= inner.pushed
      /\ outer.segments \in Nat /\ cur \in Nat
      /\ ~outer.capturing => outer.segments + 1 <= cur
      /\ outer.segments <= cur
  BY DEF OutputTypes, OutputBounds, Inner, Outer
<1>2. /\ outer'.capturing = TRUE
      /\ outer'.segments = IF outer.capturing THEN outer.segments ELSE outer.segments + 1
  BY DEF Output!CountFrame, OutputTypes, Outer
<1>3. /\ af' # "done"
      /\ \/ inner' = inner
         \/ inner'.pushed = inner.pushed + 1 /\ inner'.queued = inner.queued + 1
  BY DEF Output!CountFrame, Output!TakeFrame, OutputTypes, Inner
<1> QED BY <1>1, <1>2, <1>3

\* Every step of the outputs keeps what bounds them.
LEMMA OutputBoundsStay ==
    ASSUME OutputTypes, OutputBounds, Output!Next
    PROVE  OutputBounds'
<1>0. /\ MaxReplies \in Nat /\ MaxFrames \in Nat /\ cur \in Nat /\ frames \in Nat
      /\ outer.segments \in Nat /\ inner.queued \in Nat /\ inner.pushed \in Nat
  BY VoiceAssumption DEF VoiceAssumption, OutputTypes, Inner, Outer
<1>1. cur > 0 => {cur} \subseteq Output!Speeches
  BY <1>0 DEF OutputBounds, Output!Speeches
<1>2. Output!NewSegment.texts = {}
  BY DEF Output!NewSegment
<1>3. \A i \in Segments : /\ Output!PushAudio(i).texts = i.texts /\ Output!EndAudio(i).texts = i.texts
                          /\ Output!EndText(i).texts = i.texts
                          /\ Output!PushText(i).texts \subseteq i.texts \cup {cur}
                          /\ \A b : Output!MarkFinished(i, b).texts = i.texts
  BY DEF Segments, Output!PushAudio, Output!EndAudio, Output!EndText, Output!PushText,
     Output!MarkFinished
<1>4. impl \in Segments
  BY DEF OutputTypes
<1>5. CASE Output!ShowText
  <2>1. impl'.texts = impl.texts
    BY <1>4, <1>5 DEF Output!ShowText, Segments
  <2> QED BY <1>5, <2>1 DEF OutputBounds, Output!ShowText, Output!speechVars,
     Output!taskVars, Output!sinkVars, Output!waitVars
<1>6. CASE Output!RotateCloses
  <2>1. impl'.texts = impl.texts
    BY <1>4, <1>6 DEF Output!RotateCloses, Segments
  <2> QED BY <1>6, <2>1 DEF OutputBounds, Output!RotateCloses, Output!speechVars,
     Output!taskVars, Output!sinkVars, Output!waitVars
<1>7. CASE Output!RotateEnds
  <2>1. impl'.texts = {}
    BY <1>2, <1>7 DEF Output!RotateEnds
  <2> QED BY <1>7, <2>1 DEF OutputBounds, Output!RotateEnds, Output!speechVars,
     Output!taskVars, Output!sinkVars, Output!waitVars
<1>8. CASE Output!RotateDies
  BY <1>8 DEF OutputBounds, Output!RotateDies, Output!Barriers, Output!speechVars,
     Output!sinkVars, Output!waitVars
<1>9. CASE Output!NextFrame
  <2>1. /\ inner'.queued <= inner'.pushed /\ outer'.segments <= cur /\ af' # "done"
        /\ ~outer'.capturing => outer'.segments < cur
    BY <1>9, FrameIsBounded DEF OutputBounds, Output!NextFrame
  <2>2. /\ frames' <= MaxFrames /\ UNCHANGED <<cur, phase, record, tf, last, event, impl>>
    BY <1>0, <1>9 DEF Output!NextFrame, Output!waitVars, Output!syncVars
  <2> QED BY <2>1, <2>2 DEF OutputBounds
<1>10. CASE Output!PassBarrier
  <2>1. /\ inner'.queued <= inner'.pushed /\ outer'.segments <= cur /\ outer'.capturing
    BY <1>10, FrameIsBounded DEF Output!PassBarrier
  <2>2. UNCHANGED <<cur, phase, frames, record, tf, last, event, impl>>
    BY <1>10 DEF Output!PassBarrier, Output!waitVars, Output!syncVars, Output!speechVars
  <2> QED BY <2>1, <2>2 DEF OutputBounds
<1>11. CASE Output!FrameGoesOn
  <2>1. /\ inner'.queued <= inner'.pushed /\ af' # "done"
    BY <1>0, <1>11 DEF OutputTypes, OutputBounds, Inner, Output!FrameGoesOn, Output!TakeFrame
  <2>2. UNCHANGED <<cur, phase, frames, record, tf, last, event, impl, outer>> /\ af # "done"
    BY <1>11 DEF Output!FrameGoesOn, Output!waitVars, Output!syncVars, Output!speechVars
  <2> QED BY <2>1, <2>2 DEF OutputBounds
<1>12. CASE Output!FrameTaken
  <2>1. outer'.segments = outer.segments /\ outer'.capturing = outer.capturing
    BY <1>12 DEF OutputTypes, Outer, Output!FrameTaken
  <2>2. impl'.texts = impl.texts
    BY <1>3, <1>4, <1>12 DEF Output!FrameTaken
  <2>3. UNCHANGED <<cur, phase, frames, record, tf, last, event, inner>> /\ af # "done"
    BY <1>12 DEF Output!FrameTaken, Output!waitVars
  <2> QED BY <2>1, <2>2, <2>3 DEF OutputBounds
<1>13. CASE Output!FlushAudio
  <2>1. outer'.segments = outer.segments /\ af' = "done"
    BY <1>13 DEF OutputTypes, Outer, Output!FlushAudio
  <2>2. inner'.queued = inner.queued /\ inner'.pushed = inner.pushed
    BY <1>13 DEF OutputTypes, Inner, Output!FlushAudio
  <2>3. impl'.texts = impl.texts
    BY <1>3, <1>4, <1>13 DEF Output!FlushAudio
  <2>4. UNCHANGED <<cur, phase, frames, record, tf, last, event>>
    BY <1>13 DEF Output!FlushAudio, Output!waitVars, Output!speechVars
  <2> QED BY <2>1, <2>2, <2>3, <2>4 DEF OutputBounds
<1>14. CASE Output!NextText \/ Output!TextPassesBarrier
  <2>1. impl'.texts \subseteq impl.texts \cup {cur}
    BY <1>3, <1>4, <1>14 DEF Output!NextText, Output!TextPassesBarrier, Output!CaptureText
  <2>2. UNCHANGED <<cur, phase, frames, record, af, last, event, inner, outer>> /\ tf # "done"
    BY <1>14 DEF Output!NextText, Output!TextPassesBarrier, Output!waitVars,
       Output!speechVars, Output!sinkVars
  <2> QED BY <1>1, <2>1, <2>2 DEF OutputBounds
<1>15. CASE Output!FlushText
  <2>1. impl'.texts = impl.texts
    BY <1>3, <1>4, <1>15 DEF Output!FlushText
  <2>2. UNCHANGED <<cur, phase, frames, record, af, last, event, inner, outer>> /\ tf' = "done"
    BY <1>15 DEF Output!FlushText, Output!waitVars, Output!speechVars, Output!sinkVars
  <2> QED BY <2>1, <2>2 DEF OutputBounds
<1>16. CASE Output!Started
  BY <1>16 DEF OutputBounds, Output!Started, Output!speechVars, Output!taskVars,
     Output!waitVars, Output!syncVars
<1>17. CASE Output!PlayFrame
  <2>1. inner'.queued <= inner'.pushed
    BY <1>0, <1>17 DEF OutputTypes, OutputBounds, Inner, Output!PlayFrame
  <2> QED BY <1>17, <2>1 DEF OutputBounds, Output!PlayFrame, Output!speechVars,
     Output!taskVars, Output!waitVars, Output!syncVars
<1>18. CASE Output!FlushEnds
  <2>1. inner'.queued = 0 /\ inner'.pushed = 0
    BY <1>18 DEF OutputTypes, Inner, Output!FlushEnds
  <2>2. impl'.texts = impl.texts
    BY <1>3, <1>4, <1>18 DEF Output!FlushEnds
  <2>3. outer'.segments = outer.segments /\ outer'.capturing = outer.capturing
    BY <1>18 DEF OutputTypes, Outer, Output!FlushEnds, Output!waitVars
  <2>4. event' \in BOOLEAN /\ last' \in {last, impl'.texts, {}}
    BY <1>18 DEF OutputBounds, Output!FlushEnds, Output!waitVars, Output!Transcript
  <2>5. UNCHANGED <<cur, phase, frames, record, af, tf>>
    BY <1>18 DEF Output!FlushEnds, Output!speechVars, Output!taskVars
  <2> QED BY <2>1, <2>2, <2>3, <2>4, <2>5 DEF OutputBounds
<1>19. CASE \E w \in waiters : Output!Wake(w)
  <2>1. /\ event' = FALSE
        /\ UNCHANGED <<cur, phase, frames, record, af, tf, inner, outer, last, impl>>
    BY <1>19 DEF Output!Wake, Output!speechVars, Output!taskVars, Output!sinkVars,
       Output!syncVars
  <2> QED BY <2>1 DEF OutputBounds
<1>20. CASE Output!StartSpeech
  <2>1. /\ cur' = cur + 1 /\ cur' <= MaxReplies /\ record' = {} /\ frames' = 0
        /\ UNCHANGED <<inner, outer, event, last, impl>>
    BY <1>0, <1>20 DEF Output!StartSpeech, Output!sinkVars, Output!waitVars, Output!syncVars
  <2> QED BY <1>0, <2>1 DEF OutputBounds
<1>21. CASE Output!Interrupt \/ Output!PlayedOut \/ Output!RecordInterrupted
  <2>1. /\ UNCHANGED <<cur, frames, af, tf, inner, outer, event, last, impl>>
        /\ phase # "over" /\ record' \in {record, {cur}, last, {}}
    BY <1>21 DEF Output!Interrupt, Output!PlayedOut, Output!RecordInterrupted,
       Output!taskVars, Output!sinkVars, Output!waitVars, Output!syncVars
  <2> QED BY <1>1, <2>1 DEF OutputBounds
<1>22. CASE Output!WaitForPlayout
  <2>1. /\ UNCHANGED <<cur, frames, record, af, tf, inner, outer, last, impl>>
        /\ phase # "over" /\ event' \in {event, FALSE}
    BY <1>22 DEF Output!WaitForPlayout, Output!Wait,
       Output!taskVars, Output!sinkVars, Output!syncVars
  <2> QED BY <2>1 DEF OutputBounds
<1>23. CASE Output!CancelTasks
  <2>1. /\ UNCHANGED <<cur, frames, record, inner, outer, event, last, impl>>
        /\ phase # "over" /\ (af' # "done" => af # "done")
    BY <1>23 DEF Output!CancelTasks, Output!waitVars
  <2> QED BY <2>1 DEF OutputBounds
<1>24. CASE Output!ClearBuffer
  <2>1. inner'.queued = inner.queued /\ inner'.pushed = inner.pushed
    BY <1>24 DEF OutputTypes, Inner, Output!ClearBuffer
  <2>2. /\ UNCHANGED <<cur, frames, record, af, tf, outer, last, impl>>
        /\ phase # "over" /\ event' \in {event, FALSE}
    BY <1>24 DEF Output!ClearBuffer, Output!Wait, Output!taskVars, Output!syncVars
  <2> QED BY <2>1, <2>2 DEF OutputBounds
<1> QED
  BY <1>5, <1>6, <1>7, <1>8, <1>9, <1>10, <1>11, <1>12, <1>13, <1>14, <1>15, <1>16, <1>17,
     <1>18, <1>19, <1>20, <1>21, <1>22, <1>23, <1>24 DEF Output!Next

\* The types of the outputs are those of SpeechOutput.
LEMMA OutputTyped ==
    ASSUME OutputInv, OutputBounds
    PROVE  Output!TypeOK
<1>1. /\ cur \in 0 .. MaxReplies /\ frames \in 0 .. MaxFrames
      /\ outer.segments <= MaxReplies
  <2>1. cur \in Nat /\ frames \in Nat /\ MaxReplies \in Nat /\ MaxFrames \in Nat
        /\ outer.segments \in Nat
    BY VoiceAssumption DEF VoiceAssumption, OutputInv, OutputTypes, Outer
  <2> QED BY <2>1 DEF OutputBounds
<1>2. inner.finished <= inner.segments /\ outer.finished <= outer.segments
  <2>1. /\ inner.finished \in Nat /\ inner.segments \in Nat
        /\ outer.finished \in Nat /\ outer.segments \in Nat
    BY DEF OutputInv, OutputTypes, Inner, Outer
  <2>2. /\ outer.segments \in {outer.finished, outer.finished + 1}
        /\ inner.segments \in {inner.finished, inner.finished + 1}
    BY DEF OutputInv, Silent, CountedOnce, Playing
  <2> QED BY <2>1, <2>2
<1> QED
  BY <1>1, <1>2 DEF OutputInv, OutputTypes, OutputBounds, Output!TypeOK, Output!Barriers

-----------------------------------------------------------------------------
\* The starts that have ended, each of which set _started at most once.
Ended == {n \in starts : at[n] = "done"}

SessionBounds ==
    /\ early \in BOOLEAN /\ agent \in 0 .. MaxAgents
    /\ updateLock \in Seq(Session!Agents)
    /\ sessions <= Cardinality(Ended)

\* A lock that agents only want holds agents.
LEMMA AgentsQueue ==
    /\ \A lock \in Seq(Session!Agents), n \in Session!Agents :
          Session!Joined(lock, n) \in Seq(Session!Agents)
    /\ \A lock \in Seq(Session!Agents) : \A n : Session!HeldBy(lock, n) =>
          Session!Freed(lock) \in Seq(Session!Agents)
<1>1. ASSUME NEW lock \in Seq(Session!Agents), lock # <<>>
      PROVE  Tail(lock) \in Seq(Session!Agents)
  BY <1>1, HeadTailProperties
<1>2. ASSUME NEW lock \in Seq(Session!Agents), NEW n \in Session!Agents
      PROVE  Append(lock, n) \in Seq(Session!Agents)
  BY AppendProperties
<1> QED BY <1>1, <1>2 DEF Session!HeldBy, Session!Joined, Session!Freed

\* More starts may end, and none begins again.
LEMMA EndedGrows ==
    ASSUME SessionTypes, SessionTypes', Ended \subseteq Ended'
    PROVE  /\ Cardinality(Ended) \in Nat /\ Cardinality(Ended') \in Nat
           /\ Cardinality(Ended) <= Cardinality(Ended')
           /\ \A n : n \in Ended' /\ n \notin Ended => Cardinality(Ended) + 1 <= Cardinality(Ended')
<1>1. IsFiniteSet(1 .. MaxAgents)
  BY TasksDiffer, FS_Interval
<1>2. IsFiniteSet(Ended) /\ IsFiniteSet(Ended')
  BY <1>1, FS_Subset DEF SessionTypes, Ended, Session!Agents
<1>3. /\ Cardinality(Ended) \in Nat /\ Cardinality(Ended') \in Nat
      /\ Cardinality(Ended) <= Cardinality(Ended')
  BY <1>2, FS_CardinalityType, FS_Subset
<1>4. ASSUME NEW n, n \in Ended', n \notin Ended
      PROVE  Cardinality(Ended) + 1 <= Cardinality(Ended')
  <2>1. Ended \cup {n} \subseteq Ended'
    BY <1>4
  <2>2. Cardinality(Ended \cup {n}) = Cardinality(Ended) + 1
    BY <1>2, <1>4, FS_AddElement
  <2>3. Cardinality(Ended \cup {n}) <= Cardinality(Ended')
    BY <1>2, <2>1, FS_Subset
  <2> QED BY <2>2, <2>3
<1> QED BY <1>3, <1>4

\* The drain of a task moves on: the task of a hand-over may die, and frees its lock.
LEMMA DrainBounds ==
    ASSUME SessionInv, SessionBounds, NEW p \in Session!Tasks,
           at[p] \in {"drain", "draining"}, Session!AfterDrain(p)
    PROVE  /\ updateLock' \in Seq(Session!Agents)
           /\ \A n \in Session!Agents : at[n] = "done" => at'[n] = "done"
<1>1. p \in Session!Agents => Session!HeldBy(updateLock, p)
  BY DEF SessionInv, LocksHeld, HandOverHolds, Replaces
<1>2. updateLock' \in Seq(Session!Agents)
  BY <1>1, AgentsQueue DEF SessionBounds, Session!AfterDrain
<1>3. \A n \in Session!Agents : n # p => at'[n] = at[n]
  BY TasksDiffer DEF SessionInv, SessionTypes, Session!AfterDrain
<1> QED BY <1>2, <1>3

\* Every step of a session keeps what bounds it.
LEMMA SessionBoundsStay ==
    ASSUME SessionInv, SessionInv', SessionBounds, Session!Next
    PROVE  SessionBounds'
<1> DEFINE Kept == /\ early' \in BOOLEAN /\ agent' \in 0 .. MaxAgents
                   /\ updateLock' \in Seq(Session!Agents)
                   /\ starts \subseteq starts'
                   /\ \A n \in Session!Agents : at[n] = "done" => at'[n] = "done"
           Counted == \/ sessions' = sessions
                      \/ /\ sessions' = sessions + 1
                         /\ \E n \in starts' : at[n] # "done" /\ at'[n] = "done"
<1>0. /\ at \in [Session!Tasks -> {"none", "sessionLock", "room", "updateLock", "start", "drain",
                    "draining", "close", "interrupt", "speech", "closeRoom", "done"}]
      /\ starts \subseteq Session!Agents /\ requests \in 0 .. MaxAgents /\ MaxAgents \in Nat
      /\ early \in BOOLEAN /\ agent \in 0 .. MaxAgents /\ updateLock \in Seq(Session!Agents)
  BY TasksDiffer DEF SessionInv, SessionTypes, SessionBounds
<1>1. ASSUME UNCHANGED <<early, agent, updateLock, starts>>,
             \A n \in Session!Agents : at[n] = "done" => at'[n] = "done"
      PROVE  Kept
  BY <1>0, <1>1
<1>2. ASSUME NEW p \in Session!Tasks, NEW v, at[p] # "done", at' = [at EXCEPT ![p] = v]
      PROVE  /\ \A n \in Session!Agents : at[n] = "done" => at'[n] = "done"
             /\ at'[p] = v
  BY <1>0, <1>2, TasksDiffer
<1>3. ASSUME UNCHANGED <<early, agent, updateLock, starts, sessions>>,
             NEW p \in Session!Tasks, NEW v, at[p] # "done", at' = [at EXCEPT ![p] = v]
      PROVE  Kept /\ Counted
  BY <1>1, <1>2, <1>3
<1>4. \A n \in Session!Agents : n > requests => at[n] # "done"
  BY DEF SessionInv, TasksKnown
<1>5. requests < MaxAgents => /\ requests + 1 \in Session!Agents /\ at[requests + 1] # "done"
                              /\ requests + 1 \in 0 .. MaxAgents
  BY TasksDiffer, <1>0, <1>4
<1>6. ASSUME Session!Start
      PROVE  Kept /\ Counted
  <2>1. /\ UNCHANGED <<early, agent, updateLock, sessions>> /\ starts \subseteq starts'
        /\ at' = [at EXCEPT ![requests + 1] = "sessionLock"] /\ requests < MaxAgents
    BY <1>6 DEF Session!Start
  <2>2. \A n \in Session!Agents : at[n] = "done" => at'[n] = "done"
    BY <1>2, <1>5, <2>1, TasksDiffer
  <2> QED BY <1>0, <2>1, <2>2
<1>7. ASSUME Session!UpdateAgent
      PROVE  Kept /\ Counted
  <2>1. /\ UNCHANGED <<starts, sessions>> /\ requests < MaxAgents /\ agent' = requests + 1
        /\ early' \in BOOLEAN
        /\ \E v : at' = [at EXCEPT ![requests + 1] = v]
        /\ updateLock' \in {updateLock, Session!Joined(updateLock, requests + 1)}
    BY <1>0, <1>7 DEF Session!UpdateAgent, SessionInv, SessionTypes
  <2>2. \A n \in Session!Agents : at[n] = "done" => at'[n] = "done"
    BY <1>2, <1>5, <2>1, TasksDiffer
  <2>3. updateLock' \in Seq(Session!Agents)
    BY <1>0, <1>5, <2>1, AgentsQueue
  <2> QED BY <1>5, <2>1, <2>2, <2>3
<1>8. ASSUME Session!Speak \/ \E n \in Session!Agents : Session!SpeechEnds(n)
      PROVE  Kept /\ Counted
  <2>1. UNCHANGED <<early, agent, updateLock, starts, sessions, at>>
    BY <1>8 DEF Session!Speak, Session!SpeechEnds, Session!lockVars, Session!reqVars,
       Session!taskVars
  <2> QED BY <1>1, <2>1
<1>9. ASSUME Session!CloseByUser \/ \E c \in Others : Session!CloseByOther(c)
      PROVE  Kept /\ Counted
  <2>1. PICK c \in Session!Closers : at[c] = "none" /\ Session!CallClose(c)
    BY <1>9, TasksDiffer DEF Session!CloseByUser, Session!CloseByOther
  <2>2. /\ UNCHANGED <<early, agent, updateLock, starts, sessions>>
        /\ at' = [at EXCEPT ![c] = "sessionLock"]
    BY <2>1 DEF Session!CallClose, Session!reqVars
  <2> QED BY <1>3, <2>1, <2>2, TasksDiffer
<1>10. ASSUME Session!CallDrain
      PROVE  Kept /\ Counted
  <2>1. /\ UNCHANGED <<early, agent, updateLock, starts, sessions>> /\ at[Drainer] = "none"
        /\ at' = [at EXCEPT ![Drainer] = "drain"]
    BY <1>10 DEF Session!CallDrain, Session!Calls, Session!reqVars
  <2> QED BY <1>3, <2>1, TasksDiffer
<1>11. ASSUME NEW n \in Session!Agents, Session!StartLocked(n)
       PROVE  Kept /\ Counted
  <2>1. /\ UNCHANGED <<early, updateLock, starts, sessions>> /\ agent' \in {agent, n}
        /\ at[n] = "sessionLock" /\ \E v : at' = [at EXCEPT ![n] = v]
    BY <1>11 DEF Session!StartLocked, Session!reqVars
  <2> QED BY <1>0, <1>2, <2>1, TasksDiffer
<1>12. ASSUME NEW n \in Session!Agents, Session!RoomStarted(n)
       PROVE  Kept /\ Counted
  <2>1. /\ UNCHANGED <<early, agent, starts, sessions>> /\ at[n] = "room"
        /\ at' = [at EXCEPT ![n] = "updateLock"]
        /\ updateLock' = Session!Joined(updateLock, n)
    BY <1>12 DEF Session!RoomStarted, Session!reqVars
  <2> QED BY <1>0, <1>2, <2>1, AgentsQueue, TasksDiffer
<1>13. ASSUME NEW n \in Session!Agents, Session!UpdateLocked(n)
       PROVE  Kept /\ Counted
  <2>1. /\ UNCHANGED <<early, agent, updateLock, starts, sessions>> /\ at[n] = "updateLock"
        /\ \E v : at' = [at EXCEPT ![n] = v]
    BY <1>13 DEF Session!UpdateLocked, Session!Calls, Session!reqVars
  <2> QED BY <1>3, <2>1, TasksDiffer
<1>14. ASSUME NEW n \in Session!Agents, Session!ActivityStarted(n)
       PROVE  Kept /\ Counted
  <2>1. /\ UNCHANGED <<early, agent, starts>> /\ at[n] = "start"
        /\ at' = [at EXCEPT ![n] = "done"] /\ updateLock' = Session!Freed(updateLock)
        /\ IF n \in starts THEN sessions' = sessions + 1 ELSE sessions' = sessions
    BY <1>14 DEF Session!ActivityStarted, Session!reqVars
  <2>2. Session!HeldBy(updateLock, n)
    BY <2>1 DEF SessionInv, LocksHeld, HandOverHolds, Replaces
  <2>3. updateLock' \in Seq(Session!Agents)
    BY <1>0, <2>1, <2>2, AgentsQueue
  <2>4. /\ \A m \in Session!Agents : at[m] = "done" => at'[m] = "done"
        /\ at[n] # "done" /\ at'[n] = "done"
    BY <1>2, <2>1, TasksDiffer
  <2> QED BY <1>0, <2>1, <2>3, <2>4
<1>15. ASSUME NEW n \in Session!Agents, Session!HandOverCloses(n)
       PROVE  Kept /\ Counted
  <2>1. /\ UNCHANGED <<early, agent, updateLock, starts, sessions>> /\ at[n] = "close"
        /\ at' = [at EXCEPT ![n] = "start"]
    BY <1>15 DEF Session!HandOverCloses, Session!reqVars
  <2> QED BY <1>3, <2>1, TasksDiffer
<1>16. ASSUME NEW c \in Session!Closers,
              \/ Session!CloseLocked(c) \/ Session!Interrupted(c)
              \/ Session!CurrentSpeechEnded(c) \/ Session!CloserCloses(c)
              \/ Session!FinishClose(c)
       PROVE  Kept /\ Counted
  <2>1. /\ UNCHANGED <<early, agent, updateLock, starts, sessions>> /\ at[c] # "done"
        /\ \E v : at' = [at EXCEPT ![c] = v]
    BY <1>16 DEF Session!CloseLocked, Session!Interrupted, Session!CurrentSpeechEnded,
       Session!CloserCloses, Session!FinishClose, Session!Calls, Session!reqVars
  <2> QED BY <1>3, <2>1, TasksDiffer
<1>17. ASSUME NEW p \in Session!Tasks, Session!BeginDrain(p) \/ Session!EndDrain(p)
       PROVE  Kept /\ Counted
  <2>1. UNCHANGED <<early, agent, starts, sessions>> /\ at[p] \in {"drain", "draining"}
    BY <1>17 DEF Session!BeginDrain, Session!EndDrain, Session!reqVars
  <2>2. CASE Session!AfterDrain(p)
    BY <1>0, <2>1, <2>2, DrainBounds
  <2>3. CASE ~Session!AfterDrain(p)
    <3>1. at' = [at EXCEPT ![p] = "draining"] /\ updateLock' = updateLock
      BY <1>17, <2>3 DEF Session!BeginDrain, Session!EndDrain
    <3> QED BY <1>3, <2>1, <3>1
  <2> QED BY <2>2, <2>3
<1>18. Kept /\ Counted
  BY <1>6, <1>7, <1>8, <1>9, <1>10, <1>11, <1>12, <1>13, <1>14, <1>15, <1>16, <1>17
     DEF Session!Next
<1>19. Ended \subseteq Ended' /\ SessionTypes /\ SessionTypes'
  BY <1>0, <1>18 DEF Ended, SessionInv
<1>20. sessions' <= Cardinality(Ended')
  <2>1. sessions \in Nat /\ sessions <= Cardinality(Ended)
    BY DEF SessionInv, SessionTypes, SessionBounds
  <2>2. CASE sessions' = sessions
    BY <1>19, <2>1, <2>2, EndedGrows
  <2>3. CASE /\ sessions' = sessions + 1
             /\ \E n \in starts' : at[n] # "done" /\ at'[n] = "done"
    <3>1. \E n : n \in Ended' /\ n \notin Ended
      BY <2>3 DEF Ended
    <3>2. /\ Cardinality(Ended) + 1 <= Cardinality(Ended')
          /\ Cardinality(Ended) \in Nat /\ Cardinality(Ended') \in Nat
      BY <1>19, <3>1, EndedGrows
    <3> QED BY <2>1, <2>3, <3>2
  <2> QED BY <1>18, <2>2, <2>3
<1> QED BY <1>18, <1>20 DEF SessionBounds

\* The types of the session are those of AgentSession.
LEMMA SessionTyped ==
    ASSUME SessionInv, SessionBounds
    PROVE  Session!TypeOK
<1>1. Cardinality(Ended) \in Nat /\ Cardinality(Ended) <= MaxAgents
  <2>1. IsFiniteSet(1 .. MaxAgents) /\ Cardinality(1 .. MaxAgents) = MaxAgents
    BY TasksDiffer, FS_Interval
  <2>2. Ended \subseteq 1 .. MaxAgents
    BY DEF SessionInv, SessionTypes, Ended, Session!Agents
  <2> QED BY <2>1, <2>2, FS_Subset, FS_CardinalityType
<1>2. sessions \in 0 .. MaxAgents /\ closeEvents \in 0 .. MaxAgents
  <2>1. /\ sessions \in Nat /\ closeEvents \in Nat /\ MaxAgents \in Nat
        /\ sessions <= Cardinality(Ended) /\ closeEvents <= sessions
    BY TasksDiffer DEF SessionInv, SessionTypes, SessionBounds, Session!ClosedOnce
  <2> QED BY <1>1, <2>1
<1> QED
  BY <1>2 DEF SessionInv, LockTypes, SessionTypes, SessionBounds, Queues, Session!TypeOK

-----------------------------------------------------------------------------
(* The types of the five components *)

TurnBounds == TextTypes /\ CountTypes /\ FlagTypes

\* The components begin with variables of their types.
LEMMA TypesStart ==
    ASSUME Init
    PROVE  TurnBounds /\ StreamTypes /\ Adapter!TypeOK /\ OutputBounds /\ SessionBounds
<1>0. /\ MaxSegments \in Nat /\ MaxSpeeches \in Nat /\ MaxByHand \in Nat /\ MaxAgents \in Nat
      /\ MaxReplies \in Nat /\ MaxFrames \in Nat /\ MaxRetry \in Nat /\ MaxFaults \in Nat
      /\ MaxUpdates \in Nat /\ MaxExpiries \in Nat
      /\ NumProviders \in Nat \ {0} /\ MaxStreams \in Nat \ {0}
  BY VoiceAssumption DEF VoiceAssumption
<1>1. TurnBounds
  <2>1. TextTypes
    BY EmptySeq DEF Init, Turns!Init, TextTypes
  <2>2. CountTypes
    <3>1. segment = 1 /\ speeches = 0 /\ interim = 0 /\ byHand = 0
      BY DEF Init, Turns!Init
    <3>2. dropped = {} /\ oldStt = FALSE
      BY DEF Init, Turns!Init
    <3>3. segment \in 1 .. MaxSegments + 1 /\ interim \in 0 .. MaxSegments
      BY <1>0, <3>1
    <3>4. speeches \in 0 .. MaxSpeeches /\ byHand \in 0 .. MaxByHand
      BY <1>0, <3>1
    <3> QED BY <3>2, <3>3, <3>4 DEF CountTypes
  <2>3. FlagTypes
    BY DEF Init, Turns!Init, FlagTypes, Turns!AgentState
  <2> QED BY <2>1, <2>2, <2>3 DEF TurnBounds
<1>2. StreamTypes
  BY <1>0 DEF Init, Stt!Init, StreamTypes
<1>3. Adapter!TypeOK
  BY <1>0 DEF Init, Adapter!Init, Adapter!TypeOK, Adapter!Providers, Adapter!Recoveries
<1>4. OutputBounds
  <2>1. /\ cur = 0 /\ frames = 0 /\ event = FALSE /\ phase = "over" /\ tf = "done" /\ af = "done"
        /\ record = {} /\ last = {} /\ impl = Output!NewSegment
    BY DEF Init, Output!Init
  <2>2. impl.texts = {}
    BY <2>1 DEF Output!NewSegment
  <2>3. inner.queued = 0 /\ inner.pushed = 0 /\ outer.segments = 0
    BY DEF Init, Output!Init
  <2>4. cur <= MaxReplies /\ frames <= MaxFrames
    BY <1>0, <2>1
  <2>5. inner.queued <= inner.pushed /\ outer.segments <= cur
    BY <2>1, <2>3
  <2>6. record \subseteq Output!Speeches /\ last \subseteq Output!Speeches
        /\ impl.texts \subseteq Output!Speeches
    BY <2>1, <2>2
  <2> QED BY <2>1, <2>4, <2>5, <2>6 DEF OutputBounds
<1>5. SessionBounds
  <2>1. Ended = {}
    BY DEF Init, Session!Init, Ended
  <2>2. Cardinality(Ended) = 0
    BY <2>1, FS_EmptySet
  <2>3. early = FALSE /\ agent = 0 /\ sessions = 0 /\ updateLock = <<>>
    BY DEF Init, Session!Init
  <2>4. agent \in 0 .. MaxAgents /\ sessions <= Cardinality(Ended)
    BY <1>0, <2>2, <2>3
  <2>5. updateLock \in Seq(Session!Agents)
    BY <2>3, EmptySeq
  <2> QED BY <2>3, <2>4, <2>5 DEF SessionBounds
<1> QED BY <1>1, <1>2, <1>3, <1>4, <1>5

\* Every step of a component, and of another one, keeps the types.
LEMMA TypesStay ==
    ASSUME HearInv, OutputInv, SessionInv, SessionInv', TurnBounds, StreamTypes, Adapter!TypeOK,
           OutputBounds, SessionBounds, [Next]_vars
    PROVE  (TurnBounds /\ StreamTypes /\ Adapter!TypeOK /\ OutputBounds /\ SessionBounds)'
<1>1. TurnBounds'
  <2>1. CASE UNCHANGED turnVars
    BY <2>1 DEF TurnBounds, TextTypes, CountTypes, FlagTypes, turnVars
  <2>2. CASE Turns!Next
    BY <2>2, TextsTyped, CountsTyped, FlagsTyped DEF TurnBounds
  <2> QED BY <2>1, <2>2 DEF Next, vars
<1>2. StreamTypes'
  <2>1. CASE UNCHANGED sttVars
    BY <2>1 DEF StreamTypes, sttVars
  <2>2. CASE Stt!Next
    BY <2>2, StreamTypesStay
  <2> QED BY <2>1, <2>2 DEF Next, vars
<1>3. Adapter!TypeOK'
  <2>1. CASE UNCHANGED adapterVars
    BY <2>1 DEF Adapter!TypeOK, adapterVars
  <2>2. CASE Adapter!Next
    BY <2>2, AdapterTypesStay
  <2> QED BY <2>1, <2>2 DEF Next, vars
<1>4. OutputBounds'
  <2>1. CASE UNCHANGED outputVars
    BY <2>1 DEF OutputBounds, outputVars
  <2>2. CASE Output!Next
    BY <2>2, OutputBoundsStay DEF OutputInv
  <2> QED BY <2>1, <2>2 DEF Next, vars
<1>5. SessionBounds'
  <2>1. CASE UNCHANGED sessionVars
    <3>1. Ended' = Ended
      BY <2>1 DEF sessionVars, Ended
    <3> QED BY <2>1, <3>1 DEF SessionBounds, sessionVars
  <2>2. CASE Session!Next
    BY <2>2, SessionBoundsStay
  <2> QED BY <2>1, <2>2 DEF Next, vars
<1> QED BY <1>1, <1>2, <1>3, <1>4, <1>5

\* The variables of the five components have their types, over any number of segments,
\* agents, speeches, frames, retries and providers: the lock of an activity holds tasks, a
\* session has started once for each start at most, and the outputs have counted no more
\* segments than there were speeches.
THEOREM VoiceTypeCorrect == Spec => []TypeOK
<1> DEFINE Known == HearInv /\ OutputInv /\ SessionInv
           Typed == TurnBounds /\ StreamTypes /\ Adapter!TypeOK /\ OutputBounds /\ SessionBounds
<1>1. Init => Known /\ Typed
  BY HearStart, OutputStart, SessionStart, TypesStart DEF Init
<1>2. Known /\ [Next]_vars => Known'
  <2>1. [Next]_vars => [Session!Next]_sessionVars
    BY DEF Next, vars
  <2> QED BY <2>1, HearStep, OutputKeeps, SessionStep
<1>3. Known /\ Known' /\ Typed /\ [Next]_vars => Typed'
  BY TypesStay
<1>4. Known /\ Typed => TypeOK
  BY TurnsTyped, StreamTyped, OutputTyped, SessionTyped DEF TurnBounds, TypeOK
<1> QED BY <1>1, <1>2, <1>3, <1>4, PTL DEF Spec
=============================================================================
