------------------------ MODULE SpeechSchedulingProofs ------------------------
(***************************************************************************)
(* The safety of SpeechScheduling for any number of speeches and turns and *)
(* any max_tool_steps.  The argument: the main task grants the floor to at *)
(* most one unfinished speech, its current one (GrantedIsCurrent), and the *)
(* task of a speech is on the floor only once granted and only until its   *)
(* playout is marked done (FloorGranted, LiveNotDone).  And it implements  *)
(* SpeechFloor, which is the last part.                                    *)
(***************************************************************************)
EXTENDS SpeechScheduling, TLAPS

\* A handle that was not created has no task, and nothing refers to it.
HandlesExist ==
    /\ \A h \in Speech : h > created => task[h] = "none"
    /\ queue \subseteq 1 .. created
    /\ authorized \subseteq 1 .. created
    /\ playoutDone \subseteq 1 .. created

FloorGranted == \A h \in Speech : OnFloor(h) => h \in authorized

\* The task of a speech that has not left the output has an unfinished handle.
LiveNotDone ==
    \A h \in Speech : task[h] \in {"created", "waiting"} \/ OnFloor(h)
                      => h \notin playoutDone

\* At most one unfinished speech was ever granted the floor: the current one.
GrantedIsCurrent ==
    \A h \in authorized \ playoutDone : h = currentSpeech /\ mainTask = "playing"

\* What was granted is older than what is queued.
QueueBehind == \A g \in queue, h \in authorized : h < g

FloorInv == /\ TypeOK
            /\ HandlesExist
            /\ FloorGranted
            /\ LiveNotDone
            /\ GrantedIsCurrent
            /\ QueueBehind

-----------------------------------------------------------------------------
\* The initial state has the types of TypeOK.
LEMMA TypeInit == Init => TypeOK
<1> SUFFICES ASSUME Init PROVE TypeOK
  OBVIOUS
<1> USE SpeechAssumption DEF Init, TaskState, Speech, Turn, Hook, None
<1>1. /\ kind \in [Speech -> {"say", "reply"}]
      /\ task \in [Speech -> TaskState]
      /\ tool \in [Speech -> {"none", "running", "reply", "silent"}]
  OBVIOUS
<1>2. /\ stepIndex \in [Speech -> 0 .. MaxToolSteps]
      /\ toolAwaits \in [Speech -> {None} \cup Speech]
  OBVIOUS
<1>3. /\ hook \in [Hook -> {"none", "running", "gone"}]
      /\ turnTask \in [Turn -> {"none", "waiting", "callback", "gone", "failed"}]
  OBVIOUS
<1>4. created \in 0 .. MaxSpeech /\ turns \in 0 .. MaxTurns
  OBVIOUS
<1>5. QED
  BY <1>1, <1>2, <1>3, <1>4 DEF TypeOK

\* Every step keeps the types, and the limit on the steps of a chain of answers.
LEMMA TypeStep == TypeOK /\ [Next]_vars => TypeOK'
<1> SUFFICES ASSUME TypeOK, [Next]_vars PROVE TypeOK'
  OBVIOUS
<1> USE SpeechAssumption DEF TypeOK, TaskState, Speech, Turn, Hook, None
<1>1. ASSUME NEW k, NEW allow, CallApi(k, allow) PROVE TypeOK'
  BY <1>1 DEF CallApi, CreateHandle, QueueWith, vars, handleVars, toolVars, mainVars, turnVars
<1>2. ASSUME NEW h \in Speech, StartTask(h) PROVE TypeOK'
  BY <1>2 DEF StartTask, vars, handleVars, toolVars, mainVars, turnVars
<1>3. ASSUME NEW h \in Speech, ReturnUnplayed(h) PROVE TypeOK'
  BY <1>3 DEF ReturnUnplayed, vars, handleVars, toolVars, mainVars, turnVars
<1>4. ASSUME NEW h \in Speech, StartPlaying(h) PROVE TypeOK'
  BY <1>4 DEF StartPlaying, vars, handleVars, toolVars, mainVars, turnVars
<1>5. ASSUME NEW h \in Speech, FailToPlay(h) PROVE TypeOK'
  BY <1>5 DEF FailToPlay, vars, handleVars, toolVars, mainVars, turnVars
<1>6. ASSUME NEW h \in Speech, FirstFrame(h) PROVE TypeOK'
  BY <1>6 DEF FirstFrame, vars, handleVars, toolVars, mainVars, turnVars
<1>7. ASSUME NEW h \in Speech, FinishPlaying(h) PROVE TypeOK'
  <2>0. \/ task' = [task EXCEPT ![h] = "tools"]
        \/ task' = [task EXCEPT ![h] = "ended"]
    BY <1>7, Zenon DEF FinishPlaying
  <2>1. task' \in [Speech -> TaskState]
    BY <2>0
  <2>2. playoutDone' = playoutDone \cup {h} \/ playoutDone' = playoutDone
    BY <1>7, Zenon DEF FinishPlaying
  <2>3. chatMessage' = chatMessage \cup {h} \/ chatMessage' = chatMessage
    BY <1>7, Zenon DEF FinishPlaying, RecordMessage
  <2>4. playoutDone' \subseteq Speech /\ chatMessage' \subseteq Speech
    BY <2>2, <2>3
  <2>5. agentState' \in {"listening", "thinking", "speaking"}
    BY <1>7 DEF FinishPlaying, SpeakingEnds
  <2>6. QED
    BY <1>7, <2>1, <2>4, <2>5 DEF FinishPlaying, vars, handleVars, toolVars, mainVars, turnVars
<1>8. ASSUME NEW h \in Speech, StopPlaying(h) PROVE TypeOK'
  BY <1>8 DEF StopPlaying, vars, handleVars, toolVars, mainVars, turnVars
<1>9. ASSUME NEW h \in Speech, FinishStopping(h) PROVE TypeOK'
  <2>0. \/ task' = [task EXCEPT ![h] = "cancelling"]
        \/ task' = [task EXCEPT ![h] = "ended"]
    BY <1>9, Zenon DEF FinishStopping
  <2>1. task' \in [Speech -> TaskState]
    BY <2>0
  <2>2. playoutDone' = playoutDone \cup {h} \/ playoutDone' = playoutDone
    BY <1>9, Zenon DEF FinishStopping
  <2>3. chatMessage' = chatMessage \cup {h} \/ chatMessage' = chatMessage
    BY <1>9, Zenon DEF FinishStopping, RecordMessage
  <2>4. playoutDone' \subseteq Speech /\ chatMessage' \subseteq Speech
    BY <2>2, <2>3
  <2>5. agentState' \in {"listening", "thinking", "speaking"}
    BY <1>9 DEF FinishStopping, SpeakingEnds
  <2>6. QED
    BY <1>9, <2>1, <2>4, <2>5 DEF FinishStopping, vars, handleVars, toolVars, mainVars, turnVars
<1>10. ASSUME NEW h \in Speech, StartTool(h) PROVE TypeOK'
  BY <1>10 DEF StartTool, vars, handleVars, toolVars, mainVars, turnVars
<1>11. ASSUME NEW h \in Speech, NEW s \in Speech, ToolAwait(h, s) PROVE TypeOK'
  BY <1>11 DEF ToolAwait, vars, handleVars, toolVars, mainVars, turnVars
<1>12. ASSUME NEW h \in Speech, NEW outcome \in {"reply", "silent"}, FinishTool(h, outcome) PROVE TypeOK'
  BY <1>12 DEF FinishTool, vars, handleVars, toolVars, mainVars, turnVars
<1>13. ASSUME NEW h \in Speech, NEW noTools \in BOOLEAN, RespondToTool(h, noTools) PROVE TypeOK'
  <2>1. task' \in [Speech -> TaskState] /\ created' \in 0 .. MaxSpeech
    BY <1>13 DEF RespondToTool, CreateHandle
  <2>2. stepIndex' \in [Speech -> 0 .. MaxToolSteps]
    BY <1>13 DEF RespondToTool, CreateHandle, BelowToolLimit
  <2>3. /\ kind' \in [Speech -> {"say", "reply"}]
        /\ interruptible' \subseteq Speech /\ toolsOff' \subseteq Speech
        /\ queue' \subseteq Speech
    BY <1>13 DEF RespondToTool, CreateHandle, QueueWith
  <2>4. QED
    BY <1>13, <2>1, <2>2, <2>3 DEF RespondToTool, vars, handleVars, toolVars, mainVars, turnVars
<1>14. ASSUME NEW h \in Speech, EndReply(h) PROVE TypeOK'
  BY <1>14 DEF EndReply, vars, handleVars, toolVars, mainVars, turnVars
<1>15. ASSUME NEW h \in Speech, EndInterruptedReply(h) PROVE TypeOK'
  BY <1>15 DEF EndInterruptedReply, vars, handleVars, toolVars, mainVars, turnVars
<1>16. ASSUME NEW h \in Speech, RunDoneCallbacks(h) PROVE TypeOK'
  BY <1>16 DEF RunDoneCallbacks, vars, handleVars, toolVars, mainVars, turnVars
<1>17. ASSUME NEW h \in Speech, PlayNext(h) PROVE TypeOK'
  BY <1>17 DEF PlayNext, vars, handleVars, toolVars, mainVars, turnVars
<1>18. ASSUME NEW h \in Speech, InterruptHandle(h) PROVE TypeOK'
  BY <1>18 DEF InterruptHandle, Interrupted, vars, handleVars, toolVars, mainVars, turnVars
<1>19. CASE RunDry
  BY <1>19 DEF RunDry, vars, handleVars, toolVars, mainVars, turnVars
<1>20. CASE InterruptAll
  BY <1>20 DEF InterruptAll, Interrupted, vars, handleVars, toolVars, mainVars, turnVars
<1>21. CASE InterruptByVad
  BY <1>21 DEF InterruptByVad, Interrupted, vars, handleVars, toolVars, mainVars, turnVars
<1>22. CASE EndOfTurn
  BY <1>22 DEF EndOfTurn, vars, handleVars, toolVars, mainVars, turnVars
<1>23. ASSUME NEW t \in Turn, StartTurn(t) PROVE TypeOK'
  <2>1. turnTask' \in [Turn -> {"none", "waiting", "callback", "gone", "failed"}]
    BY <1>23 DEF StartTurn
  <2>2. \/ interrupted' = interrupted
        \/ interrupted' = Interrupted({currentSpeech} \ {None})
    BY <1>23 DEF StartTurn
  <2>3. {currentSpeech} \ {None} \subseteq Speech
    OBVIOUS
  <2>4. interrupted' \subseteq Speech
    BY <2>2, <2>3 DEF Interrupted
  <2>5. qUpdated' \in BOOLEAN
    BY <1>23 DEF StartTurn
  <2>6. QED
    BY <1>23, <2>1, <2>4, <2>5 DEF StartTurn, vars, handleVars, toolVars, mainVars, turnVars
<1>24. ASSUME NEW t \in Turn, IgnoreTurn(t) PROVE TypeOK'
  BY <1>24 DEF IgnoreTurn, vars, handleVars, toolVars, mainVars, turnVars
<1>25. ASSUME NEW t \in Turn, ReplyToTurn(t) PROVE TypeOK'
  BY <1>25 DEF ReplyToTurn, CreateHandle, QueueWith, Interrupted, vars, handleVars, toolVars, mainVars, turnVars
<1>26. ASSUME NEW k \in Hook, EndHook(k) PROVE TypeOK'
  BY <1>26 DEF EndHook, vars, handleVars, toolVars, mainVars, turnVars
<1>27. CASE Drain
  BY <1>27 DEF Drain, vars, handleVars, toolVars, mainVars, turnVars
<1>28. CASE UNCHANGED vars
  BY <1>28 DEF vars, handleVars, toolVars, mainVars, turnVars
<1>29. QED
  BY <1>1, <1>2, <1>3, <1>4, <1>5, <1>6, <1>7, <1>8, <1>9, <1>10, <1>11, <1>12, <1>13, <1>14, <1>15, <1>16, <1>17, <1>18, <1>19, <1>20, <1>21, <1>22, <1>23, <1>24, <1>25, <1>26, <1>27, <1>28
  DEF Next, SpeechStep, TurnStep, Say, GenerateReply

\* The variables keep their types, and no chain of answers to function tools is
\* longer than max_tool_steps.
THEOREM TypeCorrect == Spec => []TypeOK
  BY TypeInit, TypeStep, PTL DEF Spec

-----------------------------------------------------------------------------
\* Nothing is created, queued or granted at first.
LEMMA FloorInit == Init => FloorInv
<1> SUFFICES ASSUME Init PROVE FloorInv
  OBVIOUS
<1>1. TypeOK
  BY TypeInit
<1>2. HandlesExist /\ QueueBehind /\ GrantedIsCurrent
  BY DEF Init, HandlesExist, QueueBehind, GrantedIsCurrent
<1>3. FloorGranted /\ LiveNotDone
  BY DEF Init, FloorGranted, LiveNotDone, OnFloor, Playing
<1>4. QED
  BY <1>1, <1>2, <1>3 DEF FloorInv

\* One case per action.  A task that takes the floor was granted it; a grant is
\* made only when the speech granted before is done; a new handle is younger
\* than every other.
LEMMA FloorStep == FloorInv /\ [Next]_vars => FloorInv'
<1> DEFINE FloorParts == /\ HandlesExist /\ FloorGranted /\ LiveNotDone
                         /\ GrantedIsCurrent /\ QueueBehind
<1> SUFFICES ASSUME FloorInv, [Next]_vars PROVE FloorInv'
  OBVIOUS
<1>a. TypeOK'
  BY TypeStep DEF FloorInv
<1>b. /\ task \in [Speech -> TaskState] /\ created \in Nat
      /\ queue \subseteq Speech /\ authorized \subseteq Speech
      /\ playoutDone \subseteq Speech /\ currentSpeech \in {None} \cup Speech
      /\ FloorParts
  BY SpeechAssumption DEF FloorInv, TypeOK
<1>c. SUFFICES FloorParts'
  BY <1>a DEF FloorInv
<1> USE <1>b, SpeechAssumption
    DEF Speech, None, HandlesExist, FloorGranted, LiveNotDone, GrantedIsCurrent,
        QueueBehind, OnFloor, Playing
<1>0. ASSUME created' = created + 1, created' \in Speech,
             queue' \subseteq queue \cup {created'},
             UNCHANGED <<authorized, playoutDone, currentSpeech, mainTask>>,
             \A h \in Speech : \/ task'[h] = task[h]
                               \/ task[h] # "none" /\ task'[h] = "ended"
                               \/ h = created' /\ task'[h] = "created"
      PROVE  FloorParts'
  <2>1. \A h \in Speech : h > created' => task'[h] = "none"
    BY <1>0
  <2>2. HandlesExist' /\ QueueBehind'
    BY <1>0, <2>1
  <2>3. FloorGranted' /\ LiveNotDone'
    BY <1>0
  <2>4. GrantedIsCurrent'
    BY <1>0
  <2>5. QED
    BY <2>2, <2>3, <2>4
<1>1. ASSUME NEW k, NEW allow, CallApi(k, allow) PROVE FloorParts'
  <2>1. created' = created + 1 /\ created' \in Speech
    BY <1>1 DEF CallApi, CreateHandle
  <2>2. /\ queue' \subseteq queue \cup {created'}
        /\ UNCHANGED <<authorized, playoutDone, currentSpeech, mainTask>>
    BY <1>1, Zenon DEF CallApi, QueueWith, mainVars
  <2>3. task' = [task EXCEPT ![created'] = "created"]
    BY <1>1 DEF CallApi
  <2>4. QED
    BY <1>0, <2>1, <2>2, <2>3
<1>2. ASSUME NEW h \in Speech, StartTask(h) PROVE FloorParts'
  BY <1>2 DEF StartTask, handleVars, mainVars
<1>3. ASSUME NEW h \in Speech, ReturnUnplayed(h) PROVE FloorParts'
  BY <1>3 DEF ReturnUnplayed, handleVars, mainVars
<1>4. ASSUME NEW h \in Speech, StartPlaying(h) PROVE FloorParts'
  BY <1>4 DEF StartPlaying, handleVars, mainVars
<1>5. ASSUME NEW h \in Speech, FailToPlay(h) PROVE FloorParts'
  BY <1>5 DEF FailToPlay, handleVars, mainVars
<1>6. ASSUME NEW h \in Speech, FirstFrame(h) PROVE FloorParts'
  BY <1>6 DEF FirstFrame, handleVars, mainVars
<1>7. ASSUME NEW h \in Speech, FinishPlaying(h) PROVE FloorParts'
  <2>1. \/ task' = [task EXCEPT ![h] = "tools"]
        \/ task' = [task EXCEPT ![h] = "ended"] /\ playoutDone' = playoutDone
    BY <1>7, Zenon DEF FinishPlaying
  <2>2. playoutDone' = playoutDone \cup {h} \/ playoutDone' = playoutDone
    BY <1>7, Zenon DEF FinishPlaying
  <2>3. UNCHANGED <<created, queue, authorized, currentSpeech, mainTask>>
    BY <1>7 DEF FinishPlaying, handleVars, mainVars
  <2>4. QED
    BY <1>7, <2>1, <2>2, <2>3 DEF FinishPlaying
<1>8. ASSUME NEW h \in Speech, StopPlaying(h) PROVE FloorParts'
  BY <1>8 DEF StopPlaying, handleVars, mainVars
<1>9. ASSUME NEW h \in Speech, FinishStopping(h) PROVE FloorParts'
  <2>1. \/ task' = [task EXCEPT ![h] = "cancelling"]
        \/ task' = [task EXCEPT ![h] = "ended"] /\ playoutDone' = playoutDone
    BY <1>9, Zenon DEF FinishStopping
  <2>2. playoutDone' = playoutDone \cup {h} \/ playoutDone' = playoutDone
    BY <1>9, Zenon DEF FinishStopping
  <2>3. UNCHANGED <<created, queue, authorized, currentSpeech, mainTask>>
    BY <1>9 DEF FinishStopping, handleVars, mainVars
  <2>4. QED
    BY <1>9, <2>1, <2>2, <2>3 DEF FinishStopping
<1>10. ASSUME NEW h \in Speech, StartTool(h) PROVE FloorParts'
  BY <1>10 DEF StartTool, handleVars, mainVars
<1>11. ASSUME NEW h \in Speech, NEW s \in Speech, ToolAwait(h, s) PROVE FloorParts'
  BY <1>11 DEF ToolAwait, handleVars, mainVars
<1>12. ASSUME NEW h \in Speech, NEW outcome \in {"reply", "silent"}, FinishTool(h, outcome) PROVE FloorParts'
  BY <1>12 DEF FinishTool, handleVars, mainVars
<1>13. ASSUME NEW h \in Speech, NEW noTools \in BOOLEAN, RespondToTool(h, noTools) PROVE FloorParts'
  <2>1. created' = created + 1 /\ created' \in Speech
    BY <1>13 DEF RespondToTool, CreateHandle
  <2>2. /\ queue' \subseteq queue \cup {created'}
        /\ UNCHANGED <<authorized, playoutDone, currentSpeech, mainTask>>
    BY <1>13, Zenon DEF RespondToTool, QueueWith, mainVars
  <2>3. /\ task[h] = "tools"
        /\ task' = [task EXCEPT ![h] = "ended", ![created'] = "created"]
    BY <1>13 DEF RespondToTool
  <2>4. QED
    BY <1>0, <2>1, <2>2, <2>3
<1>14. ASSUME NEW h \in Speech, EndReply(h) PROVE FloorParts'
  BY <1>14 DEF EndReply, handleVars, mainVars
<1>15. ASSUME NEW h \in Speech, EndInterruptedReply(h) PROVE FloorParts'
  BY <1>15 DEF EndInterruptedReply, handleVars, mainVars
<1>16. ASSUME NEW h \in Speech, RunDoneCallbacks(h) PROVE FloorParts'
  BY <1>16 DEF RunDoneCallbacks, handleVars, mainVars
<1>17. ASSUME NEW h \in Speech, PlayNext(h) PROVE FloorParts'
  <2>1. /\ h \in queue \ playoutDone
        /\ authorized' = authorized \cup {q \in queue : q <= h}
        /\ queue' = {q \in queue : q > h}
        /\ currentSpeech' = h /\ mainTask' = "playing"
        /\ UNCHANGED <<created, task, playoutDone>>
    BY <1>17 DEF PlayNext, handleVars
  <2>2. authorized \subseteq playoutDone
    BY <1>17 DEF PlayNext, MainReady
  <2>3. \A q \in queue : q < h => q \in playoutDone
    BY <1>17 DEF PlayNext, IsTop
  <2>4. HandlesExist' /\ FloorGranted' /\ LiveNotDone'
    BY <2>1
  <2>5. GrantedIsCurrent'
    BY <2>1, <2>2, <2>3
  <2>6. QueueBehind'
    BY <2>1
  <2>7. QED
    BY <2>4, <2>5, <2>6
<1>18. ASSUME NEW h \in Speech, InterruptHandle(h) PROVE FloorParts'
  BY <1>18 DEF InterruptHandle, handleVars, mainVars
<1>19. CASE RunDry
  BY <1>19 DEF RunDry, MainReady, handleVars, mainVars
<1>20. CASE InterruptAll
  BY <1>20 DEF InterruptAll, handleVars, mainVars
<1>21. CASE InterruptByVad
  BY <1>21 DEF InterruptByVad, handleVars, mainVars
<1>22. CASE EndOfTurn
  BY <1>22 DEF EndOfTurn, handleVars, mainVars
<1>23. ASSUME NEW t \in Turn, StartTurn(t) PROVE FloorParts'
  BY <1>23 DEF StartTurn, handleVars, mainVars
<1>24. ASSUME NEW t \in Turn, IgnoreTurn(t) PROVE FloorParts'
  BY <1>24 DEF IgnoreTurn, handleVars, mainVars
<1>25. ASSUME NEW t \in Turn, ReplyToTurn(t) PROVE FloorParts'
  <2>1. created' = created + 1 /\ created' \in Speech
    BY <1>25 DEF ReplyToTurn, CreateHandle
  <2>2. /\ queue' \subseteq queue \cup {created'}
        /\ UNCHANGED <<authorized, playoutDone, currentSpeech, mainTask>>
    BY <1>25, Zenon DEF ReplyToTurn, QueueWith, mainVars
  <2>3. task' = [task EXCEPT ![created'] = "created"]
    BY <1>25 DEF ReplyToTurn
  <2>4. QED
    BY <1>0, <2>1, <2>2, <2>3
<1>26. ASSUME NEW k \in Hook, EndHook(k) PROVE FloorParts'
  BY <1>26 DEF EndHook, handleVars, mainVars
<1>27. CASE Drain
  BY <1>27 DEF Drain, handleVars, mainVars
<1>28. CASE UNCHANGED vars
  BY <1>28 DEF vars, handleVars, mainVars
<1>29. QED
  BY <1>1, <1>2, <1>3, <1>4, <1>5, <1>6, <1>7, <1>8, <1>9, <1>10, <1>11, <1>12, <1>13, <1>14, <1>15, <1>16, <1>17, <1>18, <1>19, <1>20, <1>21, <1>22, <1>23, <1>24, <1>25, <1>26, <1>27, <1>28
  DEF Next, SpeechStep, TurnStep, Say, GenerateReply

-----------------------------------------------------------------------------
\* What FloorInv says of a speech on the floor.
LEMMA FloorFacts ==
    ASSUME FloorInv, NEW h \in Speech, OnFloor(h)
    PROVE  /\ h \in authorized /\ h \notin playoutDone /\ h = currentSpeech
           /\ \A g \in authorized \ playoutDone : g = h
BY DEF FloorInv, FloorGranted, LiveNotDone, GrantedIsCurrent

\* The inductive invariant behind the theorems about the audio output: at most one
\* unfinished speech was granted it, the main task's current one, and a task that
\* uses it was granted it (_main_task and _wait_for_authorization).
THEOREM FloorInvariant == Spec => []FloorInv
  BY FloorInit, FloorStep, PTL DEF Spec

\* The audio output is never shared by two speeches.
THEOREM FloorIsExclusive == Spec => []OneSpeechOnFloor
<1>1. FloorInv => OneSpeechOnFloor
  BY FloorFacts DEF OneSpeechOnFloor
<1>2. QED
  BY FloorInvariant, <1>1, PTL

\* Speeches are heard in the order in which they were scheduled.
THEOREM OrderIsKept == Spec => []PlayedInOrder
<1>1. ASSUME FloorInv, NEW h \in Speech, OnFloor(h), NEW g \in 1 .. h - 1
      PROVE  g \notin queue /\ (g \in authorized => g \in playoutDone)
  <2>1. h \in authorized /\ \A a \in authorized \ playoutDone : a = h
    BY <1>1, FloorFacts
  <2>2. g < h /\ ~(h < g)
    BY SpeechAssumption DEF Speech
  <2>3. QED
    BY <1>1, <2>1, <2>2 DEF FloorInv, QueueBehind
<1>2. FloorInv => PlayedInOrder
  BY <1>1 DEF PlayedInOrder
<1>3. QED
  BY FloorInvariant, <1>2, PTL

\* A message is recorded only by the speech on the floor, before it is done.
THEOREM MessagePrecedesDone == Spec => MessageBeforeDone
<1> DEFINE Recorded == \A h \in chatMessage' \ chatMessage :
                          h \notin playoutDone /\ OnFloor(h)
<1>1. ASSUME FloorInv, Next PROVE Recorded
  <2>1. ASSUME chatMessage' # chatMessage
        PROVE  \E h \in Speech : OnFloor(h) /\ chatMessage' = chatMessage \cup {h}
    <3>1. \A h \in Speech : FinishPlaying(h) \/ FinishStopping(h) =>
             OnFloor(h) /\ (chatMessage' = chatMessage
                              \/ chatMessage' = chatMessage \cup {h})
      BY Zenon DEF FinishPlaying, FinishStopping, RecordMessage, OnFloor
    <3>2. \E h \in Speech : FinishPlaying(h) \/ FinishStopping(h)
      BY <1>1, <2>1 DEF Next, SpeechStep, TurnStep, Say, GenerateReply, CallApi,
         StartTask, ReturnUnplayed, StartPlaying, FailToPlay, FirstFrame, StopPlaying,
         StartTool, ToolAwait, FinishTool, RespondToTool, EndReply,
         EndInterruptedReply, RunDoneCallbacks, PlayNext, InterruptHandle, RunDry,
         InterruptAll, InterruptByVad, EndOfTurn, StartTurn, IgnoreTurn, ReplyToTurn,
         EndHook, Drain
    <3>3. QED
      BY <2>1, <3>1, <3>2
  <2>2. QED
    BY <1>1, <2>1, FloorFacts
<1>2. FloorInv /\ [Next]_vars => [Recorded]_vars
  BY <1>1
<1>3. QED
  BY FloorInvariant, <1>2, PTL DEF Spec, MessageBeforeDone

-----------------------------------------------------------------------------
\* A speech that produced output is never shown as "listening": the tasks of the
\* other speeches see that the floor is taken.
LEMMA ListeningStep ==
    FloorInv /\ NeverListeningWhileSpeaking /\ [Next]_vars => NeverListeningWhileSpeaking'
<1> SUFFICES ASSUME FloorInv, NeverListeningWhileSpeaking, [Next]_vars
             PROVE  NeverListeningWhileSpeaking'
  OBVIOUS
<1> USE NeverListeningWhileSpeaking
<1>0. task \in [Speech -> TaskState]
  BY DEF FloorInv, TypeOK
<1> USE <1>0 DEF NeverListeningWhileSpeaking
<1>1. ASSUME NEW k, NEW allow, CallApi(k, allow) PROVE NeverListeningWhileSpeaking'
  BY <1>1 DEF CallApi, CreateHandle, NeverListeningWhileSpeaking
<1>2. ASSUME NEW h \in Speech, StartTask(h) PROVE NeverListeningWhileSpeaking'
  BY <1>2 DEF StartTask, NeverListeningWhileSpeaking
<1>3. ASSUME NEW h \in Speech, ReturnUnplayed(h) PROVE NeverListeningWhileSpeaking'
  BY <1>3 DEF ReturnUnplayed, NeverListeningWhileSpeaking
<1>4. ASSUME NEW h \in Speech, StartPlaying(h) PROVE NeverListeningWhileSpeaking'
  BY <1>4 DEF StartPlaying, NeverListeningWhileSpeaking
<1>5. ASSUME NEW h \in Speech, FailToPlay(h) PROVE NeverListeningWhileSpeaking'
  BY <1>5 DEF FailToPlay, NeverListeningWhileSpeaking
<1>6. ASSUME NEW h \in Speech, FirstFrame(h) PROVE NeverListeningWhileSpeaking'
  BY <1>6 DEF FirstFrame, NeverListeningWhileSpeaking
<1>7. ASSUME NEW h \in Speech, FinishPlaying(h) PROVE NeverListeningWhileSpeaking'
  <2>1. task'[h] # "speaking" /\ \A g \in Speech \ {h} : task'[g] = task[g]
    BY <1>7 DEF FinishPlaying
  <2>2. \A g \in Speech \ {h} : task[g] # "speaking"
    BY <1>7, FloorFacts DEF FinishPlaying, OnFloor, Playing
  <2>3. QED
    BY <2>1, <2>2 DEF NeverListeningWhileSpeaking
<1>8. ASSUME NEW h \in Speech, StopPlaying(h) PROVE NeverListeningWhileSpeaking'
  BY <1>8 DEF StopPlaying, NeverListeningWhileSpeaking
<1>9. ASSUME NEW h \in Speech, FinishStopping(h) PROVE NeverListeningWhileSpeaking'
  <2>1. task'[h] # "speaking" /\ \A g \in Speech \ {h} : task'[g] = task[g]
    BY <1>9 DEF FinishStopping
  <2>2. \A g \in Speech \ {h} : task[g] # "speaking"
    BY <1>9, FloorFacts DEF FinishStopping, OnFloor, Playing
  <2>3. QED
    BY <2>1, <2>2 DEF NeverListeningWhileSpeaking
<1>10. ASSUME NEW h \in Speech, StartTool(h) PROVE NeverListeningWhileSpeaking'
  BY <1>10 DEF StartTool, NeverListeningWhileSpeaking
<1>11. ASSUME NEW h \in Speech, NEW s \in Speech, ToolAwait(h, s) PROVE NeverListeningWhileSpeaking'
  BY <1>11 DEF ToolAwait, NeverListeningWhileSpeaking
<1>12. ASSUME NEW h \in Speech, NEW outcome \in {"reply", "silent"}, FinishTool(h, outcome) PROVE NeverListeningWhileSpeaking'
  BY <1>12 DEF FinishTool, NeverListeningWhileSpeaking
<1>13. ASSUME NEW h \in Speech, NEW noTools \in BOOLEAN, RespondToTool(h, noTools) PROVE NeverListeningWhileSpeaking'
  BY <1>13 DEF RespondToTool, CreateHandle, NeverListeningWhileSpeaking
<1>14. ASSUME NEW h \in Speech, EndReply(h) PROVE NeverListeningWhileSpeaking'
  BY <1>14 DEF EndReply, NeverListeningWhileSpeaking
<1>15. ASSUME NEW h \in Speech, EndInterruptedReply(h) PROVE NeverListeningWhileSpeaking'
  BY <1>15 DEF EndInterruptedReply, NeverListeningWhileSpeaking
<1>16. ASSUME NEW h \in Speech, RunDoneCallbacks(h) PROVE NeverListeningWhileSpeaking'
  <2>1. SUFFICES ASSUME NEW g \in Speech, task'[g] = "speaking", agentState' = "listening"
                 PROVE  FALSE
    BY DEF NeverListeningWhileSpeaking
  <2>2. g # h /\ task[g] = "speaking"
    BY <1>16, <2>1 DEF RunDoneCallbacks
  <2>3. g = currentSpeech /\ g \notin playoutDone \cup {h} /\ g # None
    BY <2>2, FloorFacts DEF OnFloor, Playing, Speech, None
  <2>4. ~FloorIsFree(playoutDone \cup {h})
    BY <2>3 DEF FloorIsFree
  <2>5. QED
    BY <1>16, <2>1, <2>2, <2>4 DEF RunDoneCallbacks, NeverListeningWhileSpeaking
<1>17. ASSUME NEW h \in Speech, PlayNext(h) PROVE NeverListeningWhileSpeaking'
  BY <1>17 DEF PlayNext, NeverListeningWhileSpeaking
<1>18. ASSUME NEW h \in Speech, InterruptHandle(h) PROVE NeverListeningWhileSpeaking'
  BY <1>18 DEF InterruptHandle, NeverListeningWhileSpeaking
<1>19. CASE RunDry
  BY <1>19 DEF RunDry, NeverListeningWhileSpeaking
<1>20. CASE InterruptAll
  BY <1>20 DEF InterruptAll, NeverListeningWhileSpeaking
<1>21. CASE InterruptByVad
  BY <1>21 DEF InterruptByVad, NeverListeningWhileSpeaking
<1>22. CASE EndOfTurn
  BY <1>22 DEF EndOfTurn, NeverListeningWhileSpeaking
<1>23. ASSUME NEW t \in Turn, StartTurn(t) PROVE NeverListeningWhileSpeaking'
  BY <1>23 DEF StartTurn, NeverListeningWhileSpeaking
<1>24. ASSUME NEW t \in Turn, IgnoreTurn(t) PROVE NeverListeningWhileSpeaking'
  BY <1>24 DEF IgnoreTurn, NeverListeningWhileSpeaking
<1>25. ASSUME NEW t \in Turn, ReplyToTurn(t) PROVE NeverListeningWhileSpeaking'
  BY <1>25 DEF ReplyToTurn, CreateHandle, NeverListeningWhileSpeaking
<1>26. ASSUME NEW k \in Hook, EndHook(k) PROVE NeverListeningWhileSpeaking'
  BY <1>26 DEF EndHook, NeverListeningWhileSpeaking
<1>27. CASE Drain
  BY <1>27 DEF Drain, NeverListeningWhileSpeaking
<1>28. CASE UNCHANGED vars
  BY <1>28 DEF vars
<1>29. QED
  BY <1>1, <1>2, <1>3, <1>4, <1>5, <1>6, <1>7, <1>8, <1>9, <1>10, <1>11, <1>12, <1>13, <1>14, <1>15, <1>16, <1>17, <1>18, <1>19, <1>20, <1>21, <1>22, <1>23, <1>24, <1>25, <1>26, <1>27, <1>28
  DEF Next, SpeechStep, TurnStep, Say, GenerateReply

\* While a speech that produced output plays, the session does not show "listening":
\* the done callbacks of other speeches (_on_pipeline_reply_done) leave it alone.
THEOREM SpeakingIsShown == Spec => []NeverListeningWhileSpeaking
<1>1. Init => NeverListeningWhileSpeaking
  BY DEF Init, NeverListeningWhileSpeaking
<1>2. QED
  BY <1>1, FloorInvariant, ListeningStep, PTL DEF Spec

-----------------------------------------------------------------------------
\* The main task returns only when no speech task is left, and none can start
\* after that: the calls and the turns that would start one see the draining.
LEMMA ExitStep == TypeOK /\ DrainLosesNothing /\ [Next]_vars => DrainLosesNothing'
<1> SUFFICES ASSUME TypeOK, DrainLosesNothing, [Next]_vars
             PROVE  DrainLosesNothing'
  OBVIOUS
<1>0. /\ task \in [Speech -> TaskState]
      /\ hook \in [Hook -> {"none", "running", "gone"}]
      /\ turnTask \in [Turn -> {"none", "waiting", "callback", "gone", "failed"}]
  BY DEF TypeOK
<1> USE <1>0 DEF DrainLosesNothing, NoSpeechTasks
<1>1. ASSUME NEW k, NEW allow, CallApi(k, allow) PROVE DrainLosesNothing'
  BY <1>1 DEF CallApi, CreateHandle, QueueWith, mainVars, turnVars
<1>2. ASSUME NEW h \in Speech, StartTask(h) PROVE DrainLosesNothing'
  BY <1>2 DEF StartTask, mainVars, turnVars
<1>3. ASSUME NEW h \in Speech, ReturnUnplayed(h) PROVE DrainLosesNothing'
  BY <1>3 DEF ReturnUnplayed, mainVars, turnVars
<1>4. ASSUME NEW h \in Speech, StartPlaying(h) PROVE DrainLosesNothing'
  BY <1>4 DEF StartPlaying, mainVars, turnVars
<1>5. ASSUME NEW h \in Speech, FailToPlay(h) PROVE DrainLosesNothing'
  BY <1>5 DEF FailToPlay, mainVars, turnVars
<1>6. ASSUME NEW h \in Speech, FirstFrame(h) PROVE DrainLosesNothing'
  BY <1>6 DEF FirstFrame, mainVars, turnVars
<1>7. ASSUME NEW h \in Speech, FinishPlaying(h) PROVE DrainLosesNothing'
  BY <1>7 DEF FinishPlaying, Playing, mainVars, turnVars
<1>8. ASSUME NEW h \in Speech, StopPlaying(h) PROVE DrainLosesNothing'
  BY <1>8 DEF StopPlaying, Playing, mainVars, turnVars
<1>9. ASSUME NEW h \in Speech, FinishStopping(h) PROVE DrainLosesNothing'
  BY <1>9 DEF FinishStopping, mainVars, turnVars
<1>10. ASSUME NEW h \in Speech, StartTool(h) PROVE DrainLosesNothing'
  BY <1>10 DEF StartTool, Playing, mainVars, turnVars
<1>11. ASSUME NEW h \in Speech, NEW s \in Speech, ToolAwait(h, s) PROVE DrainLosesNothing'
  BY <1>11 DEF ToolAwait, mainVars, turnVars
<1>12. ASSUME NEW h \in Speech, NEW outcome \in {"reply", "silent"}, FinishTool(h, outcome) PROVE DrainLosesNothing'
  BY <1>12 DEF FinishTool, mainVars, turnVars
<1>13. ASSUME NEW h \in Speech, NEW noTools \in BOOLEAN, RespondToTool(h, noTools) PROVE DrainLosesNothing'
  BY <1>13 DEF RespondToTool, CreateHandle, QueueWith, mainVars, turnVars
<1>14. ASSUME NEW h \in Speech, EndReply(h) PROVE DrainLosesNothing'
  BY <1>14 DEF EndReply, mainVars, turnVars
<1>15. ASSUME NEW h \in Speech, EndInterruptedReply(h) PROVE DrainLosesNothing'
  BY <1>15 DEF EndInterruptedReply, mainVars, turnVars
<1>16. ASSUME NEW h \in Speech, RunDoneCallbacks(h) PROVE DrainLosesNothing'
  BY <1>16 DEF RunDoneCallbacks, mainVars, turnVars
<1>17. ASSUME NEW h \in Speech, PlayNext(h) PROVE DrainLosesNothing'
  BY <1>17 DEF PlayNext, MainReady, turnVars
<1>18. ASSUME NEW h \in Speech, InterruptHandle(h) PROVE DrainLosesNothing'
  BY <1>18 DEF InterruptHandle, mainVars, turnVars
<1>19. CASE RunDry
  BY <1>19 DEF RunDry, MainReady, MayExit, turnVars
<1>20. CASE InterruptAll
  BY <1>20 DEF InterruptAll, mainVars, turnVars
<1>21. CASE InterruptByVad
  BY <1>21 DEF InterruptByVad, mainVars, turnVars
<1>22. CASE EndOfTurn
  BY <1>22 DEF EndOfTurn, mainVars, turnVars
<1>23. ASSUME NEW t \in Turn, StartTurn(t) PROVE DrainLosesNothing'
  BY <1>23 DEF StartTurn, mainVars, turnVars
<1>24. ASSUME NEW t \in Turn, IgnoreTurn(t) PROVE DrainLosesNothing'
  BY <1>24 DEF IgnoreTurn, mainVars, turnVars
<1>25. ASSUME NEW t \in Turn, ReplyToTurn(t) PROVE DrainLosesNothing'
  BY <1>25 DEF ReplyToTurn, CreateHandle, QueueWith, mainVars, turnVars
<1>26. ASSUME NEW k \in Hook, EndHook(k) PROVE DrainLosesNothing'
  BY <1>26 DEF EndHook, mainVars, turnVars
<1>27. CASE Drain
  BY <1>27 DEF Drain, mainVars, turnVars
<1>28. CASE UNCHANGED vars
  BY <1>28 DEF vars, mainVars, turnVars
<1>29. QED
  BY <1>1, <1>2, <1>3, <1>4, <1>5, <1>6, <1>7, <1>8, <1>9, <1>10, <1>11, <1>12, <1>13, <1>14, <1>15, <1>16, <1>17, <1>18, <1>19, <1>20, <1>21, <1>22, <1>23, <1>24, <1>25, <1>26, <1>27, <1>28
  DEF Next, SpeechStep, TurnStep, Say, GenerateReply

\* When _main_task returns, and with it drain(), the queue is empty and no speech,
\* turn or hook task is left.
THEOREM DrainIsComplete == Spec => []DrainLosesNothing
<1>1. Init => DrainLosesNothing
  BY DEF Init, DrainLosesNothing
<1>2. QED
  BY <1>1, TypeCorrect, ExitStep, PTL DEF Spec

-----------------------------------------------------------------------------
\* Once draining, nothing but the answer to a function tool enters the queue.
THEOREM DrainingIsRespected == Spec => OnlyToolResponsesBypassDraining
<1> DEFINE OnlyResponses == draining => \A h \in queue' \ queue : stepIndex'[h] > 0
<1>1. ASSUME TypeOK, Next, draining, NEW g \in queue' \ queue
      PROVE  stepIndex'[g] > 0
  <2>1. \E h \in Speech, noTools \in BOOLEAN : RespondToTool(h, noTools)
    <3>1. \A t \in Turn : ~ReplyToTurn(t)
      BY <1>1 DEF ReplyToTurn, QueueWith
    <3>2. \A h \in Speech : ~PlayNext(h)
      BY <1>1 DEF PlayNext
    <3>3. QED
      BY <1>1, <3>1, <3>2 DEF Next, SpeechStep, TurnStep, Say, GenerateReply, CallApi,
         StartTask, ReturnUnplayed, StartPlaying, FailToPlay, FirstFrame,
         FinishPlaying, StopPlaying, FinishStopping, StartTool, ToolAwait, FinishTool,
         EndReply, EndInterruptedReply, RunDoneCallbacks, InterruptHandle, RunDry,
         InterruptAll, InterruptByVad, EndOfTurn, StartTurn, IgnoreTurn, EndHook, Drain
  <2>2. PICK h \in Speech, noTools \in BOOLEAN : RespondToTool(h, noTools)
    BY <2>1
  <2>3. g = created + 1 /\ g \in Speech
    BY <1>1, <2>2, SpeechAssumption
    DEF RespondToTool, CreateHandle, QueueWith, TypeOK, Speech
  <2>4. stepIndex' = [stepIndex EXCEPT ![created + 1] = stepIndex[h] + 1]
    BY <2>2 DEF RespondToTool, CreateHandle
  <2>5. stepIndex \in [Speech -> 0 .. MaxToolSteps]
    BY <1>1 DEF TypeOK
  <2>6. QED
    BY <2>3, <2>4, <2>5, SpeechAssumption
<1>2. TypeOK /\ [Next]_vars => [OnlyResponses]_vars
  BY <1>1
<1>3. QED
  BY TypeCorrect, <1>2, PTL DEF Spec, OnlyToolResponsesBypassDraining
-----------------------------------------------------------------------------
\* A handle has a task from its creation on; the done callbacks mark its playout
\* done; a task that was never granted the floor waits for it, or was interrupted.
TaskFacts ==
    /\ \A h \in Speech : h <= created => task[h] # "none"
    /\ \A h \in Speech : task[h] = "gone" => h \in playoutDone
    /\ \A h \in Speech :
          \/ h \in authorized
          \/ task[h] \in {"none", "created", "waiting"}
          \/ h \in interrupted /\ task[h] \in {"ended", "gone"}
    /\ chatMessage \subseteq authorized
    /\ currentSpeech \in {None} \cup authorized

\* Whenever the session shows "thinking" or "speaking" there is a task that can
\* still change it, or a speech was interrupted without having played.
ShownFor ==
    agentState # "listening" =>
        \/ \E h \in Speech : task[h] \notin {"none", "gone"}
        \/ \E h \in interrupted \ chatMessage : task[h] = "gone"

\* The steps fall in four groups: those that leave the tasks alone, those that
\* move one task on, those that create a handle, and the done callbacks, which
\* leave a state other than "listening" behind only if the floor is taken.
LEMMA ShownStep ==
    FloorInv /\ TaskFacts /\ ShownFor /\ [Next]_vars => TaskFacts' /\ ShownFor'
<1> DEFINE Kept == TaskFacts' /\ ShownFor'
<1> SUFFICES ASSUME FloorInv, TaskFacts, ShownFor, [Next]_vars PROVE Kept
  OBVIOUS
<1>0. /\ task \in [Speech -> TaskState] /\ created \in Nat
      /\ queue \subseteq 1 .. created /\ queue \subseteq Speech
      /\ authorized \subseteq Speech /\ interrupted \subseteq Speech
      /\ playoutDone \subseteq Speech
      /\ currentSpeech \in {None} \cup Speech
  BY SpeechAssumption DEF FloorInv, TypeOK, HandlesExist
<1>q. \A q \in queue : q \notin authorized
  <2>1. SUFFICES ASSUME NEW q \in queue, q \in authorized PROVE FALSE
    OBVIOUS
  <2>2. q < q /\ q \in Nat
    BY <1>0, <2>1 DEF FloorInv, QueueBehind
  <2>3. QED
    BY <2>2
<1>s. ASSUME NEW q \in queue
      PROVE  /\ q \in Speech /\ q <= created /\ q \notin chatMessage
             /\ \/ task[q] \in {"created", "waiting"}
                \/ q \in interrupted /\ task[q] \in {"ended", "gone"}
  <2>1. q \in Speech /\ q <= created
    BY <1>0
  <2>2. QED
    BY <1>q, <2>1 DEF TaskFacts
<1>r. ASSUME NEW h \in Speech, NEW c \in Speech,
             task' = [task EXCEPT ![h] = "ended", ![c] = "created"]
      PROVE  task'[c] = "created" /\ \A g \in Speech \ {c, h} : task'[g] = task[g]
             /\ (h # c => task'[h] = "ended")
  BY <1>0, <1>r
<1> USE <1>0, SpeechAssumption DEF TaskFacts, ShownFor, Speech, None
<1>a. ASSUME UNCHANGED <<created, task, playoutDone, chatMessage, agentState>>,
             interrupted \subseteq interrupted', authorized \subseteq authorized',
             currentSpeech' \in {None} \cup authorized'
      PROVE  Kept
  BY <1>a
<1>b. ASSUME NEW h \in Speech, NEW s \in TaskState, task' = [task EXCEPT ![h] = s],
             task[h] # "none", s \notin {"none", "created", "gone"},
             \/ h \in authorized
             \/ s = "waiting"
             \/ h \in interrupted /\ s = "ended",
             UNCHANGED <<created, authorized, interrupted, currentSpeech>>,
             playoutDone \subseteq playoutDone',
             \/ chatMessage' = chatMessage
             \/ chatMessage' = chatMessage \cup {h} /\ h \in authorized
      PROVE  Kept
  <2>1. task'[h] = s /\ \A g \in Speech \ {h} : task'[g] = task[g]
    BY <1>b
  <2>2. \A g \in Speech : g <= created' => task'[g] # "none"
    BY <1>b, <2>1
  <2>3. \A g \in Speech : task'[g] = "gone" => g \in playoutDone'
    BY <1>b, <2>1
  <2>4. \A g \in Speech : \/ g \in authorized'
                          \/ task'[g] \in {"none", "created", "waiting"}
                          \/ g \in interrupted' /\ task'[g] \in {"ended", "gone"}
    BY <1>b, <2>1
  <2>5. QED
    BY <1>b, <2>1, <2>2, <2>3, <2>4
<1>c. ASSUME NEW c \in Speech, c = created + 1, created' = c,
             UNCHANGED <<authorized, playoutDone, currentSpeech, chatMessage>>,
             interrupted \subseteq interrupted', task'[c] = "created",
             \A h \in Speech \ {c} :
                \/ task'[h] = task[h]
                \/ task[h] = "tools" /\ task'[h] = "ended"
      PROVE  Kept
  <2>1. \A g \in Speech : g <= created' => task'[g] # "none"
    BY <1>c
  <2>2. \A g \in Speech : task'[g] = "gone" => g \in playoutDone'
    BY <1>c
  <2>3. \A g \in Speech : \/ g \in authorized'
                          \/ task'[g] \in {"none", "created", "waiting"}
                          \/ g \in interrupted' /\ task'[g] \in {"ended", "gone"}
    BY <1>c
  <2>4. QED
    BY <1>c, <2>1, <2>2, <2>3
<1>d. ASSUME UNCHANGED vars PROVE Kept
  BY <1>a, <1>d DEF vars, handleVars, mainVars
<1>1. ASSUME NEW k, NEW allow, CallApi(k, allow) PROVE Kept
  <2>1. PICK c \in Speech : c = created + 1 /\ created' = c
    BY <1>1 DEF CallApi, CreateHandle
  <2>2. /\ task' = [task EXCEPT ![c] = "created"]
        /\ UNCHANGED <<authorized, playoutDone, currentSpeech, chatMessage, interrupted>>
    BY <1>1, <2>1 DEF CallApi, mainVars
  <2>3. QED
    BY <2>1, <2>2, <1>c
<1>2. ASSUME NEW h \in Speech, NEW noTools, RespondToTool(h, noTools) PROVE Kept
  <2>1. PICK c \in Speech : c = created + 1 /\ created' = c
    BY <1>2 DEF RespondToTool, CreateHandle
  <2>2. /\ task[h] = "tools"
        /\ task' = [task EXCEPT ![h] = "ended", ![c] = "created"]
        /\ UNCHANGED <<authorized, playoutDone, currentSpeech, chatMessage, interrupted>>
    BY <1>2, <2>1 DEF RespondToTool, mainVars
  <2>3. /\ task'[c] = "created" /\ \A g \in Speech \ {c, h} : task'[g] = task[g]
        /\ h # c => task'[h] = "ended"
    BY <2>2, <1>r
  <2>4. \A g \in Speech \ {c} : \/ task'[g] = task[g]
                                \/ task[g] = "tools" /\ task'[g] = "ended"
    BY <2>2, <2>3
  <2>5. QED
    BY <2>1, <2>2, <2>3, <2>4, <1>c
<1>3. ASSUME NEW t \in Turn, ReplyToTurn(t) PROVE Kept
  <2>1. PICK c \in Speech : c = created + 1 /\ created' = c
    BY <1>3 DEF ReplyToTurn, CreateHandle
  <2>2. /\ task' = [task EXCEPT ![c] = "created"]
        /\ UNCHANGED <<authorized, playoutDone, currentSpeech, chatMessage>>
    BY <1>3, <2>1 DEF ReplyToTurn, mainVars
  <2>3. interrupted \subseteq interrupted'
    BY <1>3 DEF ReplyToTurn, Interrupted
  <2>4. QED
    BY <2>1, <2>2, <2>3, <1>c
<1>4. ASSUME NEW h \in Speech, StartTask(h) \/ ReturnUnplayed(h) \/ StartPlaying(h)
      PROVE  Kept
  <2>1. \/ StartTask(h) /\ task' = [task EXCEPT ![h] = "waiting"]
        \/ ReturnUnplayed(h) /\ task' = [task EXCEPT ![h] = "ended"]
        \/ StartPlaying(h) /\ task' = [task EXCEPT ![h] = "playing"]
    BY <1>4 DEF StartTask, ReturnUnplayed, StartPlaying
  <2>2. {"waiting", "ended", "playing"} \subseteq TaskState
    BY DEF TaskState
  <2>3. QED
    BY <1>4, <2>1, <2>2, <1>b
    DEF StartTask, ReturnUnplayed, StartPlaying, handleVars, mainVars
<1>5. ASSUME NEW h \in Speech, NEW s \in {"ended", "speaking", "stopping"},
             task' = [task EXCEPT ![h] = s],
             FailToPlay(h) \/ FirstFrame(h) \/ StopPlaying(h)
      PROVE  Kept
  <2>1. s \in TaskState
    BY DEF TaskState
  <2>2. h \in authorized /\ task[h] # "none"
    BY <1>5 DEF FailToPlay, FirstFrame, StopPlaying, Playing
  <2>3. UNCHANGED <<created, authorized, interrupted, currentSpeech, playoutDone, chatMessage>>
    BY <1>5 DEF FailToPlay, FirstFrame, StopPlaying, handleVars, mainVars
  <2>4. QED
    BY <1>5, <2>1, <2>2, <2>3, <1>b
<1>6. ASSUME NEW h \in Speech, FinishPlaying(h) \/ FinishStopping(h) PROVE Kept
  <2>1. PICK s \in {"tools", "cancelling", "ended"} : task' = [task EXCEPT ![h] = s]
    BY <1>6, Zenon DEF FinishPlaying, FinishStopping
  <2>2. s \in TaskState
    BY DEF TaskState
  <2>3. h \in authorized /\ task[h] # "none"
    BY <1>6 DEF FinishPlaying, FinishStopping, Playing
  <2>4. chatMessage' = chatMessage \/ chatMessage' = chatMessage \cup {h}
    BY <1>6, Zenon DEF FinishPlaying, FinishStopping, RecordMessage
  <2>5. playoutDone' = playoutDone \/ playoutDone' = playoutDone \cup {h}
    BY <1>6, Zenon DEF FinishPlaying, FinishStopping
  <2>6. UNCHANGED <<created, authorized, interrupted, currentSpeech>>
    BY <1>6, Zenon DEF FinishPlaying, FinishStopping, handleVars, mainVars
  <2>7. QED
    BY <2>1, <2>2, <2>3, <2>4, <2>5, <2>6, <1>b
<1>7. ASSUME NEW h \in Speech, EndReply(h) \/ EndInterruptedReply(h) PROVE Kept
  <2>1. task' = [task EXCEPT ![h] = "ended"] /\ "ended" \in TaskState
    BY <1>7 DEF EndReply, EndInterruptedReply, TaskState
  <2>2. h \in authorized /\ task[h] # "none"
    BY <1>7 DEF EndReply, EndInterruptedReply
  <2>3. UNCHANGED <<created, authorized, interrupted, currentSpeech, playoutDone, chatMessage>>
    BY <1>7 DEF EndReply, EndInterruptedReply, handleVars, mainVars
  <2>4. QED
    BY <2>1, <2>2, <2>3, <1>b
<1>8. ASSUME NEW h \in Speech, RunDoneCallbacks(h) PROVE Kept
  <2>1. /\ task[h] = "ended" /\ task' = [task EXCEPT ![h] = "gone"]
        /\ playoutDone' = playoutDone \cup {h}
        /\ UNCHANGED <<created, authorized, interrupted, chatMessage, queue, currentSpeech>>
    BY <1>8 DEF RunDoneCallbacks, handleVars, mainVars
  <2>2. task'[h] = "gone" /\ \A g \in Speech \ {h} : task'[g] = task[g]
    BY <2>1
  <2>3. TaskFacts'
    <3>1. \A g \in Speech : g <= created' => task'[g] # "none"
      BY <2>1, <2>2
    <3>2. \A g \in Speech : task'[g] = "gone" => g \in playoutDone'
      BY <2>1, <2>2
    <3>3. \A g \in Speech : \/ g \in authorized'
                            \/ task'[g] \in {"none", "created", "waiting"}
                            \/ g \in interrupted' /\ task'[g] \in {"ended", "gone"}
      BY <2>1, <2>2
    <3>4. QED
      BY <2>1, <3>1, <3>2, <3>3
  <2>4. CASE FloorIsFree(playoutDone \cup {h})
    <3>1. agentState' = "listening"
      BY <1>8, <2>4 DEF RunDoneCallbacks
    <3>2. QED
      BY <2>3, <3>1
  <2>5. CASE queue # {}
    <3>1. PICK q \in queue : TRUE
      BY <2>5
    <3>2. q \in Speech
      BY <1>s
    <3>3. CASE task[q] \in {"created", "waiting"}
      BY <2>1, <2>2, <2>3, <3>2, <3>3
    <3>4. CASE q \in interrupted \ chatMessage /\ task[q] \in {"ended", "gone"}
      <4>1. task'[q] # "none" /\ q \in interrupted' \ chatMessage'
        BY <2>1, <2>2, <3>2, <3>4
      <4>2. QED
        BY <2>3, <3>2, <4>1
    <3>5. QED
      BY <1>s, <3>3, <3>4
  <2>6. CASE currentSpeech \notin {None} \cup playoutDone \cup {h}
    <3>1. /\ currentSpeech \in Speech /\ currentSpeech # h
          /\ currentSpeech \in 1 .. created
      BY <2>6 DEF FloorInv, HandlesExist
    <3>2. task'[currentSpeech] \notin {"none", "gone"}
      BY <2>1, <2>2, <2>6, <3>1
    <3>3. QED
      BY <2>1, <2>3, <3>1, <3>2
  <2>7. QED
    BY <2>4, <2>5, <2>6 DEF FloorIsFree
<1>9. ASSUME NEW h \in Speech, StartTool(h) \/ InterruptHandle(h) PROVE Kept
  BY <1>9, <1>a DEF StartTool, InterruptHandle, Interrupted, handleVars, mainVars
<1>10. ASSUME NEW h \in Speech, NEW s, ToolAwait(h, s) \/ FinishTool(h, s) PROVE Kept
  BY <1>10, <1>a DEF ToolAwait, FinishTool, handleVars, mainVars
<1>11. ASSUME NEW h \in Speech, PlayNext(h) PROVE Kept
  <2>1. h <= h /\ h \in queue
    BY <1>11 DEF PlayNext
  <2>2. currentSpeech' \in authorized' /\ authorized \subseteq authorized'
    BY <1>11, <2>1 DEF PlayNext
  <2>3. QED
    BY <1>11, <2>2, <1>a DEF PlayNext, handleVars
<1>12. CASE RunDry
  BY <1>12, <1>a DEF RunDry, handleVars
<1>13. CASE InterruptAll \/ InterruptByVad
  BY <1>13, <1>a DEF InterruptAll, InterruptByVad, Interrupted, handleVars, mainVars
<1>14. CASE EndOfTurn \/ Drain
  BY <1>14, <1>a DEF EndOfTurn, Drain, handleVars, mainVars
<1>15. ASSUME NEW t \in Turn, StartTurn(t) \/ IgnoreTurn(t) PROVE Kept
  <2>1. interrupted \subseteq interrupted'
    BY <1>15 DEF StartTurn, IgnoreTurn, Interrupted
  <2>2. QED
    BY <1>15, <2>1, <1>a DEF StartTurn, IgnoreTurn, handleVars, mainVars
<1>16. ASSUME NEW k \in Hook, EndHook(k) PROVE Kept
  BY <1>16, <1>a DEF EndHook, handleVars, mainVars
<1>17. ASSUME NEW h \in Speech, FailToPlay(h) \/ FirstFrame(h) \/ StopPlaying(h) PROVE Kept
  BY <1>17, <1>5 DEF FailToPlay, FirstFrame, StopPlaying
<1>18. QED
  BY <1>d, <1>1, <1>2, <1>3, <1>4, <1>6, <1>7, <1>8, <1>9, <1>10, <1>11, <1>12, <1>13,
     <1>14, <1>15, <1>16, <1>17
  DEF Next, SpeechStep, TurnStep, Say, GenerateReply

\* Once nobody speaks the session shows "listening", unless a speech was interrupted
\* without having played: the callback that leaves another state behind
\* (_on_pipeline_reply_done) saw a queued or current speech, whose own callback is
\* still to come or which was interrupted in the queue.
THEOREM QuietIsShown == Spec => []QuietIsListening
<1>1. Init => TaskFacts /\ ShownFor
  BY SpeechAssumption DEF Init, TaskFacts, ShownFor, Speech, None
<1>2. ShownFor => QuietIsListening
  BY DEF ShownFor, QuietIsListening, Quiet
<1>3. QED
  BY <1>1, <1>2, FloorInvariant, ShownStep, PTL DEF Spec

-----------------------------------------------------------------------------
(* SpeechScheduling implements SpeechFloor: every step of the tasks asks for, grants, uses,
   leaves or gives up the floor, or does not show there at all.  The invariant FloorInv
   supplies the guards of the abstract steps.                                             *)

\* The part of a step that shows on the floor: who is queued, granted or done.
SameQueues == UNCHANGED <<queue, authorized, playoutDone>>

-----------------------------------------------------------------------------
\* A step that touches neither the queue nor the output is no step of the floor.
LEMMA StepUnseen ==
    ASSUME SameQueues, \A g \in Speech : OnFloor(g)' <=> OnFloor(g)
    PROVE  UNCHANGED Floor!vars
BY DEF SameQueues, Floor!vars

\* Scheduling a new handle asks for the floor, or is refused and does not show.
LEMMA StepAsks ==
    ASSUME FloorInv,
           NEW h \in Speech, h = created + 1,
           queue' \in {queue, queue \cup {h}},
           UNCHANGED <<authorized, playoutDone>>,
           \A g \in Speech : OnFloor(g)' <=> OnFloor(g)
    PROVE  Floor!Ask(h) \/ UNCHANGED Floor!vars
<1>1. CASE queue' = queue
  BY <1>1 DEF Floor!vars
<1>2. CASE queue' = queue \cup {h}
  <2>1. /\ \A g \in queue \cup authorized \cup playoutDone : g < h
        /\ h \notin playoutDone
    BY SpeechAssumption DEF FloorInv, TypeOK, HandlesExist, Speech
  <2>2. queue' \ playoutDone' = (queue \ playoutDone) \cup {h}
    BY <1>2, <2>1
  <2>3. QED
    BY <2>1, <2>2 DEF Floor!Ask
<1>3. QED
  BY <1>1, <1>2

\* A speech that leaves the output keeps the floor until it is resolved.
LEMMA StepFallsSilent ==
    ASSUME FloorInv, NEW h \in Speech, OnFloor(h), ~OnFloor(h)',
           SameQueues,
           \A g \in Speech \ {h} : OnFloor(g)' <=> OnFloor(g)
    PROVE  Floor!FallSilent(h)
<1>1. {g \in Speech : OnFloor(g)} = {h}
  BY FloorFacts
<1>2. {g \in Speech : OnFloor(g)}' = {}
  BY <1>1
<1>3. QED
  BY <1>1, <1>2 DEF Floor!FallSilent, SameQueues

\* Marking a playout done for the first time resolves the speech, wherever it is.
LEMMA StepResolves ==
    ASSUME NEW h \in Speech, h \notin playoutDone, ~OnFloor(h)',
           playoutDone' = playoutDone \cup {h},
           UNCHANGED <<queue, authorized>>,
           \A g \in Speech \ {h} : OnFloor(g)' <=> OnFloor(g)
    PROVE  Floor!Resolve(h)
<1>1. {g \in Speech : OnFloor(g)}' = {g \in Speech : OnFloor(g)} \ {h}
  OBVIOUS
<1>2. QED
  BY <1>1 DEF Floor!Resolve

\* The steps of the main task grant the floor, or do not show.
LEMMA StepGrants ==
    ASSUME FloorInv, NEW h \in Speech, PlayNext(h)
    PROVE  Floor!Grant(h)
<1>1. /\ h \in queue \ playoutDone
      /\ authorized' = authorized \cup {q \in queue : q <= h}
      /\ queue' = {q \in queue : q > h}
      /\ UNCHANGED <<task, playoutDone>>
  BY DEF PlayNext, handleVars
<1>2. authorized \subseteq playoutDone
  BY DEF PlayNext, MainReady, FloorInv, GrantedIsCurrent
<1>3. \A q \in queue \ playoutDone : h <= q
  BY DEF PlayNext, IsTop
<1>4. queue \subseteq Nat /\ h \in Nat
  BY SpeechAssumption DEF FloorInv, TypeOK, Speech
<1>5. authorized' \ playoutDone' = {h}
  <2>1. \A q \in queue \ playoutDone : q <= h => q = h
    BY <1>3, <1>4
  <2>2. h <= h
    BY <1>4
  <2>3. authorized' \ playoutDone' = {q \in queue \ playoutDone : q <= h}
    BY <1>1, <1>2
  <2>4. QED
    BY <1>1, <2>1, <2>2, <2>3
<1>6. queue' \ playoutDone' = (queue \ playoutDone) \ {h}
  <2>1. \A q \in queue \ playoutDone : q > h <=> q # h
    BY <1>3, <1>4
  <2>2. queue' \ playoutDone' = {q \in queue \ playoutDone : q > h}
    BY <1>1
  <2>3. QED
    BY <2>1, <2>2
<1>7. {g \in Speech : OnFloor(g)}' = {g \in Speech : OnFloor(g)}
  BY <1>1 DEF OnFloor, Playing
<1>8. QED
  BY <1>1, <1>2, <1>3, <1>5, <1>6, <1>7 DEF Floor!Grant

-----------------------------------------------------------------------------
\* Nothing is queued, granted, spoken or resolved at first.
LEMMA FloorStarts == Init => Floor!Init
<1> SUFFICES ASSUME Init PROVE Floor!Init
  OBVIOUS
<1>1. {h \in Speech : OnFloor(h)} = {}
  BY DEF Init, OnFloor, Playing
<1>2. queue = {} /\ authorized = {} /\ playoutDone = {}
  BY DEF Init
<1>3. QED
  BY <1>1, <1>2 DEF Floor!Init

\* Every step of the activity is a step of the floor, or does not show there.
LEMMA FloorSteps == FloorInv /\ [Next]_vars => [Floor!Next]_(Floor!vars)
<1> DEFINE Shown == [Floor!Next]_(Floor!vars)
<1> SUFFICES ASSUME FloorInv, [Next]_vars PROVE Shown
  OBVIOUS
<1>a. /\ task \in [Speech -> TaskState] /\ created \in Nat
      /\ \A g \in Speech : g > created => task[g] = "none"
  BY SpeechAssumption DEF FloorInv, TypeOK, HandlesExist
<1>b. Floor!Speech = Speech
  BY DEF Floor!Speech, Speech
<1>c. ASSUME NEW h \in Speech,
             Floor!Ask(h) \/ Floor!Grant(h) \/ Floor!Speak(h)
               \/ Floor!FallSilent(h) \/ Floor!Resolve(h) \/ UNCHANGED Floor!vars
      PROVE  Shown
  BY <1>b, <1>c DEF Floor!Next
<1> DEFINE SameFloor == \A g \in Speech : OnFloor(g)' <=> OnFloor(g)
<1>d. ASSUME UNCHANGED <<queue, authorized, playoutDone, task>> PROVE Shown
  BY <1>d, StepUnseen DEF OnFloor, Playing, SameQueues
<1>e. ASSUME SameQueues, NEW h \in Speech, NEW s, task' = [task EXCEPT ![h] = s],
             ~OnFloor(h), s \notin {"playing", "speaking", "stopping"}
      PROVE  Shown
  <2>1. SameFloor
    BY <1>a, <1>e DEF OnFloor, Playing
  <2>2. QED
    BY <1>e, <2>1, StepUnseen
<1>f. ASSUME SameQueues, NEW h \in Speech, NEW s, task' = [task EXCEPT ![h] = s],
             OnFloor(h), s \in {"playing", "speaking", "stopping"}
      PROVE  Shown
  <2>1. SameFloor
    BY <1>a, <1>f DEF OnFloor, Playing
  <2>2. QED
    BY <1>f, <2>1, StepUnseen
<1>g. ASSUME NEW h \in Speech, NEW s, task' = [task EXCEPT ![h] = s],
             s \notin {"playing", "speaking", "stopping"}
      PROVE  ~OnFloor(h)' /\ \A g \in Speech \ {h} : OnFloor(g)' <=> OnFloor(g)
  BY <1>a, <1>g DEF OnFloor, Playing
<1>h. ASSUME NEW h \in Speech, OnFloor(h), ~OnFloor(h)', SameQueues,
             \A g \in Speech \ {h} : OnFloor(g)' <=> OnFloor(g)
      PROVE  Shown
  BY <1>c, <1>h, StepFallsSilent
<1>i. ASSUME NEW h \in Speech, ~OnFloor(h)', h \notin playoutDone,
             playoutDone' = playoutDone \cup {h}, UNCHANGED <<queue, authorized>>,
             \A g \in Speech \ {h} : OnFloor(g)' <=> OnFloor(g)
      PROVE  Shown
  BY <1>c, <1>i, StepResolves
<1>j. ASSUME NEW h \in Speech, h = created + 1,
             queue' = queue \/ queue' = queue \cup {h},
             UNCHANGED <<authorized, playoutDone>>, SameFloor
      PROVE  Shown
  BY <1>c, <1>j, StepAsks
<1>1. ASSUME NEW k, NEW allow, CallApi(k, allow) PROVE Shown
  <2>1. /\ created < MaxSpeech /\ created' = created + 1
        /\ queue' = queue \/ queue' = queue \cup {created'}
        /\ UNCHANGED <<authorized, playoutDone>>
    BY <1>1 DEF CallApi, CreateHandle, QueueWith
  <2>2. created + 1 \in Speech /\ task[created + 1] = "none"
    BY <1>a, <2>1, SpeechAssumption DEF Speech
  <2>3. SameFloor
    BY <1>a, <1>1, <2>1, <2>2 DEF CallApi, OnFloor, Playing
  <2>4. QED
    BY <1>j, <2>1, <2>2, <2>3
<1>2. ASSUME NEW h \in Speech, StartTask(h) PROVE Shown
  <2>1. /\ task' = [task EXCEPT ![h] = "waiting"] /\ SameQueues
        /\ ~OnFloor(h)
    BY <1>2 DEF StartTask, SameQueues, OnFloor, Playing
  <2>2. QED
    BY <2>1, <1>e
<1>3. ASSUME NEW h \in Speech, ReturnUnplayed(h) PROVE Shown
  <2>1. /\ task' = [task EXCEPT ![h] = "ended"] /\ SameQueues
        /\ ~OnFloor(h)
    BY <1>3 DEF ReturnUnplayed, SameQueues, OnFloor, Playing
  <2>2. QED
    BY <2>1, <1>e
<1>4. ASSUME NEW h \in Speech, StartPlaying(h) PROVE Shown
  <2>1. /\ task' = [task EXCEPT ![h] = "playing"] /\ SameQueues
        /\ h \in authorized \ playoutDone
        /\ task[h] = "waiting"
    BY <1>4 DEF StartPlaying, SameQueues, FloorInv, LiveNotDone
  <2>2. \A g \in Speech : ~OnFloor(g)
    BY <2>1, FloorFacts DEF OnFloor, Playing
  <2>3. /\ {g \in Speech : OnFloor(g)} = {}
        /\ {g \in Speech : OnFloor(g)}' = {h}
    BY <1>a, <2>1, <2>2 DEF OnFloor, Playing
  <2>4. Floor!Speak(h)
    BY <2>1, <2>3 DEF Floor!Speak, SameQueues
  <2>5. QED
    BY <1>c, <2>4
<1>5. ASSUME NEW h \in Speech, FailToPlay(h) PROVE Shown
  <2>1. task' = [task EXCEPT ![h] = "ended"] /\ SameQueues /\ OnFloor(h)
    BY <1>5 DEF FailToPlay, SameQueues, OnFloor, Playing
  <2>2. QED
    BY <1>g, <1>h, <2>1
<1>6. ASSUME NEW h \in Speech, FirstFrame(h) PROVE Shown
  <2>1. /\ task' = [task EXCEPT ![h] = "speaking"] /\ SameQueues
        /\ OnFloor(h)
    BY <1>6 DEF FirstFrame, SameQueues, OnFloor, Playing
  <2>2. QED
    BY <2>1, <1>f
<1>7. ASSUME NEW h \in Speech, FinishPlaying(h) PROVE Shown
  <2>1. /\ OnFloor(h) /\ UNCHANGED <<queue, authorized>>
        /\ \/ task' = [task EXCEPT ![h] = "tools"] /\ playoutDone' = playoutDone \cup {h}
           \/ task' = [task EXCEPT ![h] = "ended"] /\ UNCHANGED playoutDone
    <3>1. \/ task' = [task EXCEPT ![h] = "tools"] /\ playoutDone' = playoutDone \cup {h}
          \/ task' = [task EXCEPT ![h] = "ended"] /\ UNCHANGED playoutDone
      BY <1>7, Zenon DEF FinishPlaying
    <3>2. QED
      BY <1>7, <3>1 DEF FinishPlaying, OnFloor, Playing
  <2>2. h \notin playoutDone
    BY <2>1 DEF FloorInv, LiveNotDone
  <2>3. ~OnFloor(h)' /\ \A g \in Speech \ {h} : OnFloor(g)' <=> OnFloor(g)
    BY <1>g, <2>1
  <2>4. CASE playoutDone' = playoutDone
    BY <1>h, <2>1, <2>3, <2>4 DEF SameQueues
  <2>5. CASE playoutDone' = playoutDone \cup {h}
    BY <1>i, <2>1, <2>2, <2>3, <2>5
  <2>6. QED
    BY <2>1, <2>4, <2>5
<1>8. ASSUME NEW h \in Speech, StopPlaying(h) PROVE Shown
  <2>1. /\ task' = [task EXCEPT ![h] = "stopping"] /\ SameQueues
        /\ OnFloor(h)
    BY <1>8 DEF StopPlaying, SameQueues, OnFloor, Playing
  <2>2. QED
    BY <2>1, <1>f
<1>9. ASSUME NEW h \in Speech, FinishStopping(h) PROVE Shown
  <2>1. /\ OnFloor(h) /\ UNCHANGED <<queue, authorized>>
        /\ \/ task' = [task EXCEPT ![h] = "cancelling"] /\ playoutDone' = playoutDone \cup {h}
           \/ task' = [task EXCEPT ![h] = "ended"] /\ UNCHANGED playoutDone
    <3>1. \/ task' = [task EXCEPT ![h] = "cancelling"] /\ playoutDone' = playoutDone \cup {h}
          \/ task' = [task EXCEPT ![h] = "ended"] /\ UNCHANGED playoutDone
      BY <1>9, Zenon DEF FinishStopping
    <3>2. QED
      BY <1>9, <3>1 DEF FinishStopping, OnFloor, Playing
  <2>2. h \notin playoutDone
    BY <2>1 DEF FloorInv, LiveNotDone
  <2>3. ~OnFloor(h)' /\ \A g \in Speech \ {h} : OnFloor(g)' <=> OnFloor(g)
    BY <1>g, <2>1
  <2>4. CASE playoutDone' = playoutDone
    BY <1>h, <2>1, <2>3, <2>4 DEF SameQueues
  <2>5. CASE playoutDone' = playoutDone \cup {h}
    BY <1>i, <2>1, <2>2, <2>3, <2>5
  <2>6. QED
    BY <2>1, <2>4, <2>5
<1>10. ASSUME NEW h \in Speech, StartTool(h) PROVE Shown
  BY <1>10, <1>d DEF StartTool
<1>11. ASSUME NEW h \in Speech, NEW s \in Speech, ToolAwait(h, s) PROVE Shown
  BY <1>11, <1>d DEF ToolAwait
<1>12. ASSUME NEW h \in Speech, NEW r \in {"reply", "silent"}, FinishTool(h, r) PROVE Shown
  BY <1>12, <1>d DEF FinishTool
<1>13. ASSUME NEW h \in Speech, NEW noTools \in BOOLEAN, RespondToTool(h, noTools)
       PROVE  Shown
  <2>1. /\ created < MaxSpeech /\ created' = created + 1
        /\ queue' = queue \/ queue' = queue \cup {created'}
        /\ UNCHANGED <<authorized, playoutDone>>
    BY <1>13 DEF RespondToTool, CreateHandle, QueueWith
  <2>2. created + 1 \in Speech /\ task[created + 1] = "none"
    BY <1>a, <2>1, SpeechAssumption DEF Speech
  <2>3. SameFloor
    BY <1>a, <1>13, <2>1, <2>2 DEF RespondToTool, OnFloor, Playing
  <2>4. QED
    BY <1>j, <2>1, <2>2, <2>3
<1>14. ASSUME NEW h \in Speech, EndReply(h) PROVE Shown
  <2>1. /\ task' = [task EXCEPT ![h] = "ended"] /\ SameQueues
        /\ ~OnFloor(h)
    BY <1>14 DEF EndReply, SameQueues, OnFloor, Playing
  <2>2. QED
    BY <2>1, <1>e
<1>15. ASSUME NEW h \in Speech, EndInterruptedReply(h) PROVE Shown
  <2>1. /\ task' = [task EXCEPT ![h] = "ended"] /\ SameQueues
        /\ ~OnFloor(h)
    BY <1>15 DEF EndInterruptedReply, SameQueues, OnFloor, Playing
  <2>2. QED
    BY <2>1, <1>e
<1>16. ASSUME NEW h \in Speech, RunDoneCallbacks(h) PROVE Shown
  <2>1. /\ task' = [task EXCEPT ![h] = "gone"] /\ ~OnFloor(h)
        /\ playoutDone' = playoutDone \cup {h} /\ UNCHANGED <<queue, authorized>>
    BY <1>16 DEF RunDoneCallbacks, OnFloor, Playing
  <2>2. CASE h \in playoutDone
    BY <1>e, <2>1, <2>2 DEF SameQueues
  <2>3. CASE h \notin playoutDone
    BY <1>g, <1>i, <2>1, <2>3
  <2>4. QED
    BY <2>2, <2>3
<1>17. ASSUME NEW h \in Speech, PlayNext(h) PROVE Shown
  BY <1>c, <1>17, StepGrants
<1>18. ASSUME NEW h \in Speech, InterruptHandle(h) PROVE Shown
  BY <1>18, <1>d DEF InterruptHandle
<1>19. CASE RunDry
  <2>1. UNCHANGED Floor!vars
    BY <1>19 DEF RunDry, Floor!vars, OnFloor, Playing
  <2>2. QED
    BY <2>1
<1>20. CASE InterruptAll
  BY <1>20, <1>d DEF InterruptAll
<1>21. CASE InterruptByVad
  BY <1>21, <1>d DEF InterruptByVad
<1>22. CASE EndOfTurn
  BY <1>22, <1>d DEF EndOfTurn
<1>23. ASSUME NEW t \in Turn, StartTurn(t) PROVE Shown
  BY <1>23, <1>d DEF StartTurn
<1>24. ASSUME NEW t \in Turn, IgnoreTurn(t) PROVE Shown
  BY <1>24, <1>d DEF IgnoreTurn
<1>25. ASSUME NEW t \in Turn, ReplyToTurn(t) PROVE Shown
  <2>1. /\ created < MaxSpeech /\ created' = created + 1
        /\ queue' = queue \/ queue' = queue \cup {created'}
        /\ UNCHANGED <<authorized, playoutDone>>
    BY <1>25 DEF ReplyToTurn, CreateHandle, QueueWith
  <2>2. created + 1 \in Speech /\ task[created + 1] = "none"
    BY <1>a, <2>1, SpeechAssumption DEF Speech
  <2>3. SameFloor
    BY <1>a, <1>25, <2>1, <2>2 DEF ReplyToTurn, OnFloor, Playing
  <2>4. QED
    BY <1>j, <2>1, <2>2, <2>3
<1>26. ASSUME NEW k \in Hook, EndHook(k) PROVE Shown
  BY <1>26, <1>d DEF EndHook
<1>27. CASE Drain
  BY <1>27, <1>d DEF Drain
<1>28. CASE UNCHANGED vars
  BY <1>28, <1>d DEF vars
<1>29. QED
  BY <1>1, <1>2, <1>3, <1>4, <1>5, <1>6, <1>7, <1>8, <1>9, <1>10, <1>11, <1>12, <1>13, <1>14, <1>15,
     <1>16, <1>17, <1>18, <1>19, <1>20, <1>21, <1>22, <1>23, <1>24, <1>25, <1>26, <1>27, <1>28
  DEF Next, SpeechStep, TurnStep, Say, GenerateReply

\* The queue, the main task and the speech tasks implement a floor that is given
\* first come, first served, to one speech at a time.
THEOREM FloorIsImplemented == Spec => ImplementsFloor
  BY FloorStarts, FloorSteps, FloorInvariant, PTL DEF Spec, ImplementsFloor, Floor!Spec
=============================================================================
