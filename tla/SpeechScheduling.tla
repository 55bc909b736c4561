--------------------------- MODULE SpeechScheduling ---------------------------
(***************************************************************************)
(* How one AgentActivity speaks: voice/agent_activity.py together with     *)
(* voice/speech_handle.py, for an agent driven by an LLM and a TTS (the    *)
(* "pipeline" mode).                                                       *)
(*                                                                         *)
(* Everything runs on one asyncio loop, so an action is the code between   *)
(* two awaits of one task.  The tasks are:                                 *)
(*   - the main task, which lets one queued speech at a time play;         *)
(*   - one task per speech: _tts_task (say) or _pipeline_reply_task        *)
(*     (generate_reply and tool responses);                                *)
(*   - one task per user turn: _user_turn_completed_task;                  *)
(*   - the tasks that run the hooks on_enter and on_exit.                  *)
(* All but the main task are "speech tasks": drain() waits for them.       *)
(*                                                                         *)
(* A speech is a number, given in the order in which handles are created.  *)
(* The heap is ordered by (-priority, monotonic_ns) and every caller uses  *)
(* SPEECH_PRIORITY_NORMAL, so the smallest queued number is its top.       *)
(***************************************************************************)
EXTENDS Naturals, FiniteSets

CONSTANTS
    MaxSpeech,    \* bound: speech handles an execution may create
    MaxTurns,     \* bound: user turns an execution may see
    MaxToolSteps, \* AgentSession(max_tool_steps=...)
    AllowInterruptions, \* AgentActivity.allow_interruptions
    ApiCalls      \* bound: the calls <<"say" or "reply", allow_interruptions>>
                  \* that the application makes

ASSUME SpeechAssumption ==
    /\ MaxSpeech \in Nat /\ MaxTurns \in Nat /\ MaxToolSteps \in Nat
    /\ AllowInterruptions \in BOOLEAN
    /\ ApiCalls \subseteq {"say", "reply"} \X BOOLEAN

Speech == 1 .. MaxSpeech
Turn   == 1 .. MaxTurns
Hook   == {"on_enter", "on_exit"}
None   == 0

VARIABLES
    created,        \* handles created so far: the speeches 1 .. created exist
    kind,           \* which coroutine runs the speech: "say" or "reply"
    interruptible,  \* the speeches whose handle has _allow_interruptions
    stepIndex,      \* _step_index
    toolsOff,       \* the replies generated with tool_choice "none"
    task,           \* where the coroutine of a speech stands
    interrupted,    \* the speeches whose _interrupt_fut is set
    authorized,     \* the speeches whose _authorize_fut is set
    playoutDone,    \* the speeches whose _playout_done_fut is set
    chatMessage,    \* the speeches whose _chat_message is set
    tool,           \* the function tool called by the LLM for a reply
    toolAwaits,     \* the speech whose playout that tool is awaiting
    queue,          \* _speech_q
    currentSpeech,  \* _current_speech
    mainTask,       \* where _main_task stands
    qUpdated,       \* _q_updated
    draining,       \* _draining
    hook,           \* the tasks of on_enter and on_exit
    turns,          \* user turns so far; the last is _user_turn_completed_atask
    turnTask,       \* where _user_turn_completed_task stands for each turn
    agentState      \* AgentSession._agent_state

handleVars == <<created, kind, interruptible, stepIndex, toolsOff>>
toolVars   == <<tool, toolAwaits>>
mainVars   == <<currentSpeech, mainTask>>
turnVars   == <<turns, turnTask>>
vars == <<handleVars, task, interrupted, authorized, playoutDone, chatMessage,
          toolVars, queue, mainVars, qUpdated, draining, hook,
          turnVars, agentState>>

-----------------------------------------------------------------------------
(* The coroutine of a speech:
     "none"      the handle does not exist yet
     "created"   asyncio.create_task was called, the first segment has not run
     "waiting"   wait_if_not_interrupted(_wait_for_authorization)
     "playing"   forwarding to the outputs, no frame was pushed yet
     "speaking"  forwarding to the outputs, frames were pushed
     "stopping"  interrupted while playing: cancelling, waiting for the sink
     "tools"     playout marked done, awaiting the tool execution
     "cancelling" interrupted: awaiting the cancelled tool execution
     "ended"     the coroutine returned, its done callbacks have not run
     "gone"      the done callbacks have run                                *)
TaskState == {"none", "created", "waiting", "playing", "speaking", "stopping", "tools",
              "cancelling", "ended", "gone"}

Exists(h)  == task[h] # "none"
Playing(h) == task[h] \in {"playing", "speaking"}
OnFloor(h) == Playing(h) \/ task[h] = "stopping"

\* _speech_tasks is empty: nothing that drain() waits for is left.
NoSpeechTasks ==
    /\ \A h \in Speech : task[h] \in {"none", "gone"}
    /\ \A t \in Turn : turnTask[t] \in {"none", "gone", "failed"}
    /\ \A k \in Hook : hook[k] # "running"

\* Bound: a handle is set aside for every running tool and turn that may need
\* one, so that the cap on handles never blocks a task half way.
Claims == Cardinality({h \in Speech : tool[h] \in {"running", "reply"}})
        + Cardinality({t \in Turn : turnTask[t] \in {"waiting", "callback"}})
Spare  == created + Claims < MaxSpeech

Init ==
    /\ created = 0
    /\ kind = [h \in Speech |-> "say"]
    /\ interruptible = {} /\ toolsOff = {}
    /\ stepIndex = [h \in Speech |-> 0]
    /\ task = [h \in Speech |-> "none"]
    /\ interrupted = {} /\ authorized = {} /\ playoutDone = {}
    /\ chatMessage = {}
    /\ tool = [h \in Speech |-> "none"]
    /\ toolAwaits = [h \in Speech |-> None]
    /\ queue = {} /\ currentSpeech = None
    /\ mainTask = "waiting" /\ qUpdated = FALSE /\ draining = FALSE
    /\ hook = [k \in Hook |-> IF k = "on_enter" THEN "running" ELSE "none"]
    /\ turns = 0
    /\ turnTask = [t \in Turn |-> "none"]
    /\ agentState = "listening"

-----------------------------------------------------------------------------
(* Creating and scheduling speeches *)

\* SpeechHandle.create followed by _create_speech_task.
CreateHandle(k, allow, step, noTools) ==
    LET h == created + 1 IN
    /\ created < MaxSpeech
    /\ created' = h
    /\ kind' = [kind EXCEPT ![h] = k]
    /\ interruptible' = IF allow THEN interruptible \cup {h} ELSE interruptible
    /\ stepIndex' = [stepIndex EXCEPT ![h] = step]
    /\ toolsOff' = IF noTools THEN toolsOff \cup {h} ELSE toolsOff

\* _schedule_speech: it raises, scheduling nothing, when the activity drains.
QueueWith(h, bypassDraining) ==
    IF draining /\ ~bypassDraining THEN queue ELSE queue \cup {h}

\* AgentSession.say and AgentSession.generate_reply called by the application:
\* neither asks a draining activity to speak.
CallApi(k, allow) ==
    /\ <<k, allow>> \in ApiCalls
    /\ ~draining
    /\ Spare
    /\ CreateHandle(k, allow, 0, FALSE)
    /\ task' = [task EXCEPT ![created'] = "created"]
    /\ queue' = QueueWith(created', FALSE)
    /\ qUpdated' = TRUE
    /\ UNCHANGED <<interrupted, authorized, playoutDone, chatMessage, toolVars,
                   mainVars, draining, hook, turnVars, agentState>>

Say(allow)           == CallApi("say", allow)
GenerateReply(allow) == CallApi("reply", allow)

-----------------------------------------------------------------------------
(* The task of a speech *)

\* The first segment.  A reply starts its inference, and shows "thinking",
\* before it is authorized to play.
StartTask(h) ==
    /\ task[h] = "created"
    /\ task' = [task EXCEPT ![h] = "waiting"]
    /\ agentState' = IF kind[h] = "reply" THEN "thinking" ELSE agentState
    /\ UNCHANGED <<handleVars, interrupted, authorized, playoutDone, chatMessage,
                   toolVars, queue, mainVars, qUpdated, draining,
                   hook, turnVars>>

\* Interrupted before the authorization was seen: nothing is played or recorded.
ReturnUnplayed(h) ==
    /\ task[h] = "waiting"
    /\ h \in interrupted
    /\ task' = [task EXCEPT ![h] = "ended"]
    /\ UNCHANGED <<handleVars, interrupted, authorized, playoutDone, chatMessage,
                   toolVars, queue, mainVars, qUpdated, draining,
                   hook, turnVars, agentState>>

StartPlaying(h) ==
    /\ task[h] = "waiting"
    /\ h \in authorized \ interrupted
    /\ task' = [task EXCEPT ![h] = "playing"]
    /\ UNCHANGED <<handleVars, interrupted, authorized, playoutDone, chatMessage,
                   toolVars, queue, mainVars, qUpdated, draining,
                   hook, turnVars, agentState>>

\* transcription_node, user code awaited as playing starts, raises.
FailToPlay(h) ==
    /\ task[h] = "playing"
    /\ tool[h] = "none"
    /\ task' = [task EXCEPT ![h] = "ended"]
    /\ UNCHANGED <<handleVars, interrupted, authorized, playoutDone, chatMessage,
                   toolVars, queue, mainVars, qUpdated, draining,
                   hook, turnVars, agentState>>

\* _on_first_frame.
FirstFrame(h) ==
    /\ task[h] = "playing"
    /\ task' = [task EXCEPT ![h] = "speaking"]
    /\ agentState' = "speaking"
    /\ UNCHANGED <<handleVars, interrupted, authorized, playoutDone,
                   chatMessage, toolVars, queue, mainVars, qUpdated, draining,
                   hook, turnVars>>

\* _set_chat_message.
RecordMessage(h) == chatMessage' = chatMessage \cup {h}

SpeakingEnds == IF agentState = "speaking" THEN "listening" ELSE agentState

\* The waits ended and no interruption is seen.  A reply marks its playout done
\* here, before it waits for its tools; a say leaves that to the done callback.
FinishPlaying(h) ==
    /\ Playing(h)
    /\ h \notin interrupted
    /\ RecordMessage(h) \/ UNCHANGED chatMessage
    /\ IF kind[h] = "reply"
       THEN /\ task' = [task EXCEPT ![h] = "tools"]
            /\ playoutDone' = playoutDone \cup {h}
            /\ agentState' = IF tool[h] \in {"reply", "silent"} THEN "thinking"
                             ELSE SpeakingEnds
       ELSE /\ task' = [task EXCEPT ![h] = "ended"]
            /\ agentState' = SpeakingEnds
            /\ UNCHANGED playoutDone
    /\ UNCHANGED <<handleVars, interrupted, authorized, toolVars,
                   queue, mainVars, qUpdated, draining, hook, turnVars>>

\* Mutant: the playout is marked done before the message is recorded.
StopPlayingDone(h) ==
    /\ Playing(h)
    /\ h \in interrupted
    /\ task' = [task EXCEPT ![h] = "stopping"]
    /\ playoutDone' = playoutDone \cup {h}
    /\ UNCHANGED <<handleVars, interrupted, authorized, chatMessage, toolVars, queue,
                   mainVars, qUpdated, draining, hook, turnVars, agentState>>

\* An interruption ends the waits: cancel, clear the buffer, await the sink.
StopPlaying(h) ==
    /\ Playing(h)
    /\ h \in interrupted
    /\ task' = [task EXCEPT ![h] = "stopping"]
    /\ UNCHANGED <<handleVars, interrupted, authorized, playoutDone, chatMessage,
                   toolVars, queue, mainVars, qUpdated, draining,
                   hook, turnVars, agentState>>

\* The sink reported the truncated playout.  A reply always records the message;
\* say(add_to_chat_ctx=False) does not.
FinishStopping(h) ==
    /\ task[h] = "stopping"
    /\ agentState' = SpeakingEnds
    /\ IF kind[h] = "reply"
       THEN /\ task' = [task EXCEPT ![h] = "cancelling"]
            /\ RecordMessage(h)
            /\ playoutDone' = playoutDone \cup {h}
       ELSE /\ task' = [task EXCEPT ![h] = "ended"]
            /\ RecordMessage(h) \/ UNCHANGED chatMessage
            /\ UNCHANGED playoutDone
    /\ UNCHANGED <<handleVars, interrupted, authorized, toolVars,
                   queue, mainVars, qUpdated, draining, hook, turnVars>>

-----------------------------------------------------------------------------
(* Function tools: _execute_tools_task runs beside the playout *)

StartTool(h) ==
    /\ Playing(h) /\ kind[h] = "reply"
    /\ tool[h] = "none" /\ h \notin toolsOff
    /\ Spare
    /\ tool' = [tool EXCEPT ![h] = "running"]
    /\ UNCHANGED <<handleVars, task, interrupted, authorized, playoutDone,
                   chatMessage, toolAwaits, queue, mainVars, qUpdated,
                   draining, hook, turnVars, agentState>>

\* The tool awaits a handle: RunContext.speech_handle, its own, or the one a
\* say() or a generate_reply() returned to it.
ToolAwait(h, s) ==
    /\ tool[h] = "running" /\ toolAwaits[h] = None
    /\ s \in queue \cup authorized
    /\ toolAwaits' = [toolAwaits EXCEPT ![h] = s]
    /\ UNCHANGED <<handleVars, task, interrupted, authorized, playoutDone,
                   chatMessage, tool, queue, mainVars, qUpdated,
                   draining, hook, turnVars, agentState>>

\* The tool returns; "reply": one of its outputs requires a reply.
FinishTool(h, outcome) ==
    /\ tool[h] = "running"
    /\ toolAwaits[h] \in {None} \cup playoutDone
    /\ tool' = [tool EXCEPT ![h] = outcome]
    /\ toolAwaits' = [toolAwaits EXCEPT ![h] = None]
    /\ UNCHANGED <<handleVars, task, interrupted, authorized, playoutDone,
                   chatMessage, queue, mainVars, qUpdated,
                   draining, hook, turnVars, agentState>>

\* Mutant: the limit is passed by one.
BelowToolLimitByOne(h) == stepIndex[h] <= MaxToolSteps

BelowToolLimit(h) == stepIndex[h] < MaxToolSteps

\* After "await exe_task": answer the tool with a new speech, even when draining.
\* tool_choice of the answer is "none" when draining (a hand-over to another
\* agent counts as draining), else "auto".
RespondToTool(h, noTools) ==
    /\ task[h] = "tools"
    /\ tool[h] = "reply"
    /\ BelowToolLimit(h)
    /\ draining => noTools
    /\ CreateHandle("reply", h \in interruptible, stepIndex[h] + 1, noTools)
    /\ task' = [task EXCEPT ![h] = "ended", ![created'] = "created"]
    /\ queue' = QueueWith(created', TRUE)
    /\ qUpdated' = TRUE
    /\ UNCHANGED <<interrupted, authorized, playoutDone, chatMessage,
                   toolVars, mainVars, draining, hook, turnVars, agentState>>

\* No tool was called, no reply is required, or max_tool_steps is reached.
EndReply(h) ==
    /\ task[h] = "tools"
    /\ \/ tool[h] \in {"none", "silent"}
       \/ tool[h] = "reply" /\ ~BelowToolLimit(h)
    /\ task' = [task EXCEPT ![h] = "ended"]
    /\ UNCHANGED <<handleVars, interrupted, authorized, playoutDone, chatMessage,
                   toolVars, queue, mainVars, qUpdated, draining,
                   hook, turnVars, agentState>>

\* cancel_and_wait(exe_task): a cancelled execution waits for the running tool,
\* and its output is dropped.
EndInterruptedReply(h) ==
    /\ task[h] = "cancelling"
    /\ tool[h] # "running"
    /\ task' = [task EXCEPT ![h] = "ended"]
    /\ UNCHANGED <<handleVars, interrupted, authorized, playoutDone, chatMessage,
                   toolVars, queue, mainVars, qUpdated, draining,
                   hook, turnVars, agentState>>

\* Mutant: the current speech is not looked at.
FloorIsFreeQueueOnly(done) == queue = {}

\* Mutant: a current speech that is done still counts.
FloorIsFreeNoneOnly(done) == queue = {} /\ currentSpeech = None

\* The condition of _on_pipeline_reply_done.
FloorIsFree(done) == queue = {} /\ currentSpeech \in {None} \cup done

\* The done callbacks, in the order they were added: leave _speech_tasks, mark
\* the playout done, wake the main task, _on_pipeline_reply_done.  The locals of
\* the coroutine are gone.
RunDoneCallbacks(h) ==
    /\ task[h] = "ended"
    /\ task' = [task EXCEPT ![h] = "gone"]
    /\ playoutDone' = playoutDone \cup {h}
    /\ qUpdated' = TRUE
    /\ agentState' = IF FloorIsFree(playoutDone \cup {h}) THEN "listening"
                     ELSE agentState
    /\ tool' = [tool EXCEPT ![h] = "none"]
    /\ UNCHANGED <<handleVars, interrupted, authorized, chatMessage, toolAwaits,
                   queue, mainVars, draining, hook, turnVars>>

-----------------------------------------------------------------------------
(* _main_task.  Awaiting a playout that is already done does not suspend, so one
   step authorizes the finished speeches at the top of the queue, and the first
   unfinished one.                                                            *)

\* Mutant: an interrupted playout is not awaited.
MainReadyEarly ==
    \/ mainTask = "waiting" /\ qUpdated
    \/ mainTask = "playing" /\ currentSpeech \in playoutDone \cup interrupted

MainReady ==
    \/ mainTask = "waiting" /\ qUpdated
    \/ mainTask = "playing" /\ currentSpeech \in playoutDone

\* Mutant: the last entry in is the first out.
IsTopLast(h) == \A q \in queue \ playoutDone : h >= q

\* The first entry of the heap that is not done.
IsTop(h) == \A q \in queue \ playoutDone : h <= q

PlayNext(h) ==
    /\ MainReady
    /\ h \in queue \ playoutDone
    /\ IsTop(h)
    /\ authorized' = authorized \cup {q \in queue : q <= h}
    /\ queue' = {q \in queue : q > h}
    /\ currentSpeech' = h
    /\ mainTask' = "playing"
    /\ UNCHANGED <<handleVars, task, interrupted, playoutDone, chatMessage,
                   toolVars, qUpdated, draining, hook, turnVars,
                   agentState>>

\* Mutant: the speech tasks are not looked at.
MayExitDraining == draining

MayExit == draining /\ NoSpeechTasks

RunDry ==
    /\ MainReady
    /\ queue \subseteq playoutDone
    /\ authorized' = authorized \cup queue
    /\ queue' = {}
    /\ currentSpeech' = None
    /\ IF MayExit
       THEN mainTask' = "exited" /\ UNCHANGED qUpdated
       ELSE mainTask' = "waiting" /\ qUpdated' = FALSE
    /\ UNCHANGED <<handleVars, task, interrupted, playoutDone, chatMessage,
                   toolVars, draining, hook, turnVars, agentState>>

-----------------------------------------------------------------------------
(* Interruptions *)

\* SpeechHandle.interrupt on the speeches of S, which all allow it.
Interrupted(S) == interrupted \cup (S \ playoutDone)

\* AgentActivity.interrupt: the current speech, then the heap's entries in the
\* order of its array.  A speech that does not allow interruptions raises: at
\* once if it is the current one, else after some of the queue is interrupted.
InterruptAll ==
    /\ currentSpeech # None \/ queue # {}
    /\ IF currentSpeech # None /\ currentSpeech \notin interruptible
       THEN UNCHANGED interrupted
       ELSE \E S \in SUBSET (queue \cap interruptible) :
              /\ queue \subseteq interruptible => S = queue
              /\ interrupted' = Interrupted(S \cup ({currentSpeech} \ {None}))
    /\ UNCHANGED <<handleVars, task, authorized, playoutDone, chatMessage,
                   toolVars, queue, mainVars, qUpdated, draining,
                   hook, turnVars, agentState>>

\* on_vad_inference_done: the user speaks over the current speech.
InterruptByVad ==
    /\ currentSpeech # None
    /\ currentSpeech \in interruptible \ interrupted
    /\ interrupted' = Interrupted({currentSpeech})
    /\ UNCHANGED <<handleVars, task, authorized, playoutDone, chatMessage,
                   toolVars, queue, mainVars, qUpdated, draining,
                   hook, turnVars, agentState>>

\* SpeechHandle.interrupt called by the application on a handle it was given.
InterruptHandle(h) ==
    /\ Exists(h)
    /\ h \in interruptible
    /\ interrupted' = Interrupted({h})
    /\ UNCHANGED <<handleVars, task, authorized, playoutDone, chatMessage,
                   toolVars, queue, mainVars, qUpdated, draining,
                   hook, turnVars, agentState>>

-----------------------------------------------------------------------------
(* User turns *)

\* on_end_of_turn, for a turn that is not skipped.
EndOfTurn ==
    /\ ~draining
    /\ turns < MaxTurns
    /\ Spare
    /\ turns' = turns + 1
    /\ turnTask' = [turnTask EXCEPT ![turns'] = "waiting"]
    /\ UNCHANGED <<handleVars, task, interrupted, authorized, playoutDone,
                   chatMessage, toolVars, queue, mainVars, qUpdated,
                   draining, hook, agentState>>

\* "await old_task" returned: the turn before this one is over.  If that task
\* raised, so does this one.  The reply is skipped when the current speech
\* cannot be interrupted; else on_user_turn_completed is called.
StartTurn(t) ==
    /\ turnTask[t] = "waiting"
    /\ t > 1 => turnTask[t - 1] \in {"gone", "failed"}
    /\ IF t > 1 /\ turnTask[t - 1] = "failed"
       THEN /\ turnTask' = [turnTask EXCEPT ![t] = "failed"]
            /\ qUpdated' = TRUE
            /\ UNCHANGED interrupted
       ELSE IF currentSpeech # None /\ currentSpeech \notin interruptible
       THEN /\ turnTask' = [turnTask EXCEPT ![t] = "gone"]
            /\ qUpdated' = TRUE
            /\ UNCHANGED interrupted
       ELSE /\ turnTask' = [turnTask EXCEPT ![t] = "callback"]
            /\ interrupted' = Interrupted({currentSpeech} \ {None})
            /\ UNCHANGED qUpdated
    /\ UNCHANGED <<handleVars, task, authorized, playoutDone, chatMessage,
                   toolVars, queue, mainVars, draining, hook, turns,
                   agentState>>

\* on_user_turn_completed raised StopResponse or another exception.
IgnoreTurn(t) ==
    /\ turnTask[t] = "callback"
    /\ turnTask' = [turnTask EXCEPT ![t] = "gone"]
    /\ qUpdated' = TRUE
    /\ UNCHANGED <<handleVars, task, interrupted, authorized, playoutDone,
                   chatMessage, toolVars, queue, mainVars, draining,
                   hook, turns, agentState>>

\* _generate_reply creates the task of the reply and only then schedules it:
\* when drain() came in between, scheduling raises, and the task exists but the
\* handle is in no queue.  A reply that a newer turn outdates is interrupted as
\* soon as it is scheduled, which raises if it does not allow interruptions.
ReplyToTurn(t) ==
    LET outdated == turns # t
        raises   == draining \/ (outdated /\ ~AllowInterruptions)
    IN
    /\ turnTask[t] = "callback"
    /\ CreateHandle("reply", AllowInterruptions, 0, FALSE)
    /\ task' = [task EXCEPT ![created'] = "created"]
    /\ turnTask' = [turnTask EXCEPT ![t] = IF raises THEN "failed" ELSE "gone"]
    /\ queue' = QueueWith(created', FALSE)
    /\ qUpdated' = TRUE
    /\ interrupted' = IF outdated /\ ~raises
                      THEN Interrupted({created'}) ELSE interrupted
    /\ UNCHANGED <<authorized, playoutDone, chatMessage, toolVars,
                   mainVars, draining, hook, turns, agentState>>

-----------------------------------------------------------------------------
(* Hooks and draining *)

\* Mutant: the end of a hook does not wake the main task.
EndHookSilently(k) ==
    /\ hook[k] = "running"
    /\ hook' = [hook EXCEPT ![k] = "gone"]
    /\ UNCHANGED <<handleVars, task, interrupted, authorized, playoutDone,
                   chatMessage, toolVars, queue, mainVars, qUpdated, draining,
                   turnVars, agentState>>

EndHook(k) ==
    /\ hook[k] = "running"
    /\ hook' = [hook EXCEPT ![k] = "gone"]
    /\ qUpdated' = TRUE
    /\ UNCHANGED <<handleVars, task, interrupted, authorized, playoutDone,
                   chatMessage, toolVars, queue, mainVars, draining,
                   turnVars, agentState>>

\* drain(): the agent is replaced, or the session closes.
Drain ==
    /\ ~draining
    /\ draining' = TRUE
    /\ hook' = [hook EXCEPT !["on_exit"] = "running"]
    /\ qUpdated' = TRUE
    /\ UNCHANGED <<handleVars, task, interrupted, authorized, playoutDone,
                   chatMessage, toolVars, queue, mainVars, turnVars,
                   agentState>>

-----------------------------------------------------------------------------
SpeechStep(h) ==
    \/ StartTask(h) \/ ReturnUnplayed(h) \/ StartPlaying(h) \/ FailToPlay(h)
    \/ FirstFrame(h) \/ FinishPlaying(h) \/ StopPlaying(h) \/ FinishStopping(h)
    \/ StartTool(h)
    \/ \E s \in Speech : ToolAwait(h, s)
    \/ \E outcome \in {"reply", "silent"} : FinishTool(h, outcome)
    \/ \E noTools \in BOOLEAN : RespondToTool(h, noTools)
    \/ EndReply(h) \/ EndInterruptedReply(h) \/ RunDoneCallbacks(h)
    \/ PlayNext(h) \/ InterruptHandle(h)

TurnStep(t) == StartTurn(t) \/ IgnoreTurn(t) \/ ReplyToTurn(t)

Next ==
    \/ \E allow \in BOOLEAN : Say(allow) \/ GenerateReply(allow)
    \/ \E h \in Speech : SpeechStep(h)
    \/ RunDry \/ InterruptAll \/ InterruptByVad
    \/ EndOfTurn
    \/ \E t \in Turn : TurnStep(t)
    \/ \E k \in Hook : EndHook(k)
    \/ Drain

\* The loop runs every ready task; the audio sink ends a playout; tools, hooks
\* and on_user_turn_completed, the user's code, return.
SpeechProgress(h) ==
    \/ StartTask(h) \/ ReturnUnplayed(h) \/ StartPlaying(h)
    \/ FinishPlaying(h) \/ StopPlaying(h) \/ FinishStopping(h)
    \/ \E outcome \in {"reply", "silent"} : FinishTool(h, outcome)
    \/ \E noTools \in BOOLEAN : RespondToTool(h, noTools)
    \/ EndReply(h) \/ EndInterruptedReply(h) \/ RunDoneCallbacks(h)

MainStep == RunDry \/ \E h \in Speech : PlayNext(h)

Fairness ==
    /\ \A h \in Speech : WF_vars(SpeechProgress(h))
    /\ WF_vars(MainStep)
    /\ \A t \in Turn : WF_vars(TurnStep(t))
    /\ \A k \in Hook : WF_vars(EndHook(k))

Spec == Init /\ [][Next]_vars
FairSpec == Spec /\ Fairness

-----------------------------------------------------------------------------
(* Properties *)

\* The type invariant.  It holds the limit max_tool_steps: the chain of answers
\* that follows one call of generate_reply has at most that many steps.
TypeOK ==
    /\ created \in 0 .. MaxSpeech
    /\ kind \in [Speech -> {"say", "reply"}]
    /\ interruptible \subseteq Speech /\ toolsOff \subseteq Speech
    /\ stepIndex \in [Speech -> 0 .. MaxToolSteps]
    /\ task \in [Speech -> TaskState]
    /\ interrupted \subseteq Speech /\ authorized \subseteq Speech
    /\ playoutDone \subseteq Speech /\ chatMessage \subseteq Speech
    /\ tool \in [Speech -> {"none", "running", "reply", "silent"}]
    /\ toolAwaits \in [Speech -> {None} \cup Speech]
    /\ queue \subseteq Speech
    /\ currentSpeech \in {None} \cup Speech
    /\ mainTask \in {"waiting", "playing", "exited"}
    /\ qUpdated \in BOOLEAN /\ draining \in BOOLEAN
    /\ hook \in [Hook -> {"none", "running", "gone"}]
    /\ turns \in 0 .. MaxTurns
    /\ turnTask \in [Turn -> {"none", "waiting", "callback", "gone", "failed"}]
    /\ agentState \in {"listening", "thinking", "speaking"}

\* The audio output is never shared: at most one speech forwards to it, or is
\* still waiting for it to be flushed, whatever is interrupted and whenever
\* (the main task pops a speech only once the one before it marked its playout
\* done, and every path of the speech tasks leaves the output before that).
OneSpeechOnFloor ==
    \A g, h \in Speech : OnFloor(g) /\ OnFloor(h) => g = h

\* Speeches are heard in the order in which they were scheduled: when one plays,
\* every older one that will ever play has finished (the heap of _speech_q and
\* its time.monotonic_ns tie-break).
PlayedInOrder ==
    \A h \in Speech : OnFloor(h) =>
        \A g \in 1 .. h - 1 :
            g \notin queue /\ (g \in authorized => g \in playoutDone)

\* The session never shows "listening" while a speech that has produced output
\* is playing, although finished, queued and skipped speeches update the same
\* state from their own tasks (_on_pipeline_reply_done guards it).
NeverListeningWhileSpeaking ==
    \A h \in Speech : task[h] = "speaking" => agentState # "listening"

\* _set_chat_message never raises: a message is recorded at most once per speech
\* and before its playout is marked done, so who awaits the handle finds it.
MessageBeforeDone ==
    [][\A h \in chatMessage' \ chatMessage : h \notin playoutDone /\ OnFloor(h)]_vars

\* When _main_task returns, which lets drain() return, no speech task is left
\* that could still speak, call a tool, or use the agent.
DrainLosesNothing ==
    mainTask = "exited" => draining /\ NoSpeechTasks /\ queue = {}

\* Once draining, only the answer to a function tool is scheduled
\* (bypass_draining of _schedule_speech).
OnlyToolResponsesBypassDraining ==
    [][draining => \A h \in queue' \ queue : stepIndex'[h] > 0]_vars

\* Every scheduled speech is played, skipped or cut, and its handle is resolved:
\* who awaits say() or generate_reply(), a function tool included, is woken.
ScheduledSpeechEnds ==
    \A h \in Speech : h \in queue ~> h \in playoutDone

\* A reply that exists but was refused by the queue.
Orphaned(h) ==
    Exists(h) /\ task[h] # "gone" /\ h \notin queue \cup authorized \cup interrupted

\* drain() returns, unless a turn orphaned its reply.
DrainEndsWithoutOrphan ==
    draining ~> (mainTask = "exited" \/ \E h \in Speech : Orphaned(h))

\* drain() returns: "If we're draining and there are no more speech tasks, we can
\* exit."
DrainEnds == draining ~> mainTask = "exited"

\* "Maximum consecutive tool calls per LLM turn": along a chain of answers, no
\* more than max_tool_steps speeches run a tool.
ToolCallsBounded ==
    \A h \in Speech : tool[h] # "none" => stepIndex[h] < MaxToolSteps

\* Nothing is left to run and nobody is speaking.
Quiet == /\ mainTask = "waiting" /\ ~qUpdated
         /\ queue = {} /\ currentSpeech = None
         /\ \A h \in Speech : task[h] \in {"none", "gone"}

\* Once nobody speaks, the session shows "listening", which is what starts the
\* user_away_timeout, unless a speech was interrupted without having played: the
\* "thinking" of a reply skipped in the queue can outlive it.
QuietIsListening ==
    Quiet => agentState = "listening" \/ interrupted \ chatMessage # {}

-----------------------------------------------------------------------------
(* What the queue promises, and how this module's state shows it: a speech that
   is resolved neither waits for the floor nor has it, whatever the queue and
   its future still say.                                                     *)
Floor == INSTANCE SpeechFloor WITH
    waiting  <- queue \ playoutDone,
    granted  <- authorized \ playoutDone,
    speaking <- {h \in Speech : OnFloor(h)},
    resolved <- playoutDone

\* _schedule_speech, _main_task and the speech tasks together implement a floor
\* that is granted first come, first served, to one speech at a time, and that a
\* speech gives up before anybody else is granted it.
ImplementsFloor == Floor!Spec
=============================================================================
