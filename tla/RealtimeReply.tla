---------------------------- MODULE RealtimeReply --------------------------
(***************************************************************************)
(* How an AgentActivity speaks with a realtime model: _realtime_reply_task *)
(* and _realtime_generation_task of voice/agent_activity.py, the queue     *)
(* they share and the response the service generates.  The service makes   *)
(* one response at a time, and is external.  A speech is a number, in the  *)
(* order in which handles are created, which is that of the queue.         *)
(***************************************************************************)
EXTENDS Naturals, FiniteSets

CONSTANTS
    MaxSpeech,  \* bound: speeches
    Given,      \* bound: the tool choices that the application gives a reply
    MaxChanges  \* bound: changes of the tool choice by the application

Speech   == 1 .. MaxSpeech
NoSpeech == 0
Skipped  == MaxSpeech + 1   \* a response that no speech is made of
Choices  == {"auto", "none"}
NotGiven == "not given"
Turn     == "turn"          \* in place of a choice: a response that was not asked for

VARIABLES
    serverTurns, \* capabilities.turn_detection
    created,     \* handles created so far
    allow,       \* speeches that allow interruptions
    task,        \* the task of each speech, with what it knows
    interrupted, authorized, done,
    queue,       \* _speech_q
    current,     \* _current_speech
    main,        \* where _main_task stands
    draining,    \* _draining
    active,      \* the speech whose response the service generates
    toolChoice,  \* of the activity
    rtChoice,    \* of the session
    stale,       \* the application changed the choice while a reply went on
    agentState,
    changes

handleVars == <<interrupted, authorized, done>>
turnVars   == <<serverTurns, created, allow, queue>>
mainVars   == <<current, main, draining>>
choiceVars == <<toolChoice, rtChoice, stale, changes>>
vars == <<turnVars, task, handleVars, mainVars, active, choiceVars, agentState>>

(* The task of a speech:
     at          "none" before there is a handle; "waiting" for the authorization; "input" in
                 update_chat_ctx with what the user is to have said; "asking" in
                 generate_reply; "reading" in _read_messages, which forwards the message to
                 the outputs; "playout" in wait_for_playout; "stopping" when interrupted,
                 until the playout is over; "cancelling" while its tools, which are not
                 cancelled themselves, go on; "tools" when they go on after the playout;
                 "updating" in update_chat_ctx with their outputs; and "over"
     given       its tool choice
     response    "none", "open", "complete", "refused", or why it was cut
     heard       its first frame was played
     recorded    it was added to the chat
     tool        its function tool: "none", "running", "silent", "reply"
     original    ori_tool_choice
     asked       the choice its response was made with
     overlaps    the task of another reply went on when it was asked for            *)
NoTask == [at |-> "none", given |-> NotGiven, response |-> "none", heard |-> FALSE,
           recorded |-> FALSE, tool |-> "none", original |-> "auto", asked |-> NotGiven,
           overlaps |-> FALSE]

Goes(h)     == task[h].at \notin {"none", "over"}
OnFloor(h)  == task[h].at \in {"reading", "playout", "stopping"}
Plays(h)    == task[h].at \in {"reading", "playout"}
Restores(h) == Goes(h) /\ task[h].given # Turn /\ task[h].at \notin {"waiting", "input"}

Init ==
    /\ serverTurns \in BOOLEAN
    /\ created = 0 /\ allow = {} /\ task = [h \in Speech |-> NoTask]
    /\ interrupted = {} /\ authorized = {} /\ done = {}
    /\ queue = {} /\ current = NoSpeech /\ main = "idle" /\ draining = FALSE
    /\ active = NoSpeech
    /\ toolChoice = "auto" /\ rtChoice = "auto" /\ stale = FALSE /\ changes = 0
    /\ agentState = "listening"

-----------------------------------------------------------------------------
(* New speeches *)

\* Bound: a handle is kept for the answer to each tool that needs one.
Spare == created + Cardinality({h \in Speech : task[h].tool = "reply"}) < MaxSpeech

\* SpeechHandle.create, _create_speech_task and _schedule_speech, with the tasks that remain.
NewSpeech(tasks, how, response, allowed) ==
    LET h == created + 1 IN
    /\ created' = h /\ queue' = queue \cup {h}
    /\ allow' = IF allowed THEN allow \cup {h} ELSE allow
    /\ task' = [tasks EXCEPT ![h].at = "waiting", ![h].given = how, ![h].response = response]
    /\ UNCHANGED serverTurns

\* _generate_reply, by the application or at the end of a user's turn that the agent detects:
\* "the RealtimeModel uses a server-side turn detection, allow_interruptions cannot be False".
\* (When it is called while the activity drains, it raises and leaves a task that waits for
\* ever, as it does in SpeechScheduling.)
GenerateReply ==
    /\ ~draining /\ Spare
    /\ \E how \in Given, allowed \in BOOLEAN :
        (serverTurns => allowed) /\ NewSpeech(task, how, "none", allowed)
    /\ UNCHANGED <<handleVars, mainVars, active, choiceVars, agentState>>

\* _on_generation_created: the service answers the user; nobody hears it of an activity that
\* drains.
TurnCreated ==
    /\ serverTurns /\ active = NoSpeech /\ Spare
    /\ IF draining THEN active' = Skipped /\ UNCHANGED <<turnVars, task>>
                   ELSE active' = created + 1 /\ NewSpeech(task, Turn, "open", TRUE)
    /\ UNCHANGED <<handleVars, mainVars, choiceVars, agentState>>

-----------------------------------------------------------------------------
(* Interruptions *)

\* interrupt() of the session cancels the response under way, whosever it is.
Cut(why) ==
    IF active \in Speech /\ Goes(active) THEN [task EXCEPT ![active].response = why] ELSE task

\* interrupt(), of the application or for _on_input_speech_started: it raises at the first
\* speech that does not allow it, and leaves what comes after.
Interrupt ==
    LET speeches == queue \cup ({current} \ {NoSpeech})
        refuses  == speeches \ allow
    IN /\ speeches # {}
       /\ interrupted' = interrupted \cup
              {h \in speeches \ done : \A r \in refuses : h < r /\ r # current}
       /\ IF refuses = {} THEN active' = NoSpeech /\ task' = Cut("interrupted")
                          ELSE UNCHANGED <<active, task>>
       /\ UNCHANGED <<turnVars, authorized, done, mainVars, choiceVars, agentState>>

\* on_vad_inference_done and _user_turn_completed_task, where the agent detects the turns:
\* the session is interrupted, and of the speeches only the current one.
UserInterrupts ==
    /\ ~serverTurns /\ current \in allow \ interrupted
    /\ interrupted' = interrupted \cup ({current} \ done)
    /\ active' = NoSpeech /\ task' = Cut("interrupted")
    /\ UNCHANGED <<turnVars, authorized, done, mainVars, choiceVars, agentState>>

\* update_options, with another choice
UpdateOptions(choice) ==
    /\ changes < MaxChanges /\ choice # toolChoice
    /\ changes' = changes + 1 /\ toolChoice' = choice /\ rtChoice' = choice
    /\ stale' = (stale \/ \E h \in Speech : Restores(h))
    /\ UNCHANGED <<turnVars, task, handleVars, mainVars, active, agentState>>

-----------------------------------------------------------------------------
(* The main task *)

\* Mutant: it does not wait for the playout before.
WithoutWaiting == main # "over"

\* A speech takes the output when the one before it is done.
MayAuthorize == main = "idle"

Authorize ==
    /\ MayAuthorize
    /\ \E h \in queue :
        /\ \A k \in queue : h <= k
        /\ queue' = queue \ {h} /\ current' = h /\ authorized' = authorized \cup {h}
    /\ main' = "waits"
    /\ UNCHANGED <<serverTurns, created, allow, task, interrupted, done, draining, active,
                   choiceVars, agentState>>

PlayoutDone ==
    /\ main = "waits" /\ current \in done
    /\ current' = NoSpeech /\ main' = "idle"
    /\ UNCHANGED <<turnVars, task, handleVars, draining, active, choiceVars, agentState>>

MainExits ==
    /\ main = "idle" /\ queue = {} /\ draining /\ \A h \in Speech : ~Goes(h)
    /\ main' = "over"
    /\ UNCHANGED <<turnVars, task, handleVars, current, draining, active, choiceVars, agentState>>

Drain ==
    /\ ~draining /\ draining' = TRUE
    /\ UNCHANGED <<turnVars, task, handleVars, current, main, active, choiceVars, agentState>>

-----------------------------------------------------------------------------
(* _realtime_reply_task *)

\* A task ends: a reply restores the choice (its finally), and the done callback marks the
\* playout done, "in case something goes wrong".
Ended(h) == [NoTask EXCEPT !.at = "over"]
Ends(h) ==
    /\ done' = done \cup {h}
    /\ rtChoice' = IF Restores(h) /\ task[h].given \notin {NotGiven, task[h].original}
                   THEN task[h].original ELSE rtChoice
    /\ UNCHANGED <<interrupted, authorized, mainVars, toolChoice, stale, changes>>

Over(h) ==
    /\ task' = [task EXCEPT ![h] = Ended(h)] /\ Ends(h)
    /\ UNCHANGED <<turnVars, active, agentState>>

\* A step of the task of h that changes nothing but what the task knows.
Goto(h, next) ==
    /\ task' = [task EXCEPT ![h] = next]
    /\ UNCHANGED <<turnVars, handleVars, mainVars, active, choiceVars>>

\* It goes on when it is authorized, and also when it is interrupted before.
Waited(h) == task[h].at = "waiting" /\ h \in authorized \cup interrupted

ReplyInput(h) ==
    /\ Waited(h) /\ task[h].given # Turn
    /\ Goto(h, [task[h] EXCEPT !.at = "input"]) /\ UNCHANGED agentState

InputFails(h) == task[h].at = "input" /\ Over(h)

\* The response is made with the choice of the session, and refused while the service makes
\* another.
AskReply(h) ==
    LET choice == IF task[h].given = NotGiven THEN rtChoice ELSE task[h].given IN
    /\ task[h].at = "input" \/ (Waited(h) /\ task[h].given # Turn)
    /\ rtChoice' = choice
    /\ active' = IF active = NoSpeech THEN h ELSE active
    /\ task' = [task EXCEPT ![h] = [@ EXCEPT
                   !.at = "asking", !.original = toolChoice, !.asked = choice,
                   !.overlaps = \E k \in Speech : Restores(k),
                   !.response = IF active = NoSpeech THEN "open" ELSE "refused"]]
    /\ UNCHANGED <<turnVars, handleVars, mainVars, toolChoice, stale, changes, agentState>>

Refused(h) == task[h].at = "asking" /\ task[h].response = "refused" /\ Over(h)

-----------------------------------------------------------------------------
(* _realtime_generation_task *)

\* The response is there, asked for or not, and the speech authorized; one that was
\* interrupted meanwhile leaves the message to the service.
Begin(h) ==
    /\ (Waited(h) /\ task[h].given = Turn) \/ (task[h].at = "asking" /\ task[h].response # "refused")
    /\ IF h \in interrupted THEN Over(h)
       ELSE Goto(h, [task[h] EXCEPT !.at = "reading"]) /\ UNCHANGED agentState

\* _on_first_frame of the message.
FirstFrame(h) ==
    /\ task[h].at = "reading" /\ ~task[h].heard /\ task[h].response \in {"open", "complete"}
    /\ Goto(h, [task[h] EXCEPT !.heard = TRUE]) /\ agentState' = "speaking"

\* A tool is called while the message is read; not by a reply that was given "none".
ToolCalled(h) ==
    /\ Plays(h) /\ task[h].tool = "none" /\ task[h].given # "none"
    /\ task[h].response \in {"open", "complete"}
    /\ Goto(h, [task[h] EXCEPT !.tool = "running"]) /\ UNCHANGED agentState

ToolEnds(h) ==
    /\ task[h].tool = "running"
    /\ \E answer \in {"silent"} \cup (IF Spare THEN {"reply"} ELSE {}) :
        Goto(h, [task[h] EXCEPT !.tool = answer])
    /\ UNCHANGED agentState

\* The streams of the response end with it.
ReadEnds(h) ==
    /\ task[h].at = "reading" /\ task[h].response # "open" /\ h \notin interrupted
    /\ Goto(h, [task[h] EXCEPT !.at = "playout"]) /\ UNCHANGED agentState

\* Played to its end: the message is recorded before the playout is done.
PlayedOut(h) ==
    /\ task[h].at = "playout" /\ h \notin interrupted
    /\ task' = [task EXCEPT ![h].at = "tools", ![h].recorded = task[h].heard]
    /\ done' = done \cup {h}
    /\ agentState' = IF task[h].tool = "none" THEN "listening" ELSE "thinking"
    /\ UNCHANGED <<turnVars, interrupted, authorized, mainVars, active, choiceVars>>

Stop(h) ==
    /\ Plays(h) /\ h \in interrupted
    /\ Goto(h, [task[h] EXCEPT !.at = "stopping"]) /\ agentState' = "listening"

\* What was heard of it is recorded, and the rest cut off at the service.
Stopped(h) ==
    /\ task[h].at = "stopping"
    /\ task' = [task EXCEPT ![h].at = "cancelling", ![h].recorded = task[h].heard]
    /\ done' = done \cup {h}
    /\ UNCHANGED <<turnVars, interrupted, authorized, mainVars, active, choiceVars, agentState>>

\* Nothing is made of the tools of an interrupted speech, or of no tool.
TaskEnds(h) ==
    /\ \/ task[h].at = "cancelling" /\ task[h].tool # "running"
       \/ task[h].at = "tools" /\ task[h].tool = "none"
       \/ task[h].at = "updating" /\ task[h].tool = "silent"
    /\ Over(h)

UpdateOutputs(h) ==
    /\ task[h].at = "tools" /\ task[h].tool \in {"silent", "reply"}
    /\ Goto(h, [task[h] EXCEPT !.at = "updating"]) /\ UNCHANGED agentState

\* The reply to the outputs, for which the session is interrupted; it is scheduled also while
\* the activity drains.  A tool may hand over to another agent, too.
ToolReply(h) ==
    /\ task[h].at = "updating" /\ task[h].tool = "reply"
    /\ active' = NoSpeech
    /\ \E handsOver \in BOOLEAN :
        NewSpeech([Cut("superseded") EXCEPT ![h] = Ended(h)],
                  IF draining \/ handsOver \/ task[h].given = "none" THEN "none" ELSE "auto",
                  "none", h \in allow)
    /\ Ends(h)
    /\ UNCHANGED agentState

-----------------------------------------------------------------------------
(* The service *)

ResponseDone ==
    /\ active # NoSpeech
    /\ active' = NoSpeech
    /\ task' = Cut("complete")
    /\ UNCHANGED <<turnVars, handleVars, mainVars, choiceVars, agentState>>

-----------------------------------------------------------------------------
SpeechStep(h) ==
    \/ ReplyInput(h) \/ InputFails(h) \/ AskReply(h) \/ Refused(h) \/ Begin(h)
    \/ ReadEnds(h) \/ PlayedOut(h) \/ Stop(h) \/ Stopped(h)
    \/ TaskEnds(h) \/ UpdateOutputs(h) \/ ToolReply(h)

Next ==
    \/ GenerateReply \/ TurnCreated \/ Interrupt \/ UserInterrupts
    \/ \E choice \in Choices : UpdateOptions(choice)
    \/ Authorize \/ PlayoutDone \/ MainExits \/ Drain \/ ResponseDone
    \/ \E h \in Speech : SpeechStep(h) \/ FirstFrame(h) \/ ToolCalled(h) \/ ToolEnds(h)

\* The tasks run, the tools end, and so does a response.
Fairness ==
    /\ WF_vars(Authorize) /\ WF_vars(PlayoutDone) /\ WF_vars(MainExits) /\ WF_vars(ResponseDone)
    /\ \A h \in Speech : WF_vars(SpeechStep(h)) /\ WF_vars(ToolEnds(h))

Spec == Init /\ [][Next]_vars /\ Fairness

-----------------------------------------------------------------------------
(* Properties *)

TypeOK ==
    /\ created \in 0 .. MaxSpeech /\ allow \subseteq 1 .. created /\ queue \subseteq 1 .. created
    /\ \A h \in Speech :
        /\ task[h].given \in Choices \cup {NotGiven, Turn}
        /\ task[h].response \in {"none", "open", "complete", "refused", "interrupted", "superseded"}
    /\ main \in {"idle", "waits", "over"} /\ current \in 0 .. created
    /\ active \in 0 .. MaxSpeech + 1 /\ agentState \in {"listening", "speaking", "thinking"}

\* One speech uses the outputs at a time, the current one, and the agent is not shown to
\* listen, or to think of an earlier one's tools, while it is heard.
OneIsHeard ==
    \A h \in Speech :
        /\ OnFloor(h) => h = current /\ h \notin done
        /\ Plays(h) /\ task[h].heard => agentState = "speaking"

\* A speech whose message was heard has it recorded when it is done, and only then is the
\* next one heard.
MessageIsRecorded ==
    \A h \in done : Goes(h) /\ task[h].heard => task[h].recorded

\* A response that an interruption cuts is that of a speech that is interrupted: no other
\* speech loses its own.  (The reply to a tool may cut whatever response is under way.)
NobodyElseIsCut ==
    \A h \in Speech : task[h].response = "interrupted" => h \in interrupted

\* A response is made with the tool choice of its reply, or of the activity; unless another
\* reply had not ended when it was asked for, or restored a choice changed meanwhile.
OwnChoice ==
    \A h \in Speech : LET t == task[h] IN
        t.asked # NotGiven /\ ~t.overlaps /\ ~stale =>
            t.asked = IF t.given = NotGiven THEN t.original ELSE t.given

\* When no reply goes on, the session has the choice of the activity; unless it was changed
\* while one went on.
ChoiceIsRestored == stale \/ (\E h \in Speech : Restores(h)) \/ rtChoice = toolChoice

\* What is scheduled is done in the end, and a drain ends.
SpeechesEnd ==
    /\ \A h \in Speech : task[h].at = "waiting" ~> h \in done
    /\ draining ~> main = "over"
=============================================================================
