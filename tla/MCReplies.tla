------------------------------ MODULE MCReplies ------------------------------
(***************************************************************************)
(* The speeches of an agent driven by an LLM, and those of one driven by a *)
(* realtime model, that TLC checks in one run.  They share no state: a     *)
(* behaviour is one of the kind of model that its initial state names.     *)
(***************************************************************************)
EXTENDS MCSpeechScheduling

CONSTANTS
    Given, MaxChanges  \* of RealtimeReply

VARIABLES
    model, \* "llm" or "realtime"
    serverTurns, rtCreated, allow, rtTask, rtInterrupted, rtAuthorized, rtDone, rtQueue,
    rtCurrent, rtMain, rtDraining, active, toolChoice, rtChoice, stale, rtState, changes

rtVars  == <<serverTurns, rtCreated, allow, rtTask, rtInterrupted, rtAuthorized, rtDone, rtQueue,
             rtCurrent, rtMain, rtDraining, active, toolChoice, rtChoice, stale, rtState, changes>>
allVars == <<model, vars, rtVars>>

Realtime == INSTANCE RealtimeReply WITH created <- rtCreated, task <- rtTask,
                interrupted <- rtInterrupted, authorized <- rtAuthorized, done <- rtDone,
                queue <- rtQueue, current <- rtCurrent, main <- rtMain,
                draining <- rtDraining, agentState <- rtState

ASSUME RepliesAssumption ==
    Given \subseteq Realtime!Choices \cup {Realtime!NotGiven} /\ MaxChanges \in Nat

WithLLM      == model = "llm"
WithRealtime == model = "realtime"

RepliesInit ==
    /\ model \in {"llm", "realtime"}
    /\ Init /\ Realtime!Init
    /\ WithLLM => serverTurns

RepliesNext ==
    /\ IF WithLLM THEN Next ELSE UNCHANGED vars
    /\ IF WithRealtime THEN Realtime!Next ELSE UNCHANGED rtVars
    /\ UNCHANGED model

\* The fairness of each, while it is the one that runs.
FairLLM ==
    /\ \A h \in Speech : WF_vars(WithLLM /\ SpeechProgress(h))
    /\ WF_vars(WithLLM /\ MainStep)
    /\ \A t \in Turn : WF_vars(WithLLM /\ TurnStep(t))
    /\ \A k \in Hook : WF_vars(WithLLM /\ EndHook(k))

FairRealtime ==
    /\ WF_rtVars(WithRealtime /\ Realtime!Authorize)
    /\ WF_rtVars(WithRealtime /\ Realtime!PlayoutDone)
    /\ WF_rtVars(WithRealtime /\ Realtime!MainExits)
    /\ WF_rtVars(WithRealtime /\ Realtime!ResponseDone)
    /\ \A h \in Speech :
        /\ WF_rtVars(WithRealtime /\ Realtime!SpeechStep(h))
        /\ WF_rtVars(WithRealtime /\ Realtime!ToolEnds(h))

RepliesSpec == RepliesInit /\ [][RepliesNext]_allVars /\ FairLLM /\ FairRealtime

-----------------------------------------------------------------------------
\* Of the speeches of an activity with a realtime model one is heard at a time and recorded
\* before the next; an interruption cuts the response of no other; and each is made with its
\* own tool choice, which is restored after it, unless replies overlap, or the choice was
\* changed meanwhile.
RepliesInStep ==
    /\ Realtime!TypeOK /\ Realtime!OneIsHeard /\ Realtime!MessageIsRecorded
    /\ Realtime!NobodyElseIsCut /\ Realtime!OwnChoice /\ Realtime!ChoiceIsRestored

\* With either kind of model, every speech that is scheduled is resolved, and a drain ends,
\* unless a turn orphaned its reply.
SpeechesEnd ==
    ScheduledSpeechEnds /\ DrainEndsWithoutOrphan /\ Realtime!SpeechesEnd
=============================================================================
