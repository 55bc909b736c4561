-------------------------- MODULE RealtimeReplyProofs --------------------------
(***************************************************************************)
(* What holds of the speeches of an agent with a realtime model, for any   *)
(* number of speeches: RepliesInStep of MCReplies, whichever kind of model *)
(* a behaviour has.  The argument is that of SpeechSchedulingProofs (the   *)
(* floor belongs to the current speech until its playout is done), with    *)
(* two more: the response under way is open and that of a speech which an  *)
(* interruption reaches, and the choice of the session is that of the      *)
(* activity or is owed to a reply that will restore it.                    *)
(***************************************************************************)
EXTENDS MCReplies, FiniteSetTheorems, TLAPS

\* What a task knows.  A response that was not asked for has no input to wait for.
Record ==
    {r \in [at : {"none", "waiting", "input", "asking", "reading", "playout", "stopping",
                  "cancelling", "tools", "updating", "over"},
            given : Realtime!Choices \cup {Realtime!NotGiven, Realtime!Turn},
            response : {"none", "open", "complete", "refused", "interrupted", "superseded"},
            heard : BOOLEAN, recorded : BOOLEAN,
            tool : {"none", "running", "silent", "reply"},
            original : Realtime!Choices,
            asked : Realtime!Choices \cup {Realtime!NotGiven},
            overlaps : BOOLEAN] : r.at = "input" => r.given # Realtime!Turn}

RtTypes ==
    /\ rtTask \in [Speech -> Record]
    /\ serverTurns \in BOOLEAN /\ rtDraining \in BOOLEAN /\ stale \in BOOLEAN
    /\ rtCreated \in 0 .. MaxSpeech
    /\ allow \subseteq 1 .. rtCreated /\ rtQueue \subseteq 1 .. rtCreated
    /\ rtInterrupted \subseteq 1 .. rtCreated /\ rtAuthorized \subseteq 1 .. rtCreated
    /\ rtDone \subseteq 1 .. rtCreated
    /\ rtCurrent \in 0 .. rtCreated /\ rtMain \in {"idle", "waits", "over"}
    /\ active \in 0 .. rtCreated \cup {Realtime!Skipped}
    /\ toolChoice \in Realtime!Choices /\ rtChoice \in Realtime!Choices
    /\ rtState \in {"listening", "speaking", "thinking"}

\* A handle is set aside for the answer to each tool that needs one.
Answering == {h \in Speech : rtTask[h].tool = "reply"}
Reserved  == rtCreated + Cardinality(Answering) <= MaxSpeech

\* A handle that exists is queued until it is authorized; no other has a task.
HandlesQueued ==
    /\ \A h \in Speech : h > rtCreated => rtTask[h] = Realtime!NoTask
    /\ 1 .. rtCreated \subseteq rtQueue \cup rtAuthorized
    /\ rtQueue \cap rtAuthorized = {}

Basics == RtTypes /\ Reserved /\ HandlesQueued

-----------------------------------------------------------------------------
\* The tool answers to come are finitely many, before and after a step.
LEMMA AnsweringFinite ==
    /\ IsFiniteSet(Answering) /\ Cardinality(Answering) \in Nat
    /\ IsFiniteSet(Answering') /\ Cardinality(Answering') \in Nat
<1>1. IsFiniteSet(Speech)
  BY SpeechAssumption, FS_Interval DEF Speech
<1>2. Answering \subseteq Speech /\ Answering' \subseteq Speech
  BY DEF Answering
<1>3. QED
  BY <1>1, <1>2, FS_Subset, FS_CardinalityType

\* No handle exists at first, and nothing refers to one.
LEMMA BasicsInit == Realtime!Init => Basics
<1> SUFFICES ASSUME Realtime!Init PROVE Basics
  OBVIOUS
<1>1. rtTask = [h \in Speech |-> Realtime!NoTask] /\ Realtime!NoTask \in Record
  BY DEF Realtime!Init, Realtime!NoTask, Record, Realtime!Choices, Realtime!NotGiven,
     Realtime!Turn, Speech, Realtime!Speech
<1>a. /\ serverTurns \in BOOLEAN /\ rtDraining = FALSE /\ stale = FALSE
      /\ rtCreated = 0 /\ allow = {} /\ rtQueue = {} /\ rtInterrupted = {}
      /\ rtAuthorized = {} /\ rtDone = {} /\ rtCurrent = 0 /\ active = 0
      /\ rtMain = "idle" /\ toolChoice = "auto" /\ rtChoice = "auto"
      /\ rtState = "listening"
  BY DEF Realtime!Init, Realtime!NoSpeech
<1>b. serverTurns \in BOOLEAN /\ rtDraining \in BOOLEAN /\ stale \in BOOLEAN
  BY <1>a, Zenon
<1>c. rtTask \in [Speech -> Record]
  BY <1>1 DEF Speech, Realtime!Speech
<1>2. RtTypes
  BY <1>a, <1>b, <1>c, SpeechAssumption DEF RtTypes, Realtime!Choices
<1>3. Answering = {}
  BY <1>1 DEF Answering, Realtime!NoTask
<1>4. Reserved
  BY <1>2, <1>3, FS_EmptySet, SpeechAssumption DEF Reserved, Realtime!Init
<1>5. HandlesQueued
  BY <1>1 DEF HandlesQueued, Realtime!Init
<1>6. QED
  BY <1>2, <1>4, <1>5 DEF Basics

\* What RealtimeReply counts is what this module counts.
LEMMA SameCount == \A S : Realtime!Cardinality(S) = Cardinality(S)
  BY DEF Cardinality, Realtime!Cardinality

\* Room for a handle that is not reserved is room for the next one.
LEMMA SpareIsRoom ==
    ASSUME Basics, Realtime!Spare
    PROVE  /\ rtCreated + 1 \in Speech
           /\ rtCreated + 1 + Cardinality(Answering) <= MaxSpeech
<1>1. Realtime!Speech = Speech
  BY DEF Realtime!Speech, Speech
<1>2. rtCreated + Cardinality(Answering) < MaxSpeech
  BY SameCount DEF Realtime!Spare, Answering, Realtime!Speech, Speech
<1>3. QED
  BY <1>2, AnsweringFinite, SpeechAssumption DEF Basics, RtTypes, Speech

\* What is known of a task that has ended.
LEMMA EndedTask ==
    \A h : /\ Realtime!Ended(h) \in Record
          /\ Realtime!Ended(h).at = "over" /\ Realtime!Ended(h).given # Realtime!Turn
          /\ Realtime!Ended(h).response = "none" /\ Realtime!Ended(h).tool = "none"
          /\ Realtime!Ended(h).heard = FALSE /\ Realtime!Ended(h).asked = Realtime!NotGiven
<1>1. Realtime!NotGiven # Realtime!Turn
  BY DEF Realtime!NotGiven, Realtime!Turn
<1>2. "auto" \in Realtime!Choices
  BY DEF Realtime!Choices
<1>3. QED
  BY <1>1, <1>2 DEF Realtime!Ended, Realtime!NoTask, Record

\* The answer to a tool that needs one has a handle left.
LEMMA AnswerHasRoom ==
    ASSUME Basics, NEW h \in Speech, rtTask[h].tool = "reply"
    PROVE  rtCreated + 1 \in Speech
<1>1. Cardinality(Answering) # 0
  <2>1. h \in Answering
    BY DEF Answering
  <2>2. QED
    BY <2>1, AnsweringFinite, FS_EmptySet
<1>2. QED
  BY <1>1, AnsweringFinite, SpeechAssumption DEF Basics, RtTypes, Reserved, Speech

\* A new handle is queued, and its task waits; what else becomes of the tasks keeps
\* the types, and leaves as many handles reserved.
LEMMA NewSpeechKeeps ==
    ASSUME Basics, NEW tasks \in [Speech -> Record],
           \A h \in Speech : h > rtCreated => tasks[h] = Realtime!NoTask,
           rtCreated + 1 \in Speech,
           rtCreated + 1 + Cardinality({h \in Speech : tasks[h].tool = "reply"}) <= MaxSpeech,
           NEW how \in Realtime!Choices \cup {Realtime!NotGiven, Realtime!Turn},
           NEW response \in {"none", "open"}, NEW allowed,
           Realtime!NewSpeech(tasks, how, response, allowed),
           UNCHANGED rtAuthorized
    PROVE  /\ rtTask' \in [Speech -> Record]
           /\ Reserved' /\ HandlesQueued' /\ serverTurns' = serverTurns
           /\ rtCreated' = rtCreated + 1 /\ rtCreated' \in 0 .. MaxSpeech
           /\ allow' \subseteq 1 .. rtCreated' /\ rtQueue' \subseteq 1 .. rtCreated'
           /\ rtTask'[rtCreated + 1] = [Realtime!NoTask EXCEPT !.at = "waiting",
                                          !.given = how, !.response = response]
           /\ \A h \in Speech \ {rtCreated + 1} : rtTask'[h] = tasks[h]
<1>1. Realtime!Speech = Speech
  BY DEF Realtime!Speech, Speech
<1> DEFINE c == rtCreated + 1
<1>2. /\ rtCreated' = c /\ rtQueue' = rtQueue \cup {c} /\ serverTurns' = serverTurns
      /\ allow' \subseteq allow \cup {c}
      /\ rtTask' = [tasks EXCEPT ![c].at = "waiting", ![c].given = how, ![c].response = response]
  BY DEF Realtime!NewSpeech
<1>3. tasks[c] = Realtime!NoTask /\ c \in Speech
  BY SpeechAssumption DEF Basics, RtTypes, Speech
<1>4. Realtime!NoTask \in Record
  BY DEF Realtime!NoTask, Record, Realtime!Choices, Realtime!NotGiven, Realtime!Turn
<1> HIDE DEF c
<1>5. rtTask'[c] = [Realtime!NoTask EXCEPT !.at = "waiting", !.given = how, !.response = response]
      /\ \A h \in Speech \ {c} : rtTask'[h] = tasks[h]
  BY <1>2, <1>3
<1>6. rtTask' \in [Speech -> Record]
  <2>1. rtTask'[c] \in Record
    BY <1>5, <1>4 DEF Record
  <2>2. rtTask' = [h \in Speech |-> rtTask'[h]]
    BY <1>2
  <2>3. QED
    BY <1>5, <2>1, <2>2
<1>7. Answering' = {h \in Speech : tasks[h].tool = "reply"}
  <2>1. tasks[c].tool = "none" /\ rtTask'[c].tool = "none"
    BY <1>3, <1>5 DEF Realtime!NoTask
  <2>2. \A h \in Speech : rtTask'[h].tool = "reply" <=> tasks[h].tool = "reply"
    BY <1>5, <2>1
  <2>3. QED
    BY <2>2 DEF Answering
<1>8. c \in Nat /\ rtCreated \in Nat /\ c = rtCreated + 1
  BY SpeechAssumption DEF c, Basics, RtTypes
<1>9. Reserved'
  BY <1>2, <1>7, <1>8 DEF Reserved, c
<1>10. HandlesQueued'
  BY <1>2, <1>3, <1>5, <1>8 DEF HandlesQueued, Basics, RtTypes, Speech
<1>11. QED
  BY <1>2, <1>3, <1>5, <1>6, <1>8, <1>9, <1>10, SpeechAssumption DEF Basics, RtTypes, Speech, c

\* The task of an existing handle moves on.  It may claim a handle for an answer only
\* if there is room for one.
LEMMA TaskKeeps ==
    ASSUME Basics, NEW h \in 1 .. rtCreated, NEW r \in Record,
           rtTask' = [rtTask EXCEPT ![h] = r],
           r.tool = "reply" => rtTask[h].tool = "reply" \/ Realtime!Spare,
           UNCHANGED <<rtCreated, rtQueue, rtAuthorized>>
    PROVE  /\ rtTask' \in [Speech -> Record] /\ Reserved' /\ HandlesQueued'
           /\ rtTask'[h] = r /\ \A g \in Speech \ {h} : rtTask'[g] = rtTask[g]
<1>0. h \in Speech
  BY SpeechAssumption DEF Basics, RtTypes, Speech
<1>1. rtTask' \in [Speech -> Record] /\ rtTask \in [Speech -> Record]
  BY DEF Basics, RtTypes
<1>2. rtTask'[h] = r /\ \A g \in Speech \ {h} : rtTask'[g] = rtTask[g]
  BY <1>0, <1>1
<1>3. h <= rtCreated
  BY SpeechAssumption DEF Basics, RtTypes
<1>4. HandlesQueued'
  BY <1>0, <1>2, <1>3, SpeechAssumption DEF Basics, HandlesQueued, RtTypes, Speech
<1>5. CASE r.tool = "reply" => rtTask[h].tool = "reply"
  <2>1. Answering' \subseteq Answering
    BY <1>2, <1>5 DEF Answering
  <2>2. Cardinality(Answering') <= Cardinality(Answering)
    BY <2>1, AnsweringFinite, FS_Subset
  <2>3. Reserved'
    BY <2>2, AnsweringFinite, SpeechAssumption DEF Basics, Reserved, RtTypes
  <2>4. QED
    BY <1>1, <1>2, <1>4, <2>3
<1>6. CASE Realtime!Spare
  <2>1. Answering' \subseteq Answering \cup {h}
    BY <1>2 DEF Answering
  <2>2. Cardinality(Answering \cup {h}) <= Cardinality(Answering) + 1
        /\ IsFiniteSet(Answering \cup {h})
    <3>1. /\ IsFiniteSet(Answering \cup {h})
          /\ Cardinality(Answering \cup {h}) = IF h \in Answering THEN Cardinality(Answering)
                                               ELSE Cardinality(Answering) + 1
      BY AnsweringFinite, FS_AddElement
    <3>2. QED
      BY <3>1, AnsweringFinite
  <2>3. Cardinality(Answering') <= Cardinality(Answering \cup {h})
    BY <2>1, <2>2, FS_Subset
  <2>4. Cardinality(Answering \cup {h}) \in Nat
    BY <2>2, FS_CardinalityType
  <2>5. Reserved'
    BY <1>6, <2>2, <2>3, <2>4, AnsweringFinite, SpareIsRoom, SpeechAssumption
    DEF Basics, Reserved, RtTypes
  <2>6. QED
    BY <1>1, <1>2, <1>4, <2>5
<1>7. QED
  BY <1>5, <1>6

\* Cutting or ending the response under way changes no other response, and nothing
\* else that a task knows.
LEMMA CutFields ==
    ASSUME Basics, NEW why \in {"complete", "interrupted", "superseded"}
    PROVE  /\ Realtime!Cut(why) \in [Speech -> Record]
           /\ \A h \in Speech :
                 Realtime!Cut(why)[h] =
                    IF h = active /\ Realtime!Goes(h)
                    THEN [rtTask[h] EXCEPT !.response = why] ELSE rtTask[h]
<1>1. rtTask \in [Speech -> Record]
  BY DEF Basics, RtTypes
<1>2. CASE active \in Speech /\ Realtime!Goes(active)
  <2>1. Realtime!Cut(why) = [rtTask EXCEPT ![active].response = why]
    BY <1>2 DEF Realtime!Cut, Realtime!Speech, Speech
  <2>2. [rtTask[active] EXCEPT !.response = why] \in Record
    BY <1>1, <1>2 DEF Record
  <2>3. QED
    BY <1>1, <1>2, <2>1, <2>2
<1>3. CASE ~(active \in Speech /\ Realtime!Goes(active))
  <2>1. Realtime!Cut(why) = rtTask
    BY <1>3 DEF Realtime!Cut, Realtime!Speech, Speech
  <2>2. QED
    BY <1>1, <1>3, <2>1
<1>4. QED
  BY <1>2, <1>3

\* Cutting a response leaves as many handles queued and reserved.
LEMMA CutKeeps ==
    ASSUME Basics, NEW why \in {"complete", "interrupted", "superseded"},
           rtTask' = Realtime!Cut(why),
           UNCHANGED <<rtCreated, rtQueue, rtAuthorized>>
    PROVE  rtTask' \in [Speech -> Record] /\ Reserved' /\ HandlesQueued'
<1>1. rtTask \in [Speech -> Record] /\ rtTask' \in [Speech -> Record]
  BY CutFields DEF Basics, RtTypes
<1>2. \A h \in Speech :
         \/ rtTask'[h] = rtTask[h]
         \/ Realtime!Goes(h) /\ rtTask'[h] = [rtTask[h] EXCEPT !.response = why]
  BY CutFields
<1>3. Answering' = Answering
  <2>1. \A h \in Speech : rtTask'[h].tool = rtTask[h].tool
    BY <1>1, <1>2 DEF Record
  <2>2. QED
    BY <2>1 DEF Answering
<1>4. Reserved'
  BY <1>3 DEF Reserved, Basics
<1>5. HandlesQueued'
  <2>0. Realtime!NoTask.at = "none"
    BY DEF Realtime!NoTask
  <2>1. \A h \in Speech : h > rtCreated => rtTask[h] = Realtime!NoTask /\ ~Realtime!Goes(h)
    BY <2>0 DEF HandlesQueued, Basics, Realtime!Goes
  <2>2. \A h \in Speech : h > rtCreated => rtTask'[h] = Realtime!NoTask
    BY <1>2, <2>1
  <2>3. QED
    BY <2>2 DEF HandlesQueued, Basics
<1>6. QED
  BY <1>1, <1>4, <1>5

\* One group of steps per kind of change: of one task, of the response under way, of
\* the handles there are, and of none of these.
LEMMA BasicsStep == Basics /\ [Realtime!Next]_rtVars => Basics'
<1> SUFFICES ASSUME Basics, [Realtime!Next]_rtVars PROVE Basics'
  OBVIOUS
<1> USE DEF Realtime!turnVars, Realtime!handleVars, Realtime!mainVars, Realtime!choiceVars,
            Realtime!NoSpeech
<1>0. /\ rtTask \in [Speech -> Record] /\ rtCreated \in Nat /\ MaxSpeech \in Nat
      /\ \A h \in Speech : rtTask[h] \in Record
      /\ 1 .. rtCreated \subseteq Speech
      /\ \A h \in Speech : rtTask[h].at # "none" \/ rtTask[h].tool # "none" => h \in 1 .. rtCreated
  <2>1. Realtime!NoTask \in Record /\ Realtime!NoTask.tool = "none" /\ Realtime!NoTask.at = "none"
    BY DEF Realtime!NoTask, Record, Realtime!Choices, Realtime!NotGiven, Realtime!Turn
  <2>2. QED
    BY <2>1, SpeechAssumption DEF Basics, RtTypes, HandlesQueued, Speech
<1>a. ASSUME NEW h \in 1 .. rtCreated, NEW r \in Record,
             rtTask' = [rtTask EXCEPT ![h] = r],
             r.tool = "reply" => rtTask[h].tool = "reply" \/ Realtime!Spare,
             UNCHANGED <<serverTurns, rtCreated, allow, rtQueue, rtInterrupted, rtAuthorized,
                         rtCurrent, rtMain, rtDraining, toolChoice, stale>>,
             rtDone' \in {rtDone, rtDone \cup {h}},
             rtChoice' \in Realtime!Choices, active' \in {active, 0, h},
             rtState' \in {"listening", "speaking", "thinking"}
      PROVE  Basics'
  <2>1. rtTask' \in [Speech -> Record] /\ Reserved' /\ HandlesQueued'
    BY <1>a, TaskKeeps
  <2>3. rtDone' \subseteq 1 .. rtCreated' /\ active' \in 0 .. rtCreated' \cup {Realtime!Skipped}
    BY <1>a DEF Basics, RtTypes
  <2>4. QED
    BY <1>a, <2>1, <2>3 DEF Basics, RtTypes
<1>b. ASSUME NEW why \in {"complete", "interrupted", "superseded"},
             rtTask' = Realtime!Cut(why) \/ rtTask' = rtTask,
             UNCHANGED <<serverTurns, rtCreated, allow, rtQueue, rtAuthorized, rtDone, rtCurrent,
                         rtMain, rtDraining, toolChoice, rtChoice, stale, rtState>>,
             rtInterrupted' \subseteq 1 .. rtCreated, active' \in {active, 0}
      PROVE  Basics'
  <2>1. rtTask' \in [Speech -> Record] /\ Reserved' /\ HandlesQueued'
    BY <1>b, CutKeeps DEF Basics, RtTypes, Reserved, HandlesQueued, Answering
  <2>2. QED
    BY <1>b, <2>1 DEF Basics, RtTypes
<1>c. ASSUME NEW tasks \in [Speech -> Record],
             \A h \in Speech : h > rtCreated => tasks[h] = Realtime!NoTask,
             rtCreated + 1 \in Speech,
             rtCreated + 1 + Cardinality({h \in Speech : tasks[h].tool = "reply"}) <= MaxSpeech,
             NEW how \in Realtime!Choices \cup {Realtime!NotGiven, Realtime!Turn},
             NEW response \in {"none", "open"}, NEW allowed,
             Realtime!NewSpeech(tasks, how, response, allowed),
             UNCHANGED <<rtInterrupted, rtAuthorized, rtCurrent, rtMain, rtDraining, toolChoice,
                         stale, rtState>>,
             rtDone' \subseteq 1 .. rtCreated, rtChoice' \in Realtime!Choices,
             active' \in {active, 0, rtCreated + 1}
      PROVE  Basics'
  <2>1. /\ rtTask' \in [Speech -> Record]
        /\ Reserved' /\ HandlesQueued' /\ serverTurns' = serverTurns
        /\ rtCreated' = rtCreated + 1 /\ rtCreated' \in 0 .. MaxSpeech
        /\ allow' \subseteq 1 .. rtCreated' /\ rtQueue' \subseteq 1 .. rtCreated'
    BY <1>c, NewSpeechKeeps
  <2>2. /\ rtInterrupted' \subseteq 1 .. rtCreated' /\ rtAuthorized' \subseteq 1 .. rtCreated'
        /\ rtDone' \subseteq 1 .. rtCreated' /\ rtCurrent' \in 0 .. rtCreated'
        /\ active' \in 0 .. rtCreated' \cup {Realtime!Skipped}
    BY <1>0, <1>c, <2>1 DEF Basics, RtTypes
  <2>3. QED
    BY <1>c, <2>1, <2>2 DEF Basics, RtTypes
<1>d. ASSUME UNCHANGED <<rtTask, serverTurns, rtCreated, allow, rtInterrupted, rtDone, active>>,
             rtQueue' \subseteq rtQueue, rtAuthorized' \subseteq rtAuthorized \cup rtQueue,
             rtQueue \cup rtAuthorized \subseteq rtQueue' \cup rtAuthorized',
             rtQueue' \cap rtAuthorized' = {}, rtCurrent' \in 0 .. rtCreated,
             rtMain' \in {"idle", "waits", "over"}, rtDraining' \in BOOLEAN, stale' \in BOOLEAN,
             toolChoice' \in Realtime!Choices, rtChoice' \in Realtime!Choices, UNCHANGED rtState
      PROVE  Basics'
  <2>1. Reserved' /\ HandlesQueued'
    BY <1>d DEF Basics, RtTypes, Reserved, HandlesQueued, Answering
  <2>2. rtAuthorized' \subseteq 1 .. rtCreated /\ rtQueue' \subseteq 1 .. rtCreated
    BY <1>d DEF Basics, RtTypes
  <2>3. QED
    BY <1>d, <2>1, <2>2 DEF Basics, RtTypes
<1>e. \A h \in Speech : rtTask[h].original \in Realtime!Choices
  BY <1>0 DEF Record
<1>f. ASSUME NEW h \in 1 .. rtCreated, Realtime!Over(h) PROVE Basics'
  <2>1. /\ rtTask' = [rtTask EXCEPT ![h] = Realtime!Ended(h)]
        /\ Realtime!Ended(h) \in Record /\ Realtime!Ended(h).tool = "none"
        /\ rtDone' = rtDone \cup {h}
    BY <1>f DEF Realtime!Over, Realtime!Ends, Realtime!Ended, Realtime!NoTask, Record,
       Realtime!Choices, Realtime!NotGiven, Realtime!Turn
  <2>2. rtChoice' \in Realtime!Choices
    BY <1>0, <1>f, <1>e DEF Realtime!Over, Realtime!Ends, Basics, RtTypes
  <2>3. QED
    BY <1>a, <1>f, <2>1, <2>2 DEF Realtime!Over, Realtime!Ends, Basics, RtTypes
<1>g. ASSUME NEW h \in 1 .. rtCreated, NEW r \in Record, Realtime!Goto(h, r),
             r.tool = "reply" => rtTask[h].tool = "reply" \/ Realtime!Spare,
             rtState' \in {"listening", "speaking", "thinking"}
      PROVE  Basics'
  BY <1>a, <1>g DEF Realtime!Goto, Basics, RtTypes
<1>1. CASE Realtime!GenerateReply
  <2>1. PICK how \in Given, allowed \in BOOLEAN : Realtime!NewSpeech(rtTask, how, "none", allowed)
    BY <1>1 DEF Realtime!GenerateReply
  <2>2. how \in Realtime!Choices \cup {Realtime!NotGiven, Realtime!Turn}
    BY RepliesAssumption
  <2>3. Realtime!Spare /\ \A h \in Speech : h > rtCreated => rtTask[h] = Realtime!NoTask
    BY <1>1 DEF Realtime!GenerateReply, Basics, HandlesQueued
  <2>4. QED
    BY <1>0, <1>1, <1>c, <2>1, <2>2, <2>3, SpareIsRoom
    DEF Realtime!GenerateReply, Basics, RtTypes, Answering
<1>2. CASE Realtime!TurnCreated
  <2>1. CASE rtDraining
    <3>1. active' = Realtime!Skipped /\ UNCHANGED <<rtTask, rtCreated, allow, rtQueue, serverTurns>>
      BY <1>2, <2>1 DEF Realtime!TurnCreated
    <3>2. Reserved' /\ HandlesQueued'
      BY <1>2, <3>1 DEF Realtime!TurnCreated, Basics, Reserved, HandlesQueued, Answering
    <3>3. QED
      BY <1>2, <3>1, <3>2 DEF Realtime!TurnCreated, Basics, RtTypes
  <2>2. CASE ~rtDraining
    <3>1. /\ Realtime!Spare /\ active' = rtCreated + 1
          /\ Realtime!NewSpeech(rtTask, Realtime!Turn, "open", TRUE)
          /\ \A h \in Speech : h > rtCreated => rtTask[h] = Realtime!NoTask
      BY <1>2, <2>2 DEF Realtime!TurnCreated, Basics, HandlesQueued
    <3>2. QED
      BY <1>0, <1>2, <1>c, <3>1, SpareIsRoom DEF Realtime!TurnCreated, Basics, RtTypes, Answering
  <2>3. QED
    BY <2>1, <2>2
<1>3. CASE Realtime!Interrupt
  <2>1. rtQueue \cup ({rtCurrent} \ {0}) \subseteq 1 .. rtCreated
    BY <1>0 DEF Basics, RtTypes
  <2>2. rtInterrupted' \subseteq 1 .. rtCreated
    BY <1>3, <2>1 DEF Realtime!Interrupt, Basics, RtTypes
  <2>3. /\ rtTask' = Realtime!Cut("interrupted") \/ rtTask' = rtTask
        /\ active' \in {active, 0}
    BY <1>3 DEF Realtime!Interrupt
  <2>4. QED
    BY <1>3, <1>b, <2>2, <2>3 DEF Realtime!Interrupt
<1>4. CASE Realtime!UserInterrupts
  BY <1>4, <1>b DEF Realtime!UserInterrupts, Basics, RtTypes
<1>5. ASSUME NEW choice \in Realtime!Choices, Realtime!UpdateOptions(choice) PROVE Basics'
  <2>1. stale' \in BOOLEAN
    BY <1>5, Zenon DEF Realtime!UpdateOptions, Basics, RtTypes
  <2>2. QED
    BY <1>5, <1>d, <2>1 DEF Realtime!UpdateOptions, Basics, RtTypes, HandlesQueued
<1>6. CASE Realtime!Authorize
  <2>1. PICK h \in rtQueue : /\ rtQueue' = rtQueue \ {h} /\ rtCurrent' = h
                             /\ rtAuthorized' = rtAuthorized \cup {h}
    BY <1>6 DEF Realtime!Authorize
  <2>2. h \in 0 .. rtCreated
    BY <1>0 DEF Basics, RtTypes
  <2>3. QED
    BY <1>6, <1>d, <2>1, <2>2 DEF Realtime!Authorize, Basics, RtTypes, HandlesQueued
<1>7. CASE Realtime!PlayoutDone \/ Realtime!MainExits
  <2>1. rtCurrent' \in 0 .. rtCreated /\ rtMain' \in {"idle", "waits", "over"}
    BY <1>0, <1>7 DEF Realtime!PlayoutDone, Realtime!MainExits, Basics, RtTypes
  <2>2. UNCHANGED <<rtTask, serverTurns, rtCreated, allow, rtInterrupted, rtDone, active, rtQueue,
                    rtAuthorized, rtDraining, stale, toolChoice, rtChoice, rtState>>
    BY <1>7 DEF Realtime!PlayoutDone, Realtime!MainExits
  <2>3. QED
    BY <1>d, <2>1, <2>2 DEF Basics, RtTypes, HandlesQueued
<1>8. CASE Realtime!Drain
  BY <1>8, <1>d DEF Realtime!Drain, Basics, RtTypes, HandlesQueued
<1>9. CASE Realtime!ResponseDone
  BY <1>9, <1>b DEF Realtime!ResponseDone, Basics, RtTypes
<1>10. ASSUME NEW h \in Speech,
              \/ Realtime!InputFails(h) \/ Realtime!Refused(h) \/ Realtime!TaskEnds(h)
              \/ (Realtime!Begin(h) /\ h \in rtInterrupted)
       PROVE  Basics'
  <2>1. rtTask[h].at # "none" /\ Realtime!Over(h)
    BY <1>10 DEF Realtime!InputFails, Realtime!Refused, Realtime!TaskEnds, Realtime!Begin,
       Realtime!Waited
  <2>2. QED
    BY <1>0, <1>f, <2>1
<1>11. ASSUME NEW h \in Speech, NEW at \in {"input", "reading", "playout", "stopping", "updating"},
              rtTask[h].at # "none", at = "input" => rtTask[h].given # Realtime!Turn,
              Realtime!Goto(h, [rtTask[h] EXCEPT !.at = at]),
              rtState' \in {rtState, "listening"}
       PROVE  Basics'
  <2>1. [rtTask[h] EXCEPT !.at = at] \in Record /\ [rtTask[h] EXCEPT !.at = at].tool = rtTask[h].tool
    BY <1>0, <1>11 DEF Record
  <2>2. QED
    BY <1>0, <1>11, <1>g, <2>1 DEF Basics, RtTypes
<1>12. ASSUME NEW h \in Speech,
              \/ Realtime!ReplyInput(h) \/ Realtime!ReadEnds(h) \/ Realtime!Stop(h)
              \/ Realtime!UpdateOutputs(h)
              \/ (Realtime!Begin(h) /\ h \notin rtInterrupted)
       PROVE  Basics'
  BY <1>12, <1>11 DEF Realtime!ReplyInput, Realtime!ReadEnds, Realtime!Stop,
     Realtime!UpdateOutputs, Realtime!Begin, Realtime!Waited, Realtime!Plays
<1>13. ASSUME NEW h \in Speech, Realtime!AskReply(h) PROVE Basics'
  <2>1. rtTask[h].given # Realtime!Turn /\ rtTask[h].at # "none"
    BY <1>0, <1>13 DEF Realtime!AskReply, Realtime!Waited, Record
  <2>2. PICK choice, response, overlaps :
           /\ choice = IF rtTask[h].given = Realtime!NotGiven THEN rtChoice ELSE rtTask[h].given
           /\ overlaps = \E k \in Realtime!Speech : Realtime!Restores(k)
           /\ response = IF active = Realtime!NoSpeech THEN "open" ELSE "refused"
           /\ rtChoice' = choice
           /\ rtTask' = [rtTask EXCEPT ![h] = [rtTask[h] EXCEPT !.at = "asking",
                           !.original = toolChoice, !.asked = choice, !.overlaps = overlaps,
                           !.response = response]]
    BY <1>0, <1>13 DEF Realtime!AskReply
  <2>3. choice \in Realtime!Choices
    BY <1>0, <2>1, <2>2 DEF Record, Basics, RtTypes
  <2>4. overlaps \in BOOLEAN /\ response \in {"open", "refused"}
    BY <2>2
  <2> DEFINE r == [rtTask[h] EXCEPT !.at = "asking", !.original = toolChoice, !.asked = choice,
                      !.overlaps = overlaps, !.response = response]
  <2>a. toolChoice \in Realtime!Choices /\ rtTask[h] \in Record
    BY <1>0 DEF Basics, RtTypes
  <2>5. r \in Record /\ r.tool = rtTask[h].tool
    BY <2>a, <2>3, <2>4 DEF Record
  <2>6. rtTask' = [rtTask EXCEPT ![h] = r]
    BY <2>2
  <2> HIDE DEF r
  <2>7. QED
    <3>1. h \in 1 .. rtCreated /\ rtChoice' \in Realtime!Choices
      BY <1>0, <2>1, <2>2, <2>3
    <3>2. UNCHANGED <<serverTurns, rtCreated, allow, rtQueue, rtInterrupted, rtAuthorized, rtDone,
                      rtCurrent, rtMain, rtDraining, toolChoice, stale, rtState>>
      BY <1>13 DEF Realtime!AskReply
    <3>3. active' \in {active, 0, h} /\ rtState' \in {"listening", "speaking", "thinking"}
      BY <1>13, <3>2 DEF Realtime!AskReply, Basics, RtTypes
    <3>4. QED
      BY <1>a, <2>5, <2>6, <3>1, <3>2, <3>3
<1>14. ASSUME NEW h \in Speech, Realtime!FirstFrame(h) PROVE Basics'
  <2>1. /\ [rtTask[h] EXCEPT !.heard = TRUE] \in Record
        /\ [rtTask[h] EXCEPT !.heard = TRUE].tool = rtTask[h].tool
    BY <1>0 DEF Record
  <2>2. QED
    BY <1>0, <1>14, <1>g, <2>1 DEF Realtime!FirstFrame
<1>15. ASSUME NEW h \in Speech, Realtime!ToolCalled(h) PROVE Basics'
  <2>1. /\ [rtTask[h] EXCEPT !.tool = "running"] \in Record
        /\ [rtTask[h] EXCEPT !.tool = "running"].tool = "running"
    BY <1>0 DEF Record
  <2>2. QED
    BY <1>0, <1>15, <1>g, <2>1 DEF Realtime!ToolCalled, Realtime!Plays, Basics, RtTypes
<1>16. ASSUME NEW h \in Speech, Realtime!ToolEnds(h) PROVE Basics'
  <2>1. PICK answer \in {"silent", "reply"} :
           /\ Realtime!Goto(h, [rtTask[h] EXCEPT !.tool = answer])
           /\ answer = "reply" => Realtime!Spare
    BY <1>16 DEF Realtime!ToolEnds
  <2>2. /\ [rtTask[h] EXCEPT !.tool = answer] \in Record
        /\ [rtTask[h] EXCEPT !.tool = answer].tool = answer
    BY <1>0 DEF Record
  <2>3. h \in 1 .. rtCreated
    BY <1>0, <1>16 DEF Realtime!ToolEnds
  <2>4. QED
    BY <1>16, <1>g, <2>1, <2>2, <2>3 DEF Realtime!ToolEnds, Basics, RtTypes
<1>17. ASSUME NEW h \in Speech, Realtime!PlayedOut(h) \/ Realtime!Stopped(h) PROVE Basics'
  <2>1. PICK at \in {"tools", "cancelling"} :
           rtTask' = [rtTask EXCEPT ![h] = [rtTask[h] EXCEPT !.at = at,
                                              !.recorded = rtTask[h].heard]]
    BY <1>0, <1>17 DEF Realtime!PlayedOut, Realtime!Stopped
  <2> DEFINE r == [rtTask[h] EXCEPT !.at = at, !.recorded = rtTask[h].heard]
  <2>2. r \in Record /\ r.tool = rtTask[h].tool
    BY <1>0 DEF Record
  <2>3. rtTask' = [rtTask EXCEPT ![h] = r]
    BY <2>1
  <2>4. h \in 1 .. rtCreated
    BY <1>0, <1>17 DEF Realtime!PlayedOut, Realtime!Stopped
  <2> HIDE DEF r
  <2>5. QED
    BY <1>17, <1>a, <2>2, <2>3, <2>4 DEF Realtime!PlayedOut, Realtime!Stopped, Basics, RtTypes
<1>18. ASSUME NEW h \in Speech, Realtime!ToolReply(h) PROVE Basics'
  <2> DEFINE tasks == [Realtime!Cut("superseded") EXCEPT ![h] = Realtime!Ended(h)]
  <2>1. PICK how \in Realtime!Choices : Realtime!NewSpeech(tasks, how, "none", h \in allow)
    BY <1>18 DEF Realtime!ToolReply, Realtime!Choices
  <2>2. /\ Realtime!Ended(h) \in Record /\ Realtime!Ended(h).tool = "none"
        /\ rtTask[h].tool = "reply" /\ h \in 1 .. rtCreated
    BY <1>0, <1>18 DEF Realtime!ToolReply, Realtime!Ended, Realtime!NoTask, Record,
       Realtime!Choices, Realtime!NotGiven, Realtime!Turn
  <2>3. /\ tasks \in [Speech -> Record] /\ tasks[h] = Realtime!Ended(h)
        /\ \A g \in Speech \ {h} : tasks[g] = Realtime!Cut("superseded")[g]
    BY <2>2, CutFields
  <2> HIDE DEF tasks
  <2>4. \A g \in Speech \ {h} : tasks[g].tool = rtTask[g].tool
    <3>1. SUFFICES ASSUME NEW g \in Speech \ {h} PROVE tasks[g].tool = rtTask[g].tool
      OBVIOUS
    <3>2. \/ tasks[g] = rtTask[g]
          \/ tasks[g] = [rtTask[g] EXCEPT !.response = "superseded"]
      BY <2>3, CutFields
    <3>3. QED
      BY <1>0, <3>2 DEF Record
  <2>5. {g \in Speech : tasks[g].tool = "reply"} = Answering \ {h} /\ h \in Answering
    BY <2>2, <2>3, <2>4 DEF Answering
  <2>6. Cardinality(Answering \ {h}) = Cardinality(Answering) - 1
    BY <2>5, AnsweringFinite, FS_RemoveElement
  <2>7. Cardinality(Answering) # 0
    BY <2>5, AnsweringFinite, FS_EmptySet
  <2>8. /\ rtCreated + 1 \in Speech
        /\ rtCreated + 1 + Cardinality({g \in Speech : tasks[g].tool = "reply"}) <= MaxSpeech
    <3>1. Cardinality({g \in Speech : tasks[g].tool = "reply"}) = Cardinality(Answering) - 1
      BY <2>5, <2>6
    <3>2. rtCreated + Cardinality(Answering) <= MaxSpeech /\ Cardinality(Answering) >= 1
      BY <2>7, AnsweringFinite DEF Basics, Reserved
    <3>3. QED
      BY <1>0, <3>1, <3>2, AnsweringFinite DEF Speech
  <2>9. \A g \in Speech : g > rtCreated => tasks[g] = Realtime!NoTask
    <3>1. SUFFICES ASSUME NEW g \in Speech, g > rtCreated PROVE tasks[g] = Realtime!NoTask
      OBVIOUS
    <3>2. g # h /\ rtTask[g] = Realtime!NoTask /\ Realtime!NoTask.at = "none"
      BY <1>0, <2>2, <3>1 DEF Basics, HandlesQueued, Realtime!NoTask
    <3>3. QED
      BY <2>3, <3>2, CutFields DEF Realtime!Goes
  <2>10. rtChoice' \in Realtime!Choices /\ rtDone' \subseteq 1 .. rtCreated
    BY <1>18, <1>e, <2>2 DEF Realtime!ToolReply, Realtime!Ends, Basics, RtTypes
  <2>11. QED
    BY <1>18, <1>c, <2>1, <2>3, <2>8, <2>9, <2>10 DEF Realtime!ToolReply, Realtime!Ends
<1>19. CASE UNCHANGED rtVars
  BY <1>19, <1>d DEF rtVars, Basics, RtTypes, HandlesQueued
<1>20. QED
  BY <1>1, <1>2, <1>3, <1>4, <1>5, <1>6, <1>7, <1>8, <1>9, <1>10, <1>12, <1>13, <1>14, <1>15,
     <1>16, <1>17, <1>18, <1>19
  DEF Realtime!Next, Realtime!SpeechStep, Realtime!Speech, Speech

-----------------------------------------------------------------------------
\* At most one unfinished speech was ever granted the outputs: the current one.
FloorIsCurrent == \A h \in rtAuthorized \ rtDone : h = rtCurrent /\ rtMain = "waits"

\* What is true of a speech at each stage of its task: it goes on only when authorized
\* or interrupted, and plays only when authorized; it is done when it has left the
\* outputs, with what was heard recorded; its response is over when the playout is, and
\* is none before it is asked for; and only an interrupted speech loses its response.
StageOf(h) ==
    LET t == rtTask[h] IN
    /\ t.at \in {"input", "asking"} => h \in rtAuthorized \cup rtInterrupted
    /\ Realtime!OnFloor(h) => h \in rtAuthorized
    /\ t.at \in {"waiting", "input", "asking"} \/ Realtime!OnFloor(h) => h \notin rtDone
    /\ t.at \in {"waiting", "input", "asking"} => ~t.heard
    /\ h \in rtDone /\ Realtime!Goes(h) /\ t.heard => t.recorded
    /\ t.at \in {"stopping", "cancelling"} => h \in rtInterrupted
    /\ t.at \in {"playout", "tools", "updating"} => t.response # "open"
    /\ t.at \in {"waiting", "input"} /\ t.given # Realtime!Turn => t.response = "none"
    /\ t.given = Realtime!Turn => serverTurns
    /\ t.response = "interrupted" => h \in rtInterrupted

\* The response under way is that of a task that has not seen it end.
ActiveIsOpen ==
    active \in Speech /\ Realtime!Goes(active) => rtTask[active].response = "open"

RtFloor == FloorIsCurrent /\ ActiveIsOpen /\ \A h \in Speech : StageOf(h)

\* An interruption that reaches every queued speech, or where only the agent asks for
\* responses the current one alone, reaches the speech whose response is under way.
LEMMA ActiveIsReached ==
    ASSUME Basics, RtFloor, active \in Speech, Realtime!Goes(active),
           active \notin rtInterrupted
    PROVE  /\ active \in rtQueue \cup {rtCurrent} /\ active \notin rtDone
           /\ ~serverTurns => active = rtCurrent
<1>1. /\ rtTask[active] \in Record /\ StageOf(active) /\ rtTask[active].response = "open"
  BY DEF Basics, RtTypes, RtFloor, ActiveIsOpen
<1>2. rtTask[active].at \in {"waiting", "input", "asking", "reading"}
  BY <1>1 DEF StageOf, Record, Realtime!Goes
<1>3. active \notin rtDone
  BY <1>1, <1>2 DEF StageOf, Realtime!OnFloor
<1>4. active \in 1 .. rtCreated
  <2>1. Realtime!NoTask.at = "none"
    BY DEF Realtime!NoTask
  <2>2. QED
    BY <2>1, SpeechAssumption DEF Basics, RtTypes, HandlesQueued, Realtime!Goes, Speech
<1>5. active \in rtAuthorized => active = rtCurrent
  BY <1>3 DEF RtFloor, FloorIsCurrent
<1>6. active \in rtQueue \cup rtAuthorized
  BY <1>4 DEF Basics, HandlesQueued
<1>7. ~serverTurns => active \in rtAuthorized
  BY <1>1, <1>2 DEF StageOf, Realtime!OnFloor
<1>8. QED
  BY <1>3, <1>5, <1>6, <1>7

\* What a step leaves alone of a speech keeps its stage.
LEMMA StageKeeps ==
    ASSUME NEW h \in Speech, StageOf(h), rtTask'[h] = rtTask[h],
           rtAuthorized \subseteq rtAuthorized', rtInterrupted \subseteq rtInterrupted',
           h \in rtDone' => h \in rtDone, serverTurns' = serverTurns
    PROVE  StageOf(h)'
BY DEF StageOf, Realtime!OnFloor, Realtime!Goes

\* Only the task of a speech changes its stage, and only the main task grants the
\* outputs, when the speech it granted them to before is done.
LEMMA RtFloorStep == Basics /\ RtFloor /\ [Realtime!Next]_rtVars => RtFloor'
<1> SUFFICES ASSUME Basics, RtFloor, [Realtime!Next]_rtVars PROVE RtFloor'
  OBVIOUS
<1> USE DEF Realtime!turnVars, Realtime!handleVars, Realtime!mainVars, Realtime!choiceVars,
            Realtime!NoSpeech
<1>0. /\ rtTask \in [Speech -> Record] /\ rtCreated \in Nat /\ MaxSpeech \in Nat
      /\ 1 .. rtCreated \subseteq Speech
      /\ \A h \in Speech : rtTask[h] \in Record
      /\ \A h \in Speech : StageOf(h)
  BY SpeechAssumption DEF Basics, RtTypes, Speech, RtFloor
<1>a. ASSUME NEW h \in Speech, NEW r, rtTask' = [rtTask EXCEPT ![h] = r],
             UNCHANGED <<serverTurns, rtInterrupted, rtAuthorized, rtCurrent, rtMain>>,
             rtDone' \in {rtDone, rtDone \cup {h}},
             \/ active' = active /\ (r.at \in {"none", "over"} \/ r.response = rtTask[h].response
                                       \/ active # h)
             \/ active' = h /\ r.response = "open",
             rtTask[h].at \notin {"none", "over"} \/ r.at = rtTask[h].at,
             StageOf(h)'
      PROVE  RtFloor'
  <2>1. rtTask'[h] = r /\ \A g \in Speech \ {h} : rtTask'[g] = rtTask[g]
    BY <1>0, <1>a
  <2>2. \A g \in Speech \ {h} : StageOf(g)'
    BY <1>0, <1>a, <2>1, StageKeeps
  <2>3. ActiveIsOpen'
    BY <1>a, <2>1 DEF RtFloor, ActiveIsOpen, Realtime!Goes
  <2>4. FloorIsCurrent'
    BY <1>a DEF RtFloor, FloorIsCurrent
  <2>5. QED
    BY <1>a, <2>2, <2>3, <2>4 DEF RtFloor
<1>b. ASSUME NEW why \in {"complete", "interrupted", "superseded"}, rtTask' = Realtime!Cut(why),
             UNCHANGED <<serverTurns, rtAuthorized, rtDone, rtCurrent, rtMain>>,
             rtInterrupted \subseteq rtInterrupted', active' = 0,
             why = "interrupted" /\ active \in Speech /\ Realtime!Goes(active)
                => active \in rtInterrupted'
      PROVE  RtFloor'
  <2>1. FloorIsCurrent' /\ ActiveIsOpen'
    BY <1>b DEF RtFloor, FloorIsCurrent, ActiveIsOpen, Speech
  <2>2. ASSUME NEW h \in Speech PROVE StageOf(h)'
    <3>1. CASE rtTask'[h] = rtTask[h]
      BY <1>0, <1>b, <3>1, StageKeeps
    <3>2. CASE /\ h = active /\ Realtime!Goes(h)
               /\ rtTask'[h] = [rtTask[h] EXCEPT !.response = why]
      <4>1. rtTask[h].response = "open" /\ rtTask[h] \in Record /\ StageOf(h)
        BY <1>0, <3>2 DEF RtFloor, ActiveIsOpen
      <4>2. QED
        BY <1>b, <3>2, <4>1 DEF StageOf, Realtime!OnFloor, Realtime!Goes, Record
    <3>3. QED
      BY <1>b, <3>1, <3>2, CutFields
  <2>3. QED
    BY <2>1, <2>2 DEF RtFloor
<1>c. ASSUME NEW tasks \in [Speech -> Record],
             NEW how \in Realtime!Choices \cup {Realtime!NotGiven, Realtime!Turn},
             NEW response \in {"none", "open"}, NEW allowed,
             Realtime!NewSpeech(tasks, how, response, allowed),
             rtCreated + 1 \in Speech, tasks[rtCreated + 1] = Realtime!NoTask,
             UNCHANGED <<rtInterrupted, rtAuthorized, rtCurrent, rtMain>>,
             rtDone \subseteq rtDone', rtDone' \subseteq 1 .. rtCreated,
             how = Realtime!Turn => serverTurns,
             how # Realtime!Turn => response = "none",
             \/ active' = 0
             \/ active' = rtCreated + 1 /\ response = "open"
             \/ active' = active /\ tasks = rtTask,
             \A g \in Speech \ {rtCreated + 1} : rtTask'[g] = tasks[g] => StageOf(g)'
      PROVE  RtFloor'
  <2>1. PICK c \in Speech : c = rtCreated + 1
    BY <1>c
  <2>2. /\ serverTurns' = serverTurns
        /\ rtTask'[c] = [Realtime!NoTask EXCEPT !.at = "waiting", !.given = how,
                                                !.response = response]
        /\ \A g \in Speech \ {c} : rtTask'[g] = tasks[g]
    BY <1>c, <2>1 DEF Realtime!NewSpeech
  <2> DEFINE n == rtTask'[c]
  <2>3. /\ n.at = "waiting" /\ n.given = how /\ n.response = response /\ n.heard = FALSE
    BY <2>2 DEF Realtime!NoTask
  <2>4. /\ n.given = Realtime!Turn => serverTurns'
        /\ n.given # Realtime!Turn => n.response = "none"
        /\ n.response # "interrupted" /\ c \notin rtDone'
    BY <1>0, <1>c, <2>1, <2>2, <2>3
  <2>5. StageOf(c)'
    BY <2>3, <2>4 DEF StageOf, Realtime!OnFloor, Realtime!Goes
  <2>6. ActiveIsOpen'
    <3>1. CASE active' = c /\ response = "open"
      BY <2>3, <3>1 DEF ActiveIsOpen
    <3>2. CASE active' = 0
      BY <3>2 DEF ActiveIsOpen, Speech
    <3>3. CASE active' = active /\ tasks = rtTask
      <4>1. active # c
        BY <1>0, <2>1 DEF Basics, RtTypes, Realtime!Skipped, Speech
      <4>2. QED
        BY <2>2, <3>3, <4>1 DEF RtFloor, ActiveIsOpen, Realtime!Goes
    <3>4. QED
      BY <1>c, <2>1, <3>1, <3>2, <3>3
  <2>7. FloorIsCurrent'
    BY <1>c DEF RtFloor, FloorIsCurrent
  <2>8. \A h \in Speech : StageOf(h)'
    BY <1>c, <2>1, <2>2, <2>5
  <2>9. QED
    BY <2>6, <2>7, <2>8 DEF RtFloor
<1>d. ASSUME UNCHANGED <<rtTask, serverTurns, rtDone, rtInterrupted, active>>,
             rtAuthorized \subseteq rtAuthorized', FloorIsCurrent'
      PROVE  RtFloor'
  <2>1. \A h \in Speech : StageOf(h)'
    BY <1>0, <1>d, StageKeeps
  <2>2. ActiveIsOpen'
    BY <1>d DEF RtFloor, ActiveIsOpen, Realtime!Goes
  <2>3. QED
    BY <1>d, <2>1, <2>2 DEF RtFloor
<1>e. ASSUME NEW h \in Speech, rtTask[h].at \notin {"none", "over"}, Realtime!Over(h)
      PROVE  RtFloor'
  <2>1. /\ rtTask' = [rtTask EXCEPT ![h] = Realtime!Ended(h)]
        /\ rtTask'[h] = Realtime!Ended(h)
        /\ UNCHANGED <<serverTurns, rtInterrupted, rtAuthorized, rtCurrent, rtMain, active>>
        /\ rtDone' = rtDone \cup {h}
    BY <1>0, <1>e DEF Realtime!Over, Realtime!Ends
  <2>2. /\ Realtime!Ended(h).at = "over" /\ Realtime!Ended(h).response = "none"
        /\ Realtime!Ended(h).given # Realtime!Turn
    BY DEF Realtime!Ended, Realtime!NoTask, Realtime!NotGiven, Realtime!Turn
  <2>3. StageOf(h)'
    BY <2>1, <2>2 DEF StageOf, Realtime!OnFloor, Realtime!Goes
  <2>4. QED
    BY <1>a, <1>e, <2>1, <2>2, <2>3
<1>f. ASSUME NEW h \in Speech, NEW r, Realtime!Goto(h, r),
             rtTask[h].at \notin {"none", "over"} \/ r.at = rtTask[h].at,
             r.response = rtTask[h].response, StageOf(h)'
      PROVE  RtFloor'
  BY <1>a, <1>f DEF Realtime!Goto
<1>g. ASSUME NEW h \in Speech, NEW r, rtTask' = [rtTask EXCEPT ![h] = r] PROVE rtTask'[h] = r
  BY <1>0, <1>g
<1>1. CASE Realtime!GenerateReply
  <2>1. PICK how \in Given, allowed \in BOOLEAN : Realtime!NewSpeech(rtTask, how, "none", allowed)
    BY <1>1 DEF Realtime!GenerateReply
  <2>2. how \in Realtime!Choices \cup {Realtime!NotGiven} /\ how # Realtime!Turn
    BY RepliesAssumption DEF Realtime!Choices, Realtime!NotGiven, Realtime!Turn
  <2>3. rtCreated + 1 \in Speech /\ rtTask[rtCreated + 1] = Realtime!NoTask
    BY <1>0, <1>1, SpareIsRoom DEF Realtime!GenerateReply, Basics, HandlesQueued
  <2>4. UNCHANGED <<serverTurns, rtInterrupted, rtAuthorized, rtDone, rtCurrent, rtMain, active>>
    BY <1>1, <2>1 DEF Realtime!GenerateReply, Realtime!NewSpeech
  <2>5. \A g \in Speech \ {rtCreated + 1} : rtTask'[g] = rtTask[g] => StageOf(g)'
    BY <1>0, <2>4, StageKeeps
  <2>6. rtDone \subseteq 1 .. rtCreated
    BY DEF Basics, RtTypes
  <2>7. QED
    BY <1>0, <1>c, <2>1, <2>2, <2>3, <2>4, <2>5, <2>6
<1>2. CASE Realtime!TurnCreated
  <2>1. CASE rtDraining
    <3>1. FloorIsCurrent' /\ UNCHANGED <<rtTask, serverTurns, rtAuthorized, rtDone, rtInterrupted>>
      BY <1>2, <2>1 DEF Realtime!TurnCreated, RtFloor, FloorIsCurrent
    <3>2. \A h \in Speech : StageOf(h)'
      BY <1>0, <3>1, StageKeeps
    <3>3. ActiveIsOpen'
      BY <1>0, <1>2, <2>1 DEF Realtime!TurnCreated, ActiveIsOpen, Realtime!Skipped, Speech
    <3>4. QED
      BY <3>1, <3>2, <3>3 DEF RtFloor
  <2>2. CASE ~rtDraining
    <3>1. /\ Realtime!NewSpeech(rtTask, Realtime!Turn, "open", TRUE)
          /\ active' = rtCreated + 1 /\ serverTurns
          /\ UNCHANGED <<serverTurns, rtInterrupted, rtAuthorized, rtDone, rtCurrent, rtMain>>
      BY <1>2, <2>2 DEF Realtime!TurnCreated, Realtime!NewSpeech
    <3>2. rtCreated + 1 \in Speech /\ rtTask[rtCreated + 1] = Realtime!NoTask
      BY <1>0, <1>2, SpareIsRoom DEF Realtime!TurnCreated, Basics, HandlesQueued
    <3>3. \A g \in Speech \ {rtCreated + 1} : rtTask'[g] = rtTask[g] => StageOf(g)'
      BY <1>0, <3>1, StageKeeps
    <3>4. rtDone \subseteq 1 .. rtCreated
      BY DEF Basics, RtTypes
    <3>5. QED
      BY <1>0, <1>c, <3>1, <3>2, <3>3, <3>4
  <2>3. QED
    BY <2>1, <2>2
<1>3. CASE Realtime!Interrupt
  <2> DEFINE speeches == rtQueue \cup ({rtCurrent} \ {0})
             refuses  == speeches \ allow
  <2>1. /\ rtInterrupted' = rtInterrupted \cup
              {h \in speeches \ rtDone : \A r \in refuses : h < r /\ r # rtCurrent}
        /\ IF refuses = {} THEN active' = 0 /\ rtTask' = Realtime!Cut("interrupted")
                           ELSE UNCHANGED <<active, rtTask>>
        /\ UNCHANGED <<serverTurns, rtAuthorized, rtDone, rtCurrent, rtMain>>
    BY <1>3 DEF Realtime!Interrupt
  <2>2. CASE refuses = {}
    <3>1. rtInterrupted' = rtInterrupted \cup (speeches \ rtDone)
      BY <2>1, <2>2
    <3>2. active \in Speech /\ Realtime!Goes(active) => active \in rtInterrupted'
      BY <3>1, ActiveIsReached DEF Speech
    <3>3. QED
      BY <1>b, <2>1, <2>2, <3>1, <3>2
  <2>3. CASE refuses # {}
    <3>1. UNCHANGED <<rtTask, serverTurns, rtDone, rtAuthorized, active, rtCurrent, rtMain>>
      BY <2>1, <2>3
    <3>2. FloorIsCurrent' /\ ActiveIsOpen'
      BY <3>1 DEF RtFloor, FloorIsCurrent, ActiveIsOpen, Realtime!Goes
    <3>3. \A h \in Speech : StageOf(h)'
      BY <1>0, <2>1, <3>1, StageKeeps
    <3>4. QED
      BY <3>2, <3>3 DEF RtFloor
  <2>4. QED
    BY <2>2, <2>3
<1>4. CASE Realtime!UserInterrupts
  <2>1. /\ ~serverTurns /\ rtInterrupted' = rtInterrupted \cup ({rtCurrent} \ rtDone)
        /\ active' = 0 /\ rtTask' = Realtime!Cut("interrupted")
        /\ UNCHANGED <<serverTurns, rtAuthorized, rtDone, rtCurrent, rtMain>>
    BY <1>4 DEF Realtime!UserInterrupts
  <2>2. active \in Speech /\ Realtime!Goes(active) => active \in rtInterrupted'
    BY <2>1, ActiveIsReached
  <2>3. QED
    BY <1>b, <2>1, <2>2
<1>5. ASSUME NEW choice \in Realtime!Choices, Realtime!UpdateOptions(choice) PROVE RtFloor'
  BY <1>5, <1>d DEF Realtime!UpdateOptions, RtFloor, FloorIsCurrent
<1>6. CASE Realtime!Authorize
  <2>1. PICK h \in rtQueue : /\ rtQueue' = rtQueue \ {h} /\ rtCurrent' = h
                             /\ rtAuthorized' = rtAuthorized \cup {h}
    BY <1>6 DEF Realtime!Authorize
  <2>2. rtMain = "idle" /\ rtMain' = "waits" /\ rtDone' = rtDone
    BY <1>6 DEF Realtime!Authorize, Realtime!MayAuthorize
  <2>3. FloorIsCurrent'
    BY <2>1, <2>2 DEF RtFloor, FloorIsCurrent
  <2>4. QED
    BY <1>6, <1>d, <2>1, <2>3 DEF Realtime!Authorize
<1>7. CASE Realtime!PlayoutDone \/ Realtime!MainExits
  <2>1. rtAuthorized \subseteq rtDone
    BY <1>7 DEF Realtime!PlayoutDone, Realtime!MainExits, RtFloor, FloorIsCurrent
  <2>2. UNCHANGED <<rtTask, serverTurns, rtDone, rtInterrupted, active, rtAuthorized>>
    BY <1>7 DEF Realtime!PlayoutDone, Realtime!MainExits
  <2>3. QED
    BY <1>d, <2>1, <2>2 DEF FloorIsCurrent
<1>8. CASE Realtime!Drain
  BY <1>8, <1>d DEF Realtime!Drain, RtFloor, FloorIsCurrent
<1>9. CASE Realtime!ResponseDone
  BY <1>9, <1>b DEF Realtime!ResponseDone
<1>10. ASSUME NEW h \in Speech,
              \/ Realtime!InputFails(h) \/ Realtime!Refused(h) \/ Realtime!TaskEnds(h)
              \/ (Realtime!Begin(h) /\ h \in rtInterrupted)
       PROVE  RtFloor'
  BY <1>10, <1>e DEF Realtime!InputFails, Realtime!Refused, Realtime!TaskEnds, Realtime!Begin,
     Realtime!Waited
<1>11. ASSUME NEW h \in Speech, NEW at \in {"input", "reading", "playout", "stopping", "updating"},
              rtTask[h].at \notin {"none", "over"},
              Realtime!Goto(h, [rtTask[h] EXCEPT !.at = at]), StageOf(h)'
       PROVE  RtFloor'
  <2>1. [rtTask[h] EXCEPT !.at = at].response = rtTask[h].response
    BY <1>0 DEF Record
  <2>2. QED
    BY <1>11, <1>f, <2>1
<1>12. ASSUME NEW h \in Speech, NEW at \in {"input", "reading", "playout", "stopping", "updating"},
              rtTask' = [rtTask EXCEPT ![h] = [rtTask[h] EXCEPT !.at = at]],
              UNCHANGED <<serverTurns, rtInterrupted, rtAuthorized, rtDone>>
       PROVE  /\ rtTask'[h].at = at
              /\ rtTask'[h].given = rtTask[h].given /\ rtTask'[h].response = rtTask[h].response
              /\ rtTask'[h].heard = rtTask[h].heard /\ rtTask'[h].recorded = rtTask[h].recorded
  BY <1>0, <1>12 DEF Record
<1>13. ASSUME NEW h \in Speech, Realtime!ReplyInput(h) PROVE RtFloor'
  <2>1. StageOf(h)'
    BY <1>0, <1>12, <1>13
    DEF Realtime!ReplyInput, Realtime!Waited, Realtime!Goto, StageOf, Realtime!OnFloor, Realtime!Goes
  <2>2. QED
    BY <1>11, <1>13, <2>1 DEF Realtime!ReplyInput, Realtime!Waited
<1>14. ASSUME NEW h \in Speech, Realtime!Begin(h), h \notin rtInterrupted PROVE RtFloor'
  <2>1. StageOf(h)'
    BY <1>0, <1>12, <1>14
    DEF Realtime!Begin, Realtime!Waited, Realtime!Goto, StageOf, Realtime!OnFloor, Realtime!Goes
  <2>2. QED
    BY <1>11, <1>14, <2>1 DEF Realtime!Begin, Realtime!Waited
<1>15. ASSUME NEW h \in Speech, Realtime!ReadEnds(h) PROVE RtFloor'
  <2>1. StageOf(h)'
    BY <1>0, <1>12, <1>15 DEF Realtime!ReadEnds, Realtime!Goto, StageOf, Realtime!OnFloor, Realtime!Goes
  <2>2. QED
    BY <1>11, <1>15, <2>1 DEF Realtime!ReadEnds
<1>16. ASSUME NEW h \in Speech, Realtime!Stop(h) PROVE RtFloor'
  <2>1. StageOf(h)'
    BY <1>0, <1>12, <1>16
    DEF Realtime!Stop, Realtime!Plays, Realtime!Goto, StageOf, Realtime!OnFloor, Realtime!Goes
  <2>2. QED
    BY <1>11, <1>16, <2>1 DEF Realtime!Stop, Realtime!Plays
<1>17. ASSUME NEW h \in Speech, Realtime!UpdateOutputs(h) PROVE RtFloor'
  <2>1. StageOf(h)'
    BY <1>0, <1>12, <1>17
    DEF Realtime!UpdateOutputs, Realtime!Goto, StageOf, Realtime!OnFloor, Realtime!Goes
  <2>2. QED
    BY <1>11, <1>17, <2>1 DEF Realtime!UpdateOutputs
<1>18. ASSUME NEW h \in Speech, Realtime!AskReply(h) PROVE RtFloor'
  <2>1. /\ rtTask[h].at \in {"waiting", "input"} /\ rtTask[h].given # Realtime!Turn
        /\ rtTask[h].at = "waiting" => h \in rtAuthorized \cup rtInterrupted
    BY <1>0, <1>18 DEF Realtime!AskReply, Realtime!Waited, Record
  <2> DEFINE choice == IF rtTask[h].given = Realtime!NotGiven THEN rtChoice ELSE rtTask[h].given
             r == [rtTask[h] EXCEPT
                      !.at = "asking", !.original = toolChoice, !.asked = choice,
                      !.overlaps = \E k \in Realtime!Speech : Realtime!Restores(k),
                      !.response = IF active = 0 THEN "open" ELSE "refused"]
  <2>2. /\ rtTask' = [rtTask EXCEPT ![h] = r]
        /\ r.at = "asking" /\ r.given = rtTask[h].given /\ r.heard = rtTask[h].heard
        /\ r.response = IF active = 0 THEN "open" ELSE "refused"
    <3>1. rtTask' = [rtTask EXCEPT ![h] = r]
      BY <1>18 DEF Realtime!AskReply
    <3>2. QED
      BY <1>0, <3>1 DEF Record
  <2> HIDE DEF r
  <2>3. active # h
    BY <1>0, <2>1 DEF RtFloor, ActiveIsOpen, StageOf, Realtime!Goes
  <2>4. /\ rtTask'[h] = r
        /\ UNCHANGED <<serverTurns, rtInterrupted, rtAuthorized, rtDone, rtCurrent, rtMain>>
        /\ active' = IF active = 0 THEN h ELSE active
    BY <1>18, <1>g, <2>2 DEF Realtime!AskReply
  <2>5. StageOf(h)'
    <3>1. StageOf(h)
      BY <1>0
    <3>2. QED
      BY <2>1, <2>2, <2>4, <3>1 DEF StageOf, Realtime!OnFloor, Realtime!Goes
  <2>6. QED
    BY <1>a, <2>1, <2>2, <2>3, <2>4, <2>5
<1>19. ASSUME NEW h \in Speech,
              Realtime!FirstFrame(h) \/ Realtime!ToolCalled(h) \/ Realtime!ToolEnds(h)
       PROVE  RtFloor'
  <2>1. PICK r : /\ Realtime!Goto(h, r) /\ r.at = rtTask[h].at /\ r.given = rtTask[h].given
                 /\ r.response = rtTask[h].response /\ r.recorded = rtTask[h].recorded
                 /\ r.heard # rtTask[h].heard => rtTask[h].at = "reading"
    <3>1. CASE Realtime!FirstFrame(h)
      <4>1. WITNESS [rtTask[h] EXCEPT !.heard = TRUE]
      <4>2. QED
        BY <1>0, <3>1 DEF Realtime!FirstFrame, Record
    <3>2. CASE Realtime!ToolCalled(h)
      <4>1. WITNESS [rtTask[h] EXCEPT !.tool = "running"]
      <4>2. QED
        BY <1>0, <3>2 DEF Realtime!ToolCalled, Record
    <3>3. CASE Realtime!ToolEnds(h)
      <4>1. PICK answer \in {"silent", "reply"} :
                Realtime!Goto(h, [rtTask[h] EXCEPT !.tool = answer])
        BY <3>3 DEF Realtime!ToolEnds
      <4>2. WITNESS [rtTask[h] EXCEPT !.tool = answer]
      <4>3. QED
        BY <1>0, <4>1 DEF Record
    <3>4. QED
      BY <1>19, <3>1, <3>2, <3>3
  <2>2. rtTask'[h] = r /\ UNCHANGED <<serverTurns, rtInterrupted, rtAuthorized, rtDone>>
    BY <1>g, <2>1 DEF Realtime!Goto
  <2>3. StageOf(h)'
    BY <1>0, <2>1, <2>2 DEF StageOf, Realtime!OnFloor, Realtime!Goes
  <2>4. QED
    BY <1>f, <2>1, <2>3
<1>20. ASSUME NEW h \in Speech, Realtime!PlayedOut(h) \/ Realtime!Stopped(h) PROVE RtFloor'
  <2>1. PICK at \in {"tools", "cancelling"} :
           /\ rtTask' = [rtTask EXCEPT ![h] = [rtTask[h] EXCEPT !.at = at,
                                              !.recorded = rtTask[h].heard]]
           /\ at = "tools" => rtTask[h].at = "playout"
           /\ at = "cancelling" => rtTask[h].at = "stopping"
    BY <1>0, <1>20 DEF Realtime!PlayedOut, Realtime!Stopped
  <2> DEFINE r == [rtTask[h] EXCEPT !.at = at, !.recorded = rtTask[h].heard]
  <2>2. /\ r.at = at /\ r.recorded = r.heard /\ r.response = rtTask[h].response
        /\ r.given = rtTask[h].given /\ rtTask' = [rtTask EXCEPT ![h] = r]
    BY <1>0, <2>1 DEF Record
  <2> HIDE DEF r
  <2>3. rtTask'[h] = r
    BY <1>g, <2>2
  <2>4. StageOf(h)'
    BY <1>0, <1>20, <2>1, <2>2, <2>3
    DEF Realtime!PlayedOut, Realtime!Stopped, StageOf, Realtime!OnFloor, Realtime!Goes
  <2>5. QED
    BY <1>20, <1>a, <2>1, <2>2, <2>4 DEF Realtime!PlayedOut, Realtime!Stopped
<1>21. ASSUME NEW h \in Speech, Realtime!ToolReply(h) PROVE RtFloor'
  <2> DEFINE tasks == [Realtime!Cut("superseded") EXCEPT ![h] = Realtime!Ended(h)]
  <2>1. PICK handsOver \in BOOLEAN :
           Realtime!NewSpeech(tasks,
               IF rtDraining \/ handsOver \/ rtTask[h].given = "none" THEN "none" ELSE "auto",
               "none", h \in allow)
    BY <1>21 DEF Realtime!ToolReply
  <2> DEFINE how == IF rtDraining \/ handsOver \/ rtTask[h].given = "none" THEN "none" ELSE "auto"
  <2>2. /\ rtTask[h].at = "updating" /\ rtTask[h].tool = "reply"
        /\ UNCHANGED <<rtInterrupted, rtAuthorized, rtCurrent, rtMain>>
        /\ rtDone' = rtDone \cup {h} /\ active' = 0
        /\ Realtime!NewSpeech(tasks, how, "none", h \in allow)
        /\ how \in Realtime!Choices /\ how # Realtime!Turn
    BY <1>21, <2>1 DEF Realtime!ToolReply, Realtime!Ends, Realtime!Choices, Realtime!Turn
  <2> HIDE DEF how
  <2>3. /\ h \in 1 .. rtCreated /\ Realtime!NoTask.at = "none"
        /\ Realtime!Ended(h).at = "over" /\ Realtime!Ended(h).given # Realtime!Turn
        /\ Realtime!Ended(h).response = "none" /\ Realtime!Ended(h) \in Record
    BY <1>0, <2>2, EndedTask DEF Basics, HandlesQueued, Realtime!NoTask, Speech
  <2>4. /\ tasks \in [Speech -> Record] /\ tasks[h] = Realtime!Ended(h)
        /\ \A g \in Speech \ {h} : tasks[g] = Realtime!Cut("superseded")[g]
    BY <2>3, CutFields
  <2> HIDE DEF tasks
  <2>5. rtCreated + 1 \in Speech
    BY <2>2, AnswerHasRoom DEF Basics
  <2>6. tasks[rtCreated + 1] = Realtime!NoTask
    <3>1. rtCreated + 1 # h /\ rtTask[rtCreated + 1] = Realtime!NoTask
      BY <1>0, <2>3, <2>5 DEF Basics, HandlesQueued
    <3>2. QED
      BY <2>3, <2>4, <2>5, <3>1, CutFields DEF Realtime!Goes
  <2>7. rtDone \subseteq rtDone' /\ rtDone' \subseteq 1 .. rtCreated
    BY <2>2, <2>3 DEF Basics, RtTypes
  <2>8. serverTurns' = serverTurns
    BY <2>2 DEF Realtime!NewSpeech
  <2>9. ASSUME NEW g \in Speech \ {rtCreated + 1}, rtTask'[g] = tasks[g] PROVE StageOf(g)'
    <3>1. CASE g = h
      BY <2>2, <2>3, <2>4, <2>9, <3>1 DEF StageOf, Realtime!OnFloor, Realtime!Goes
    <3>2. CASE g # h /\ tasks[g] = rtTask[g]
      BY <1>0, <2>2, <2>8, <2>9, <3>2, StageKeeps
    <3>3. CASE /\ g # h /\ g = active /\ Realtime!Goes(g)
               /\ tasks[g] = [rtTask[g] EXCEPT !.response = "superseded"]
      <4>1. rtTask[g].response = "open" /\ rtTask[g] \in Record /\ StageOf(g)
        BY <1>0, <3>3 DEF RtFloor, ActiveIsOpen
      <4>2. QED
        BY <2>2, <2>8, <2>9, <3>3, <4>1 DEF StageOf, Realtime!OnFloor, Realtime!Goes, Record
    <3>4. QED
      BY <2>4, <3>1, <3>2, <3>3, CutFields
  <2>10. QED
    BY <1>c, <2>2, <2>4, <2>5, <2>6, <2>7, <2>9
<1>22. CASE UNCHANGED rtVars
  BY <1>22, <1>d DEF rtVars, RtFloor, FloorIsCurrent
<1>23. QED
  BY <1>1, <1>2, <1>3, <1>4, <1>5, <1>6, <1>7, <1>8, <1>9, <1>10, <1>13, <1>14, <1>15,
     <1>16, <1>17, <1>18, <1>19, <1>20, <1>21, <1>22
  DEF Realtime!Next, Realtime!SpeechStep, Realtime!Speech, Speech

-----------------------------------------------------------------------------
\* The agent is shown to speak while a speech is heard.
HeardIsShown ==
    \A h \in Speech : Realtime!Plays(h) /\ rtTask[h].heard => rtState = "speaking"

\* A reply that goes on will restore the choice the activity has, unless that was changed;
\* and the session has that choice, or another one that such a reply was given.
ChoiceIsKept ==
    \A h \in Speech : Realtime!Restores(h) /\ ~stale => rtTask[h].original = toolChoice
ChoiceIsOwed ==
    \/ stale \/ rtChoice = toolChoice
    \/ \E h \in Speech : /\ Realtime!Restores(h)
                         /\ rtTask[h].given \notin {Realtime!NotGiven, toolChoice}

RtChoices == ChoiceIsKept /\ ChoiceIsOwed /\ Realtime!OwnChoice

\* What a step does to the task of a speech that does not ask for its response, or end.
KeepsChoice(g) ==
    /\ Realtime!Restores(g)' <=> Realtime!Restores(g)
    /\ \/ rtTask'[g].asked = Realtime!NotGiven /\ ~Realtime!Restores(g)
       \/ /\ rtTask'[g].given = rtTask[g].given /\ rtTask'[g].asked = rtTask[g].asked
          /\ rtTask'[g].original = rtTask[g].original
          /\ rtTask'[g].overlaps = rtTask[g].overlaps

\* What a step does to the task of a speech whose first frame it does not play.
KeepsSilence(g) ==
    Realtime!Plays(g)' /\ rtTask'[g].heard => Realtime!Plays(g) /\ rtTask[g].heard

\* A step that leaves the choices alone keeps what is owed.
LEMMA ChoicesKept ==
    ASSUME RtChoices, \A g \in Speech : KeepsChoice(g), UNCHANGED <<toolChoice, rtChoice, stale>>
    PROVE  RtChoices'
<1>1. \A g \in Speech : Realtime!Restores(g)' =>
          /\ Realtime!Restores(g)
          /\ rtTask'[g].given = rtTask[g].given /\ rtTask'[g].original = rtTask[g].original
  BY DEF KeepsChoice
<1>2. ChoiceIsKept'
  BY <1>1 DEF RtChoices, ChoiceIsKept
<1>3. ChoiceIsOwed'
  <2>1. CASE stale \/ rtChoice = toolChoice
    BY <2>1 DEF ChoiceIsOwed
  <2>2. CASE ~(stale \/ rtChoice = toolChoice)
    <3>1. PICK h \in Speech : /\ Realtime!Restores(h)
                             /\ rtTask[h].given \notin {Realtime!NotGiven, toolChoice}
      BY <2>2 DEF RtChoices, ChoiceIsOwed
    <3>2. Realtime!Restores(h)' /\ rtTask'[h].given \notin {Realtime!NotGiven, toolChoice'}
      BY <1>1, <3>1 DEF KeepsChoice
    <3>3. QED
      BY <3>2 DEF ChoiceIsOwed
  <2>3. QED
    BY <2>1, <2>2
<1>4. Realtime!OwnChoice'
  BY DEF RtChoices, Realtime!OwnChoice, KeepsChoice, Realtime!Speech, Speech
<1>5. QED
  BY <1>2, <1>3, <1>4 DEF RtChoices

\* A reply that ends restores what it owes, which no other reply has to restore then.
LEMMA ChoicesRestored ==
    ASSUME RtChoices, NEW h \in Speech, Realtime!Ends(h),
           ~Realtime!Restores(h)', rtTask'[h].asked = Realtime!NotGiven,
           \A g \in Speech \ {h} : KeepsChoice(g)
    PROVE  RtChoices'
<1>1. \A g \in Speech : Realtime!Restores(g)' =>
          /\ Realtime!Restores(g)
          /\ rtTask'[g].given = rtTask[g].given /\ rtTask'[g].original = rtTask[g].original
  BY DEF KeepsChoice
<1>2. UNCHANGED <<toolChoice, stale>>
  BY DEF Realtime!Ends
<1>3. ChoiceIsKept'
  BY <1>1, <1>2 DEF RtChoices, ChoiceIsKept
<1>4. ChoiceIsOwed'
  <2>1. CASE Realtime!Restores(h) /\ rtTask[h].given \notin {Realtime!NotGiven, rtTask[h].original}
    <3>1. rtChoice' = rtTask[h].original
      BY <2>1 DEF Realtime!Ends
    <3>2. stale \/ rtTask[h].original = toolChoice
      BY <2>1 DEF RtChoices, ChoiceIsKept
    <3>3. QED
      BY <1>2, <3>1, <3>2 DEF ChoiceIsOwed
  <2>2. CASE ~(/\ Realtime!Restores(h)
               /\ rtTask[h].given \notin {Realtime!NotGiven, rtTask[h].original})
    <3>1. rtChoice' = rtChoice
      BY <2>2 DEF Realtime!Ends
    <3>2. CASE stale \/ rtChoice = toolChoice
      BY <1>2, <3>1, <3>2 DEF ChoiceIsOwed
    <3>3. CASE ~(stale \/ rtChoice = toolChoice)
      <4>1. PICK g \in Speech : /\ Realtime!Restores(g)
                               /\ rtTask[g].given \notin {Realtime!NotGiven, toolChoice}
        BY <3>3 DEF RtChoices, ChoiceIsOwed
      <4>2. g # h
        BY <2>2, <3>3, <4>1 DEF RtChoices, ChoiceIsKept
      <4>3. Realtime!Restores(g)' /\ rtTask'[g].given \notin {Realtime!NotGiven, toolChoice'}
        BY <1>1, <1>2, <4>1, <4>2 DEF KeepsChoice
      <4>4. QED
        BY <4>3 DEF ChoiceIsOwed
    <3>4. QED
      BY <3>2, <3>3
  <2>3. QED
    BY <2>1, <2>2
<1>5. Realtime!OwnChoice'
  BY <1>2 DEF RtChoices, Realtime!OwnChoice, KeepsChoice, Realtime!Speech, Speech
<1>6. QED
  BY <1>3, <1>4, <1>5 DEF RtChoices

\* What a step leaves alone of a task keeps its choice and its silence.
LEMMA SameTask ==
    ASSUME NEW g, UNCHANGED serverTurns, rtTask'[g] = rtTask[g]
    PROVE  KeepsChoice(g) /\ KeepsSilence(g)
BY DEF KeepsChoice, KeepsSilence, Realtime!Restores, Realtime!Goes, Realtime!Plays

\* So does another response.
LEMMA CutTask ==
    ASSUME NEW g, rtTask[g] \in Record, NEW why,
           rtTask'[g] = rtTask[g] \/ rtTask'[g] = [rtTask[g] EXCEPT !.response = why]
    PROVE  KeepsChoice(g) /\ KeepsSilence(g)
BY DEF KeepsChoice, KeepsSilence, Realtime!Restores, Realtime!Goes, Realtime!Plays, Record

\* A new speech has not asked for its response, nor was it heard.
LEMMA NewTask ==
    ASSUME NEW g, rtTask[g] = Realtime!NoTask, NEW how, NEW response,
           rtTask'[g] = [Realtime!NoTask EXCEPT !.at = "waiting", !.given = how,
                                               !.response = response]
    PROVE  KeepsChoice(g) /\ KeepsSilence(g)
<1>1. Realtime!NoTask.at = "none" /\ Realtime!NoTask.asked = Realtime!NotGiven
  BY DEF Realtime!NoTask
<1>2. rtTask'[g].at = "waiting" /\ rtTask'[g].asked = Realtime!NotGiven
  BY <1>1 DEF Realtime!NoTask
<1>3. QED
  BY <1>1, <1>2 DEF KeepsChoice, KeepsSilence, Realtime!Restores, Realtime!Goes, Realtime!Plays

\* The replies keep the choices they owe, and the agent is shown to speak while one is heard.
LEMMA RtChoicesStep ==
    Basics /\ RtFloor /\ HeardIsShown /\ RtChoices /\ [Realtime!Next]_rtVars
        => HeardIsShown' /\ RtChoices'
<1> SUFFICES ASSUME Basics, RtFloor, HeardIsShown, RtChoices, [Realtime!Next]_rtVars
             PROVE  HeardIsShown' /\ RtChoices'
  OBVIOUS
<1> USE DEF Realtime!turnVars, Realtime!handleVars, Realtime!mainVars, Realtime!choiceVars,
            Realtime!NoSpeech
<1>0. /\ rtTask \in [Speech -> Record] /\ rtCreated \in Nat
      /\ \A h \in Speech : rtTask[h] \in Record
      /\ \A h \in Speech : StageOf(h)
  BY SpeechAssumption DEF Basics, RtTypes, RtFloor
<1>a. ASSUME \A g \in Speech : KeepsSilence(g), UNCHANGED rtState PROVE HeardIsShown'
  BY <1>a DEF HeardIsShown, KeepsSilence
<1>b. ASSUME \A g \in Speech : KeepsChoice(g) /\ KeepsSilence(g),
             UNCHANGED <<toolChoice, rtChoice, stale, rtState>>
      PROVE  HeardIsShown' /\ RtChoices'
  BY <1>a, <1>b, ChoicesKept
<1>c. ASSUME NEW h \in Speech, NEW r, rtTask' = [rtTask EXCEPT ![h] = r]
      PROVE  /\ rtTask'[h] = r
             /\ \A g \in Speech \ {h} : rtTask'[g] = rtTask[g]
  BY <1>0, <1>c
<1>d. ASSUME NEW tasks \in [Speech -> Record], NEW how, NEW response, NEW allowed,
             Realtime!NewSpeech(tasks, how, response, allowed),
             NEW c \in Speech, c = rtCreated + 1, tasks[c] = Realtime!NoTask
      PROVE  /\ KeepsChoice(c) /\ KeepsSilence(c)
             /\ \A g \in Speech \ {c} : rtTask'[g] = tasks[g]
  <2>1. /\ rtTask'[c] = [Realtime!NoTask EXCEPT !.at = "waiting", !.given = how,
                                                !.response = response]
        /\ \A g \in Speech \ {c} : rtTask'[g] = tasks[g]
    BY <1>d DEF Realtime!NewSpeech
  <2>2. rtTask[c] = Realtime!NoTask
    BY <1>0, <1>d DEF Basics, HandlesQueued
  <2>3. QED
    BY <2>1, <2>2, NewTask
<1>e. ASSUME NEW why \in {"complete", "interrupted", "superseded"}, rtTask' = Realtime!Cut(why)
      PROVE  \A g \in Speech : KeepsChoice(g) /\ KeepsSilence(g)
  <2>1. \A g \in Speech : \/ rtTask'[g] = rtTask[g]
                          \/ rtTask'[g] = [rtTask[g] EXCEPT !.response = why]
    BY <1>e, CutFields
  <2>2. QED
    BY <1>0, <2>1, CutTask
<1>f. ASSUME NEW h \in Speech, Realtime!Ends(h), rtTask'[h] = Realtime!Ended(h), UNCHANGED rtState,
             \A g \in Speech \ {h} : KeepsChoice(g) /\ KeepsSilence(g)
      PROVE  HeardIsShown' /\ RtChoices'
  <2>1. ~Realtime!Restores(h)' /\ rtTask'[h].asked = Realtime!NotGiven /\ KeepsSilence(h)
    BY <1>f, EndedTask DEF Realtime!Restores, Realtime!Goes, Realtime!Plays, KeepsSilence
  <2>2. RtChoices'
    BY <1>f, <2>1, ChoicesRestored
  <2>3. HeardIsShown'
    BY <1>a, <1>f, <2>1
  <2>4. QED
    BY <2>2, <2>3
<1>g. ASSUME NEW h \in Speech, Realtime!Over(h) PROVE HeardIsShown' /\ RtChoices'
  <2>1. /\ rtTask'[h] = Realtime!Ended(h) /\ \A g \in Speech \ {h} : rtTask'[g] = rtTask[g]
        /\ UNCHANGED <<serverTurns, rtState>> /\ Realtime!Ends(h)
    BY <1>0, <1>g DEF Realtime!Over
  <2>2. \A g \in Speech \ {h} : KeepsChoice(g) /\ KeepsSilence(g)
    BY <2>1, SameTask
  <2>3. QED
    BY <1>f, <2>1, <2>2
<1>h. ASSUME NEW h \in Speech, NEW r, rtTask' = [rtTask EXCEPT ![h] = r], UNCHANGED serverTurns,
             r.given = rtTask[h].given, r.original = rtTask[h].original,
             r.asked = rtTask[h].asked, r.overlaps = rtTask[h].overlaps,
             \/ r.at = rtTask[h].at
             \/ rtTask[h].at \in {"asking", "reading", "playout", "stopping", "tools"} /\
                r.at \in {"reading", "playout", "stopping", "tools", "cancelling", "updating"}
             \/ rtTask[h].at = "waiting" /\ r.at = "input"
             \/ rtTask[h].at = "waiting" /\ r.at = "reading" /\ r.given = Realtime!Turn
      PROVE  /\ rtTask'[h] = r /\ \A g \in Speech : KeepsChoice(g)
             /\ \A g \in Speech \ {h} : KeepsSilence(g)
  <2>1. rtTask'[h] = r /\ \A g \in Speech \ {h} : KeepsChoice(g) /\ KeepsSilence(g)
    BY <1>c, <1>h, SameTask
  <2>2. KeepsChoice(h)
    BY <1>h, <2>1 DEF KeepsChoice, Realtime!Restores, Realtime!Goes
  <2>3. QED
    BY <2>1, <2>2
<1>1. CASE Realtime!GenerateReply \/ (Realtime!TurnCreated /\ ~rtDraining)
  <2>1. PICK how, response, allowed : Realtime!NewSpeech(rtTask, how, response, allowed)
    <3>1. CASE Realtime!GenerateReply
      BY <3>1 DEF Realtime!GenerateReply
    <3>2. CASE Realtime!TurnCreated /\ ~rtDraining
      <4>1. Realtime!NewSpeech(rtTask, Realtime!Turn, "open", TRUE)
        BY <3>2 DEF Realtime!TurnCreated
      <4>2. QED
        BY <4>1
    <3>3. QED
      BY <1>1, <3>1, <3>2
  <2>2. PICK c \in Speech : c = rtCreated + 1 /\ rtTask[c] = Realtime!NoTask
    <3>1. Realtime!Spare
      BY <1>1 DEF Realtime!GenerateReply, Realtime!TurnCreated
    <3>2. rtCreated + 1 \in Speech
      BY <3>1, SpareIsRoom
    <3>3. QED
      BY <1>0, <3>2 DEF Basics, HandlesQueued
  <2>3. UNCHANGED <<serverTurns, toolChoice, rtChoice, stale, rtState>>
    BY <1>1, <2>1 DEF Realtime!GenerateReply, Realtime!TurnCreated, Realtime!NewSpeech
  <2>4. \A g \in Speech : KeepsChoice(g) /\ KeepsSilence(g)
    BY <1>0, <1>d, <2>1, <2>2, <2>3, SameTask
  <2>5. QED
    BY <1>b, <2>3, <2>4
<1>2. CASE UNCHANGED <<rtTask, serverTurns, toolChoice, rtChoice, stale, rtState>>
  BY <1>2, <1>b, SameTask
<1>3. CASE Realtime!Interrupt \/ Realtime!UserInterrupts \/ Realtime!ResponseDone
  <2>1. CASE UNCHANGED rtTask
    BY <1>2, <1>3, <2>1 DEF Realtime!Interrupt, Realtime!UserInterrupts, Realtime!ResponseDone
  <2>2. CASE \E why \in {"complete", "interrupted", "superseded"} : rtTask' = Realtime!Cut(why)
    BY <1>3, <1>b, <1>e, <2>2
    DEF Realtime!Interrupt, Realtime!UserInterrupts, Realtime!ResponseDone
  <2>3. QED
    BY <1>3, <2>1, <2>2
    DEF Realtime!Interrupt, Realtime!UserInterrupts, Realtime!ResponseDone
<1>4. ASSUME NEW choice \in Realtime!Choices, Realtime!UpdateOptions(choice)
      PROVE  HeardIsShown' /\ RtChoices'
  <2>1. /\ UNCHANGED <<rtTask, serverTurns, rtState>> /\ rtChoice' = toolChoice'
        /\ stale' = (stale \/ \E h \in Speech : Realtime!Restores(h))
    BY <1>4 DEF Realtime!UpdateOptions, Realtime!Speech, Speech
  <2>2. \A g \in Speech : KeepsChoice(g) /\ KeepsSilence(g)
    BY <2>1, SameTask
  <2>3. ChoiceIsKept' /\ ChoiceIsOwed'
    BY <2>1, <2>2 DEF ChoiceIsKept, ChoiceIsOwed, KeepsChoice
  <2>4. Realtime!OwnChoice'
    BY <2>1 DEF RtChoices, Realtime!OwnChoice
  <2>5. QED
    BY <1>a, <2>1, <2>2, <2>3, <2>4 DEF RtChoices
<1>5. ASSUME NEW h \in Speech, Realtime!AskReply(h) PROVE HeardIsShown' /\ RtChoices'
  <2> DEFINE choice == IF rtTask[h].given = Realtime!NotGiven THEN rtChoice ELSE rtTask[h].given
             r == [rtTask[h] EXCEPT
                      !.at = "asking", !.original = toolChoice, !.asked = choice,
                      !.overlaps = \E k \in Realtime!Speech : Realtime!Restores(k),
                      !.response = IF active = 0 THEN "open" ELSE "refused"]
  <2>1. /\ rtTask' = [rtTask EXCEPT ![h] = r] /\ rtChoice' = choice
        /\ UNCHANGED <<serverTurns, toolChoice, stale, rtState>>
    BY <1>5 DEF Realtime!AskReply
  <2>2. /\ r.at = "asking" /\ r.given = rtTask[h].given
        /\ r.original = toolChoice /\ r.asked = choice
        /\ r.overlaps = \E k \in Realtime!Speech : Realtime!Restores(k)
    BY <1>0 DEF Record
  <2> HIDE DEF r
  <2>3. rtTask'[h] = r /\ \A g \in Speech \ {h} : KeepsChoice(g) /\ KeepsSilence(g)
    BY <1>c, <2>1, SameTask
  <2>4. /\ rtTask[h].at \in {"waiting", "input"} /\ rtTask[h].given # Realtime!Turn
        /\ ~Realtime!Restores(h) /\ Realtime!Restores(h)' /\ KeepsSilence(h)
    BY <1>0, <1>5, <2>2, <2>3
    DEF Realtime!AskReply, Realtime!Waited, Record, Realtime!Restores, Realtime!Goes,
        KeepsSilence, Realtime!Plays
  <2>5. ChoiceIsKept'
    BY <2>1, <2>2, <2>3, <2>4 DEF RtChoices, ChoiceIsKept, KeepsChoice
  <2>6. ChoiceIsOwed'
    <3>1. CASE rtTask[h].given # Realtime!NotGiven
      BY <2>1, <2>2, <2>3, <2>4, <3>1 DEF ChoiceIsOwed
    <3>2. CASE rtTask[h].given = Realtime!NotGiven
      <4>1. rtChoice' = rtChoice
        BY <2>1, <3>2
      <4>2. CASE stale \/ rtChoice = toolChoice
        BY <2>1, <4>1, <4>2 DEF ChoiceIsOwed
      <4>3. CASE ~(stale \/ rtChoice = toolChoice)
        <5>1. PICK g \in Speech : /\ Realtime!Restores(g)
                                 /\ rtTask[g].given \notin {Realtime!NotGiven, toolChoice}
          BY <4>3 DEF RtChoices, ChoiceIsOwed
        <5>2. /\ Realtime!Restores(g)'
              /\ rtTask'[g].given \notin {Realtime!NotGiven, toolChoice'}
          BY <2>1, <2>3, <2>4, <5>1 DEF KeepsChoice
        <5>3. QED
          BY <5>2 DEF ChoiceIsOwed
      <4>4. QED
        BY <4>2, <4>3
    <3>3. QED
      BY <3>1, <3>2
  <2>7. Realtime!OwnChoice'
    <3>1. ASSUME NEW g \in Speech \ {h} PROVE
            rtTask'[g].asked # Realtime!NotGiven /\ ~rtTask'[g].overlaps /\ ~stale' =>
                rtTask'[g].asked = IF rtTask'[g].given = Realtime!NotGiven
                                   THEN rtTask'[g].original ELSE rtTask'[g].given
      BY <2>1, <2>3, <3>1 DEF RtChoices, Realtime!OwnChoice, KeepsChoice, Realtime!Speech, Speech
    <3>2. ~r.overlaps /\ ~stale => rtChoice = toolChoice
      BY <2>2 DEF RtChoices, ChoiceIsOwed, Realtime!Speech, Speech
    <3>3. ~r.overlaps /\ ~stale =>
            r.asked = IF r.given = Realtime!NotGiven THEN r.original ELSE r.given
      BY <2>2, <3>2
    <3>4. QED
      BY <2>1, <2>3, <3>1, <3>3 DEF Realtime!OwnChoice, Realtime!Speech, Speech
  <2>8. QED
    BY <1>a, <2>1, <2>3, <2>4, <2>5, <2>6, <2>7 DEF RtChoices
<1>6. ASSUME NEW h \in Speech,
             \/ Realtime!InputFails(h) \/ Realtime!Refused(h) \/ Realtime!TaskEnds(h)
             \/ (Realtime!Begin(h) /\ h \in rtInterrupted)
      PROVE  HeardIsShown' /\ RtChoices'
  BY <1>6, <1>g DEF Realtime!InputFails, Realtime!Refused, Realtime!TaskEnds, Realtime!Begin
<1>7. ASSUME NEW h \in Speech, Realtime!ToolReply(h) PROVE HeardIsShown' /\ RtChoices'
  <2> DEFINE tasks == [Realtime!Cut("superseded") EXCEPT ![h] = Realtime!Ended(h)]
  <2>1. PICK how, allowed : Realtime!NewSpeech(tasks, how, "none", allowed)
    BY <1>7 DEF Realtime!ToolReply
  <2>2. /\ rtTask[h].at = "updating" /\ rtTask[h].tool = "reply"
        /\ UNCHANGED <<serverTurns, rtState>> /\ Realtime!Ends(h)
    BY <1>7, <2>1 DEF Realtime!ToolReply, Realtime!NewSpeech
  <2>3. /\ tasks \in [Speech -> Record] /\ tasks[h] = Realtime!Ended(h)
        /\ \A g \in Speech \ {h} : \/ tasks[g] = rtTask[g]
                                   \/ /\ tasks[g] = [rtTask[g] EXCEPT !.response = "superseded"]
                                      /\ Realtime!Goes(g)
    <3>1. /\ Realtime!Cut("superseded") \in [Speech -> Record]
          /\ \A g \in Speech :
                Realtime!Cut("superseded")[g] =
                   IF g = active /\ Realtime!Goes(g)
                   THEN [rtTask[g] EXCEPT !.response = "superseded"] ELSE rtTask[g]
      BY CutFields
    <3>2. \A g \in Speech \ {h} : tasks[g] = Realtime!Cut("superseded")[g]
      BY <3>1
    <3>3. QED
      BY <3>1, <3>2, EndedTask
  <2> HIDE DEF tasks
  <2>4. PICK c \in Speech : c = rtCreated + 1
    BY <2>2, AnswerHasRoom
  <2>5. /\ rtTask[c] = Realtime!NoTask /\ Realtime!NoTask.at = "none" /\ c # h
        /\ ~Realtime!Goes(c)
    <3>1. Realtime!NoTask.at = "none"
      BY DEF Realtime!NoTask
    <3>2. rtTask[c] = Realtime!NoTask
      BY <1>0, <2>4 DEF Basics, HandlesQueued
    <3>3. QED
      BY <2>2, <3>1, <3>2 DEF Realtime!Goes
  <2>6. tasks[c] = Realtime!NoTask
    BY <2>3, <2>5
  <2>7. /\ KeepsChoice(c) /\ KeepsSilence(c)
        /\ \A g \in Speech \ {c} : rtTask'[g] = tasks[g]
    BY <1>d, <2>1, <2>3, <2>4, <2>6
  <2>8. \A g \in Speech \ {h, c} : KeepsChoice(g) /\ KeepsSilence(g)
    <3>1. SUFFICES ASSUME NEW g \in Speech \ {h, c} PROVE KeepsChoice(g) /\ KeepsSilence(g)
      OBVIOUS
    <3>2. \/ rtTask'[g] = rtTask[g]
          \/ rtTask'[g] = [rtTask[g] EXCEPT !.response = "superseded"]
      BY <2>3, <2>7
    <3>3. QED
      BY <1>0, <3>2, CutTask
  <2>9. rtTask'[h] = Realtime!Ended(h)
    BY <2>3, <2>5, <2>7
  <2>10. QED
    BY <1>f, <2>2, <2>7, <2>8, <2>9
<1>8. ASSUME NEW h \in Speech,
             \/ Realtime!ReplyInput(h) \/ (Realtime!Begin(h) /\ h \notin rtInterrupted)
             \/ Realtime!ReadEnds(h) \/ Realtime!UpdateOutputs(h) \/ Realtime!ToolCalled(h)
             \/ Realtime!ToolEnds(h) \/ Realtime!Stopped(h)
      PROVE  HeardIsShown' /\ RtChoices'
  <2>1. PICK r : /\ rtTask' = [rtTask EXCEPT ![h] = r]
                 /\ UNCHANGED <<serverTurns, toolChoice, rtChoice, stale, rtState>>
                 /\ r.given = rtTask[h].given /\ r.original = rtTask[h].original
                 /\ r.asked = rtTask[h].asked /\ r.overlaps = rtTask[h].overlaps
                 /\ r.heard = rtTask[h].heard
                 /\ \/ r.at = rtTask[h].at
                    \/ rtTask[h].at = "asking" /\ r.at = "reading"
                    \/ rtTask[h].at = "reading" /\ r.at = "playout"
                    \/ rtTask[h].at = "stopping" /\ r.at = "cancelling"
                    \/ rtTask[h].at = "tools" /\ r.at = "updating"
                    \/ rtTask[h].at = "waiting" /\ r.at = "input"
                    \/ rtTask[h].at = "waiting" /\ r.at = "reading" /\ r.given = Realtime!Turn
    <3>1. CASE Realtime!ReplyInput(h) \/ (Realtime!Begin(h) /\ h \notin rtInterrupted)
               \/ Realtime!ReadEnds(h) \/ Realtime!UpdateOutputs(h)
      <4>1. PICK at \in {"input", "reading", "playout", "updating"} :
               /\ Realtime!Goto(h, [rtTask[h] EXCEPT !.at = at]) /\ UNCHANGED rtState
               /\ \/ rtTask[h].at = "asking" /\ at = "reading"
                  \/ rtTask[h].at = "reading" /\ at = "playout"
                  \/ rtTask[h].at = "tools" /\ at = "updating"
                  \/ rtTask[h].at = "waiting" /\ at = "input"
                  \/ rtTask[h].at = "waiting" /\ at = "reading" /\ rtTask[h].given = Realtime!Turn
        BY <3>1 DEF Realtime!ReplyInput, Realtime!Begin, Realtime!ReadEnds, Realtime!UpdateOutputs,
           Realtime!Waited
      <4>2. WITNESS [rtTask[h] EXCEPT !.at = at]
      <4>3. QED
        BY <1>0, <4>1 DEF Realtime!Goto, Record
    <3>2. CASE Realtime!ToolCalled(h) \/ Realtime!ToolEnds(h)
      <4>1. PICK now : Realtime!Goto(h, [rtTask[h] EXCEPT !.tool = now]) /\ UNCHANGED rtState
        BY <3>2 DEF Realtime!ToolCalled, Realtime!ToolEnds
      <4>2. WITNESS [rtTask[h] EXCEPT !.tool = now]
      <4>3. QED
        BY <1>0, <4>1 DEF Realtime!Goto, Record
    <3>3. CASE Realtime!Stopped(h)
      <4>1. WITNESS [rtTask[h] EXCEPT !.at = "cancelling", !.recorded = rtTask[h].heard]
      <4>2. QED
        BY <1>0, <3>3 DEF Realtime!Stopped, Record
    <3>4. QED
      BY <1>8, <3>1, <3>2, <3>3
  <2>2. /\ rtTask'[h] = r /\ \A g \in Speech : KeepsChoice(g)
        /\ \A g \in Speech \ {h} : KeepsSilence(g)
    BY <1>h, <2>1
  <2>3. KeepsSilence(h)
    <3>1. StageOf(h)
      BY <1>0
    <3>2. QED
      BY <2>1, <2>2, <3>1 DEF KeepsSilence, Realtime!Plays, StageOf
  <2>4. QED
    BY <1>b, <2>1, <2>2, <2>3
<1>9. ASSUME NEW h \in Speech, Realtime!FirstFrame(h) PROVE HeardIsShown' /\ RtChoices'
  <2> DEFINE r == [rtTask[h] EXCEPT !.heard = TRUE]
  <2>1. /\ rtTask' = [rtTask EXCEPT ![h] = r] /\ r.at = rtTask[h].at
        /\ r.given = rtTask[h].given /\ r.original = rtTask[h].original
        /\ r.asked = rtTask[h].asked /\ r.overlaps = rtTask[h].overlaps
        /\ UNCHANGED <<serverTurns, toolChoice, rtChoice, stale>> /\ rtState' = "speaking"
    BY <1>0, <1>9 DEF Realtime!FirstFrame, Realtime!Goto, Record
  <2> HIDE DEF r
  <2>2. \A g \in Speech : KeepsChoice(g)
    BY <1>h, <2>1
  <2>3. QED
    BY <2>1, <2>2, ChoicesKept DEF HeardIsShown
<1>10. ASSUME NEW h \in Speech, Realtime!PlayedOut(h) \/ Realtime!Stop(h)
       PROVE  HeardIsShown' /\ RtChoices'
  <2>1. PICK r : /\ rtTask' = [rtTask EXCEPT ![h] = r]
                 /\ UNCHANGED <<serverTurns, toolChoice, rtChoice, stale>>
                 /\ r.given = rtTask[h].given /\ r.original = rtTask[h].original
                 /\ r.asked = rtTask[h].asked /\ r.overlaps = rtTask[h].overlaps
                 /\ r.at \in {"stopping", "tools"} /\ Realtime!Plays(h)
    <3>1. CASE Realtime!PlayedOut(h)
      <4>1. WITNESS [rtTask[h] EXCEPT !.at = "tools", !.recorded = rtTask[h].heard]
      <4>2. QED
        BY <1>0, <3>1 DEF Realtime!PlayedOut, Realtime!Plays, Record
    <3>2. CASE Realtime!Stop(h)
      <4>1. WITNESS [rtTask[h] EXCEPT !.at = "stopping"]
      <4>2. QED
        BY <1>0, <3>2 DEF Realtime!Stop, Realtime!Goto, Realtime!Plays, Record
    <3>3. QED
      BY <1>10, <3>1, <3>2
  <2>2. /\ rtTask'[h] = r /\ \A g \in Speech \ {h} : rtTask'[g] = rtTask[g]
    BY <1>c, <2>1
  <2>3. \A g \in Speech : KeepsChoice(g)
    BY <1>h, <2>1 DEF Realtime!Plays
  <2>4. \A g \in Speech \ {h} : ~Realtime!Plays(g)
    <3>1. \A g \in Speech : Realtime!Plays(g) => g = rtCurrent
      BY <1>0 DEF StageOf, Realtime!OnFloor, Realtime!Plays, RtFloor, FloorIsCurrent
    <3>2. QED
      BY <2>1, <3>1
  <2>5. HeardIsShown'
    BY <2>1, <2>2, <2>4 DEF HeardIsShown, Realtime!Plays
  <2>6. QED
    BY <2>1, <2>3, <2>5, ChoicesKept
<1>11. QED
  <2>1. CASE UNCHANGED rtVars
    BY <1>2, <2>1 DEF rtVars
  <2>2. CASE \/ Realtime!TurnCreated /\ rtDraining
             \/ Realtime!Authorize \/ Realtime!PlayoutDone \/ Realtime!MainExits \/ Realtime!Drain
    BY <1>2, <2>2 DEF Realtime!TurnCreated, Realtime!Authorize, Realtime!PlayoutDone,
       Realtime!MainExits, Realtime!Drain
  <2>3. QED
    BY <1>1, <1>3, <1>4, <1>5, <1>6, <1>7, <1>8, <1>9, <1>10, <2>1, <2>2
    DEF Realtime!Next, Realtime!SpeechStep, Realtime!Speech, Speech

-----------------------------------------------------------------------------
RtInv == Basics /\ RtFloor /\ HeardIsShown /\ RtChoices

\* No speech has begun at first.
LEMMA RtInvInit == Realtime!Init => RtInv
<1> SUFFICES ASSUME Realtime!Init PROVE RtInv
  OBVIOUS
<1>1. Basics
  BY BasicsInit
<1>2. /\ \A h \in Speech : rtTask[h] = Realtime!NoTask
      /\ rtAuthorized = {} /\ rtDone = {} /\ active = 0 /\ rtChoice = toolChoice
  BY DEF Realtime!Init, Realtime!NoSpeech, Realtime!Speech, Speech
<1>3. /\ Realtime!NoTask.at = "none" /\ Realtime!NoTask.response = "none"
      /\ Realtime!NoTask.given # Realtime!Turn
      /\ Realtime!NoTask.asked = Realtime!NotGiven
  <2>1. Realtime!NotGiven # Realtime!Turn
    BY DEF Realtime!NotGiven, Realtime!Turn
  <2>2. QED
    BY <2>1 DEF Realtime!NoTask
<1>4. RtFloor
  BY <1>2, <1>3 DEF RtFloor, FloorIsCurrent, ActiveIsOpen, StageOf, Realtime!OnFloor,
     Realtime!Goes, Speech
<1>5. HeardIsShown /\ RtChoices
  BY <1>2, <1>3 DEF HeardIsShown, RtChoices, ChoiceIsKept, ChoiceIsOwed, Realtime!OwnChoice,
     Realtime!Plays, Realtime!Restores, Realtime!Goes, Realtime!Speech, Speech
<1>6. QED
  BY <1>1, <1>4, <1>5 DEF RtInv

\* What the invariant says of the speeches, of the interruptions and of the choices.
LEMMA RtInvImplies == RtInv => RepliesInStep
<1> SUFFICES ASSUME RtInv PROVE RepliesInStep
  OBVIOUS
<1>0. /\ Basics /\ RtFloor /\ HeardIsShown /\ RtChoices
      /\ \A h \in Speech : rtTask[h] \in Record /\ StageOf(h)
      /\ Realtime!Speech = Speech
  BY DEF RtInv, Basics, RtTypes, RtFloor, Realtime!Speech, Speech
<1>1. Realtime!TypeOK
  <2>1. \A h \in Speech :
          /\ rtTask[h].given \in Realtime!Choices \cup {Realtime!NotGiven, Realtime!Turn}
          /\ rtTask[h].response \in {"none", "open", "complete", "refused", "interrupted",
                                    "superseded"}
    BY <1>0 DEF Record
  <2>2. active \in 0 .. MaxSpeech + 1
    BY <1>0, SpeechAssumption DEF Basics, RtTypes, Realtime!Skipped
  <2>3. QED
    BY <1>0, <2>1, <2>2 DEF Basics, RtTypes, Realtime!TypeOK
<1>2. Realtime!OneIsHeard
  BY <1>0 DEF Realtime!OneIsHeard, HeardIsShown, StageOf, RtFloor, FloorIsCurrent
<1>3. Realtime!MessageIsRecorded
  <2>1. rtDone \subseteq Speech
    BY <1>0, SpeechAssumption DEF Basics, RtTypes, Speech
  <2>2. QED
    BY <1>0, <2>1 DEF Realtime!MessageIsRecorded, StageOf
<1>4. Realtime!NobodyElseIsCut
  BY <1>0 DEF Realtime!NobodyElseIsCut, StageOf
<1>5. Realtime!ChoiceIsRestored
  BY <1>0 DEF Realtime!ChoiceIsRestored, RtChoices, ChoiceIsOwed
<1>6. QED
  BY <1>0, <1>1, <1>2, <1>3, <1>4, <1>5 DEF RepliesInStep, RtChoices

\* However many speeches there are: one is heard at a time, and recorded before the next;
\* an interruption cuts the response of no other; and each is made with its own choice.
THEOREM RepliesKeepStep == RepliesSpec => []RepliesInStep
<1>1. RepliesInit => RtInv
  BY RtInvInit DEF RepliesInit
<1>2. RtInv /\ [RepliesNext]_allVars => RtInv'
  <2> SUFFICES ASSUME RtInv, [RepliesNext]_allVars PROVE RtInv'
    OBVIOUS
  <2>1. [Realtime!Next]_rtVars
    BY DEF RepliesNext, allVars
  <2>2. QED
    BY <2>1, BasicsStep, RtFloorStep, RtChoicesStep DEF RtInv
<1>3. QED
  BY <1>1, <1>2, RtInvImplies, PTL DEF RepliesSpec
=============================================================================
