---------------------------- MODULE TurnDetection ----------------------------
(***************************************************************************)
(* When the user's turn ends: voice/audio_recognition.py, with the hooks   *)
(* of voice/agent_activity.py that it calls and the user state of          *)
(* voice/agent_session.py.                                                 *)
(*                                                                         *)
(* Three streams are joined on one loop: the VAD says when the user starts *)
(* and stops to speak, the STT what was said, and the application may      *)
(* commit or clear the turn.  Each of them may start _bounce_eou_task,     *)
(* which waits and then ends the turn; a newer one replaces it.  Neither   *)
(* stream is in step with the other.                                       *)
(*                                                                         *)
(* What is said is a number, in the order in which it is said, with the    *)
(* kind of the transcript that holds it: the STT may send its interim text *)
(* any number of times before the final one.                               *)
(***************************************************************************)
EXTENDS Naturals, Sequences, Functions

CONSTANTS
    Modes,        \* the turn detection modes: "vad" (also None), "stt", "manual"
    MaxSegments,  \* bound: segments that the user says
    MaxSpeeches,  \* bound: times the user starts to speak
    MaxByHand     \* bound: calls of commit_user_turn and clear_user_turn

VARIABLES
    mode,        \* _turn_detection_mode
    hasStt,      \* _stt is not None
    segment,     \* the segment the STT is at: it has finalized 1 .. segment - 1
    oldStt,      \* an STT stream that update_stt replaced still runs
    speaking,    \* _speaking
    speeches,    \* bound: times the user has started to speak
    transcript,  \* _audio_transcript
    interim,     \* _audio_interim_transcript: its segment, or 0
    committed,   \* _user_turn_committed
    commit,      \* _commit_user_turn_atask runs
    byHand,      \* bound: calls by the application so far
    eou,         \* _end_of_turn_task
    eouOfCommit, \* that task was started on behalf of a committed turn
    told,        \* what on_end_of_turn has taken, turn after turn
    dropped,     \* the segments that were ignored, cleared or lost by a hand-over
    draining,    \* AgentActivity._draining
    userState,   \* AgentSession._user_state
    agentState,  \* AgentSession._agent_state
    awayTimer    \* _user_away_timer is set

sttVars    == <<segment, oldStt>>
vadVars    == <<speaking, speeches>>
textVars   == <<transcript, interim, told, dropped>>
eouVars    == <<eou, eouOfCommit>>
handVars   == <<commit, byHand>>
stateVars  == <<userState, agentState, awayTimer>>
vars == <<mode, hasStt, sttVars, vadVars, textVars, committed, handVars, eouVars,
          draining, stateVars>>

(* _end_of_turn_task:
     "none"       never created
     "detecting"  await turn_detector.predict_end_of_turn
     "sleeping"   waiting for the endpointing delay
     "taken", "refused"  it ended, and on_end_of_turn returned True, False
     "failed"     the turn detector raised
     "cancelled"                                                           *)
EouEnded == {"taken", "refused", "failed", "cancelled"}
EouRuns  == {"detecting", "sleeping"}

Segment == 1 .. MaxSegments
Said    == Segment \X {"interim", "final"}
SegmentsOf(s) == {said[1] : said \in Range(s)}

Init ==
    /\ mode \in Modes
    /\ hasStt \in BOOLEAN
    /\ segment = 1 /\ oldStt = FALSE
    /\ speaking = FALSE /\ speeches = 0
    /\ transcript = <<>> /\ interim = 0 /\ told = <<>> /\ dropped = {}
    /\ committed = FALSE
    /\ commit = FALSE /\ byHand = 0
    /\ eou = "none" /\ eouOfCommit = FALSE
    /\ draining = FALSE
    /\ userState = "listening" /\ agentState = "initializing" /\ awayTimer = FALSE

-----------------------------------------------------------------------------
(* The states of the user and of the agent, and the timer of user_away_timeout *)

\* _update_agent_state.
SetAgentState(s) ==
    /\ agentState # s
    /\ agentState' = s
    /\ awayTimer' = (s = "listening" /\ userState = "listening")
    /\ UNCHANGED userState

\* _update_user_state: nothing happens when the state stays the same.
SetUserState(s) ==
    /\ userState' = s
    /\ awayTimer' = IF userState = s THEN awayTimer
                    ELSE s = "listening" /\ agentState = "listening"
    /\ UNCHANGED agentState

\* The session starts, a speech thinks, speaks or ends.
AgentChanges(s) ==
    /\ SetAgentState(s)
    /\ UNCHANGED <<mode, hasStt, sttVars, vadVars, textVars, committed, handVars, eouVars,
                   draining>>

AwayTimeout ==
    /\ awayTimer
    /\ SetUserState("away")
    /\ UNCHANGED <<mode, hasStt, sttVars, vadVars, textVars, committed, handVars, eouVars,
                   draining>>

-----------------------------------------------------------------------------
(* _run_eou_detection, with text what _audio_transcript holds: it does nothing
   when the STT has told nothing yet; else it replaces the task.             *)

RunEouDetection(text, ofCommit) ==
    IF hasStt /\ text = <<>> /\ mode # "manual"
    THEN UNCHANGED eouVars
    ELSE /\ eou' \in (IF text # <<>> /\ mode # "manual" THEN {"detecting"} ELSE {})
                     \cup {"sleeping"}
         /\ eouOfCommit' = ofCommit

\* The turn detector answers: the delay is the short or the long one.
EouPredicted ==
    /\ eou = "detecting"
    /\ eou' = "sleeping"
    /\ UNCHANGED <<mode, hasStt, sttVars, vadVars, textVars, committed, handVars,
                   eouOfCommit, draining, stateVars>>

\* The turn detector raises, e.g. after the timeout of the inference executor.
EouFails ==
    /\ eou = "detecting"
    /\ eou' = "failed"
    /\ UNCHANGED <<mode, hasStt, sttVars, vadVars, textVars, committed, handVars,
                   eouOfCommit, draining, stateVars>>

\* on_end_of_turn returns False: the agent speaks, and the user said less than
\* min_interruption_words.
RefuseTurn ==
    /\ eou = "sleeping"
    /\ hasStt /\ mode # "manual" /\ ~draining
    /\ agentState \in {"thinking", "speaking"}
    /\ eou' = "refused"
    /\ committed' = FALSE
    /\ UNCHANGED <<mode, hasStt, sttVars, vadVars, textVars, handVars, eouOfCommit,
                   draining, stateVars>>

\* on_end_of_turn returns True; a draining activity takes the turn only to skip it.
EndTurn ==
    /\ eou = "sleeping"
    /\ eou' = "taken"
    /\ IF draining
       THEN dropped' = dropped \cup SegmentsOf(transcript) /\ UNCHANGED told
       ELSE told' = told \o transcript /\ UNCHANGED dropped
    /\ transcript' = <<>>
    /\ committed' = FALSE
    /\ UNCHANGED <<mode, hasStt, sttVars, vadVars, interim, handVars, eouOfCommit,
                   draining, stateVars>>

-----------------------------------------------------------------------------
(* The VAD *)

\* Mutant: the end of the turn is not cancelled when the user goes on.
VadStartKeeps ==
    /\ ~speaking
    /\ speeches < MaxSpeeches /\ speeches' = speeches + 1
    /\ speaking' = TRUE
    /\ SetUserState("speaking")
    /\ UNCHANGED <<mode, hasStt, sttVars, textVars, committed, handVars, eouVars, draining>>

\* START_OF_SPEECH.
VadStart ==
    /\ ~speaking
    /\ speeches < MaxSpeeches /\ speeches' = speeches + 1
    /\ speaking' = TRUE
    /\ eou' = IF eou \in EouRuns THEN "cancelled" ELSE eou
    /\ SetUserState("speaking")
    /\ UNCHANGED <<mode, hasStt, sttVars, textVars, committed, handVars, eouOfCommit,
                   draining>>

\* END_OF_SPEECH.
VadEnd ==
    /\ speaking
    /\ speaking' = FALSE
    /\ IF mode = "vad" \/ (mode = "stt" /\ committed)
       THEN RunEouDetection(transcript, FALSE)
       ELSE UNCHANGED eouVars
    /\ SetUserState("listening")
    /\ UNCHANGED <<mode, hasStt, sttVars, speeches, textVars, committed, handVars, draining>>

-----------------------------------------------------------------------------
(* The STT: _on_stt_event *)

\* With manual turns, what comes after a commit is ignored once the turn ended.
Ignored(kind) ==
    /\ mode = "manual" /\ committed
    /\ eou \in EouEnded \cup {"none"} \/ kind = "interim"

\* FINAL_TRANSCRIPT.
FinalTranscript(n) ==
    IF Ignored("final")
    THEN dropped' = dropped \cup {n} /\ UNCHANGED <<transcript, interim, eouVars>>
    ELSE /\ transcript' = Append(transcript, <<n, "final">>)
         /\ interim' = 0
         /\ IF ~speaking /\ (mode = "vad" \/ committed)
            THEN RunEouDetection(transcript', committed)
            ELSE UNCHANGED eouVars
         /\ UNCHANGED dropped

SttFinal ==
    /\ hasStt /\ ~oldStt
    /\ segment \in Segment
    /\ segment' = segment + 1
    /\ FinalTranscript(segment)
    /\ UNCHANGED <<mode, hasStt, oldStt, vadVars, told, committed, handVars, draining,
                   stateVars>>

\* INTERIM_TRANSCRIPT.
SttInterim ==
    /\ hasStt /\ ~oldStt
    /\ segment \in Segment
    /\ ~Ignored("interim")
    /\ interim' = segment
    /\ UNCHANGED <<mode, hasStt, sttVars, vadVars, transcript, told, dropped, committed,
                   handVars, eouVars, draining, stateVars>>

\* END_OF_SPEECH of the STT.
SttEnd ==
    /\ hasStt /\ ~oldStt
    /\ mode = "stt"
    /\ committed' = TRUE
    /\ IF speaking THEN UNCHANGED eouVars ELSE RunEouDetection(transcript, FALSE)
    /\ UNCHANGED <<mode, hasStt, sttVars, vadVars, textVars, handVars, draining, stateVars>>

\* The stream that clear_user_turn replaced has an event ready before the task that
\* cancels it runs.
OldSttFinal ==
    /\ oldStt
    /\ oldStt' = FALSE
    /\ FinalTranscript(segment - 1)
    /\ UNCHANGED <<mode, hasStt, segment, vadVars, told, committed, handVars, draining,
                   stateVars>>

OldSttCancelled ==
    /\ oldStt
    /\ oldStt' = FALSE
    /\ UNCHANGED <<mode, hasStt, segment, vadVars, textVars, committed, handVars, eouVars,
                   draining, stateVars>>

-----------------------------------------------------------------------------
(* The application *)

\* commit_user_turn: its task waits for a final transcript, up to half a second.
CommitUserTurn ==
    /\ byHand < MaxByHand /\ byHand' = byHand + 1
    /\ commit' = TRUE
    /\ UNCHANGED <<mode, hasStt, sttVars, vadVars, textVars, committed, eouVars, draining,
                   stateVars>>

\* Then the interim transcript stands in for the final one.
FinishCommit ==
    /\ commit
    /\ commit' = FALSE
    /\ transcript' = IF interim = 0 THEN transcript
                     ELSE Append(transcript, <<interim, "interim">>)
    /\ interim' = 0
    /\ RunEouDetection(transcript', TRUE)
    /\ committed' = TRUE
    /\ UNCHANGED <<mode, hasStt, sttVars, vadVars, told, dropped, byHand, draining,
                   stateVars>>

\* clear_user_turn: the STT is replaced; the end of the turn, if under way, is not
\* cancelled.
ClearUserTurn ==
    /\ byHand < MaxByHand /\ byHand' = byHand + 1
    /\ segment \in Segment
    /\ dropped' = dropped \cup SegmentsOf(transcript) \cup {segment}
    /\ transcript' = <<>> /\ interim' = 0
    /\ committed' = FALSE
    /\ oldStt' = hasStt
    /\ segment' = segment + 1
    /\ UNCHANGED <<mode, hasStt, vadVars, told, commit, eouVars, draining, stateVars>>

-----------------------------------------------------------------------------
(* The hand-over to another agent: the activity drains, then its recognition is
   closed, and the one of the next activity starts; the session's states stay. *)

Drain ==
    /\ ~draining
    /\ draining' = TRUE
    /\ UNCHANGED <<mode, hasStt, sttVars, vadVars, textVars, committed, handVars, eouVars,
                   stateVars>>

HandOver ==
    /\ draining /\ ~oldStt
    /\ draining' = FALSE
    /\ dropped' = dropped \cup SegmentsOf(transcript)
    /\ transcript' = <<>> /\ interim' = 0
    /\ speaking' = FALSE /\ committed' = FALSE /\ commit' = FALSE
    /\ eou' = "none" /\ eouOfCommit' = FALSE
    /\ UNCHANGED <<mode, hasStt, sttVars, speeches, told, byHand, stateVars>>

-----------------------------------------------------------------------------
AgentState == {"initializing", "listening", "thinking", "speaking"}

Next ==
    \/ \E s \in AgentState \ {"initializing"} : AgentChanges(s)
    \/ AwayTimeout
    \/ EouPredicted \/ EouFails \/ RefuseTurn \/ EndTurn
    \/ VadStart \/ VadEnd
    \/ SttFinal \/ SttInterim \/ SttEnd \/ OldSttFinal \/ OldSttCancelled
    \/ CommitUserTurn \/ FinishCommit \/ ClearUserTurn
    \/ Drain \/ HandOver

\* The turn detector answers or raises, sleeps end, and the loop runs its tasks.
Fairness ==
    /\ WF_vars(EouPredicted \/ EouFails)
    /\ WF_vars(RefuseTurn \/ EndTurn)
    /\ WF_vars(FinishCommit)

Spec == Init /\ [][Next]_vars
FairSpec == Spec /\ Fairness

-----------------------------------------------------------------------------
(* Properties *)

TypeOK ==
    /\ mode \in Modes /\ hasStt \in BOOLEAN
    /\ segment \in 1 .. MaxSegments + 1 /\ oldStt \in BOOLEAN
    /\ speaking \in BOOLEAN /\ speeches \in 0 .. MaxSpeeches
    /\ transcript \in Seq(Said) /\ told \in Seq(Said)
    /\ interim \in 0 .. MaxSegments
    /\ dropped \subseteq Segment
    /\ committed \in BOOLEAN /\ commit \in BOOLEAN /\ byHand \in 0 .. MaxByHand
    /\ eou \in {"none"} \cup EouRuns \cup EouEnded /\ eouOfCommit \in BOOLEAN
    /\ draining \in BOOLEAN
    /\ userState \in {"listening", "speaking", "away"}
    /\ agentState \in AgentState /\ awayTimer \in BOOLEAN

\* What the STT finalized is in the turn under way or in a turn that was taken,
\* unless it was ignored, cleared or handed over; in the order it was said; and
\* once, except that the interim text of a committed turn may precede it.
TranscriptIsKept ==
    LET all == told \o transcript IN
    /\ \A n \in 1 .. segment - 1 :
        n \in dropped \/ \E i \in 1 .. Len(all) : all[i] = <<n, "final">>
    /\ \A i, j \in 1 .. Len(all) : i < j =>
        all[i][1] < all[j][1] \/ (all[i][1] = all[j][1] /\ all[i][2] = "interim")

\* No turn ends while the user speaks, unless the application committed it: the
\* task that waits for the end is cancelled or not started, whichever of the VAD
\* and the STT comes first.
NoTurnOverSpeech ==
    [][eou = "sleeping" /\ eou' \in {"taken", "refused"} => ~speaking \/ eouOfCommit]_vars

\* Once the user is silent and something was transcribed, the turn ends, in
\* whatever order the VAD's end of speech and the final transcript came; unless the
\* agent's speech was too important, the detector failed, or the agent changed.
SilenceEndsTurn ==
    (mode = "vad" /\ hasStt /\ ~speaking /\ transcript # <<>>)
        ~> (transcript = <<>> \/ speaking \/ eou \in {"refused", "failed", "none"})

\* A turn committed by the application ends, unless the user goes on speaking: then
\* the task is cancelled and the turn stays committed.
CommitEndsTurn ==
    (mode = "manual" /\ committed) ~> (~committed \/ eou = "cancelled")

\* The user is timed exactly while neither speaks, although the two states change
\* from different tasks; and a user who speaks is shown so, also across a hand-over.
IdleIsTimed ==
    /\ awayTimer <=> userState = "listening" /\ agentState = "listening"
    /\ speaking => userState = "speaking"
=============================================================================
