------------------------------ MODULE MCVoice ------------------------------
(***************************************************************************)
(* The instances of TurnDetection, AgentSession, SpeechOutput, SttStream   *)
(* and SttFallback that TLC checks in one run.  The five share no state: a *)
(* behaviour is one of the component that its initial state names, and the *)
(* others stand still.                                                     *)
(***************************************************************************)
EXTENDS Naturals, Sequences, FiniteSets

CONSTANTS
    Modes, MaxSegments, MaxSpeeches, MaxByHand,  \* of TurnDetection
    User, Others, Drainer, MaxAgents,            \* of AgentSession
    MaxReplies, MaxFrames,                       \* of SpeechOutput
    Plugins, MaxRetry, MaxFaults, MaxUpdates,    \* of SttStream
    MaxExpiries,
    NumProviders, MaxStreams                     \* of SttFallback

VARIABLES
    component,    \* the one that runs
    mode, hasStt, segment, oldStt, speaking, speeches, transcript, interim, committed,
    commit, byHand, eou, eouOfCommit, told, dropped, draining, userState, agentState,
    awayTimer,
    started, agent, activity, nextActivity, sessionLock, updateLock, lockOf, life, speech,
    starts, requests, at, target, closeEvents, sessions, early, overlap,
    cur, phase, interrupted, af, tf, frames, first, record, startedFut, inner, outer,
    event, waiters, last, impl, tCapturing, rotations, doomed, mute,
    plugin, audio, unread, inputEnded, wake, conn, sender, inService, transcribed, lost,
    stopped, retries, failures, raised, sttPhase, faults, updates, expiries,
    status, recovery, owner, stream, streamPhase, allFailed, main, mainState, forward,
    waiting, pushed, streamEnded

turnVars    == <<mode, hasStt, segment, oldStt, speaking, speeches, transcript, interim,
                 committed, commit, byHand, eou, eouOfCommit, told, dropped, draining,
                 userState, agentState, awayTimer>>
sessionVars == <<started, agent, activity, nextActivity, sessionLock, updateLock, lockOf,
                 life, speech, starts, requests, at, target, closeEvents, sessions, early,
                 overlap>>
outputVars  == <<cur, phase, interrupted, af, tf, frames, first, record, startedFut, inner,
                 outer, event, waiters, last, impl, tCapturing, rotations, doomed, mute>>
sttVars     == <<plugin, audio, unread, inputEnded, wake, conn, sender, inService,
                 transcribed, lost, stopped, retries, failures, raised, sttPhase, faults,
                 updates, expiries>>
adapterVars == <<status, recovery, owner, stream, streamPhase, allFailed, main, mainState,
                 forward, waiting, pushed, streamEnded>>
vars == <<component, turnVars, sessionVars, outputVars, sttVars, adapterVars>>

Turns    == INSTANCE TurnDetection
Session  == INSTANCE AgentSession
Output   == INSTANCE SpeechOutput WITH MaxSpeeches <- MaxReplies
Stt      == INSTANCE SttStream WITH pushed <- audio, phase <- sttPhase
Adapter  == INSTANCE SttFallback WITH phase <- streamPhase, unread <- waiting,
                inputEnded <- streamEnded

\* The bounds are numbers, an adapter has a provider, "at least one", and a stream, the tasks
\* of agents, of closes and of a drain are others, and the plugins are those modelled.
ASSUME VoiceAssumption ==
    /\ MaxSegments \in Nat /\ MaxSpeeches \in Nat /\ MaxByHand \in Nat /\ MaxAgents \in Nat
    /\ MaxReplies \in Nat /\ MaxFrames \in Nat /\ MaxRetry \in Nat /\ MaxFaults \in Nat
    /\ MaxUpdates \in Nat /\ MaxExpiries \in Nat
    /\ NumProviders \in Nat \ {0} /\ MaxStreams \in Nat \ {0}
    /\ Plugins \subseteq {"deepgram", "assemblyai", "speechmatics", "openai", "google",
                          "gladia", "azure", "aws"}
    /\ ({User, Drainer} \cup Others) \cap (1 .. MaxAgents) = {}
    /\ Drainer \notin {User} \cup Others

TurnsRun     == component = "turns"
SessionRuns  == component = "session"
OutputRuns   == component = "output"
SttRuns      == component = "stt"
AdapterRuns  == component = "adapter"

Init ==
    /\ component \in {"turns", "session", "output", "stt", "adapter"}
    /\ Turns!Init /\ Session!Init /\ Output!Init
    /\ Stt!Init /\ Adapter!Init
    /\ ~TurnsRun => mode = "manual" /\ hasStt
    /\ ~SttRuns => plugin = "deepgram"

Next ==
    /\ IF TurnsRun THEN Turns!Next ELSE UNCHANGED turnVars
    /\ IF SessionRuns THEN Session!Next ELSE UNCHANGED sessionVars
    /\ IF OutputRuns THEN Output!Next ELSE UNCHANGED outputVars
    /\ IF SttRuns THEN Stt!Next ELSE UNCHANGED sttVars
    /\ IF AdapterRuns THEN Adapter!Next ELSE UNCHANGED adapterVars
    /\ UNCHANGED component

\* The fairness of each component, while it is the one that runs.
FairTurns ==
    /\ WF_turnVars(TurnsRun /\ (Turns!EouPredicted \/ Turns!EouFails))
    /\ WF_turnVars(TurnsRun /\ (Turns!RefuseTurn \/ Turns!EndTurn))
    /\ WF_turnVars(TurnsRun /\ Turns!FinishCommit)

FairSession ==
    /\ \A n \in Session!Agents :
        WF_sessionVars(SessionRuns /\ (Session!StartLocked(n) \/ Session!RoomStarted(n)
                       \/ Session!UpdateLocked(n) \/ Session!ActivityStarted(n)
                       \/ Session!HandOverCloses(n)))
    /\ \A c \in Session!Closers :
        /\ WF_sessionVars(SessionRuns /\ (Session!CloseLocked(c) \/ Session!Interrupted(c)
                          \/ Session!CloserCloses(c) \/ Session!FinishClose(c)))
        /\ SF_sessionVars(SessionRuns /\ Session!CurrentSpeechEnded(c))
    /\ \A p \in Session!Tasks : WF_sessionVars(SessionRuns /\ (Session!BeginDrain(p) \/ Session!EndDrain(p)))
    /\ \A a \in Session!Agents : WF_sessionVars(SessionRuns /\ Session!SpeechEnds(a))

FairOutput ==
    /\ WF_outputVars(OutputRuns /\ (Output!RotateCloses \/ Output!RotateEnds \/ Output!RotateDies))
    /\ WF_outputVars(OutputRuns /\ (Output!PassBarrier \/ Output!FrameGoesOn \/ Output!FrameTaken))
    /\ WF_outputVars(OutputRuns /\ af = "raised" /\ Output!FlushAudio)
    /\ WF_outputVars(OutputRuns /\ Output!TextPassesBarrier)
    /\ WF_outputVars(OutputRuns /\ tf = "raised" /\ Output!FlushText)
    /\ WF_outputVars(OutputRuns /\ Output!Started) /\ WF_outputVars(OutputRuns /\ Output!PlayFrame)
    /\ WF_outputVars(OutputRuns /\ Output!FlushEnds)
    /\ WF_outputVars(OutputRuns /\ \E w \in waiters : Output!Wake(w))
    /\ WF_outputVars(OutputRuns /\ Output!WaitForPlayout) /\ WF_outputVars(OutputRuns /\ Output!PlayedOut)
    /\ WF_outputVars(OutputRuns /\ Output!CancelTasks) /\ WF_outputVars(OutputRuns /\ Output!ClearBuffer)
    /\ WF_outputVars(OutputRuns /\ Output!RecordInterrupted)

FairStt ==
    /\ WF_sttVars(SttRuns /\ Stt!Retry)
    /\ WF_sttVars(SttRuns /\ Stt!Connect) /\ WF_sttVars(SttRuns /\ Stt!FindsStopped)
    /\ WF_sttVars(SttRuns /\ Stt!SendFrame) /\ WF_sttVars(SttRuns /\ Stt!SendEnds)
    /\ WF_sttVars(SttRuns /\ Stt!Transcript) /\ WF_sttVars(SttRuns /\ Stt!Reconnect)
    /\ WF_sttVars(SttRuns /\ Stt!RunEnds)

FairAdapter ==
    /\ WF_adapterVars(AdapterRuns /\ (Adapter!Forward \/ Adapter!ForwardEnds))
    /\ WF_adapterVars(AdapterRuns /\ Adapter!FallBack)
    /\ WF_adapterVars(AdapterRuns /\ Adapter!MainEnds)
    /\ \A p \in Adapter!Providers : WF_adapterVars(AdapterRuns /\ Adapter!RecoveryEnds(p))

Spec ==
    /\ Init /\ [][Next]_vars
    /\ FairTurns /\ FairSession /\ FairOutput /\ FairStt /\ FairAdapter

-----------------------------------------------------------------------------
\* The types of the variables of the five components.
TypeOK ==
    /\ Turns!TypeOK /\ Session!TypeOK /\ Output!TypeOK
    /\ Stt!TypeOK /\ Adapter!TypeOK

\* The audio of the user goes to some provider as long as a recognition stream runs, is
\* transcribed or lost with a connection, and no error ends a stream with retries left.  What
\* the STT finalized is in the turn under way or in a turn that was taken, in order and once,
\* unless it was ignored, cleared or handed over; no turn ends while the user speaks,
\* whichever of the VAD and the STT comes first, unless the application committed it; and
\* the time the user is away is taken exactly while neither speaks.
UserIsHeard ==
    /\ []Stt!AudioIsKept /\ []Stt!RetriesAreUsed /\ []Stt!SomeKeepListening
    /\ []Adapter!SomeoneForwards
    /\ []Turns!TranscriptIsKept /\ []Turns!IdleIsTimed /\ Turns!NoTurnOverSpeech

\* One agent runs at a time, and the close event is emitted once for each start; neither a
\* hand-over nor a close cuts what the agent says or a tool does, except a close that finds
\* another activity than the one it drained.
AgentsTakeTurns ==
    []Session!OneAgentRuns /\ []Session!ClosedOnce /\ Session!NothingIsCut

\* The audio of a speech is played alone and its text shown in full, and what is recorded
\* for an interrupted speech holds no text of another, unless audio ended before its text
\* or a rotation of the synchronizer was cancelled.
PlayedAsRecorded ==
    []Output!OwnTranscript /\ Output!PlayedInFull /\ Output!FlushIsExclusive

\* A turn ends once the user is silent, and once the application commits it, unless the
\* agent's speech was too important, the detector failed, the agent changed, or the user
\* went on speaking.  A stream ends once its input has, unless its plugin does not tell the
\* service or never returns.  A close ends, unless a tool of the activity awaits it; the
\* agent that was asked for last runs in the end, unless it was asked for during a start;
\* and the wait for the playout of a speech ends, unless a segment was lost before the track
\* was subscribed to.
VoiceGoesOn ==
    /\ Turns!SilenceEndsTurn /\ Turns!CommitEndsTurn
    /\ Stt!StreamEnds /\ Adapter!EndsWithInput
    /\ Session!CloseEnds /\ Session!LatestAgentRuns
    /\ Output!WaitEndsIfCounted
=============================================================================
