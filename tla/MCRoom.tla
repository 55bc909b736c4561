------------------------------- MODULE MCRoom -------------------------------
(***************************************************************************)
(* The process pool, and the instances of TtsStream, GeminiSession,        *)
(* RoomIO, ThreadRunner and BackgroundAudio, that TLC checks in one run.   *)
(* They share no state: a behaviour is one of the component that its       *)
(* initial state names, and the others stand still.                        *)
(***************************************************************************)
EXTENDS ProcPool

CONSTANTS
    Plugins, MaxRetry, MaxTokens, PerToken, MaxTtsFaults,  \* of TtsStream
    MaxReplies, MaxChanges, MaxFaults,                     \* of GeminiSession
    Users, Others, None, MaxChoices,                       \* of RoomIO
    MaxTraces,                                             \* of ThreadRunner
    MaxSounds, MaxReconnects                               \* of BackgroundAudio

VARIABLES
    component, \* the one that runs
    plugin, blank, pushed, inputEnded, taken, sent, base, words, conn, ready, leftover, saying,
    eos, writing, counted, heard, attempt, error, cut, phase, ttsFaults,
    options, unnoticed, session, opened, shouldClose, msgs, held, queued, log, replaced, since,
    owed, turn, generation, pending, future, answer, spoilt, replies, contexts, changes, faults,
    room, joined, identity, available, link, got, orphan, listens, open, choices, chosen, loose,
    toThread, toWorker, threadInit, main, launched, status, joinLock, threadJoined,
    threadClosing, traces, thread, reader, threadJob, shutdownFut, raised,
    lock, opening, closing, thinks, sounds, thinking, publication, tracks, republish,
    reconnects, onState, onReconnect, raced

ttsVars    == <<plugin, blank, pushed, inputEnded, taken, sent, base, words, conn, ready,
                leftover, saying, eos, writing, counted, heard, attempt, error, cut, phase,
                ttsFaults>>
geminiVars == <<options, unnoticed, session, opened, shouldClose, msgs, held, queued, log,
                replaced, since, owed, turn, generation, pending, future, answer, spoilt,
                replies, contexts, changes, faults>>
roomVars   == <<room, joined, identity, available, link, got, orphan, listens, open, choices,
                chosen, loose>>
threadVars == <<toThread, toWorker, threadInit, main, launched, status, joinLock, threadJoined,
                threadClosing, traces, thread, reader, threadJob, shutdownFut, raised>>
playerVars == <<lock, opening, closing, thinks, sounds, thinking, publication, tracks,
                republish, reconnects, onState, onReconnect, raced>>
partVars   == <<component, vars, ttsVars, geminiVars, roomVars, threadVars, playerVars>>

Tts    == INSTANCE TtsStream WITH MaxFaults <- MaxTtsFaults, pool <- ready, raised <- error,
              faults <- ttsFaults
Gemini == INSTANCE GeminiSession WITH main <- session, asked <- owed
Room   == INSTANCE RoomIO WITH init <- link
Thread == INSTANCE ThreadRunner WITH initFut <- threadInit, joined <- threadJoined,
              closing <- threadClosing, job <- threadJob
Player == INSTANCE BackgroundAudio

ASSUME PartsAssumption ==
    /\ MaxReplies \in Nat /\ MaxChanges \in Nat /\ MaxFaults \in Nat
    /\ None \notin Users \cup Others /\ MaxChoices \in Nat
    /\ MaxTraces \in Nat /\ MaxSounds \in Nat /\ MaxReconnects \in Nat
    /\ MaxRetry \in Nat /\ MaxTokens \in Nat /\ PerToken \in Nat

ASSUME SynthesisAssumption == Plugins \subseteq DOMAIN Tts!Chunks \cup DOMAIN Tts!Streams

PoolRuns   == component = "pool"
TtsRuns    == component = "tts"
GeminiRuns == component = "gemini"
RoomRuns   == component = "room"
ThreadRuns == component = "thread"
PlayerRuns == component = "player"

PartInit ==
    /\ component \in {"pool", "tts", "gemini", "room", "thread", "player"}
    /\ Init /\ Tts!Init /\ Gemini!Init /\ Room!Init /\ Thread!Init /\ Player!Init
    /\ ~TtsRuns => plugin = "elevenlabs" /\ ~blank /\ ready = "none"
    /\ ~RoomRuns => identity = None

PartNext ==
    /\ IF PoolRuns THEN Next ELSE UNCHANGED vars
    /\ IF TtsRuns THEN Tts!Next ELSE UNCHANGED ttsVars
    /\ IF GeminiRuns THEN Gemini!Next ELSE UNCHANGED geminiVars
    /\ IF RoomRuns THEN Room!Next ELSE UNCHANGED roomVars
    /\ IF ThreadRuns THEN Thread!Next ELSE UNCHANGED threadVars
    /\ IF PlayerRuns THEN Player!Next ELSE UNCHANGED playerVars
    /\ UNCHANGED component

\* The fairness of each component, while it is the one that runs.
FairPool ==
    /\ WF_vars(PoolRuns /\ MainLoop) /\ WF_vars(PoolRuns /\ CloserStep)
    /\ \A p \in Proc :
        /\ WF_vars(PoolRuns /\ BeginStart(p))
        /\ WF_vars(PoolRuns /\ (Started(p) \/ StartedDead(p)))
        /\ WF_vars(PoolRuns /\ (InitOk(p) \/ InitFails(p)))
        /\ WF_vars(PoolRuns /\ Stop(p)) /\ WF_vars(PoolRuns /\ MonitorEnds(p))
    /\ \A j \in Job : WF_vars(PoolRuns /\ Resume(j))

FairTts ==
    /\ WF_ttsVars(TtsRuns /\ Tts!Retry) /\ WF_ttsVars(TtsRuns /\ Tts!MainEnds)
    /\ WF_ttsVars(TtsRuns /\ Tts!TakeText) /\ WF_ttsVars(TtsRuns /\ Tts!TakeEnd)
    /\ WF_ttsVars(TtsRuns /\ Tts!NoText) /\ WF_ttsVars(TtsRuns /\ Tts!Connect)
    /\ WF_ttsVars(TtsRuns /\ Tts!SendToken) /\ WF_ttsVars(TtsRuns /\ Tts!SendEos)
    /\ WF_ttsVars(TtsRuns /\ Tts!ReceiveAudio) /\ WF_ttsVars(TtsRuns /\ Tts!ReceiveClose)
    /\ WF_ttsVars(TtsRuns /\ Tts!RunEnds) /\ WF_ttsVars(TtsRuns /\ Tts!EmitFrame)

FairGemini ==
    /\ WF_geminiVars(GeminiRuns /\ Gemini!Connect)
    /\ WF_geminiVars(GeminiRuns /\ (Gemini!Connected \/ Gemini!ConnectFails))
    /\ WF_geminiVars(GeminiRuns /\ Gemini!Restart)

FairRoom ==
    /\ WF_roomVars(RoomRuns /\ Room!InitLooks) /\ WF_roomVars(RoomRuns /\ Room!InitLinks)
    /\ WF_roomVars(RoomRuns /\ Room!OutputStarted)

FairThread ==
    /\ WF_threadVars(ThreadRuns /\ Thread!Ask)
    /\ WF_threadVars(ThreadRuns /\ (Thread!InitAnswered \/ Thread!InitTimeout))
    /\ WF_threadVars(ThreadRuns /\ Thread!Serve) /\ WF_threadVars(ThreadRuns /\ Thread!MainEnds)
    /\ WF_threadVars(ThreadRuns /\ Thread!Join) /\ WF_threadVars(ThreadRuns /\ Thread!JoinEnds)
    /\ WF_threadVars(ThreadRuns /\ Thread!CloseLocks) /\ WF_threadVars(ThreadRuns /\ Thread!Closed)
    /\ WF_threadVars(ThreadRuns /\ Thread!Initialize) /\ WF_threadVars(ThreadRuns /\ Thread!StartJob)
    /\ WF_threadVars(ThreadRuns /\ Thread!Shutdown) /\ WF_threadVars(ThreadRuns /\ Thread!Trace)
    /\ WF_threadVars(ThreadRuns /\ Thread!TraceEnds) /\ WF_threadVars(ThreadRuns /\ Thread!JobEnds)
    /\ WF_threadVars(ThreadRuns /\ Thread!ThreadEnds)

FairPlayer ==
    /\ WF_playerVars(PlayerRuns /\ Player!Started) /\ WF_playerVars(PlayerRuns /\ Player!Republish)
    /\ WF_playerVars(PlayerRuns /\ Player!Republished)
    /\ WF_playerVars(PlayerRuns /\ Player!CancelRepublish)
    /\ WF_playerVars(PlayerRuns /\ Player!CloseMixer) /\ WF_playerVars(PlayerRuns /\ Player!CloseEnds)
    /\ \A i \in 1 .. MaxSounds :
        WF_playerVars(PlayerRuns /\ i \in 1 .. Len(sounds) /\ Player!PlayTaskEnds(i))

PartSpec ==
    /\ PartInit /\ [][PartNext]_partVars
    /\ FairPool /\ FairTts /\ FairGemini /\ FairRoom /\ FairThread /\ FairPlayer

-----------------------------------------------------------------------------
\* The speech of a stream is in order and complete over its retries, no error ends it with
\* retries left, and it leaves nothing in the connection that the next stream takes; unless
\* a close was taken for the end of the audio, or an attempt that failed had taken the text.
StreamsInOrder ==
    Tts!TypeOK /\ Tts!InOrder /\ Tts!SaysTheRest /\ Tts!PoolIsClean /\ Tts!RetriesAreUsed

\* A session of Gemini has the options that are set and is sent each message in order and
\* once, its generations end with it, and a reply is that of its own turn; unless the options
\* were set through the model, or the service took another turn for the reply.
GeminiInStep ==
    /\ Gemini!TypeOK /\ Gemini!OptionsAreCurrent /\ Gemini!MessagesAreKept
    /\ Gemini!GenerationEnds /\ Gemini!PendingIsKnown /\ Gemini!OwnTurn

\* The session is linked to the participant that was chosen and is in the room; a thread
\* that was closed runs nothing, and a job it reports has run; a sound for thinking is
\* played while the agent thinks, on one track.
RoomInStep ==
    /\ Room!TypeOK /\ Room!LinkedIsSet /\ Room!ChoiceStands
    /\ Thread!TypeOK /\ Thread!SuccessHasRun /\ Thread!ClosedIsOver
    /\ Player!TypeOK /\ Player!ThinksAloud /\ Player!OneTrack

\* The pool gives each job that waits a process and fills up again after every failure, and
\* its aclose() returns, unless a process was being started when it was called, or is asked
\* to stop before it was initialized.  A synthesis ends after its input; a session that is
\* to be restarted is connected again; the output starts for a participant who stays; a
\* thread ends when it is closed; and the track is there again after a reconnection; unless
\* what is named at each has happened.
PartsEnd ==
    /\ PoolRuns => NeedsAreMet /\ PoolCloses
    /\ Tts!StreamEnds /\ Gemini!SessionGoesOn /\ Room!OutputStarts /\ Thread!CloseEnds
    /\ Player!TrackComesBack
=============================================================================
