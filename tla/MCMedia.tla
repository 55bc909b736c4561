------------------------------ MODULE MCMedia ------------------------------
(***************************************************************************)
(* The connection pool, and the instances of AudioInput, TranscriptOutput, *)
(* JobContext, VadStream, SttOptions and TtsOptions, that TLC checks in    *)
(* one run.  They share no state: a behaviour is one of the component that *)
(* its initial state names, and the others stand still.                    *)
(***************************************************************************)
EXTENDS MCConnectionPool, FiniteSets

CONSTANTS
    Users, NoOne,                        \* of AudioInput, TranscriptOutput and JobContext
    MaxTracks, MaxChoices,               \* of AudioInput
    MaxTextCalls,                        \* of TranscriptOutput
    Others, Entries, Waits, MaxVisits,   \* of JobContext
    MinSpeech, MinSilence, Prefix, Buffered, MaxWindows, MaxUpdates, \* of VadStream
    SttPlugins, MaxStreams,              \* of SttOptions
    TtsPlugins, MaxRequests,             \* of TtsOptions
    MaxCalls, MaxFaults                  \* of both

VARIABLES
    component, \* the one that runs
    tracks, published, listens, publication, readers, data, playback, inputPhase, choices, late,
    legacy, delta, mics, who, track, id, capturing, text, writer, parts, segment, capture,
    flushes, shown, changes, changed, switched, lost,
    connected, room, visits, visit, entries, tasks, known, served, owed, rejoined, missing,
    waiting,
    window, voice, silence, speaking, first, ignored, size, buffer, index, vad, updates, cut,
    inbox, recognizer, events,
    sttPlugin, sttOpts, sttGiven, phase, own, due, rate, asked, wake, calls, faults,
    ttsPlugin, ttsOpts, ttsGiven, ttsRate, kind, requestPhase, copied, wanted, said, emitted,
    conn, openedWith, idle, closing, streamsToClose, before, ttsCalls, ttsFaults

inputVars  == <<tracks, published, listens, publication, readers, data, playback, inputPhase,
                choices, late>>
outputVars == <<legacy, delta, mics, who, track, id, capturing, text, writer, parts, segment,
                capture, flushes, shown, changes, changed, switched, lost>>
jobVars    == <<connected, room, visits, visit, entries, tasks, known, served, owed, rejoined,
                missing, waiting>>
vadVars    == <<window, voice, silence, speaking, first, ignored, size, buffer, index, vad,
                updates, cut, inbox, recognizer, events>>
sttVars    == <<sttPlugin, sttOpts, sttGiven, phase, own, due, rate, asked, wake, calls, faults>>
ttsVars    == <<ttsPlugin, ttsOpts, ttsGiven, ttsRate, kind, requestPhase, copied, wanted, said,
                emitted, conn, openedWith, idle, closing, streamsToClose, before, ttsCalls,
                ttsFaults>>
mediaVars  == <<component, vars, inputVars, outputVars, jobVars, vadVars, sttVars, ttsVars>>

Input  == INSTANCE AudioInput WITH None <- NoOne, phase <- inputPhase, buffer <- playback
Output == INSTANCE TranscriptOutput WITH None <- NoOne, MaxCalls <- MaxTextCalls
Context == INSTANCE JobContext WITH None <- NoOne, due <- owed
Vad    == INSTANCE VadStream
Stt    == INSTANCE SttOptions WITH Plugins <- SttPlugins, plugin <- sttPlugin,
              opts <- sttOpts, given <- sttGiven
Tts    == INSTANCE TtsOptions WITH Plugins <- TtsPlugins, plugin <- ttsPlugin,
              opts <- ttsOpts, given <- ttsGiven, phase <- requestPhase, own <- copied,
              due <- wanted, opened <- openedWith, toClose <- streamsToClose,
              calls <- ttsCalls, faults <- ttsFaults

ASSUME MediaAssumption ==
    /\ IsFiniteSet(Users \cup Others) /\ {NoOne, "anyone"} \cap (Users \cup Others) = {}
    /\ {MaxTracks, MaxChoices, MaxTextCalls, MaxVisits, MaxWindows, MaxUpdates, MaxStreams,
        MaxRequests, MaxCalls, MaxFaults} \subseteq Nat
    /\ Buffered \cup {Prefix, MinSpeech, MinSilence} \subseteq Nat
    /\ SttPlugins \subseteq DOMAIN Stt!Profile /\ TtsPlugins \subseteq DOMAIN Tts!Profile

PoolRuns    == component = "pool"
InputRuns   == component = "input"
OutputRuns  == component = "output"
ContextRuns == component = "context"
VadRuns     == component = "vad"
SttRuns     == component = "stt"
TtsRuns     == component = "tts"

MediaInit ==
    /\ component \in {"pool", "input", "output", "context", "vad", "stt", "tts"}
    /\ Init /\ Input!Init /\ Output!Init /\ Context!Init /\ Vad!Init /\ Stt!Init /\ Tts!Init
    /\ ~OutputRuns => legacy /\ delta /\ mics = {} /\ who = NoOne
    /\ ~VadRuns => \A b \in Buffered : size <= b + Prefix
    /\ ~SttRuns => sttPlugin = "deepgram"
    /\ ~TtsRuns => ttsPlugin = "deepgram"

MediaNext ==
    /\ IF PoolRuns THEN Next ELSE UNCHANGED vars
    /\ IF InputRuns THEN Input!Next ELSE UNCHANGED inputVars
    /\ IF OutputRuns THEN Output!Next ELSE UNCHANGED outputVars
    /\ IF ContextRuns THEN Context!Next ELSE UNCHANGED jobVars
    /\ IF VadRuns THEN Vad!Next ELSE UNCHANGED vadVars
    /\ IF SttRuns THEN Stt!Next ELSE UNCHANGED sttVars
    /\ IF TtsRuns THEN Tts!Next ELSE UNCHANGED ttsVars
    /\ UNCHANGED component

MediaSpec == MediaInit /\ [][MediaNext]_mediaVars

-----------------------------------------------------------------------------
\* The input listens to the audio of the participant that was chosen, in order, and stops
\* when it is closed, unless a track came meanwhile; each visit of a participant is served
\* once by each entrypoint that was added before; and a wait for one who is there is over.
ParticipantsAreServed ==
    /\ Input!TypeOK /\ Input!ListensToParticipant /\ Input!FramesInOrder
    /\ Input!ClosedLeavesNothing
    /\ Context!TypeOK /\ Context!VisitsAreServed /\ Context!TasksAreKnown
    /\ Context!WaitsAreAnswered

\* The text of a segment is shown whole, apart from that of others, for the track of who
\* spoke it, and ends; unless the participant was set within it, or a message was lost.
TextIsWhole ==
    /\ Output!TypeOK /\ Output!FinalIsWhole /\ Output!SegmentsApart /\ Output!AllFinal
    /\ Output!OwnTrack

\* What is recognized of the user is the speech that was detected, without a gap and speech
\* by speech; unless the buffer was full or made smaller.
SpeechIsDetected ==
    /\ Vad!TypeOK /\ Vad!AudioIsOfSpeech /\ Vad!SpeechInOrder /\ Vad!DetectionGoesOn
    /\ Vad!SpeechEnds

\* What a recognizer is given reaches its streams and the sessions of these, and nothing
\* else does; unless the plugin withholds it.
OptionsAreFollowed ==
    Stt!TypeOK /\ Stt!OptionsStand /\ Stt!StreamsFollow /\ Stt!SessionsFollow

\* A text is spoken as was asked when its request was made, at the rate that its listeners
\* are told, and a TTS that is closed leaves no stream; unless that is part of a connection,
\* update_options changes the rate, or the plugin does not list its streams.
SpokenAsAsked ==
    Tts!TypeOK /\ Tts!SpokenAsAsked /\ Tts!RateIsAsked /\ Tts!RateIsKnown /\ Tts!ClosedIsOver
=============================================================================
