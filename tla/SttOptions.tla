----------------------------- MODULE SttOptions -----------------------------
(***************************************************************************)
(* The options of the speech-to-text plugins: what a recognizer keeps,     *)
(* what its update_options changes and passes on to its streams, what a    *)
(* stream of it takes, and what the sessions of a stream are asked for.    *)
(*                                                                         *)
(* An option is named for its kind: "language"; "rate", the sample rate;   *)
(* "session", whatever else a session is asked for; and those that a       *)
(* plugin treats in a way of its own.  Its value is the number of the call *)
(* that gave it, 0 for the constructor.  The service is external.          *)
(***************************************************************************)
EXTENDS Naturals, Functions

CONSTANTS
    Plugins,    \* the plugins a recognizer may be of
    MaxStreams, \* bound: streams of it
    MaxCalls,   \* bound: options that are given
    MaxFaults   \* bound: sessions that the service ends

Stream == 1 .. MaxStreams
NoOptions == <<>>

VARIABLES
    plugin,
    opts,     \* _opts, or _config, of the recognizer
    given,    \* the values last given to its constructor and update_options
    phase,    \* of each stream: "none", "idle", "connecting", "open", or "over"
    own,      \* _opts of each stream
    due,      \* the values last given to it or, since it was made, to the recognizer
    rate,     \* the rate of its frames: _needed_sr of the base class
    asked,    \* what its session was asked for
    wake,     \* _reconnect_event
    calls,
    faults

streamVars == <<phase, own, due, rate, asked, wake>>
vars == <<plugin, opts, given, streamVars, calls, faults>>

Live(s) == phase[s] \notin {"none", "over"}

-----------------------------------------------------------------------------
(* The plugins.  Keeps: the options of the constructor.  Update: those that   *)
(* update_options of the recognizer stores, those it passes on to the         *)
(* streams, and when it calls them.  StreamUpdate: those that update_options  *)
(* of a stream stores.  Opens: whether a stream has a copy of the options,    *)
(* and where the language goes that stream() is given.  Asks: what a session  *)
(* is asked for, of the stream's options and of the recognizer's.             *)
(* Recognizes: where the language goes that recognize() is given.             *)

Everything == {"language", "rate", "session"}

\* Tags given to the recognizer do not reach the streams.
DeepgramKeeps        == Everything \cup {"tags"}
DeepgramUpdate       == [stores |-> DeepgramKeeps, passes |-> Everything, calls |-> "always"]
DeepgramStreamUpdate == DeepgramKeeps
DeepgramSanitize     == [copies |-> TRUE, language |-> "stream"]
DeepgramAsks         == [stream |-> DeepgramKeeps, recognizer |-> {}]
DeepgramRecognizes   == "request"

GladiaKeeps        == Everything
GladiaUpdate       == [stores |-> Everything, passes |-> Everything, calls |-> "always"]
GladiaStreamUpdate == Everything
GladiaSanitize     == [copies |-> TRUE, language |-> "stream"]
GladiaAsks         == [stream |-> Everything, recognizer |-> {}]
GladiaRecognizes   == "request"

AssemblyaiKeeps        == {"rate", "session"}
\* Mutant: the streams are not told.
TellsNone              == [stores |-> {"session"}, passes |-> {}, calls |-> "never"]
AssemblyaiUpdate       == [stores |-> {"session"}, passes |-> {"session"}, calls |-> "always"]
AssemblyaiStreamUpdate == {"session"}
AssemblyaiOpens        == [copies |-> TRUE, language |-> "ignored"]
AssemblyaiAsks         == [stream |-> AssemblyaiKeeps, recognizer |-> {}]

AzureKeeps        == Everything
AzureUpdate       == [stores |-> {"language"}, passes |-> {"language"}, calls |-> "passed"]
AzureStreamUpdate == {"language"}
AzureOpens        == [copies |-> TRUE, language |-> "stream"]
AzureAsks         == [stream |-> Everything, recognizer |-> {}]

\* The location is the recognizer's: the clients of the pool are of it.  detect_language
\* selects among the languages when the stream is made, and is not looked at again.
GoogleKeeps        == Everything \cup {"detect", "location"}
GoogleUpdate       == [stores |-> {"language", "session", "detect", "location"},
                       passes |-> {"language", "session", "detect"}, calls |-> "always"]
GoogleStreamUpdate == {"language", "session", "detect"}
GoogleSanitize     == [copies |-> TRUE, language |-> "stream"]
GoogleAsks         == [stream |-> Everything, recognizer |-> {"location"}]
GoogleRecognizes   == "request"

\* Streams have a language of their own, for the transcripts, and sessions are asked for
\* the recognizer's.  detect_language replaces that by none.
OpenaiKeeps        == {"language", "session", "detect"}
OpenaiUpdate       == [stores |-> OpenaiKeeps, passes |-> {"language"}, calls |-> "passed"]
OpenaiStreamUpdate == {"language"}
OpenaiOpens        == [copies |-> TRUE, language |-> "both"]
OpenaiAsks         == [stream |-> {}, recognizer |-> {"language", "session"}]
OpenaiRecognizes   == "recognizer"

SpeechmaticsKeeps == Everything
SpeechmaticsOpens == [copies |-> TRUE, language |-> "stream"]
SpeechmaticsAsks  == [stream |-> Everything, recognizer |-> {}]

\* Streams share the options, whatever language they are given.
AwsKeeps == Everything
AwsOpens == [copies |-> FALSE, language |-> "ignored"]
AwsAsks  == [stream |-> Everything, recognizer |-> {}]

\* No streams, and no options but the language.
FalUpdate     == [stores |-> {"language"}, passes |-> {}, calls |-> "never"]
FalRecognizes == "recognizer"

ClovaUpdate     == [stores |-> {"language"}, passes |-> {}, calls |-> "never"]
ClovaRecognizes == "recognizer"

ElevenlabsKeeps      == {"language"}
ElevenlabsRecognizes == "recognizer"

Nothing  == [stores |-> {}, passes |-> {}, calls |-> "never"]
NoStream == [copies |-> FALSE, language |-> "none"]
AsksNone == [stream |-> {}, recognizer |-> {}]

Profile ==
    [deepgram     |-> [keeps |-> DeepgramKeeps, update |-> DeepgramUpdate,
                       streamUpdate |-> DeepgramStreamUpdate, opens |-> DeepgramSanitize,
                       asks |-> DeepgramAsks, recognizes |-> DeepgramRecognizes],
     gladia       |-> [keeps |-> GladiaKeeps, update |-> GladiaUpdate,
                       streamUpdate |-> GladiaStreamUpdate, opens |-> GladiaSanitize,
                       asks |-> GladiaAsks, recognizes |-> GladiaRecognizes],
     assemblyai   |-> [keeps |-> AssemblyaiKeeps, update |-> AssemblyaiUpdate,
                       streamUpdate |-> AssemblyaiStreamUpdate, opens |-> AssemblyaiOpens,
                       asks |-> AssemblyaiAsks, recognizes |-> "never"],
     azure        |-> [keeps |-> AzureKeeps, update |-> AzureUpdate,
                       streamUpdate |-> AzureStreamUpdate, opens |-> AzureOpens,
                       asks |-> AzureAsks, recognizes |-> "never"],
     google       |-> [keeps |-> GoogleKeeps, update |-> GoogleUpdate,
                       streamUpdate |-> GoogleStreamUpdate, opens |-> GoogleSanitize,
                       asks |-> GoogleAsks, recognizes |-> GoogleRecognizes],
     openai       |-> [keeps |-> OpenaiKeeps, update |-> OpenaiUpdate,
                       streamUpdate |-> OpenaiStreamUpdate, opens |-> OpenaiOpens,
                       asks |-> OpenaiAsks, recognizes |-> OpenaiRecognizes],
     speechmatics |-> [keeps |-> SpeechmaticsKeeps, update |-> Nothing, streamUpdate |-> {},
                       opens |-> SpeechmaticsOpens, asks |-> SpeechmaticsAsks,
                       recognizes |-> "never"],
     aws          |-> [keeps |-> AwsKeeps, update |-> Nothing, streamUpdate |-> {},
                       opens |-> AwsOpens, asks |-> AwsAsks, recognizes |-> "never"],
     fal          |-> [keeps |-> {"language"}, update |-> FalUpdate, streamUpdate |-> {},
                       opens |-> NoStream, asks |-> AsksNone, recognizes |-> FalRecognizes],
     clova        |-> [keeps |-> {"language"}, update |-> ClovaUpdate, streamUpdate |-> {},
                       opens |-> NoStream, asks |-> AsksNone, recognizes |-> ClovaRecognizes],
     elevenlabs   |-> [keeps |-> ElevenlabsKeeps, update |-> Nothing, streamUpdate |-> {},
                       opens |-> NoStream, asks |-> AsksNone,
                       recognizes |-> ElevenlabsRecognizes]]

P == Profile[plugin]

Init ==
    /\ plugin \in Plugins
    /\ opts = [o \in Profile[plugin].keeps |-> 0] /\ given = opts
    /\ phase = [s \in Stream |-> "none"]
    /\ own = [s \in Stream |-> NoOptions] /\ due = own /\ asked = own
    /\ rate = [s \in Stream |-> 0]
    /\ wake = [s \in Stream |-> FALSE]
    /\ calls = 0 /\ faults = 0

-----------------------------------------------------------------------------
(* The application *)

Put(record, o, v) == IF o \in DOMAIN record THEN [record EXCEPT ![o] = v] ELSE record

\* The value that detect_language gives to the language of openai, too.
Gives(record, o, v) ==
    IF plugin = "openai" /\ o = "detect" THEN Put(Put(record, o, v), "language", v)
    ELSE Put(record, o, v)

\* update_options of the recognizer, which calls that of each stream.
UpdateOptions(o) ==
    /\ calls < MaxCalls /\ o \in P.update.stores
    /\ LET v == calls + 1
           told == {s \in Stream : Live(s) /\ (P.update.calls = "always"
                                               \/ (P.update.calls = "passed" /\ o \in P.update.passes))}
       IN /\ calls' = v
          /\ opts' = Gives(opts, o, v) /\ given' = Gives(given, o, v)
          /\ own' = [s \in Stream |-> IF s \in told /\ o \in P.update.passes \cap P.streamUpdate
                                      THEN Put(own[s], o, v) ELSE own[s]]
          /\ due' = [s \in Stream |-> IF Live(s) THEN Gives(due[s], o, v) ELSE due[s]]
          /\ wake' = [s \in Stream |-> wake[s] \/ s \in told]
    /\ UNCHANGED <<plugin, phase, rate, asked, faults>>

\* update_options of one stream.
UpdateStream(s, o) ==
    /\ calls < MaxCalls /\ Live(s) /\ o \in P.streamUpdate
    /\ calls' = calls + 1
    /\ own' = [own EXCEPT ![s] = Put(@, o, calls + 1)]
    /\ due' = [due EXCEPT ![s] = Put(@, o, calls + 1)]
    /\ wake' = [wake EXCEPT ![s] = TRUE]
    /\ UNCHANGED <<plugin, opts, given, phase, rate, asked, faults>>

\* stream(), with a language of its own or without.
OpenStream(s, language) ==
    /\ phase[s] = "none" /\ (s > 1 => phase[s - 1] # "none")
    /\ P.opens.language # "none"
    /\ IF language THEN calls < MaxCalls /\ calls' = calls + 1 ELSE UNCHANGED calls
    /\ LET v == calls + 1
           mine == IF language /\ P.opens.language \in {"stream", "both"}
                   THEN Put(opts, "language", v) ELSE opts
       IN /\ own' = [own EXCEPT ![s] = mine]
          /\ due' = [due EXCEPT ![s] = IF language THEN Put(opts, "language", v) ELSE opts]
          /\ opts' = IF P.opens.language = "both" THEN mine ELSE opts
          /\ rate' = [rate EXCEPT ![s] = IF "rate" \in DOMAIN opts THEN opts["rate"] ELSE 0]
    /\ phase' = [phase EXCEPT ![s] = "idle"]
    /\ UNCHANGED <<plugin, given, asked, wake, faults>>

\* recognize(), with a language of its own.
Recognize ==
    /\ calls < MaxCalls /\ P.recognizes # "never"
    /\ calls' = calls + 1
    /\ opts' = IF P.recognizes = "recognizer" THEN Put(opts, "language", calls + 1) ELSE opts
    /\ UNCHANGED <<plugin, given, streamVars, faults>>

\* The recognizer holds its streams weakly: what is over has no options.
Leave(s) ==
    /\ phase' = [phase EXCEPT ![s] = "over"]
    /\ own' = [own EXCEPT ![s] = NoOptions] /\ due' = [due EXCEPT ![s] = NoOptions]
    /\ asked' = [asked EXCEPT ![s] = NoOptions]
    /\ rate' = [rate EXCEPT ![s] = 0] /\ wake' = [wake EXCEPT ![s] = FALSE]

CloseStream(s) ==
    /\ Live(s) /\ Leave(s)
    /\ UNCHANGED <<plugin, opts, given, calls, faults>>

-----------------------------------------------------------------------------
(* _run of a stream *)

\* What a session of the stream is asked for.
Asked(s) == [o \in P.asks.stream \cup P.asks.recognizer |->
                IF o \in P.asks.stream THEN own[s][o] ELSE opts[o]]

\* A session is asked for, and is there some time later.
Connect(s) ==
    /\ phase[s] = "idle"
    /\ phase' = [phase EXCEPT ![s] = "connecting"]
    /\ asked' = [asked EXCEPT ![s] = Asked(s)]
    /\ UNCHANGED <<plugin, opts, given, own, due, rate, wake, calls, faults>>

\* The event is cleared when the loop has seen it, not when it has connected.
WakeOf(s) == wake

Connected(s) ==
    /\ phase[s] = "connecting"
    /\ phase' = [phase EXCEPT ![s] = "open"]
    /\ wake' = WakeOf(s)
    /\ UNCHANGED <<plugin, opts, given, own, due, rate, asked, calls, faults>>

\* The loop sees the event: deepgram and openai end there, awaiting what they cancelled.
Reconnect(s) ==
    /\ phase[s] = "open" /\ wake[s]
    /\ IF plugin \in {"deepgram", "openai"} THEN Leave(s) ELSE
        /\ phase' = [phase EXCEPT ![s] = "idle"]
        /\ wake' = [wake EXCEPT ![s] = FALSE]
        /\ asked' = [asked EXCEPT ![s] = NoOptions]
        /\ UNCHANGED <<own, due, rate>>
    /\ UNCHANGED <<plugin, opts, given, calls, faults>>

\* The service ends the session, and the next attempt, or the loop, asks for another.
SessionLost(s) ==
    /\ phase[s] \in {"connecting", "open"} /\ faults < MaxFaults
    /\ faults' = faults + 1
    /\ phase' = [phase EXCEPT ![s] = "idle"] /\ asked' = [asked EXCEPT ![s] = NoOptions]
    /\ UNCHANGED <<plugin, opts, given, own, due, rate, wake, calls>>

-----------------------------------------------------------------------------
Next ==
    \/ \E o \in DOMAIN opts : UpdateOptions(o)
    \/ \E s \in Stream, o \in DOMAIN opts : UpdateStream(s, o)
    \/ \E s \in Stream, language \in BOOLEAN : OpenStream(s, language)
    \/ Recognize
    \/ \E s \in Stream : CloseStream(s) \/ Connect(s) \/ Connected(s) \/ Reconnect(s)
                         \/ SessionLost(s)

Spec == Init /\ [][Next]_vars

-----------------------------------------------------------------------------
(* Properties *)

TypeOK ==
    /\ plugin \in Plugins
    /\ opts \in [P.keeps -> 0 .. MaxCalls] /\ given \in [P.keeps -> 0 .. MaxCalls]
    /\ \A s \in Stream :
        /\ phase[s] \in {"none", "idle", "connecting", "open", "over"}
        /\ own[s] = NoOptions \/ own[s] \in [P.keeps -> 0 .. MaxCalls]
        /\ rate[s] \in 0 .. MaxCalls
    /\ wake \in [Stream -> BOOLEAN] /\ calls \in 0 .. MaxCalls /\ faults \in 0 .. MaxFaults

\* What a recognizer was given stands, whatever its streams and requests are given; of the
\* language, that holds unless requests of the plugin, or its streams, set the recognizer's.
OptionsStand ==
    \A o \in DOMAIN opts :
        opts[o] = given[o] \/ (o = "language" /\ plugin \in {"openai", "fal", "clova", "elevenlabs"})

\* The options of a stream that never reach it.
Withheld == CASE plugin = "deepgram" -> {"tags"} [] plugin = "openai" -> {"session", "detect", "language"}
              [] plugin = "google" -> {"location"} [] plugin = "aws" -> {"language"} [] OTHER -> {}

\* A stream has what was last given to it or to the recognizer, and not what was given to
\* another stream.
StreamsFollow ==
    \A s \in Stream : Live(s) => \A o \in DOMAIN own[s] \ Withheld : own[s][o] = due[s][o]

\* A session that is not to be replaced was asked for the options as they are now, and its
\* frames have the rate it was asked for, unless the rate was changed.  Changes of openai's
\* options other than the language wait for the next session.
SessionsFollow ==
    \A s \in Stream : phase[s] = "open" /\ ~wake[s] =>
        /\ plugin # "openai" => asked[s] = Asked(s)
        /\ "rate" \in DOMAIN asked[s] /\ due[s]["rate"] = rate[s] => asked[s]["rate"] = rate[s]
=============================================================================
