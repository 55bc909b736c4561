----------------------------- MODULE TtsOptions -----------------------------
(***************************************************************************)
(* The options of the text-to-speech plugins: what a TTS keeps, what its   *)
(* update_options changes, what the service is asked to speak a request    *)
(* with, over which connection, and what aclose() ends.                    *)
(*                                                                         *)
(* A request, stream() or synthesize(), copies the options.  An option  *)
(* is named for its kind: "rate", the sample rate; "voice", whatever else  *)
(* the service is asked with; and those that a plugin treats in a way of   *)
(* its own.  Its value is the number of the call that gave it, 0 for the   *)
(* constructor.  The service is external.                                  *)
(***************************************************************************)
EXTENDS Naturals

CONSTANTS
    Plugins,     \* the plugins a TTS may be of
    MaxRequests, \* bound: requests of it
    MaxCalls,    \* bound: calls of update_options
    MaxFaults    \* bound: attempts that fail

Request == 1 .. MaxRequests
Warm    == 0                     \* the connection that prewarm() opens
Conn    == Request \cup {Warm}   \* the others are named for the request that opens them
NoOptions == <<>>
NoConn    == MaxRequests + 1

VARIABLES
    plugin,
    opts,    \* _opts
    given,   \* the values last given to the constructor and to update_options
    ttsRate, \* sample_rate of the base class
    kind,    \* of each request: "none", "chunk" or "stream"
    phase,   \* "none", "waiting" for a connection, "speaking", or "over"
    own,     \* its _opts
    due,     \* what was given when it was made
    said,    \* what the service was asked to speak it with
    emitted, \* the rate of its emitter
    conn,    \* the connection it uses
    opened,  \* what each connection was opened with
    idle,    \* the connections that the pool has available
    closing, \* "no", "streams", or "closed"
    toClose, \* the streams that aclose() has yet to close
    before,  \* the streams that ran when it was called
    calls, faults

requestVars == <<kind, phase, own, due, said, emitted, conn>>
poolVars    == <<opened, idle>>
closeVars   == <<closing, toClose, before>>
vars == <<plugin, opts, given, ttsRate, requestVars, poolVars, closeVars, calls, faults>>

-----------------------------------------------------------------------------
(* The plugins.  Keeps: the options of the constructor.  Update: those that   *)
(* update_options stores, together with the options that share an object with *)
(* them, which is replaced.  Asks: what the service is asked with, by message *)
(* from the copy of the request, or by connection from the options of the TTS.*)
(* Streams: whether it has streams, over a pool or not, and lists them.       *)

NotListed == [over |-> "pool", listed |-> FALSE]

CartesiaKeeps   == {"voice", "rate"}
CartesiaUpdate  == [stores |-> {"voice"}, together |-> {}]
\* Mutant: the voice is part of the url of the connection.
VoiceInUrl      == [message |-> {"rate"}, connection |-> {"voice"}]
CartesiaAsks    == [message |-> CartesiaKeeps, connection |-> {}]
CartesiaStreams == NotListed

DeepgramKeeps   == {"model", "rate"}
DeepgramUpdate  == [stores |-> {"model"}, together |-> {}]
DeepgramAsks    == [message |-> {}, connection |-> DeepgramKeeps]
DeepgramStreams == [over |-> "pool", listed |-> TRUE]

ElevenlabsKeeps   == {"voice", "rate"}
ElevenlabsUpdate  == [stores |-> {"voice"}, together |-> {}]
ElevenlabsAsks    == [message |-> ElevenlabsKeeps, connection |-> {}]
ElevenlabsStreams == [over |-> "own", listed |-> TRUE]

ResembleKeeps   == {"voice", "rate"}
ResembleUpdate  == [stores |-> {"voice"}, together |-> {}]
ResembleAsks    == [message |-> ResembleKeeps, connection |-> {}]
ResembleStreams == [over |-> "pool", listed |-> TRUE]

\* A new VoiceSelectionParams has what update_options was given, and nothing else.  A
\* stream does not ask for the speed.
GoogleKeeps   == {"voice", "language", "speed", "rate"}
GoogleUpdate  == [stores |-> GoogleKeeps \ {"rate"}, together |-> {"voice", "language"}]
GoogleAsks    == [message |-> GoogleKeeps \ {"speed"}, connection |-> {}]
GoogleStreams == [over |-> "own", listed |-> TRUE]

AzureKeeps       == {"voice", "rate"}
AzureUpdate      == [stores |-> {"voice"}, together |-> {}]
NeuphonicKeeps   == {"voice", "rate"}
NeuphonicUpdate  == [stores |-> NeuphonicKeeps, together |-> {}]
PlayaiKeeps      == {"voice", "rate"}
PlayaiUpdate     == [stores |-> {"voice"}, together |-> {}]
LmntKeeps        == {"voice", "rate"}
LmntUpdate       == [stores |-> LmntKeeps, together |-> {}]
\* The voice and the speed are in utterance_options.
HumeKeeps        == {"voice", "speed", "context", "rate"}
HumeUpdate       == [stores |-> HumeKeeps \ {"rate"}, together |-> {"voice", "speed"}]
OpenaiKeeps      == {"voice"}
OpenaiUpdate     == [stores |-> OpenaiKeeps, together |-> {}]
GroqKeeps        == {"voice"}
GroqUpdate       == [stores |-> GroqKeeps, together |-> {}]
SpeechifyKeeps   == {"voice", "rate"}
SpeechifyUpdate  == [stores |-> {"voice"}, together |-> {}]
RimeKeeps        == {"voice", "model", "rate"}
RimeUpdate       == [stores |-> {"voice", "model"}, together |-> {}]
AwsKeeps         == {"voice", "rate"}
AwsUpdate        == [stores |-> {}, together |-> {}]

Chunked(keeps, update) ==
    [keeps |-> keeps, update |-> update, asks |-> [message |-> keeps, connection |-> {}],
     streams |-> [over |-> "none", listed |-> FALSE]]

Profile ==
    [cartesia   |-> [keeps |-> CartesiaKeeps, update |-> CartesiaUpdate, asks |-> CartesiaAsks,
                     streams |-> CartesiaStreams],
     deepgram   |-> [keeps |-> DeepgramKeeps, update |-> DeepgramUpdate, asks |-> DeepgramAsks,
                     streams |-> DeepgramStreams],
     elevenlabs |-> [keeps |-> ElevenlabsKeeps, update |-> ElevenlabsUpdate,
                     asks |-> ElevenlabsAsks, streams |-> ElevenlabsStreams],
     resemble   |-> [keeps |-> ResembleKeeps, update |-> ResembleUpdate, asks |-> ResembleAsks,
                     streams |-> ResembleStreams],
     google     |-> [keeps |-> GoogleKeeps, update |-> GoogleUpdate, asks |-> GoogleAsks,
                     streams |-> GoogleStreams],
     azure      |-> Chunked(AzureKeeps, AzureUpdate),
     neuphonic  |-> Chunked(NeuphonicKeeps, NeuphonicUpdate),
     playai     |-> Chunked(PlayaiKeeps, PlayaiUpdate),
     lmnt       |-> Chunked(LmntKeeps, LmntUpdate),
     hume       |-> Chunked(HumeKeeps, HumeUpdate),
     openai     |-> Chunked(OpenaiKeeps, OpenaiUpdate),
     groq       |-> Chunked(GroqKeeps, GroqUpdate),
     speechify  |-> Chunked(SpeechifyKeeps, SpeechifyUpdate),
     rime       |-> Chunked(RimeKeeps, RimeUpdate),
     aws        |-> Chunked(AwsKeeps, AwsUpdate)]

P == Profile[plugin]

\* The requests of a stream over the pool.
Pooled(r) == kind[r] = "stream" /\ P.streams.over = "pool"

Rate(options) == IF "rate" \in DOMAIN options THEN options["rate"] ELSE 0

Init ==
    /\ plugin \in Plugins
    /\ opts = [o \in Profile[plugin].keeps |-> 0] /\ given = opts /\ ttsRate = 0
    /\ kind = [r \in Request |-> "none"] /\ phase = kind
    /\ own = [r \in Request |-> NoOptions] /\ due = own /\ said = own
    /\ emitted = [r \in Request |-> 0] /\ conn = [r \in Request |-> NoConn]
    /\ opened = [c \in Conn |-> NoOptions] /\ idle = {}
    /\ closing = "no" /\ toClose = {} /\ before = {}
    /\ calls = 0 /\ faults = 0

-----------------------------------------------------------------------------
(* The application *)

\* Options that share an object with one that is given are dropped.
UpdateOptions(o) ==
    /\ calls < MaxCalls /\ o \in P.update.stores
    /\ calls' = calls + 1
    /\ LET dropped == IF o \in P.update.together THEN P.update.together \ {o} ELSE {}
       IN opts' = [p \in (DOMAIN opts \ dropped) \cup {o} |-> IF p = o THEN calls + 1 ELSE opts[p]]
    /\ given' = [given EXCEPT ![o] = calls + 1]
    /\ UNCHANGED <<plugin, ttsRate, requestVars, poolVars, closeVars, faults>>

Copy(r)   == own[r]

\* stream() or synthesize().
Make(r, k) ==
    /\ phase[r] = "none" /\ (r > 1 => phase[r - 1] # "none")
    /\ k = "stream" => P.streams.over # "none"
    /\ kind' = [kind EXCEPT ![r] = k] /\ phase' = [phase EXCEPT ![r] = "waiting"]
    /\ own' = [own EXCEPT ![r] = opts] /\ due' = [due EXCEPT ![r] = given]
    /\ UNCHANGED <<plugin, opts, given, ttsRate, said, emitted, conn, poolVars, closeVars, calls,
                   faults>>

Prewarm ==
    /\ P.streams.over = "pool" /\ opened[Warm] = NoOptions /\ closing = "no"
    /\ opened' = [opened EXCEPT ![Warm] = opts] /\ idle' = idle \cup {Warm}
    /\ UNCHANGED <<plugin, opts, given, ttsRate, requestVars, closeVars, calls, faults>>

-----------------------------------------------------------------------------
(* A request *)

\* What the service is asked with over a connection that was opened with at.
Asked(r, at) ==
    LET copy == Copy(r)
        byMessage == IF kind[r] = "chunk" THEN P.keeps ELSE P.asks.message
    IN [o \in (byMessage \cap DOMAIN copy) \cup (IF kind[r] = "chunk" THEN {} ELSE P.asks.connection) |->
            IF o \in byMessage \cap DOMAIN copy THEN copy[o] ELSE at[o]]

\* rime has options of the constructor's model only, and asserts that they are there.
Refused(r) == plugin = "rime" /\ own[r]["model"] # 0

EmitterRate(r)  == IF plugin = "rime" THEN ttsRate ELSE Rate(own[r])

Speak(r, at) ==
    /\ phase' = [phase EXCEPT ![r] = "speaking"]
    /\ said' = [said EXCEPT ![r] = Asked(r, at)]
    /\ emitted' = [emitted EXCEPT ![r] = EmitterRate(r)]

\* A stream takes a connection of the pool, or opens one.
TakeConnection(r) ==
    /\ phase[r] = "waiting" /\ Pooled(r)
    /\ IF idle # {}
       THEN \E c \in idle :
                /\ conn' = [conn EXCEPT ![r] = c] /\ idle' = idle \ {c}
                /\ Speak(r, opened[c]) /\ UNCHANGED opened
       ELSE /\ conn' = [conn EXCEPT ![r] = r]
            /\ opened' = [opened EXCEPT ![r] = opts]
            /\ Speak(r, opts) /\ UNCHANGED idle
    /\ UNCHANGED <<plugin, opts, given, ttsRate, kind, own, due, closeVars, calls, faults>>

\* Other requests have a connection to themselves.
Ask(r) ==
    /\ phase[r] = "waiting" /\ ~Pooled(r) /\ ~Refused(r)
    /\ Speak(r, own[r])
    /\ UNCHANGED <<plugin, opts, given, ttsRate, kind, own, due, conn, poolVars, closeVars, calls,
                   faults>>

\* What is over has no options left.
Leave(r) ==
    /\ phase' = [phase EXCEPT ![r] = "over"]
    /\ own' = [own EXCEPT ![r] = NoOptions] /\ due' = [due EXCEPT ![r] = NoOptions]
    /\ said' = [said EXCEPT ![r] = NoOptions] /\ emitted' = [emitted EXCEPT ![r] = 0]
    /\ conn' = [conn EXCEPT ![r] = NoConn]
    /\ toClose' = toClose \ {r}
    /\ UNCHANGED kind

\* The pool takes back the connection, unless it stopped tracking it when it was closed.
Finish(r) ==
    /\ phase[r] = "speaking" /\ Leave(r)
    /\ idle' = IF conn[r] # NoConn /\ opened[conn[r]] # NoOptions THEN idle \cup {conn[r]} ELSE idle
    /\ UNCHANGED <<plugin, opts, given, ttsRate, opened, closing, before, calls, faults>>

Refuse(r) ==
    /\ phase[r] = "waiting" /\ Refused(r) /\ Leave(r)
    /\ UNCHANGED <<plugin, opts, given, ttsRate, poolVars, closing, before, calls, faults>>

\* An attempt fails, its connection is not used again, and the next attempt asks anew.
Forgets(r) == [opened EXCEPT ![conn[r]] = NoOptions]

Fails(r) ==
    /\ phase[r] = "speaking" /\ faults < MaxFaults
    /\ faults' = faults + 1
    /\ phase' = [phase EXCEPT ![r] = "waiting"]
    /\ said' = [said EXCEPT ![r] = NoOptions] /\ conn' = [conn EXCEPT ![r] = NoConn]
    /\ opened' = IF conn[r] # NoConn THEN Forgets(r) ELSE opened
    /\ UNCHANGED <<plugin, opts, given, ttsRate, kind, own, due, emitted, idle, closeVars, calls>>

-----------------------------------------------------------------------------
(* aclose() *)

Running == {r \in Request : kind[r] = "stream" /\ phase[r] # "over"}

Close ==
    /\ P.streams.over # "none" /\ closing = "no"
    /\ closing' = "streams" /\ toClose' = IF P.streams.listed THEN Running ELSE {}
    /\ before' = Running
    /\ UNCHANGED <<plugin, opts, given, ttsRate, requestVars, poolVars, calls, faults>>

\* A stream is cancelled, and its connection closed.
CloseStream(r) ==
    /\ closing = "streams" /\ r \in toClose /\ Leave(r)
    /\ opened' = IF conn[r] # NoConn THEN Forgets(r) ELSE opened
    /\ UNCHANGED <<plugin, opts, given, ttsRate, idle, closing, before, calls, faults>>

\* The pool forgets its connections, those in use too.
CloseEnds ==
    /\ closing = "streams" /\ toClose = {}
    /\ closing' = "closed"
    /\ idle' = {} /\ opened' = [c \in Conn |-> NoOptions]
    /\ UNCHANGED <<plugin, opts, given, ttsRate, requestVars, toClose, before, calls, faults>>

-----------------------------------------------------------------------------
Next ==
    \/ \E o \in P.keeps : UpdateOptions(o)
    \/ \E r \in Request, k \in {"chunk", "stream"} : Make(r, k)
    \/ Prewarm
    \/ \E r \in Request : TakeConnection(r) \/ Ask(r) \/ Finish(r) \/ Refuse(r) \/ Fails(r)
                          \/ CloseStream(r)
    \/ Close \/ CloseEnds

Spec == Init /\ [][Next]_vars

-----------------------------------------------------------------------------
(* Properties *)

TypeOK ==
    /\ plugin \in Plugins /\ ttsRate \in 0 .. MaxCalls
    /\ DOMAIN opts \subseteq P.keeps
    /\ \A r \in Request :
        /\ kind[r] \in {"none", "chunk", "stream"}
        /\ phase[r] \in {"none", "waiting", "speaking", "over"}
        /\ conn[r] \in Conn \cup {NoConn} /\ emitted[r] \in 0 .. MaxCalls
    /\ idle \subseteq Conn /\ closing \in {"no", "streams", "closed"} /\ toClose \subseteq before
    /\ calls \in 0 .. MaxCalls /\ faults \in 0 .. MaxFaults

\* A request is spoken with what the TTS was last given before it was made, whatever it is
\* given, to whomever, between then and its last attempt; unless that is part of the
\* connection, as the model of deepgram is.
SpokenAsAsked ==
    \A r \in Request : phase[r] = "speaking" =>
        \A o \in DOMAIN said[r] :
            said[r][o] = due[r][o] \/ (plugin = "deepgram" /\ kind[r] = "stream" /\ o = "model")

\* The audio of a request is taken at the rate it was asked for, however often it is tried.
RateIsAsked ==
    \A r \in Request : phase[r] = "speaking" /\ "rate" \in DOMAIN said[r] => emitted[r] = said[r]["rate"]

\* The adapters take the audio at the rate of the TTS, which is the one it asks for unless
\* update_options changes it.
RateIsKnown == Rate(opts) = ttsRate \/ plugin \in {"lmnt", "neuphonic"}

\* When aclose() has returned, the streams that ran when it was called are over; unless the
\* plugin, cartesia, does not list them.
ClosedIsOver ==
    closing = "closed" => \A r \in before : phase[r] = "over" \/ plugin = "cartesia"
=============================================================================
