------------------------------ MODULE TtsStream ------------------------------
(***************************************************************************)
(* The synthesis of one text: the retries of SynthesizeStream._main_task   *)
(* and ChunkedStream._main_task (tts/tts.py) around _run as the plugins    *)
(* write it, the AudioEmitter between them and the listener, and           *)
(* StreamAdapterWrapper, which synthesizes sentence by sentence.           *)
(*                                                                         *)
(* A text is a sequence of tokens, and each is said in FramesOf frames.    *)
(* The service is external: it says what it is sent, in order, and may     *)
(* close a connection, in use or pooled.                                   *)
(***************************************************************************)
EXTENDS Naturals, Sequences, FiniteSets

CONSTANTS
    Plugins,     \* the plugins a stream may be of
    MaxRetry,    \* max_retry
    MaxTokens,   \* bound: tokens of the text
    PerToken,    \* bound: frames that say a token
    MaxFaults    \* bound: failures of the service

VARIABLES
    plugin,
    blank,       \* the text has no words
    pushed,      \* tokens the application pushed
    inputEnded,  \* end_input() was called
    taken,       \* tokens taken from _input_ch
    sent,        \* those sent to the service, or lost with an attempt
    base,        \* those that attempts that failed took
    words,       \* whether the tokenizer's stream ended, in this attempt or before
    conn,        \* the connection: "none", "open", or "closed" by the service
    pool,        \* the connection of the pool: "none", "open", or "closed"
    leftover,    \* answers that wait on the connection of the pool
    saying,      \* frames the service has still to send
    eos,         \* it was told that the text is complete
    writing,     \* frames in the emitter
    counted,     \* pushed_duration() is positive
    heard,       \* frames in _event_ch
    attempt,     \* the loop variable of _main_task
    raised,      \* what the last attempt raised
    cut,         \* a close was taken for the end of the audio
    phase,
    faults

textVars    == <<pushed, inputEnded>>
wordVars    == <<taken, sent, base, words>>
connVars    == <<conn, saying, eos>>
poolVars    == <<pool, leftover>>
emitterVars == <<writing, counted, heard>>
retryVars   == <<attempt, raised>>
vars == <<plugin, blank, textVars, wordVars, connVars, poolVars, emitterVars, retryVars, cut,
          phase, faults>>

Over    == phase \in {"ended", "error", "cancelled"}
Running == phase = "running"

\* The frames that say the tokens from a to b.
Frames(a, b) == IF blank THEN <<>>
                ELSE [i \in 1 .. (b - a + 1) * PerToken |-> (a - 1) * PerToken + i]

-----------------------------------------------------------------------------
(* Chunked plugins send one request with the whole text.  failure: what a     *)
(* failure of the service raises, an APIError ("api") or another exception;   *)
(* refusal: what an answer that is not audio raises, where the plugin looks:  *)
(* "other" is the RuntimeError of _main_task, for _run returns before it      *)
(* initializes the emitter.                                                   *)

ElevenlabsChunk == [failure |-> {"api"}, refusal |-> {"api"}]
CartesiaChunk   == [failure |-> {"api"}, refusal |-> {}]
ResembleChunk   == [failure |-> {"api"}, refusal |-> {"api"}]
DeepgramChunk   == [failure |-> {"api"}, refusal |-> {}]
GoogleChunk     == [failure |-> {"api", "other"}, refusal |-> {}]
AzureChunk      == [failure |-> {"api"}, refusal |-> {}]
GroqChunk       == [failure |-> {"api"}, refusal |-> {"api"}]
HumeChunk       == [failure |-> {"api"}, refusal |-> {}]
LmntChunk       == [failure |-> {"api"}, refusal |-> {}]
NeuphonicChunk  == [failure |-> {"api"}, refusal |-> {"api"}]
OpenaiChunk     == [failure |-> {"api"}, refusal |-> {}]
PlayaiChunk     == [failure |-> {"api"}, refusal |-> {}]
SpeechifyChunk  == [failure |-> {"api"}, refusal |-> {"api"}]
RimeChunk       == [failure |-> {"api"}, refusal |-> {"other"}]
AwsChunk        == [failure |-> {"api"}, refusal |-> {"other"}]

Chunks == [elevenlabs_chunk |-> ElevenlabsChunk, cartesia_chunk |-> CartesiaChunk,
           resemble_chunk |-> ResembleChunk, deepgram_chunk |-> DeepgramChunk,
           google_chunk |-> GoogleChunk, azure |-> AzureChunk, groq |-> GroqChunk,
           hume |-> HumeChunk, lmnt |-> LmntChunk, neuphonic |-> NeuphonicChunk,
           openai |-> OpenaiChunk, playai |-> PlayaiChunk, speechify |-> SpeechifyChunk,
           rime |-> RimeChunk, aws |-> AwsChunk]

\* Plugins with streams of their own.  pooled: the connection is of the pool; early: the
\* connection is taken before there is text; keeps: the tokenizer's stream is of the
\* SynthesizeStream, not of the attempt; failure: as above.
Elevenlabs == [pooled |-> FALSE, early |-> FALSE, keeps |-> FALSE, failure |-> {"api"}]
Cartesia   == [pooled |-> TRUE, early |-> TRUE, keeps |-> TRUE, failure |-> {"api"}]
Resemble   == [pooled |-> TRUE, early |-> FALSE, keeps |-> FALSE, failure |-> {"api"}]
Deepgram   == [pooled |-> TRUE, early |-> FALSE, keeps |-> FALSE, failure |-> {"api"}]
Google     == [pooled |-> FALSE, early |-> FALSE, keeps |-> FALSE, failure |-> {"api", "other"}]

\* StreamAdapterWrapper: a chunked synthesis, with its retries, for each sentence.
Adapter    == [pooled |-> FALSE, early |-> FALSE, keeps |-> FALSE, failure |-> {"api"}]

Streams == [elevenlabs |-> Elevenlabs, cartesia |-> Cartesia, resemble |-> Resemble,
            deepgram |-> Deepgram, google |-> Google, adapter |-> Adapter]

Chunked   == plugin \in DOMAIN Chunks
Sentences == plugin = "adapter"
Stream    == Streams[plugin]
Pooled    == ~Chunked /\ Stream.pooled
Early     == ~Chunked /\ Stream.early
Keeps     == ~Chunked /\ Stream.keeps
Failures  == IF Chunked THEN Chunks[plugin].failure ELSE Stream.failure

Init ==
    /\ plugin \in Plugins
    /\ blank \in BOOLEAN
    /\ pushed = (IF Chunked THEN MaxTokens ELSE 0) /\ inputEnded = Chunked
    /\ taken = pushed /\ sent = 0 /\ base = 0
    /\ words = IF Chunked THEN "now" ELSE "no"
    /\ conn = "none" /\ saying = <<>> /\ eos = FALSE
    /\ pool \in IF Pooled THEN {"none", "open"} ELSE {"none"}
    /\ leftover = 0
    /\ writing = <<>> /\ counted = FALSE /\ heard = <<>>
    /\ attempt = 0 /\ raised = "none" /\ cut = FALSE /\ phase = "running" /\ faults = 0

-----------------------------------------------------------------------------
(* The application *)

PushText ==
    /\ ~Over /\ ~inputEnded /\ pushed < MaxTokens
    /\ pushed' = pushed + 1
    /\ UNCHANGED <<plugin, blank, inputEnded, wordVars, connVars, poolVars, emitterVars,
                   retryVars, cut, phase, faults>>

EndInput ==
    /\ ~Over /\ ~inputEnded
    /\ inputEnded' = TRUE
    /\ UNCHANGED <<plugin, blank, pushed, wordVars, connVars, poolVars, emitterVars, retryVars,
                   cut, phase, faults>>

\* aclose(), when the agent is interrupted.  ConnectionPool.connection() removes a
\* connection that is in use then.
Close ==
    /\ ~Over
    /\ phase' = "cancelled"
    /\ conn' = "none" /\ saying' = <<>> /\ writing' = <<>>
    /\ UNCHANGED <<plugin, blank, textVars, wordVars, eos, poolVars, counted, heard, retryVars,
                   cut, faults>>

-----------------------------------------------------------------------------
(* _main_task *)

\* Tokens the next attempt will not find: those sent, or all that were taken, for a
\* tokenizer's stream of the attempt is dropped with it.  Requests have their own text.
Gone == CASE Chunked -> 0 [] Sentences -> base [] Keeps -> sent [] OTHER -> taken

\* What an exception of an attempt comes to.
Fail(outcome) ==
    /\ conn' = "none" /\ saying' = <<>> /\ eos' = FALSE /\ writing' = <<>>
    /\ base' = Gone /\ sent' = Gone
    /\ raised' = outcome
    /\ phase' = IF outcome = "api" /\ attempt < MaxRetry THEN "waiting" ELSE "error"

\* The next attempt, after retry_interval.
Retry ==
    /\ phase = "waiting"
    /\ phase' = "running" /\ attempt' = attempt + 1 /\ counted' = FALSE
    /\ words' = CASE Chunked \/ Sentences -> words
                  [] Keeps /\ words # "no" -> "before" [] OTHER -> "no"
    /\ UNCHANGED <<plugin, blank, textVars, taken, sent, base, connVars, poolVars, writing,
                   heard, raised, cut, faults>>

\* _run returned, its audio was passed on, and it must not be none; the adapter goes on
\* with the next sentence.
MainEnds ==
    /\ phase = "returned" /\ writing = <<>>
    /\ IF counted \/ (~Chunked /\ ~Sentences /\ (blank \/ pushed = 0))
       THEN /\ IF Sentences THEN phase' = "running" /\ attempt' = 0
                            ELSE phase' = "ended" /\ UNCHANGED attempt
            /\ base' = (IF Sentences THEN sent ELSE base)
            /\ UNCHANGED <<sent, connVars, writing, raised>>
       ELSE Fail("api") /\ UNCHANGED attempt
    /\ counted' = (counted /\ ~Sentences)
    /\ UNCHANGED <<plugin, blank, textVars, taken, words, poolVars, heard, cut, faults>>

-----------------------------------------------------------------------------
(* The tasks of _run that read the text *)

TakeText ==
    /\ Running /\ taken < pushed
    /\ ~Chunked /\ (Early => conn # "none")
    /\ taken' = taken + 1
    /\ UNCHANGED <<plugin, blank, textVars, sent, base, words, connVars, poolVars, emitterVars,
                   retryVars, cut, phase, faults>>

\* The end of the input ends the tokenizer's stream, which raises if it was ended before.
TakeEnd ==
    /\ Running /\ inputEnded /\ taken = pushed /\ words # "now"
    /\ Early => conn # "none"
    /\ words' = "now"
    /\ IF words = "before" THEN Fail("api")
       ELSE UNCHANGED <<sent, base, connVars, writing, raised, phase>>
    /\ UNCHANGED <<plugin, blank, textVars, taken, poolVars, counted, heard, attempt, cut,
                   faults>>

\* No text came in this attempt: _run returns without a segment.
NoText ==
    /\ Running /\ ~Chunked /\ ~Early /\ conn = "none"
    /\ words = "now" /\ (sent = taken \/ (Sentences /\ blank))
    /\ phase' = IF Sentences THEN "ended" ELSE "returned"
    /\ UNCHANGED <<plugin, blank, textVars, wordVars, connVars, poolVars, emitterVars,
                   retryVars, cut, faults>>

-----------------------------------------------------------------------------
(* The connection *)

Wants == conn = "none" /\ (Chunked \/ Early \/ (taken > sent /\ ~(Sentences /\ blank)))

\* A sentence is whole once the next one begins or the text ends.
Whole == Sentences => words = "now" \/ sent + 1 < taken

\* The tokens of a request.
Last == IF Chunked THEN pushed ELSE sent + 1

Connect ==
    /\ Running /\ Wants /\ Whole
    /\ conn' = IF Pooled /\ pool # "none" THEN pool ELSE "open"
    /\ IF Pooled THEN pool' = "none" /\ leftover' = 0 ELSE UNCHANGED poolVars
    /\ IF Chunked \/ Sentences
       THEN /\ saying' = Frames(sent + 1, Last) /\ sent' = Last /\ eos' = TRUE
       ELSE UNCHANGED <<saying, sent, eos>>
    /\ UNCHANGED <<plugin, blank, textVars, taken, base, words, emitterVars, retryVars, cut,
                   phase, faults>>

\* A request that fails was not sent: the text is there for the retry.
ConnectFails ==
    /\ Running /\ Wants /\ Whole /\ pool = "none" /\ faults < MaxFaults
    /\ faults' = faults + 1
    /\ \E outcome \in Failures : Fail(outcome)
    /\ UNCHANGED <<plugin, blank, textVars, taken, words, poolVars, counted, heard, attempt,
                   cut>>

\* The answer to a request is not audio.
Refuse ==
    /\ Running /\ Chunked /\ conn = "open" /\ faults < MaxFaults
    /\ Len(saying) = Len(Frames(1, pushed)) /\ writing = <<>>
    /\ faults' = faults + 1
    /\ \E outcome \in Chunks[plugin].refusal : Fail(outcome)
    /\ UNCHANGED <<plugin, blank, textVars, taken, words, poolVars, counted, heard, attempt,
                   cut>>

\* The service closes a connection, or an error ends it; one of the pool, too.
ServiceCloses ==
    /\ faults < MaxFaults /\ conn = "open" /\ phase = "running"
    /\ faults' = faults + 1 /\ conn' = "closed"
    /\ UNCHANGED <<plugin, blank, textVars, wordVars, saying, eos, poolVars, emitterVars,
                   retryVars, cut, phase>>

ServiceClosesPooled ==
    /\ faults < MaxFaults /\ pool = "open"
    /\ faults' = faults + 1 /\ pool' = "closed"
    /\ UNCHANGED <<plugin, blank, textVars, wordVars, connVars, leftover, emitterVars,
                   retryVars, cut, phase>>

-----------------------------------------------------------------------------
(* The tasks of _run that send and receive *)

Streaming == Running /\ ~Chunked /\ ~Sentences /\ conn # "none" /\ ~eos

\* A token is sent once the tokenizer is sure of its end.  Text without words is not.
SendToken ==
    /\ Streaming /\ sent < taken /\ (words # "no" \/ sent + 1 < taken)
    /\ conn = "open"
    /\ sent' = sent + 1 /\ saying' = saying \o Frames(sent + 1, sent + 1)
    /\ UNCHANGED <<plugin, blank, textVars, taken, base, words, conn, eos, poolVars,
                   emitterVars, retryVars, cut, phase, faults>>

SendEos ==
    /\ Streaming /\ sent = taken /\ words # "no" /\ conn = "open"
    /\ eos' = TRUE
    /\ UNCHANGED <<plugin, blank, textVars, wordVars, conn, saying, poolVars, emitterVars,
                   retryVars, cut, phase, faults>>

ReceiveAudio ==
    /\ Running /\ conn = "open" /\ saying # <<>>
    /\ writing' = Append(writing, Head(saying)) /\ saying' = Tail(saying)
    /\ UNCHANGED <<plugin, blank, textVars, wordVars, conn, eos, poolVars, counted, heard,
                   retryVars, cut, phase, faults>>

\* A close before the end: the task that receives raises.  elevenlabs takes one that
\* comes after its end of text for the end of the audio.
ReceiveClose ==
    /\ Running /\ conn = "closed"
    /\ ~(plugin = "elevenlabs" /\ eos)
    /\ \E outcome \in Failures : Fail(outcome)
    /\ UNCHANGED <<plugin, blank, textVars, taken, words, poolVars, counted, heard, attempt,
                   cut, faults>>

\* When _run returns: at the message that answers the end of the text.
AllSaid == eos /\ saying = <<>> /\ conn = "open"

ElevenlabsDone == AllSaid \/ (eos /\ conn = "closed")    \* isFinal
CartesiaDone   == AllSaid                                \* done
DeepgramDone   == AllSaid                                \* Flushed
GoogleDone     == AllSaid                                \* the end of the responses

\* Mutant: the end of the audio of any sentence.
AnySentence == eos /\ conn = "open"

\* audio_end of the last sentence, which there must be.
ResembleDone   == AllSaid /\ sent > base /\ ~blank

Done == CASE plugin = "elevenlabs" -> ElevenlabsDone [] plugin = "cartesia" -> CartesiaDone
          [] plugin = "deepgram" -> DeepgramDone [] plugin = "google" -> GoogleDone
          [] plugin = "resemble" -> ResembleDone [] OTHER -> AllSaid

\* The connection goes back to the pool.
RunEnds ==
    /\ Running /\ conn # "none" /\ Done
    /\ phase' = "returned" /\ conn' = "none" /\ saying' = <<>>
    /\ cut' = (cut \/ saying # <<>>)
    /\ IF Pooled THEN pool' = "open" /\ leftover' = Len(saying) ELSE UNCHANGED poolVars
    /\ UNCHANGED <<plugin, blank, textVars, wordVars, eos, emitterVars, retryVars, faults>>

-----------------------------------------------------------------------------
(* AudioEmitter *)

\* A frame is passed on when the next one is there, or the segment has ended.
EmitFrame ==
    /\ writing # <<>> /\ ~Over
    /\ Len(writing) > 1 \/ phase = "returned"
    /\ writing' = Tail(writing) /\ heard' = Append(heard, Head(writing)) /\ counted' = TRUE
    /\ UNCHANGED <<plugin, blank, textVars, wordVars, connVars, poolVars, retryVars, cut, phase,
                   faults>>

-----------------------------------------------------------------------------
Next ==
    \/ PushText \/ EndInput \/ Close
    \/ Retry \/ MainEnds \/ TakeText \/ TakeEnd \/ NoText
    \/ Connect \/ ConnectFails \/ Refuse \/ ServiceCloses \/ ServiceClosesPooled
    \/ SendToken \/ SendEos \/ ReceiveAudio \/ ReceiveClose \/ RunEnds \/ EmitFrame

\* The tasks of the stream run, and the service answers what it is sent.
Fairness ==
    /\ WF_vars(Retry) /\ WF_vars(MainEnds) /\ WF_vars(TakeText) /\ WF_vars(TakeEnd)
    /\ WF_vars(NoText) /\ WF_vars(Connect) /\ WF_vars(SendToken) /\ WF_vars(SendEos)
    /\ WF_vars(ReceiveAudio) /\ WF_vars(ReceiveClose) /\ WF_vars(RunEnds) /\ WF_vars(EmitFrame)

Spec == Init /\ [][Next]_vars /\ Fairness

-----------------------------------------------------------------------------
(* Properties *)

TypeOK ==
    /\ plugin \in Plugins /\ pushed \in 0 .. MaxTokens /\ taken \in 0 .. pushed
    /\ sent \in 0 .. taken /\ base \in 0 .. sent /\ words \in {"no", "now", "before"}
    /\ conn \in {"none", "open", "closed"} /\ pool \in {"none", "open", "closed"}
    /\ attempt \in 0 .. MaxRetry
    /\ phase \in {"running", "waiting", "returned", "ended", "error", "cancelled"}

\* What a stream plays is in order and not repeated, over its retries.  A request that is
\* made again begins anew, whatever of its audio was heard.
InOrder ==
    ~(Chunked \/ Sentences) => \A i \in 1 .. Len(heard) - 1 : heard[i] < heard[i + 1]

\* A synthesis that ends without an error has said, to the end, all the text that no
\* earlier attempt took; unless a close was taken for the end.
SaysTheRest ==
    LET rest == IF Sentences THEN Frames(1, pushed) ELSE Frames(base + 1, pushed)
        Ends(s) == Len(s) <= Len(heard) /\ SubSeq(heard, Len(heard) - Len(s) + 1, Len(heard)) = s
    IN phase = "ended" /\ ~cut =>
           IF Sentences THEN \A i \in 1 .. Len(rest) : \E k \in 1 .. Len(heard) : heard[k] = rest[i]
                        ELSE Ends(rest)

\* A connection in the pool has nothing to say: the next stream hears its own audio only.
PoolIsClean == leftover = 0

\* A synthesis gives up on an APIError after MaxRetry + 1 attempts.
RetriesAreUsed == phase = "error" /\ raised = "api" => attempt = MaxRetry

\* A stream ends after its input; unless a text without words waits for resemble.
StreamEnds == inputEnded /\ ~(plugin = "resemble" /\ blank) ~> Over
=============================================================================
