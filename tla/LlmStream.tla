------------------------------ MODULE LlmStream ------------------------------
(***************************************************************************)
(* A stream of the LLM fallback adapter (llm/fallback_adapter.py) over the *)
(* streams of its providers, which retry by themselves (llm/llm.py), as    *)
(* each plugin writes them: openai, anthropic, google, aws.                *)
(*                                                                         *)
(* What a model says, and when a request fails, is external.  An answer is *)
(* made of text and of tool calls, which openai, anthropic and aws stream  *)
(* in pieces.  The adapter passes a chunk on as soon as it is sent: it     *)
(* learns of a failure only after the chunks before it.  A stream that is  *)
(* closed does nothing more: its recoveries go on.                         *)
(***************************************************************************)
EXTENDS Naturals, Sequences

CONSTANTS
    Plugins,       \* the plugins a provider may be of
    NumProviders,  \* the length of _llm_instances
    MaxRetry,      \* _max_retry_per_llm
    MaxOuter,      \* max_retry of the adapter's own stream
    MaxParts       \* bound: texts and tool calls of an answer

VARIABLES
    plugin,      \* the plugin of each provider
    status,      \* available of each provider
    recovering,  \* the providers whose recovering_task runs
    allFailed,   \* all_failed
    outer,       \* retries of the adapter's stream so far
    provider,    \* the provider that is tried
    chunkSent,   \* chunk_sent: a chunk of this provider was passed on
    attempt,     \* retries of its stream so far
    request,     \* the request of the attempt
    block,       \* what the model is in the middle of
    tool,        \* _tool_call_id: none, of this attempt, or of one before
    sent,        \* retryable is False
    answer,      \* what the model said in this attempt
    out,         \* what the reader of the stream got
    phase,       \* how the provider's stream, and the adapter's, stand
    retryable,   \* of the error the provider's stream raised
    spoilt       \* what the properties except: see Spoilers

statusVars  == <<plugin, status, recovering, allFailed>>
attemptVars == <<attempt, request, block, tool, sent, answer>>
vars == <<statusVars, outer, provider, chunkSent, attemptVars, out, phase, retryable, spoilt>>

Providers == 1 .. NumProviders
Me        == plugin[provider]
Errors    == {"connection", "client", "busy", "server"}  \* no status, 4xx, 429, 5xx

\* reused: an anthropic attempt reads the spent response of the one before;
\* repeated: google may retry an answer it had begun, on a 429, and anthropic on a 5xx;
\* orphan: aws emits a tool call that an earlier attempt began.
Spoilers == {"reused", "repeated", "orphan"}

Mine(what) == [what |-> what, mine |-> TRUE]
Aged(s)    == [i \in DOMAIN s |-> [s[i] EXCEPT !.mine = FALSE]]

AllFailed(available) == \A p \in Providers : ~available[p]

\* The providers the loop of _run tries from i on.
Candidates(i, available, all) == {p \in Providers : p >= i /\ (available[p] \/ all)}
First(S) == CHOOSE p \in S : \A q \in S : p <= q

Init ==
    /\ plugin \in [Providers -> Plugins]
    /\ status \in [Providers -> BOOLEAN]
    /\ allFailed = AllFailed(status)
    /\ provider = First(Candidates(1, status, allFailed))
    /\ recovering = 1 .. provider - 1 /\ outer = 0
    /\ chunkSent = FALSE
    /\ attempt = 0 /\ request = "new" /\ block = "none" /\ tool = "none" /\ sent = FALSE
    /\ answer = <<>> /\ out = <<>>
    /\ phase = "running" /\ retryable = FALSE /\ spoilt = {}

-----------------------------------------------------------------------------
(* How each plugin turns the model's events into chunks: the parts it sends, *)
(* whether it sends a chunk at all, and the tool call it keeps.              *)

Call == [what |-> "call", mine |-> tool = "mine"]
KeptCall == IF tool = "none" THEN <<>> ELSE <<Call>>

\* Every choice becomes a chunk, an empty one at the start of a call; the call is sent by
\* the start of the next one or by the finish reason.
OpenaiParse(event) ==
    [parts |-> IF event = "text" THEN <<Mine("text")>> ELSE KeptCall,
     chunk |-> TRUE,
     tool  |-> CASE event = "text" -> tool [] event = "start" -> "mine" [] OTHER -> "none"]

\* The call is sent at the end of a content block.
AnthropicParse(event) ==
    LET parts == CASE event = "text" -> <<Mine("text")>> [] event = "start" -> <<>>
                   [] OTHER -> KeptCall
    IN [parts |-> parts, chunk |-> parts # <<>>,
        tool |-> CASE event = "text" -> tool [] event = "start" -> "mine" [] OTHER -> "none"]

\* A part is a text or a whole call.
GoogleParse(event) ==
    [parts |-> <<Mine(IF event = "text" THEN "text" ELSE "call")>>, chunk |-> TRUE,
     tool |-> "none"]

\* A call is sent at the end of any content block, whichever block began it.
AwsParse(event) ==
    LET parts == CASE event = "text" -> <<Mine("text")>> [] event = "start" -> <<>>
                   [] OTHER -> KeptCall
    IN [parts |-> parts, chunk |-> parts # <<>>,
        tool |-> CASE event = "text" -> tool [] event = "start" -> "mine" [] OTHER -> "none"]

Parse(event) ==
    CASE Me = "openai" -> OpenaiParse(event)
      [] Me = "anthropic" -> AnthropicParse(event)
      [] Me = "google" -> GoogleParse(event)
      [] Me = "aws" -> AwsParse(event)

\* Whether the error that _run raises may be retried.
OpenaiRetries(error) == ~sent

AnthropicRetries(error) ==
    CASE error = "connection" -> ~sent [] error = "server" -> TRUE [] OTHER -> FALSE

GoogleRetries(error) ==
    CASE error = "client" -> FALSE [] error = "busy" -> TRUE [] OTHER -> ~sent

AwsRetries(error) == ~sent

Retries(error) ==
    CASE Me = "openai" -> OpenaiRetries(error)
      [] Me = "anthropic" -> AnthropicRetries(error)
      [] Me = "google" -> GoogleRetries(error)
      [] Me = "aws" -> AwsRetries(error)

\* What the next attempt of a stream begins with: openai resets the call in _run; a stream
\* of anthropic has one request for all its attempts.
NextAttempt ==
    [request |-> IF Me # "anthropic" THEN "new"
                 ELSE IF request = "open" THEN "spent" ELSE "broken",
     tool    |-> IF Me \in {"openai", "google"} \/ tool = "none" THEN "none" ELSE "old"]

-----------------------------------------------------------------------------
(* The model, and _run of a plugin *)

\* The request is accepted.
Connect ==
    /\ phase = "running" /\ request = "new"
    /\ request' = "open"
    /\ UNCHANGED <<statusVars, outer, provider, chunkSent, attempt, block, tool, sent, answer,
                   out, phase, retryable, spoilt>>

\* An event of the answer: a piece of text, the start of a call, the end of a block (of
\* the answer, for openai; there is none for google).
Event(event) ==
    /\ phase = "running" /\ request = "open"
    /\ CASE event = "text" -> block \in {"none", "text"}
         [] event = "start" -> block = "none" \/ (Me = "openai" /\ block \in {"text", "call"})
         [] event = "end" -> block \in {"text", "call"}
    /\ event # "end" => Len(answer) < MaxParts
    /\ block' = IF Me = "google" THEN "none"
                ELSE CASE event = "text" -> "text" [] event = "start" -> "call"
                       [] event = "end" -> IF Me = "openai" THEN "over" ELSE "none"
    /\ answer' = CASE event = "text" -> Append(answer, "text")
                   [] event = "start" -> Append(answer, "call") [] OTHER -> answer
    /\ LET parsed == Parse(event)
       IN /\ out' = out \o parsed.parts
          /\ tool' = parsed.tool
          /\ sent' = (sent \/ parsed.chunk)
          /\ chunkSent' = (chunkSent \/ parsed.chunk)
          /\ spoilt' = IF Me = "aws" /\ parsed.parts # <<>> /\ ~parsed.parts[1].mine
                       THEN spoilt \cup {"orphan"} ELSE spoilt
    /\ UNCHANGED <<statusVars, outer, provider, attempt, request, phase, retryable>>

\* The response ends; a spent one does so at once.
AnswerEnds ==
    /\ phase = "running"
    /\ \/ request = "open" /\ answer # <<>> /\ block = IF Me = "openai" THEN "over" ELSE "none"
       \/ request = "spent"
    /\ phase' = "done"
    /\ UNCHANGED <<statusVars, outer, provider, chunkSent, attemptVars, out, retryable, spoilt>>

\* _main_task of the provider's stream: it retries what may be retried, and raises.
AttemptFails(error) ==
    /\ phase = "running" /\ request # "spent"
    /\ request = "broken" => error = "connection"
    /\ IF attempt < MaxRetry /\ Retries(error)
       THEN /\ attempt' = attempt + 1
            /\ request' = NextAttempt.request /\ tool' = NextAttempt.tool
            /\ block' = "none" /\ sent' = FALSE /\ answer' = <<>>
            /\ out' = Aged(out)
            /\ UNCHANGED <<phase, retryable>>
       ELSE /\ phase' = "raised" /\ retryable' = Retries(error)
            /\ UNCHANGED <<attemptVars, out>>
    /\ spoilt' = spoilt
         \cup (IF request' = "spent" THEN {"reused"} ELSE {})
         \cup (IF sent /\ <<Me, error>> \in {<<"google", "busy">>, <<"anthropic", "server">>}
               THEN {"repeated"} ELSE {})
    /\ UNCHANGED <<statusVars, outer, provider, chunkSent>>

-----------------------------------------------------------------------------
(* The adapter *)

\* A provider is tried: a stream of its own, and the chunks before are not its own.
Try(p) ==
    /\ provider' = p /\ chunkSent' = FALSE
    /\ attempt' = 0 /\ request' = "new" /\ block' = "none" /\ tool' = "none"
    /\ sent' = FALSE /\ answer' = <<>> /\ out' = Aged(out)
    /\ phase' = "running"

\* Mutant: the next provider is tried although chunks were passed on.
FallsBackAlways == TRUE

\* "if chunk_sent: raise"
FallsBack == ~chunkSent

\* _run: the provider that raised is not available, and the next one is tried, while those
\* that are passed over are tried again in the background.  Without a next one, or with
\* chunks passed on, _main_task of the adapter's stream waits to retry, or raises.
ProviderRaises ==
    /\ phase = "raised"
    /\ LET available == [status EXCEPT ![provider] = FALSE]
           next == Candidates(provider + 1, available, allFailed)
           passed == {p \in Providers : p >= provider /\ (next # {} => p < First(next))}
       IN /\ status' = available
          /\ recovering' = IF FallsBack THEN recovering \cup passed ELSE recovering
          /\ IF FallsBack /\ next # {}
             THEN Try(First(next))
             ELSE /\ phase' = IF (FallsBack \/ retryable) /\ outer < MaxOuter
                              THEN "retrying" ELSE "error"
                  /\ UNCHANGED <<provider, chunkSent, attemptVars, out>>
    /\ UNCHANGED <<plugin, allFailed, outer, retryable, spoilt>>

\* _run once more.
Restart ==
    /\ phase = "retrying"
    /\ outer' = outer + 1
    /\ allFailed' = AllFailed(status)
    /\ Try(First(Candidates(1, status, AllFailed(status))))
    /\ recovering' = recovering \cup (1 .. provider' - 1)
    /\ UNCHANGED <<plugin, status, retryable, spoilt>>

\* _recover_llm_task: the provider gave an answer, or raised.
Recovered(p) ==
    /\ p \in recovering
    /\ recovering' = recovering \ {p}
    /\ status' \in {status, [status EXCEPT ![p] = TRUE]}
    /\ UNCHANGED <<plugin, allFailed, outer, provider, chunkSent, attemptVars, out, phase,
                   retryable, spoilt>>

-----------------------------------------------------------------------------
Next ==
    \/ Connect \/ AnswerEnds \/ ProviderRaises \/ Restart
    \/ \E event \in {"text", "start", "end"} : Event(event)
    \/ \E error \in Errors : AttemptFails(error)
    \/ \E p \in Providers : Recovered(p)

Spec == Init /\ [][Next]_vars

-----------------------------------------------------------------------------
(* Properties *)

TypeOK ==
    /\ plugin \in [Providers -> Plugins] /\ status \in [Providers -> BOOLEAN]
    /\ recovering \subseteq Providers /\ provider \in Providers
    /\ outer \in 0 .. MaxOuter /\ attempt \in 0 .. MaxRetry
    /\ request \in {"new", "open", "broken", "spent"}
    /\ block \in {"none", "text", "call", "over"} /\ tool \in {"none", "mine", "old"}
    /\ phase \in {"running", "raised", "retrying", "done", "error"}
    /\ spoilt \subseteq Spoilers

\* The reader gets what one attempt of one provider said: a retry and a fallback repeat
\* nothing that was heard, and a tool call is whole; and when the stream ends without an
\* error, it gets all of the answer.  Except for the three known spoilers.
AnswerIsWhole ==
    spoilt = {} =>
        /\ \A i \in DOMAIN out : out[i].mine /\ out[i].what = answer[i]
        /\ phase = "done" => Len(out) = Len(answer)
=============================================================================
