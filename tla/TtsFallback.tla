----------------------------- MODULE TtsFallback -----------------------------
(***************************************************************************)
(* A stream of the TTS fallback adapter (tts/fallback_adapter.py) over the *)
(* streams of its providers, which retry by themselves, and the emitters   *)
(* of audio of both (tts/tts.py).                                          *)
(*                                                                         *)
(* A token of text is a number, and its audio one frame.  What a provider  *)
(* does between its calls of the emitter is external: it may fail at any   *)
(* moment.  An emitter keeps the last frame back, to mark the final one.   *)
(***************************************************************************)
EXTENDS Naturals, Sequences

CONSTANTS
    NumProviders,  \* the length of _tts_instances
    MaxRetry,      \* _max_retry_per_tts
    MaxTokens      \* bound: tokens of text

VARIABLES
    told, ended,   \* _pushed_tokens; the input task is done
    status,        \* available of each provider
    recovering,    \* the providers whose recovering_task runs
    allFailed,     \* all_failed
    provider,      \* the provider of the current stream
    attempt,       \* its retries so far
    eaten,         \* the tokens its attempts have taken
    base,          \* the tokens taken when the current attempt began
    voiced,        \* the tokens the attempt has made audio of
    kept,          \* last_frame of the emitter of the attempt, or 0
    sent,          \* the attempt has emitted audio
    events,        \* the provider's audio the adapter has not read
    phase,         \* whether the provider runs or raised; how the stream ended
    held,          \* last_frame of the adapter's emitter, in a sequence
    out,           \* the frames of the stream: the provider, the token
    cut,           \* an attempt failed with text it had taken
    leaked         \* a provider was given up while all its audio was held

inputVars    == <<told, ended>>
statusVars   == <<status, recovering, allFailed>>
attemptVars  == <<attempt, eaten, base, voiced, kept, sent, events>>
outVars      == <<held, out>>
vars == <<inputVars, statusVars, provider, attemptVars, phase, outVars, cut, leaked>>

Providers == 1 .. NumProviders
Over == phase \in {"done", "error"}

\* The providers the loop of _run tries from i on.
Candidates(i, available) == {p \in Providers : p >= i /\ (available[p] \/ allFailed)}
First(S) == CHOOSE p \in S : \A q \in S : p <= q

Init ==
    /\ told = 0 /\ ended = FALSE
    /\ status \in [Providers -> BOOLEAN]
    /\ allFailed = \A p \in Providers : ~status[p]
    /\ recovering = {}
    /\ provider = First(Candidates(1, status))
    /\ attempt = 0 /\ eaten = 0 /\ base = 0 /\ voiced = 0 /\ kept = 0 /\ sent = FALSE
    /\ events = <<>>
    /\ phase = "running"
    /\ held = <<>> /\ out = <<>> /\ cut = FALSE /\ leaked = FALSE

-----------------------------------------------------------------------------
\* The application pushes text; the input task keeps it and passes it on.
PushText ==
    /\ ~Over /\ ~ended /\ told < MaxTokens
    /\ told' = told + 1
    /\ UNCHANGED <<ended, statusVars, provider, attemptVars, phase, outVars, cut, leaked>>

EndInput ==
    /\ ~Over /\ ~ended
    /\ ended' = TRUE
    /\ UNCHANGED <<told, statusVars, provider, attemptVars, phase, outVars, cut, leaked>>

-----------------------------------------------------------------------------
(* The provider's stream *)

TakeToken ==
    /\ phase = "running" /\ eaten < told
    /\ eaten' = eaten + 1
    /\ UNCHANGED <<inputVars, statusVars, provider, attempt, base, voiced, kept, sent, events,
                   phase, outVars, cut, leaked>>

\* _emit_frame of the provider's emitter: the frame before goes out.
Voice ==
    /\ phase = "running" /\ voiced < eaten
    /\ voiced' = voiced + 1 /\ kept' = voiced + 1
    /\ events' = IF kept = 0 THEN events ELSE Append(events, kept)
    /\ sent' = (sent \/ kept # 0)
    /\ UNCHANGED <<inputVars, statusVars, provider, attempt, eaten, base, phase, outVars, cut,
                   leaked>>

\* _main_task of the stream: the next attempt has the text that was not taken yet, and the
\* audio that the emitter has not sent is gone; after the last attempt, the stream raises.
AttemptFails ==
    /\ phase = "running"
    /\ base' = eaten /\ voiced' = eaten /\ kept' = 0 /\ sent' = FALSE
    /\ IF attempt < MaxRetry
       THEN attempt' = attempt + 1 /\ UNCHANGED phase
       ELSE phase' = "raised" /\ UNCHANGED attempt
    /\ cut' = (cut \/ eaten > base)
    /\ UNCHANGED <<inputVars, statusVars, provider, eaten, events, outVars, leaked>>

\* The attempt has come to the end of the text; it has to have made audio of it.
AttemptEnds ==
    /\ phase = "running" /\ ended /\ eaten = told /\ voiced = eaten
    /\ (sent \/ kept # 0) \/ told = 0
    /\ events' = IF kept = 0 THEN events ELSE Append(events, kept)
    /\ kept' = 0
    /\ phase' = "finished"
    /\ UNCHANGED <<inputVars, statusVars, provider, attempt, eaten, base, voiced, sent, outVars,
                   cut, leaked>>

-----------------------------------------------------------------------------
(* _run of the adapter *)

\* A frame of the provider is pushed to the emitter.
ReadFrame ==
    /\ ~Over /\ events # <<>>
    /\ events' = Tail(events)
    /\ held' = <<[by |-> provider, token |-> Head(events)]>>
    /\ out' = out \o held
    /\ UNCHANGED <<inputVars, statusVars, provider, attempt, eaten, base, voiced, kept, sent,
                   phase, cut, leaked>>

\* _main_task of the adapter's stream: what is held is final, and there has to be audio.
Finish ==
    /\ held' = <<>>
    /\ IF out \o held = <<>> /\ told > 0
       THEN phase' = "error" /\ UNCHANGED out
       ELSE phase' = "done" /\ out' = out \o held
    /\ UNCHANGED <<provider, attemptVars>>

ProviderEnds ==
    /\ phase = "finished" /\ events = <<>>
    /\ Finish
    /\ UNCHANGED <<inputVars, statusVars, cut, leaked>>

\* Mutant: the next provider is tried although some of the audio was heard.
FallsBackAlways == TRUE

\* pushed_duration() is 0.
FallsBack == out = <<>>

\* The provider that raised is not available, and the next one begins with all the text.
\* The providers that are passed over are tried again in the background.
ProviderRaises ==
    /\ phase = "raised" /\ events = <<>>
    /\ LET available == [status EXCEPT ![provider] = FALSE]
           next == Candidates(provider + 1, available)
           passed == {p \in Providers : /\ p >= provider
                                        /\ next # {} => p < First(next)}
       IN /\ status' = available
          /\ IF ~FallsBack
             THEN Finish /\ UNCHANGED <<recovering, leaked>>
             ELSE /\ recovering' = IF told = 0 THEN recovering ELSE recovering \cup passed
                  /\ IF next = {}
                     THEN /\ phase' = "error" /\ held' = <<>>
                          /\ UNCHANGED <<provider, attemptVars, out, leaked>>
                     ELSE /\ provider' = First(next)
                          /\ attempt' = 0 /\ eaten' = 0 /\ base' = 0 /\ voiced' = 0
                          /\ kept' = 0 /\ sent' = FALSE /\ events' = <<>>
                          /\ phase' = "running"
                          /\ leaked' = (leaked \/ (held # <<>> /\ out = <<>>))
                          /\ UNCHANGED outVars
    /\ UNCHANGED <<inputVars, allFailed, cut>>

\* _recover_tts_task: the provider has made audio of the text, or raised.
Recovered(p) ==
    /\ p \in recovering
    /\ recovering' = recovering \ {p}
    /\ \/ status' = [status EXCEPT ![p] = TRUE]
       \/ UNCHANGED status
    /\ UNCHANGED <<inputVars, allFailed, provider, attemptVars, phase, outVars, cut, leaked>>

-----------------------------------------------------------------------------
Next ==
    \/ PushText \/ EndInput
    \/ TakeToken \/ Voice \/ AttemptFails \/ AttemptEnds
    \/ ReadFrame \/ ProviderEnds \/ ProviderRaises
    \/ \E p \in Providers : Recovered(p)

Spec == Init /\ [][Next]_vars

-----------------------------------------------------------------------------
(* Properties *)

TypeOK ==
    /\ told \in 0 .. MaxTokens /\ eaten \in 0 .. told
    /\ base \in 0 .. eaten /\ voiced \in base .. eaten /\ kept \in 0 .. voiced
    /\ status \in [Providers -> BOOLEAN] /\ recovering \subseteq Providers
    /\ provider \in Providers /\ attempt \in 0 .. MaxRetry
    /\ phase \in {"running", "raised", "finished", "done", "error"}
    /\ Len(held) <= 1 /\ sent \in BOOLEAN

Heard == out \o held

\* The audio is that of one provider, in the order of the text and without a repetition,
\* "already synthesized of audio, ignoring the current segment for the tts fallback",
\* unless a provider was given up while the emitter held all its audio; and when the stream
\* ends without an error, all the text is heard unless an attempt failed with text taken.
HeardOnceAndWhole ==
    ~leaked =>
        /\ \A i, j \in 1 .. Len(Heard) :
            i < j => Heard[i].by = Heard[j].by /\ Heard[i].token < Heard[j].token
        /\ phase = "done" /\ ~cut => Len(out) = told
=============================================================================
