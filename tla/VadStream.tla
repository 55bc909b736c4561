------------------------------ MODULE VadStream ------------------------------
(***************************************************************************)
(* The voice activity detection of a stream (the silero plugin's vad.py)   *)
(* and the STT that recognizes what it detects (stt/stream_adapter.py).    *)
(* Audio is a sequence of windows, numbered from 1, each of which holds    *)
(* voice or does not: the model that tells is external, as is the STT.     *)
(* Durations are numbers of windows.                                       *)
(***************************************************************************)
EXTENDS Naturals, Sequences, FiniteSets

CONSTANTS
    MinSpeech, MinSilence,  \* min_speech_duration, min_silence_duration
    Prefix,                 \* prefix_padding_duration
    Buffered,               \* the values that max_buffered_speech may take
    MaxWindows,             \* bound: windows of audio
    MaxUpdates              \* bound: calls of update_options

VARIABLES
    window,     \* windows that were inferred
    voice,      \* speech_threshold_duration: windows of voice up to now
    silence,    \* silence_threshold_duration
    speaking,   \* pub_speaking
    first,      \* the first window of the speech that is on
    ignored,    \* the last window for which there was no space
    size,       \* the size of _speech_buffer
    buffer,     \* what it holds; 0 where nothing was written
    index,      \* speech_buffer_index
    vad,        \* "runs", "ended", or "died"
    updates,
    cut,        \* the buffer was shrunk
    inbox,      \* events of the VAD that the adapter has not read
    recognizer, \* the adapter: "reads", "recognizes", "ended", or "failed"
    events      \* the events of the adapter

bufferVars  == <<size, buffer, index>>
speechVars  == <<window, voice, silence, speaking, first, ignored>>
adapterVars == <<recognizer, events>>
vars == <<speechVars, bufferVars, vad, updates, cut, inbox, adapterVars>>

Least(a, b) == IF a < b THEN a ELSE b

Init ==
    /\ window = 0 /\ voice = 0 /\ silence = 0 /\ speaking = FALSE /\ first = 0 /\ ignored = 0
    /\ \E b \in Buffered : size = b + Prefix
    /\ buffer = <<>> /\ index = 0
    /\ vad = "runs" /\ updates = 0 /\ cut = FALSE
    /\ inbox = <<>> /\ recognizer = "reads" /\ events = <<>>

-----------------------------------------------------------------------------
(* The buffer *)

\* The window goes to the buffer, if there is space: "max_buffered_speech reached, ignoring
\* further data for the current speech input".
Written == IF index < size THEN Append(buffer, window + 1) ELSE buffer
Ignored == IF index < size THEN ignored ELSE window + 1

\* Mutant: the buffer is emptied, and the padding of the next speech with it.
ResetAll(b) == <<>>

\* _reset_write_cursor: the padding is kept.
Reset(b) == IF Len(b) <= Prefix THEN b ELSE SubSeq(b, Len(b) - Prefix + 1, Len(b))

\* A frame of more samples than there are, or a padding of fewer, raises ValueError.
Torn == index > Len(buffer)

Die == vad' = "died" /\ UNCHANGED <<speechVars, buffer, index, inbox>>

-----------------------------------------------------------------------------
(* _main_task *)

Tell(type, frames, since) ==
    inbox' = Append(inbox, [type |-> type, frames |-> frames, at |-> window + 1,
                            first |-> since, ignored |-> Ignored])

\* A window with voice: speech starts with min_speech_duration of it.
Voice ==
    /\ vad = "runs" /\ window < MaxWindows
    /\ IF Torn /\ ~speaking /\ voice + 1 >= MinSpeech THEN Die
       ELSE /\ window' = window + 1 /\ ignored' = Ignored /\ voice' = voice + 1
            /\ silence' = 0
            /\ buffer' = Written /\ index' = (IF index < size THEN index + 1 ELSE index)
            /\ IF ~speaking /\ voice + 1 >= MinSpeech
               THEN /\ speaking' = TRUE /\ first' = window + 1 - voice
                    /\ Tell("START", Written, window + 1 - voice)
               ELSE UNCHANGED <<speaking, first, inbox>>
            /\ UNCHANGED vad
    /\ UNCHANGED <<size, updates, cut, adapterVars>>

\* The buffer after a window of silence, b with that window.
AfterSilence(b) ==
    IF ~speaking \/ silence + 1 >= MinSilence THEN Reset(b) ELSE b

\* A window without voice: speech ends with min_silence_duration of them.
Silence ==
    /\ vad = "runs" /\ window < MaxWindows
    /\ IF Torn /\ (~speaking \/ silence + 1 >= MinSilence) THEN Die
       ELSE /\ window' = window + 1 /\ ignored' = Ignored /\ voice' = 0
            /\ silence' = silence + 1
            /\ buffer' = AfterSilence(Written)
            /\ index' = IF Torn THEN index ELSE Len(AfterSilence(Written))
            /\ IF speaking /\ silence + 1 >= MinSilence
               THEN speaking' = FALSE /\ Tell("END", Written, first)
               ELSE UNCHANGED <<speaking, inbox>>
            /\ UNCHANGED <<first, vad>>
    /\ UNCHANGED <<size, updates, cut, adapterVars>>

\* end_input(): "async for" ends, in a speech or not.
EndInput ==
    /\ vad = "runs"
    /\ vad' = "ended"
    /\ UNCHANGED <<speechVars, bufferVars, updates, cut, inbox, adapterVars>>

Zeros(n) == [i \in 1 .. n |-> 0]

\* update_options: the buffer is resized, and speech_buffer_index is not.
UpdateOptions(b) ==
    /\ vad = "runs" /\ updates < MaxUpdates
    /\ updates' = updates + 1 /\ size' = b + Prefix
    /\ LET kept == SubSeq(buffer, 1, Least(Len(buffer), b + Prefix)) IN
       buffer' = kept \o Zeros(Least(index, b + Prefix) - Len(kept))
    /\ cut' = (cut \/ b + Prefix < index)
    /\ UNCHANGED <<speechVars, index, vad, inbox, adapterVars>>

-----------------------------------------------------------------------------
(* StreamAdapterWrapper._recognize *)

Reads == recognizer = "reads" /\ inbox # <<>>

ReadStart ==
    /\ Reads /\ Head(inbox).type = "START"
    /\ events' = Append(events, Head(inbox)) /\ inbox' = Tail(inbox)
    /\ UNCHANGED <<speechVars, bufferVars, vad, updates, cut, recognizer>>

\* The adapter awaits recognize() before it reads the next event.
ReadEnd ==
    /\ Reads /\ Head(inbox).type = "END"
    /\ events' = Append(events, Head(inbox)) /\ inbox' = Tail(inbox)
    /\ recognizer' = "recognizes"
    /\ UNCHANGED <<speechVars, bufferVars, vad, updates, cut>>

LastEnd == CHOOSE i \in 1 .. Len(events) :
    events[i].type = "END" /\ \A j \in i + 1 .. Len(events) : events[j].type # "END"

\* recognize() returns a text, or none.
Recognized ==
    /\ recognizer = "recognizes"
    /\ recognizer' = "reads"
    /\ events' \in {events, Append(events, [events[LastEnd] EXCEPT !.type = "FINAL"])}
    /\ UNCHANGED <<speechVars, bufferVars, vad, updates, cut, inbox>>

\* It raises, after its own retries; or the VAD did.  Either ends the stream.
RecognizeFails ==
    /\ recognizer = "recognizes" \/ (recognizer = "reads" /\ inbox = <<>> /\ vad = "died")
    /\ recognizer' = "failed"
    /\ UNCHANGED <<speechVars, bufferVars, vad, updates, cut, inbox, events>>

\* The events of the VAD end.
AdapterEnds ==
    /\ recognizer = "reads" /\ inbox = <<>> /\ vad = "ended"
    /\ recognizer' = "ended"
    /\ UNCHANGED <<speechVars, bufferVars, vad, updates, cut, inbox, events>>

-----------------------------------------------------------------------------
Next ==
    \/ Voice \/ Silence \/ EndInput \/ \E b \in Buffered : UpdateOptions(b)
    \/ ReadStart \/ ReadEnd \/ Recognized \/ RecognizeFails \/ AdapterEnds

Spec == Init /\ [][Next]_vars

-----------------------------------------------------------------------------
(* Properties *)

TypeOK ==
    /\ window \in 0 .. MaxWindows /\ voice \in 0 .. window /\ silence \in 0 .. window
    /\ speaking \in BOOLEAN /\ updates \in 0 .. MaxUpdates
    /\ size \in {b + Prefix : b \in Buffered} /\ Len(buffer) <= size
    /\ vad \in {"runs", "ended", "died"}
    /\ recognizer \in {"reads", "recognizes", "ended", "failed"}
    /\ \A i \in 1 .. Len(events) : events[i].type \in {"START", "END", "FINAL"}

\* What is recognized is the speech, from the padding before its first window to the last
\* one and without a gap; unless there was no space for a window since, not even in the
\* padding, or the buffer was shrunk below what it held.
AudioIsOfSpeech ==
    ~cut => \A i \in 1 .. Len(events) :
        LET e == events[i]
            from == IF e.first > Prefix THEN e.first - Prefix ELSE 1
        IN e.ignored < from => e.frames = [k \in 1 .. e.at - from + 1 |-> from + k - 1]

\* Speech starts, ends and is recognized in this order, each speech by itself and none
\* before the earlier one: whatever time the recognition takes, and however the detection
\* runs ahead of it.
SpeechInOrder ==
    \A i \in 1 .. Len(events) - 1 :
        LET a == events[i]  b == events[i + 1] IN
        CASE a.type = "START" -> b.type = "END" /\ b.first = a.first
          [] a.type = "END" -> b.type # "END" /\ (b.type = "FINAL" => b.frames = a.frames)
          [] a.type = "FINAL" -> b.type = "START" /\ b.first > a.first

\* The detection goes on as long as there is audio; unless the buffer was shrunk below what
\* it held, which ends the task at the next event.
DetectionGoesOn == vad = "died" => cut

\* A speech that started has ended once the stream has; unless the input ended in it, for
\* then there is no end, and what was said is not recognized.
SpeechEnds ==
    recognizer = "ended" /\ ~speaking =>
        \A i \in 1 .. Len(events) : events[i].type = "START" =>
            \E j \in i + 1 .. Len(events) : events[j].type = "END" /\ events[j].first = events[i].first
=============================================================================
