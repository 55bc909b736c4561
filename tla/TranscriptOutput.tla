--------------------------- MODULE TranscriptOutput ---------------------------
(***************************************************************************)
(* What is shown of a transcript in the room (room_io/_output.py).  A      *)
(* caller captures the parts of a segment one after the other and then     *)
(* flushes it; the last message of a segment, which makes it final, is     *)
(* sent by a task of its own.  A text is the set of the parts it holds.    *)
(*                                                                         *)
(* The room is external: it carries messages, or fails to.                 *)
(***************************************************************************)
EXTENDS Naturals, Sequences, FiniteSets

CONSTANTS
    Users,      \* participants whose text is shown
    None,       \* no participant
    MaxCalls    \* bound: parts that are captured and calls of set_participant, together

VARIABLES
    legacy,     \* _ParticipantLegacyTranscriptionOutput, or the one with text streams
    delta,      \* _is_delta_stream: a part adds to the text; or it is the whole of it
    mics,       \* participants that published a microphone
    who,        \* _participant_identity
    track,      \* whose track _track_id is
    id,         \* _current_id
    capturing,
    text,       \* _latest_text, _pushed_text
    writer,     \* _writer
    parts,      \* parts that were captured
    segment,    \* the segment of the caller
    capture,    \* capture_text(): where it stands, its message
    flushes,    \* the flush tasks that run, the last is _flush_task
    shown,      \* the messages, in order
    changes,
    changed,    \* the participant was set while a segment was open
    switched,   \* that of the legacy output was set to another than the one of the track
    lost        \* a message failed, or a flush was cancelled with the capture that awaited it

outVars    == <<id, capturing, text, writer>>
whoVars    == <<mics, who, track>>
callVars   == <<parts, segment, capture>>
spoilVars  == <<changes, changed, switched>>
vars == <<legacy, delta, whoVars, outVars, callVars, flushes, shown, spoilVars, lost>>

Idle     == [at |-> "idle"]
NoWriter == [id |-> 0]

Init ==
    /\ legacy \in BOOLEAN /\ delta \in BOOLEAN
    /\ mics \in SUBSET Users /\ who \in Users \cup {None}
    /\ track = (IF who \in mics THEN who ELSE None)
    /\ id = 1 /\ capturing = FALSE /\ text = {} /\ writer = NoWriter
    /\ parts = 0 /\ segment = 1 /\ capture = Idle /\ flushes = <<>> /\ shown = <<>>
    /\ changes = 0 /\ changed = FALSE /\ switched = FALSE /\ lost = FALSE

\* Text goes nowhere without a participant, and a transcription has a track.
Mute(p, t) == p = None \/ (legacy /\ t = None)

\* The header of a message, which names the segment.
Header(i, p, t) == [id |-> i, who |-> p, track |-> t]

-----------------------------------------------------------------------------
(* flush *)

\* What the flush task is given: a transcription its segment and text, a stream that goes
\* on its writer; the others read the segment and the text when they run.
Given == IF legacy THEN [id |-> id, text |-> text]
         ELSE IF delta THEN writer ELSE NoWriter

\* The number of the last flush task that runs, which is _flush_task.
LastFlush == IF flushes = <<>> THEN 0 ELSE flushes[Len(flushes)].n

Flushed(p, t) == ~Mute(p, t) /\ capturing

\* flush() while p is the participant, and t the one of the track; _reset_state() follows
\* where renewed.
DoFlush(p, t, renewed) ==
    /\ flushes' = IF Flushed(p, t)
                  THEN Append(flushes, [at |-> "new", given |-> Given, n |-> LastFlush + 1])
                  ELSE flushes
    /\ writer' = IF Flushed(p, t) THEN NoWriter ELSE writer
    /\ LET reset == renewed \/ (legacy /\ Flushed(p, t)) IN
       /\ capturing' = (capturing /\ ~Flushed(p, t) /\ ~reset)
       /\ id' = IF reset THEN id + 1 ELSE id
       /\ text' = IF reset THEN {} ELSE text

\* The caller ends the segment.
Flush ==
    /\ capture = Idle /\ segment <= parts
    /\ segment' = segment + 1
    /\ DoFlush(who, track, FALSE)
    /\ UNCHANGED <<legacy, delta, whoVars, parts, capture, shown, spoilVars, lost>>

Without(i) == [j \in 1 .. Len(flushes) - 1 |-> IF j < i THEN flushes[j] ELSE flushes[j + 1]]

\* _flush_task begins: it opens a stream, or sends.
FlushBegins(i) ==
    /\ flushes[i].at = "new"
    /\ LET given == flushes[i].given
           mute  == IF legacy THEN Mute(who, track)
                    ELSE IF delta THEN given = NoWriter ELSE who = None
           head  == IF legacy THEN Header(given.id, who, track)
                    ELSE IF delta THEN given ELSE Header(id, who, track)
       IN flushes' = IF mute THEN Without(i)
                     ELSE [flushes EXCEPT ![i] = [at |-> "send", given |-> given, head |-> head,
                                                  n |-> @.n]]
    /\ UNCHANGED <<legacy, delta, whoVars, outVars, callVars, shown, spoilVars, lost>>

\* Mutant: the last text of a segment is not sent again.
FinalEmpty(i) == {}

\* The text of the message that makes a segment final.
FinalText(i) == IF legacy THEN flushes[i].given.text ELSE IF delta THEN {} ELSE text

\* The segment is final for those who read it; or the message fails.
FlushEnds(i) ==
    /\ flushes[i].at = "send"
    /\ \/ shown' = Append(shown, [head |-> flushes[i].head, id |-> flushes[i].head.id,
                                  text |-> FinalText(i), segment |-> 0, final |-> TRUE])
          /\ UNCHANGED lost
       \/ lost' = TRUE /\ UNCHANGED shown
    /\ flushes' = Without(i)
    /\ UNCHANGED <<legacy, delta, whoVars, outVars, callVars, spoilVars>>

-----------------------------------------------------------------------------
(* capture_text *)

\* The part n is of a new segment after a flush.
NextId == IF capturing THEN id ELSE id + 1

NextText(n) == IF legacy /\ delta /\ capturing THEN text \cup {n} ELSE {n}

\* A stream that goes on has its writer; others begin one for the participant of now.
Begin(n) ==
    LET going == ~legacy /\ delta /\ writer # NoWriter
        head  == IF going THEN writer ELSE Header(NextId, who, track)
        fails == IF legacy THEN Mute(who, track) ELSE who = None /\ ~going
    IN /\ id' = NextId /\ capturing' = TRUE /\ text' = NextText(n)
       /\ capture' = IF fails THEN Idle
                     ELSE [at |-> IF legacy \/ going THEN "send" ELSE "create", head |-> head,
                           text |-> NextText(n)]

\* A flush that runs is waited for.
CaptureText ==
    /\ capture = Idle /\ parts + changes < MaxCalls
    /\ parts' = parts + 1
    /\ IF Mute(who, track) THEN UNCHANGED <<id, capturing, text, capture>>
       ELSE IF flushes # <<>> THEN
            /\ capture' = [at |-> "waits", part |-> parts + 1, flush |-> LastFlush]
            /\ UNCHANGED <<id, capturing, text>>
       ELSE Begin(parts + 1)
    /\ UNCHANGED <<legacy, delta, whoVars, writer, segment, flushes, shown, spoilVars, lost>>

CaptureGoesOn ==
    /\ capture.at = "waits" /\ \A i \in 1 .. Len(flushes) : flushes[i].n # capture.flush
    /\ Begin(capture.part)
    /\ UNCHANGED <<legacy, delta, whoVars, writer, parts, segment, flushes, shown, spoilVars,
                   lost>>

\* The writer of a stream that goes on is kept.
Keeps == IF delta THEN capture.head ELSE writer

Created ==
    /\ capture.at = "create"
    /\ capture' = [capture EXCEPT !.at = "send"] /\ writer' = Keeps
    /\ UNCHANGED <<legacy, delta, whoVars, id, capturing, text, parts, segment, flushes, shown,
                   spoilVars, lost>>

Captured ==
    /\ capture.at = "send"
    /\ capture' = Idle
    /\ \/ shown' = Append(shown, [head |-> capture.head, id |-> capture.head.id,
                                  text |-> capture.text, segment |-> segment, final |-> FALSE])
          /\ UNCHANGED lost
       \/ lost' = TRUE /\ UNCHANGED shown
    /\ UNCHANGED <<legacy, delta, whoVars, outVars, parts, segment, flushes, spoilVars>>

\* The caller is interrupted: a flush that the capture awaits is cancelled with it.
CancelCapture ==
    /\ delta /\ capture # Idle
    /\ capture' = Idle
    /\ IF capture.at = "waits" /\ \E i \in 1 .. Len(flushes) : flushes[i].n = capture.flush
       THEN /\ \E i \in 1 .. Len(flushes) : flushes[i].n = capture.flush /\ flushes' = Without(i)
            /\ lost' = TRUE
       ELSE UNCHANGED <<flushes, lost>>
    /\ UNCHANGED <<legacy, delta, whoVars, outVars, parts, segment, shown, spoilVars>>

-----------------------------------------------------------------------------
(* The participant *)

\* find_micro_track_id; the legacy output looks for a track only if it has none.
TrackOf(p) == IF legacy /\ track # None THEN track ELSE IF p \in mics THEN p ELSE None

\* set_participant
SetParticipant(p) ==
    /\ parts + changes < MaxCalls
    /\ changes' = changes + 1 /\ who' = p
    /\ changed' = (changed \/ capturing \/ capture # Idle \/ flushes # <<>>)
    /\ switched' = (switched \/ (legacy /\ track \notin {None, p}))
    /\ IF p = None THEN UNCHANGED <<track, outVars, flushes>>
       ELSE track' = TrackOf(p) /\ DoFlush(p, TrackOf(p), TRUE)
    /\ UNCHANGED <<legacy, delta, mics, callVars, shown, lost>>

\* _on_track_published
TrackPublished(p) ==
    /\ p \notin mics
    /\ mics' = mics \cup {p}
    /\ track' = IF p = who THEN p ELSE track
    /\ UNCHANGED <<legacy, delta, who, outVars, callVars, flushes, shown, spoilVars, lost>>

-----------------------------------------------------------------------------
Next ==
    \/ Flush \/ CaptureText \/ CaptureGoesOn \/ Created \/ Captured \/ CancelCapture
    \/ \E i \in 1 .. Len(flushes) : FlushBegins(i) \/ FlushEnds(i)
    \/ \E p \in Users \cup {None} : SetParticipant(p)
    \/ \E p \in Users : TrackPublished(p)

Spec == Init /\ [][Next]_vars

-----------------------------------------------------------------------------
(* Properties *)

TypeOK ==
    /\ mics \subseteq Users /\ {who, track} \subseteq Users \cup {None}
    /\ text \subseteq 1 .. MaxCalls /\ parts \in 0 .. MaxCalls
    /\ capture.at \in {"idle", "waits", "create", "send"}
    /\ \A i \in 1 .. Len(flushes) : flushes[i].at \in {"new", "send"}

Before(i) == {j \in 1 .. i - 1 : shown[j].id = shown[i].id /\ ~shown[j].final}

\* The message that makes a segment final is its last and holds its text; unless the
\* participant was set while a segment was open, or a message was lost.
FinalIsWhole ==
    ~changed /\ ~lost => \A i \in 1 .. Len(shown) : shown[i].final =>
        /\ \A j \in i + 1 .. Len(shown) : shown[j].id # shown[i].id
        /\ IF delta THEN legacy => \A j \in Before(i) : shown[j].text \subseteq shown[i].text
           ELSE \A j \in Before(i) : (\A k \in Before(i) : k <= j) => shown[i].text = shown[j].text

\* Each segment of the caller is shown apart, and as one; unless the participant was set
\* while a segment was open.
SegmentsApart ==
    ~changed => \A i, j \in 1 .. Len(shown) : ~shown[i].final /\ ~shown[j].final =>
        (shown[i].id = shown[j].id) = (shown[i].segment = shown[j].segment)

\* When nothing is under way, every segment that was shown is final; unless the
\* participant was set while a segment was open, or a message was lost.
AllFinal ==
    capture = Idle /\ flushes = <<>> /\ ~capturing /\ ~changed /\ ~lost =>
        \A i \in 1 .. Len(shown) : \E j \in 1 .. Len(shown) :
            shown[j].id = shown[i].id /\ shown[j].final

\* What is shown as a participant's names the track of that participant, or none; unless
\* the legacy output was set to another, for it keeps the track of the first.
OwnTrack ==
    ~switched => \A i \in 1 .. Len(shown) : shown[i].head.track \in {None, shown[i].head.who}
=============================================================================
