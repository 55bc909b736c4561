------------------------------ MODULE SpeechOutput ------------------------------
(***************************************************************************)
(* How the audio and the text of one speech after the other reach the      *)
(* room: the forwarding tasks of voice/generation.py, the transcript       *)
(* synchronizer, the participant's audio output and the counters of        *)
(* voice/io.py, as an agent activity drives them in a reply.               *)
(*                                                                         *)
(* Cancelling a task that awaits a future or a task cancels what it        *)
(* awaits.  The tasks that forward a speech, which are cancelled when it   *)
(* is interrupted, await _started_fut, _flush_task and the task that       *)
(* replaces the segment of the synchronizer.                               *)
(*                                                                         *)
(* The text of a speech is its number.  The synchronizer stays enabled,    *)
(* and the speeches do not overlap, as SpeechScheduling shows.             *)
(***************************************************************************)
EXTENDS Naturals, FiniteSets

CONSTANTS
    MaxSpeeches,  \* bound: speeches
    MaxFrames     \* bound: audio frames of a speech

VARIABLES
    cur,          \* the current speech
    phase,        \* where its reply stands
    interrupted,  \* it was interrupted
    af, tf,       \* the tasks that forward its audio and its text
    frames,       \* bound: frames of its audio so far
    first,        \* first_frame_fut is set
    record,       \* the speeches whose text the recorded message holds
    startedFut,   \* _started_fut of the participant's output
    inner,        \* the participant's output: segments, finished, pushed, queued in the
                  \* source, clear (_interrupted_event), flush (whether _flush_task runs)
    outer,        \* the synchronizer's output: capturing, segments, finished, pushed
    event,        \* __playback_finished_event of outer
    waiters,      \* the calls of outer.wait_for_playout
    last,         \* the transcript in __last_playback_ev of outer
    impl,         \* the segment of the synchronizer
    tCapturing,   \* _capturing of the synchronizer's text output
    rotations,    \* the tasks of rotate_segment that have not ended
    doomed,       \* one of them was cancelled: each awaits the one before
    mute          \* the audio of a speech ended before its text

speechVars == <<cur, phase, interrupted, frames, first, record>>
taskVars   == <<af, tf>>
sinkVars   == <<startedFut, inner, outer>>
waitVars   == <<event, waiters, last>>
syncVars   == <<impl, tCapturing, rotations, doomed, mute>>
vars == <<speechVars, taskVars, sinkVars, waitVars, syncVars>>

Speeches == 1 .. MaxSpeeches
NewSegment == [closed |-> FALSE, audio |-> FALSE, audioEnd |-> FALSE, texts |-> {},
               textEnd |-> FALSE, shown |-> FALSE, completed |-> FALSE]
\* The tasks await a rotation.
Barriers == {"barrier", "barrier2"}

Init ==
    /\ cur = 0 /\ phase = "over" /\ interrupted = FALSE
    /\ frames = 0 /\ first = FALSE /\ record = {}
    /\ af = "done" /\ tf = "done"
    /\ startedFut = "pending"
    /\ inner = [capturing |-> FALSE, segments |-> 0, finished |-> 0, pushed |-> 0,
                queued |-> 0, clear |-> FALSE, flush |-> FALSE]
    /\ outer = [capturing |-> FALSE, segments |-> 0, finished |-> 0, pushed |-> FALSE]
    /\ event = FALSE /\ waiters = {} /\ last = {}
    /\ impl = NewSegment /\ tCapturing = FALSE /\ rotations = 1 /\ doomed = FALSE
    /\ mute = FALSE

-----------------------------------------------------------------------------
(* The segments of the synchronizer *)

PushText(i) == IF i.closed THEN i ELSE [i EXCEPT !.texts = @ \cup {cur}]
EndText(i)  == IF i.closed THEN i ELSE [i EXCEPT !.textEnd = TRUE]
PushAudio(i) == IF i.closed THEN i ELSE [i EXCEPT !.audio = TRUE]
EndAudio(i) == IF i.closed THEN i ELSE [i EXCEPT !.audioEnd = TRUE]

MarkFinished(i, wasInterrupted) ==
    IF i.closed \/ ~i.textEnd \/ ~i.audioEnd \/ wasInterrupted THEN i
    ELSE [i EXCEPT !.completed = TRUE]

\* synchronized_transcript: the whole text, or what has been shown of it.
Transcript(i) == IF i.completed \/ i.shown THEN i.texts ELSE {}

\* A word is sent to the room at the pace of the audio.
ShowText ==
    /\ impl.audio /\ impl.texts # {} /\ ~impl.closed /\ ~impl.shown
    /\ impl' = [impl EXCEPT !.shown = TRUE]
    /\ UNCHANGED <<speechVars, taskVars, sinkVars, waitVars, tCapturing, rotations, doomed, mute>>

\* _rotate_segment_task closes the segment, and waits for what it still sends.
RotateCloses ==
    /\ rotations > 0 /\ ~doomed /\ ~impl.closed
    /\ impl' = [impl EXCEPT !.closed = TRUE]
    /\ UNCHANGED <<speechVars, taskVars, sinkVars, waitVars, tCapturing, rotations, doomed, mute>>

RotateEnds ==
    /\ rotations > 0 /\ ~doomed /\ impl.closed
    /\ impl' = NewSegment
    /\ rotations' = rotations - 1
    /\ UNCHANGED <<speechVars, taskVars, sinkVars, waitVars, tCapturing, doomed, mute>>

\* The task awaits one that was cancelled, and so does who awaits the task.
RotateDies ==
    /\ rotations > 0 /\ doomed
    /\ rotations' = 0
    /\ af' = IF af \in Barriers THEN "raised" ELSE af
    /\ tf' = IF tf \in Barriers THEN "raised" ELSE tf
    /\ UNCHANGED <<speechVars, sinkVars, waitVars, impl, tCapturing, doomed, mute>>

-----------------------------------------------------------------------------
(* The task that forwards the audio: capture_frame of both outputs, then flush *)

\* The participant's output takes the frame; the source queues it.  No flush runs then,
\* which FlushIsExclusive checks: the code logs an error and awaits it.
TakeFrame ==
    /\ af' = "source"
    /\ inner' = [inner EXCEPT !.capturing = TRUE,
                              !.segments = IF inner.capturing THEN @ ELSE @ + 1,
                              !.pushed = @ + 1, !.queued = @ + 1]

\* Past the barrier, the frame counts for the synchronizer's output.
CountFrame ==
    /\ outer' = [outer EXCEPT !.capturing = TRUE,
                              !.segments = IF outer.capturing THEN @ ELSE @ + 1]
    /\ CASE startedFut = "pending"   -> af' = "starting" /\ UNCHANGED inner
         [] startedFut = "cancelled" -> af' = "raised" /\ UNCHANGED inner
         [] startedFut = "done"      -> TakeFrame

\* The TTS makes the audio from the text.
NextFrame ==
    /\ af = "next" /\ tf # "next" /\ frames < MaxFrames
    /\ frames' = frames + 1
    /\ IF rotations > 0
       THEN af' = "barrier" /\ UNCHANGED <<inner, outer>>
       ELSE CountFrame
    /\ UNCHANGED <<cur, phase, interrupted, first, record, tf, startedFut, waitVars, syncVars>>

PassBarrier ==
    /\ af = "barrier" /\ rotations = 0
    /\ CountFrame
    /\ UNCHANGED <<speechVars, tf, startedFut, waitVars, syncVars>>

\* The participant's output is subscribed to.
FrameGoesOn ==
    /\ af = "starting" /\ startedFut = "done"
    /\ TakeFrame
    /\ UNCHANGED <<speechVars, tf, startedFut, outer, waitVars, syncVars>>

\* The frame is in the source.  A segment whose audio has ended is replaced first: this
\* happens only once the rotations are doomed, so that this one dies too.
FrameTaken ==
    /\ af = "source"
    /\ outer' = [outer EXCEPT !.pushed = TRUE]
    /\ IF impl.audioEnd
       THEN af' = "barrier2" /\ rotations' = rotations + 1 /\ UNCHANGED <<impl, first>>
       ELSE af' = "next" /\ impl' = PushAudio(impl) /\ first' = TRUE /\ UNCHANGED rotations
    /\ UNCHANGED <<cur, phase, interrupted, frames, record, tf, startedFut, inner, waitVars,
                   tCapturing, doomed, mute>>

\* The audio has ended, or the task was cancelled: both outputs are flushed.  A segment
\* without audio is replaced.
FlushAudio ==
    /\ af \in {"next", "raised"}
    /\ af' = "done"
    /\ inner' = [inner EXCEPT !.capturing = FALSE, !.flush = @ \/ inner.pushed > 0]
    /\ outer' = [outer EXCEPT !.capturing = FALSE]
    /\ IF outer.pushed
       THEN impl' = EndAudio(impl) /\ UNCHANGED rotations
       ELSE rotations' = rotations + 1 /\ UNCHANGED impl
    /\ mute' = (mute \/ (af = "next" /\ tf \notin {"next", "done"}))
    /\ UNCHANGED <<speechVars, tf, startedFut, waitVars, tCapturing, doomed>>

-----------------------------------------------------------------------------
(* The task that forwards the text: capture_text, then flush *)

\* A segment whose text has ended is replaced first.
CaptureText ==
    /\ tCapturing' = TRUE
    /\ IF impl.textEnd
       THEN tf' = "barrier2" /\ rotations' = rotations + 1 /\ UNCHANGED impl
       ELSE tf' = "end" /\ impl' = PushText(impl) /\ UNCHANGED rotations

NextText ==
    /\ tf = "next"
    /\ IF rotations > 0
       THEN tf' = "barrier" /\ UNCHANGED <<impl, tCapturing, rotations>>
       ELSE CaptureText
    /\ mute' = (mute \/ af = "done")
    /\ UNCHANGED <<speechVars, af, sinkVars, waitVars, doomed>>

TextPassesBarrier ==
    /\ rotations = 0
    /\ \/ tf = "barrier" /\ CaptureText
       \/ /\ tf = "barrier2"
          /\ tf' = "end" /\ impl' = PushText(impl)
          /\ UNCHANGED <<tCapturing, rotations>>
    /\ UNCHANGED <<speechVars, af, sinkVars, waitVars, doomed, mute>>

\* The text has ended, or the task was cancelled.  A reply without text has no audio.
FlushText ==
    /\ tf \in {"end", "raised"} \/ (tf = "next" /\ af = "done")
    /\ tf' = "done" /\ tCapturing' = FALSE
    /\ impl' = IF tCapturing THEN EndText(impl) ELSE impl
    /\ UNCHANGED <<speechVars, af, sinkVars, waitVars, rotations, doomed, mute>>

-----------------------------------------------------------------------------
(* The room *)

\* The track of the participant's output is published and subscribed to.
Started ==
    /\ startedFut = "pending"
    /\ startedFut' = "done"
    /\ UNCHANGED <<speechVars, taskVars, inner, outer, waitVars, syncVars>>

PlayFrame ==
    /\ inner.queued > 0
    /\ inner' = [inner EXCEPT !.queued = @ - 1]
    /\ UNCHANGED <<speechVars, taskVars, startedFut, outer, waitVars, syncVars>>

\* _wait_for_playout of the participant's output: its audio has been played, or was
\* cleared.  Through both outputs, the end of the segment is counted and the segment of
\* the synchronizer replaced.
FlushEnds ==
    /\ inner.flush /\ (inner.queued = 0 \/ inner.clear)
    /\ inner' = [inner EXCEPT !.pushed = 0, !.queued = 0, !.clear = FALSE, !.flush = FALSE,
                              !.finished = IF @ < inner.segments THEN @ + 1 ELSE @]
    /\ IF inner.finished < inner.segments
       THEN /\ impl' = MarkFinished(impl, inner.clear)
            /\ rotations' = rotations + 1
            /\ IF outer.finished < outer.segments
               THEN /\ event' = TRUE
                    /\ waiters' = {[w EXCEPT !.woken = TRUE] : w \in waiters}
                    /\ last' = Transcript(impl')
                    /\ outer' = [outer EXCEPT !.finished = @ + 1, !.pushed = FALSE]
               ELSE outer' = [outer EXCEPT !.pushed = FALSE] /\ UNCHANGED waitVars
       ELSE UNCHANGED <<outer, waitVars, impl, rotations>>
    /\ UNCHANGED <<speechVars, taskVars, startedFut, tCapturing, doomed, mute>>

-----------------------------------------------------------------------------
(* The reply *)

\* wait_for_playout, for the reply or for what follows its interruption.
Wait(kind) ==
    IF outer.finished >= outer.segments
    THEN UNCHANGED <<event, waiters>>
    ELSE /\ event' = FALSE
         /\ waiters' = waiters \cup {[speech |-> cur, kind |-> kind,
                                      target |-> outer.segments, woken |-> FALSE]}

Waited(kind) == \A w \in waiters : w.speech # cur \/ w.kind # kind

\* A call of wait_for_playout is woken; each clears the event.
Wake(w) ==
    /\ w \in waiters /\ w.woken
    /\ event' = FALSE
    /\ waiters' = IF outer.finished >= w.target THEN waiters \ {w}
                  ELSE (waiters \ {w}) \cup {[w EXCEPT !.woken = FALSE]}
    /\ UNCHANGED <<speechVars, taskVars, sinkVars, last, syncVars>>

StartSpeech ==
    /\ phase = "over" /\ cur < MaxSpeeches
    /\ cur' = cur + 1 /\ phase' = "forwarding" /\ interrupted' = FALSE
    /\ af' = "next" /\ tf' = "next" /\ frames' = 0 /\ first' = FALSE /\ record' = {}
    /\ UNCHANGED <<sinkVars, waitVars, syncVars>>

Interrupt ==
    /\ phase \in {"forwarding", "waiting"} /\ ~interrupted
    /\ interrupted' = TRUE
    /\ UNCHANGED <<cur, phase, frames, first, record, taskVars, sinkVars, waitVars, syncVars>>

\* The tasks have ended, or the speech was interrupted.
WaitForPlayout ==
    /\ phase = "forwarding"
    /\ interrupted \/ (af = "done" /\ tf = "done")
    /\ phase' = "waiting"
    /\ Wait("reply")
    /\ UNCHANGED <<cur, interrupted, frames, first, record, taskVars, sinkVars, last, syncVars>>

PlayedOut ==
    /\ phase = "waiting" /\ ~interrupted /\ Waited("reply")
    /\ phase' = "over"
    /\ record' = {cur}
    /\ UNCHANGED <<cur, interrupted, frames, first, taskVars, sinkVars, waitVars, syncVars>>

\* cancel_and_wait: what the tasks await is cancelled with them.
CancelTasks ==
    /\ phase = "waiting" /\ interrupted
    /\ phase' = "cancelling"
    /\ af' = IF af = "done" THEN af ELSE "raised"
    /\ tf' = IF tf = "done" THEN tf ELSE "raised"
    /\ startedFut' = IF af = "starting" /\ startedFut = "pending" THEN "cancelled"
                     ELSE startedFut
    /\ IF {af, tf} \cap Barriers # {} /\ rotations > 0
       THEN doomed' = TRUE /\ rotations' = 0
       ELSE UNCHANGED <<doomed, rotations>>
    /\ UNCHANGED <<cur, interrupted, frames, first, record, inner, outer, waitVars, impl, tCapturing,
                   mute>>

\* The buffer is cleared, and its end awaited.
ClearBuffer ==
    /\ phase = "cancelling" /\ af = "done" /\ tf = "done"
    /\ phase' = "clearing"
    /\ inner' = [inner EXCEPT !.clear = @ \/ inner.pushed > 0]
    /\ Wait("clear")
    /\ UNCHANGED <<cur, interrupted, frames, first, record, taskVars, startedFut, outer, last,
                   syncVars>>

\* Mutant: the end of the playback is not awaited.
RecordAtOnce ==
    /\ phase = "clearing"
    /\ phase' = "over"
    /\ record' = IF first THEN last ELSE {}
    /\ UNCHANGED <<cur, interrupted, frames, first, taskVars, sinkVars, waitVars, syncVars>>

\* The message of the interrupted speech has the transcript of its playback.
RecordInterrupted ==
    /\ phase = "clearing" /\ Waited("clear")
    /\ phase' = "over"
    /\ record' = IF first THEN last ELSE {}
    /\ UNCHANGED <<cur, interrupted, frames, first, taskVars, sinkVars, waitVars, syncVars>>

-----------------------------------------------------------------------------
Next ==
    \/ ShowText \/ RotateCloses \/ RotateEnds \/ RotateDies
    \/ NextFrame \/ PassBarrier \/ FrameGoesOn \/ FrameTaken
    \/ FlushAudio
    \/ NextText \/ TextPassesBarrier \/ FlushText
    \/ Started \/ PlayFrame \/ FlushEnds
    \/ \E w \in waiters : Wake(w)
    \/ StartSpeech \/ Interrupt \/ WaitForPlayout \/ PlayedOut
    \/ CancelTasks \/ ClearBuffer \/ RecordInterrupted

\* The loop runs its tasks, the room plays what it has, and the track is published.
\* Nothing is assumed of the speech: its audio and its text may not come to an end.
Fairness ==
    /\ WF_vars(RotateCloses \/ RotateEnds \/ RotateDies)
    /\ WF_vars(PassBarrier \/ FrameGoesOn \/ FrameTaken)
    /\ WF_vars(af = "raised" /\ FlushAudio)
    /\ WF_vars(TextPassesBarrier)
    /\ WF_vars(tf = "raised" /\ FlushText)
    /\ WF_vars(Started) /\ WF_vars(PlayFrame) /\ WF_vars(FlushEnds)
    /\ WF_vars(\E w \in waiters : Wake(w))
    /\ WF_vars(WaitForPlayout) /\ WF_vars(PlayedOut)
    /\ WF_vars(CancelTasks) /\ WF_vars(ClearBuffer) /\ WF_vars(RecordInterrupted)

Spec == Init /\ [][Next]_vars
FairSpec == Spec /\ Fairness

-----------------------------------------------------------------------------
(* Properties *)

TypeOK ==
    /\ cur \in 0 .. MaxSpeeches
    /\ phase \in {"over", "forwarding", "waiting", "cancelling", "clearing"}
    /\ interrupted \in BOOLEAN /\ first \in BOOLEAN /\ event \in BOOLEAN
    /\ frames \in 0 .. MaxFrames /\ record \subseteq Speeches /\ last \subseteq Speeches
    /\ af \in Barriers \cup {"next", "starting", "source", "raised", "done"}
    /\ tf \in Barriers \cup {"next", "end", "raised", "done"}
    /\ startedFut \in {"pending", "done", "cancelled"}
    /\ inner.finished <= inner.segments /\ inner.queued <= inner.pushed
    /\ outer.finished <= outer.segments /\ outer.segments <= MaxSpeeches
    /\ impl.texts \subseteq Speeches
    /\ rotations \in Nat /\ doomed \in BOOLEAN /\ mute \in BOOLEAN /\ tCapturing \in BOOLEAN

\* The message recorded for an interrupted speech holds no text of another speech.
OwnTranscript == phase = "over" => record \subseteq {cur} \/ mute \/ doomed

\* No frame is taken and no flush is started while the audio of an earlier speech still
\* plays: capture_frame, "capture_frame called while flush is in progress", and flush,
\* "shouldn't happen if only one active speech handle at a time".
FlushIsExclusive ==
    [][af # af' /\ (af' = "source" \/ (af' = "done" /\ outer.pushed)) => ~inner.flush]_vars

\* When an uninterrupted speech has been played, the transcript of its playback is its
\* text: _SegmentSynchronizerImpl, "make sure the whole transcript is sent".
PlayedInFull ==
    [][phase = "waiting" /\ phase' = "over" /\ frames > 0
        => last = {cur} \/ mute \/ doomed]_vars

\* The first frame of a speech was cancelled between the two outputs: the outer one has
\* counted a segment the inner one will not end.
SegmentIsLost == outer.segments > inner.segments /\ af # "starting"

\* The wait for the playout of a speech comes to an end, whether the speech was
\* interrupted or not, unless a segment was lost before the track was subscribed to.
WaitEndsIfCounted ==
    phase \in {"waiting", "cancelling", "clearing"} ~> phase = "over" \/ SegmentIsLost

\* AudioOutput.wait_for_playout: "Wait for the past audio segments to finish playing out."
WaitEnds == phase \in {"waiting", "cancelling", "clearing"} ~> phase = "over"
=============================================================================
