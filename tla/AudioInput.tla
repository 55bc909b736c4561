------------------------------ MODULE AudioInput ------------------------------
(***************************************************************************)
(* The input of a participant's microphone (_input.py).  The tracks of the *)
(* participant that is set are read one after the other by forwarding      *)
(* tasks: each cancels the one before, waits for it, and begins with what  *)
(* the participant said before it was connected (_pre_connect_audio.py).   *)
(*                                                                         *)
(* The room is external: participants publish tracks and unpublish them;   *)
(* one that leaves the room has no tracks.                                 *)
(***************************************************************************)
EXTENDS Naturals, Sequences, FiniteSets, SequencesExt

CONSTANTS
    Users,
    None,       \* no participant
    MaxTracks,  \* bound: tracks that are published
    MaxChoices  \* bound: calls of set_participant

Track   == 1 .. MaxTracks
NoTrack == 0

VARIABLES
    tracks,      \* the tracks the agent is subscribed to, of each participant
    published,   \* tracks there were
    listens,     \* _participant_identity
    publication, \* _publication
    readers,     \* the forwarding tasks, the last is _forward_atask
    data,        \* the tasks whose frames are in _data_ch, in order
    buffer,      \* the pre-connect audio of each track
    phase,
    choices,
    late         \* a track came while the input was being closed

trackVars == <<tracks, published>>
inputVars == <<listens, publication, readers>>
vars == <<trackVars, inputVars, data, buffer, phase, choices, late>>

Init ==
    /\ tracks = [p \in Users |-> {}] /\ published = 0
    /\ listens = None /\ publication = NoTrack /\ readers = <<>>
    /\ data = <<>> /\ buffer = [t \in Track |-> "none"]
    /\ phase = "open" /\ choices = 0 /\ late = FALSE

Ended(i) == readers[i].at \in {"cancelled", "ended"}

-----------------------------------------------------------------------------
(* Which track is read *)

\* _close_stream: the stream of the last task is closed, which ends it in the end.
Closed(rs) == [i \in 1 .. Len(rs) |-> [rs[i] EXCEPT !.open = FALSE]]

\* A task that reads a track, after the one before.
Read(rs, t) == Append(Closed(rs), [track |-> t, open |-> TRUE, at |-> "new"])

\* Tasks that read several, each after the one before: the stream of the last stays open.
ReadAll(rs, order) == Closed(rs) \o
    [i \in 1 .. Len(order) |-> [track |-> order[i], open |-> i = Len(order), at |-> "new"]]

\* What it published is read, the last track in the end.
ListenTo(p) ==
    IF p # None /\ tracks[p] # {}
    THEN \E order \in SetToSeqs(tracks[p]) :
             publication' = Last(order) /\ readers' = ReadAll(readers, order)
    ELSE publication' = NoTrack /\ readers' = Closed(readers)

\* set_participant
SetParticipant(p) ==
    /\ phase = "open" /\ choices < MaxChoices /\ p # listens
    /\ choices' = choices + 1
    /\ listens' = p /\ ListenTo(p)
    /\ UNCHANGED <<trackVars, data, buffer, phase, late>>

\* _on_track_available is of the participant that is set.
OfParticipant(p) == p = listens

TrackSubscribed(p) ==
    /\ published < MaxTracks /\ phase # "closed"
    /\ LET t == published + 1 IN
       /\ published' = t
       /\ tracks' = [tracks EXCEPT ![p] = @ \cup {t}]
       /\ \E b \in {"none", "sent"} : buffer' = [buffer EXCEPT ![t] = b]
       /\ IF OfParticipant(p) THEN publication' = t /\ readers' = Read(readers, t)
          ELSE UNCHANGED <<publication, readers>>
    /\ late' = (late \/ phase # "open")
    /\ UNCHANGED <<listens, data, phase, choices>>

\* _on_track_unavailable: "subscribe to the first available track".
TrackUnpublished(p, t) ==
    /\ t \in tracks[p]
    /\ tracks' = [tracks EXCEPT ![p] = @ \ {t}]
    /\ LET left == tracks[p] \ {t} IN
       IF publication # t THEN UNCHANGED <<publication, readers>>
       ELSE IF left = {} THEN publication' = NoTrack /\ readers' = Closed(readers)
       ELSE \E u \in left : publication' = u /\ readers' = Read(readers, u)
    /\ UNCHANGED <<published, listens, data, buffer, phase, choices, late>>

\* The participant leaves, and there is no event for its tracks: their streams end.
TracksLost(p) ==
    /\ tracks[p] # {}
    /\ tracks' = [tracks EXCEPT ![p] = {}]
    /\ readers' = IF publication \in tracks[p] THEN Closed(readers) ELSE readers
    /\ UNCHANGED <<published, listens, publication, data, buffer, phase, choices, late>>

-----------------------------------------------------------------------------
(* _forward_task *)

\* Mutant: the task before goes on until its stream ends.
LeaveOld(i) == [readers EXCEPT ![i].at = "waiting"]

\* The task before is cancelled, and it is waited for.
CancelOld(i) == [j \in 1 .. Len(readers) |->
    CASE j = i -> [readers[j] EXCEPT !.at = "waiting"]
      [] j = i - 1 /\ ~Ended(j) -> [readers[j] EXCEPT !.at = "cancelled"]
      [] OTHER -> readers[j]]

\* Tasks begin in the order of their creation.
BeginForward(i) ==
    /\ readers[i].at = "new" /\ \A j \in 1 .. i - 1 : readers[j].at # "new"
    /\ readers' = CancelOld(i)
    /\ UNCHANGED <<trackVars, listens, publication, data, buffer, phase, choices, late>>

Set(i, at) == readers' = [readers EXCEPT ![i].at = at]

\* The pre-connect audio comes first, if the track is to have some.
GoesOn(i) ==
    /\ readers[i].at = "waiting"
    /\ Set(i, IF buffer[readers[i].track] = "none" THEN "reading" ELSE "buffer")
    /\ UNCHANGED <<trackVars, listens, publication, data, buffer, phase, choices, late>>

\* "self._buffers.pop(track_id)"
Pop(t) == [buffer EXCEPT ![t] = "taken"]

\* wait_for_data returns the buffer; or it times out, fails or is too old.
TakeBuffer(i) ==
    /\ readers[i].at = "buffer"
    /\ LET t == readers[i].track IN
       /\ buffer' = Pop(t)
       /\ data' \in IF buffer[t] = "sent" /\ phase # "closed"
                    THEN {data, Append(data, [by |-> i, what |-> "before"])} ELSE {data}
    /\ Set(i, "reading")
    /\ UNCHANGED <<trackVars, listens, publication, phase, choices, late>>

\* The frames of a stream; they are noted when they follow others.
Forward(i) ==
    /\ readers[i].at = "reading" /\ readers[i].open /\ phase # "closed"
    /\ LET now == [by |-> i, what |-> "now"] IN
       /\ IF data = <<>> THEN TRUE ELSE Last(data) # now
       /\ data' = Append(data, now)
    /\ UNCHANGED <<trackVars, inputVars, buffer, phase, choices, late>>

\* The stream was closed: the task ends with a frame of silence.
ForwardEnds(i) ==
    /\ readers[i].at = "reading" /\ ~readers[i].open
    /\ Set(i, "ended")
    /\ UNCHANGED <<trackVars, listens, publication, data, buffer, phase, choices, late>>

-----------------------------------------------------------------------------
(* aclose *)

\* The stream is being closed.
BeginClose ==
    /\ phase = "open"
    /\ phase' = "stream" /\ readers' = Closed(readers)
    /\ UNCHANGED <<trackVars, listens, publication, data, buffer, choices, late>>

\* The last forwarding task is cancelled.
CancelLast == [i \in 1 .. Len(readers) |->
    IF i = Len(readers) /\ ~Ended(i) THEN [readers[i] EXCEPT !.at = "cancelled"] ELSE readers[i]]

CloseForward ==
    /\ phase = "stream"
    /\ phase' = "forward" /\ publication' = NoTrack /\ readers' = CancelLast
    /\ UNCHANGED <<trackVars, listens, data, buffer, choices, late>>

\* The channel is closed.
CloseEnds ==
    /\ phase = "forward"
    /\ phase' = "closed"
    /\ UNCHANGED <<trackVars, inputVars, data, buffer, choices, late>>

-----------------------------------------------------------------------------
Next ==
    \/ \E p \in Users :
        \/ TrackSubscribed(p) \/ TracksLost(p)
        \/ \E t \in Track : TrackUnpublished(p, t)
    \/ \E p \in Users \cup {None} : SetParticipant(p)
    \/ \E i \in 1 .. Len(readers) :
        BeginForward(i) \/ GoesOn(i) \/ TakeBuffer(i) \/ Forward(i) \/ ForwardEnds(i)
    \/ BeginClose \/ CloseForward \/ CloseEnds

Spec == Init /\ [][Next]_vars

-----------------------------------------------------------------------------
(* Properties *)

TypeOK ==
    /\ published \in 0 .. MaxTracks /\ listens \in Users \cup {None}
    /\ publication \in Track \cup {NoTrack}
    /\ \A i \in 1 .. Len(readers) :
        /\ readers[i].track \in Track /\ readers[i].open \in BOOLEAN
        /\ readers[i].at \in {"new", "waiting", "buffer", "reading", "cancelled", "ended"}
    /\ phase \in {"open", "stream", "forward", "closed"}

\* The input reads a track of the participant it is set to whenever there is one, and no
\* other, over every coming and going of participants and tracks.
ListensToParticipant ==
    /\ phase = "open" /\ listens # None /\ tracks[listens] # {} =>
        /\ publication \in tracks[listens]
        /\ readers[Len(readers)].track = publication /\ readers[Len(readers)].open
    /\ \A i \in 1 .. Len(readers) : readers[i].open /\ phase = "open" =>
        i = Len(readers) /\ listens # None /\ readers[i].track \in tracks[listens]

\* The frames of a track never follow those of a track that was read after it, and what was
\* said before the connection comes before the rest of its track, and once; unless a track
\* came while the input was being closed.
FramesInOrder ==
    ~late => \A i, j \in 1 .. Len(data) : i < j =>
        /\ data[i].by <= data[j].by
        /\ data[i].by = data[j].by => data[j].what = "now"
        /\ data[i].what = "before" /\ data[j].what = "before" =>
               readers[data[i].by].track # readers[data[j].by].track

\* aclose() leaves no task; unless a track came while the input was being closed.
ClosedLeavesNothing ==
    phase = "closed" /\ ~late => \A i \in 1 .. Len(readers) : Ended(i) \/ ~readers[i].open
=============================================================================
