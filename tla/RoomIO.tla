-------------------------------- MODULE RoomIO --------------------------------
(***************************************************************************)
(* RoomIO links the agent session to one participant of the room           *)
(* (room_io.py).  _init_task waits for the participant, through a future   *)
(* that other calls replace, sets it, and then starts the audio output.    *)
(* What the audio input does with the participant is in AudioInput.        *)
(*                                                                         *)
(* The room is external: participants come and go.                         *)
(***************************************************************************)
EXTENDS Naturals, Sequences, FiniteSets

CONSTANTS
    Users,      \* participants of an accepted kind
    Others,     \* participants of another kind
    None,       \* no participant
    MaxChoices  \* bound: calls of set_participant and unset_participant

Participants == Users \cup Others

VARIABLES
    room,      \* who is in it; it is empty until it is connected
    joined,    \* _room_connected_fut
    identity,  \* _participant_identity
    available, \* _participant_available_fut: its result
    init,      \* where _init_task stands
    got,       \* the result of the future it waits for
    orphan,    \* that future was replaced
    listens,   \* the participant of the inputs
    open,      \* aclose() was not called
    choices,
    chosen,    \* who the application chose last, once one was linked
    loose      \* it chose while none was set, or one that was found left at once

roomVars   == <<room, joined>>
futureVars == <<available, got, orphan>>
choiceVars == <<choices, chosen, loose>>
vars == <<roomVars, identity, futureVars, init, listens, open, choiceVars>>

Init ==
    /\ room = {} /\ joined = FALSE
    /\ identity \in {None} \cup Users
    /\ available = None /\ init = "room" /\ got = None /\ orphan = FALSE
    /\ listens = None /\ open = TRUE
    /\ choices = 0 /\ chosen = None /\ loose = FALSE

-----------------------------------------------------------------------------
(* The room *)

\* The room is connected, with those who are there.
RoomConnected(there) ==
    /\ ~joined
    /\ joined' = TRUE /\ room' = there
    /\ UNCHANGED <<identity, futureVars, init, listens, open, choiceVars>>

\* The future has a result: the one that _init_task waits for, unless it was replaced.
Resolve(p) ==
    /\ available' = p
    /\ got' = IF init = "participant" /\ got = None /\ ~orphan THEN p ELSE got

Accepts(p) == available = None /\ identity \in {None, p} /\ p \in Users

\* _on_participant_connected
ParticipantConnected(p) ==
    /\ p \notin room /\ joined
    /\ room' = room \cup {p}
    /\ IF open /\ Accepts(p) THEN Resolve(p) ELSE UNCHANGED <<available, got>>
    /\ UNCHANGED <<joined, identity, orphan, init, listens, open, choiceVars>>

\* _on_participant_disconnected: the future is new.
Unlink(p) == IF available = p THEN None ELSE available

\* The session may be closed for it, see Close.
ParticipantDisconnected(p) ==
    /\ p \in room
    /\ room' = room \ {p}
    /\ available' = Unlink(p)
    /\ loose' = (loose \/ (init = "participant" /\ got = p))
    /\ UNCHANGED <<joined, identity, got, orphan, init, listens, open, choices, chosen>>

-----------------------------------------------------------------------------
(* set_participant and unset_participant *)

\* A task that waits for the future that is replaced waits for ever.
Forget == orphan' = (orphan \/ (init = "participant" /\ got = None))

\* "reset future if switching to a different participant": to the new one, if it is there.
Switch(p) ==
    IF identity # None /\ identity # p
    THEN /\ available' = (IF p \in room THEN p ELSE None)
         /\ Forget
    ELSE UNCHANGED <<available, orphan>>

SetParticipant(p) == identity' = p /\ Switch(p) /\ listens' = p

\* By the application.
Choose(p) ==
    /\ open /\ choices < MaxChoices
    /\ choices' = choices + 1
    /\ loose' = (loose \/ identity = None)
    /\ chosen' = IF init \in {"output", "done"} THEN p ELSE chosen
    /\ SetParticipant(p)
    /\ UNCHANGED <<roomVars, got, init, open>>

Unset ==
    /\ open /\ choices < MaxChoices
    /\ choices' = choices + 1 /\ chosen' = None /\ loose' = TRUE
    /\ identity' = None /\ available' = None /\ Forget /\ listens' = None
    /\ UNCHANGED <<roomVars, got, init, open>>

-----------------------------------------------------------------------------
(* _init_task *)

\* "check existing participants"
InitLooks ==
    /\ init = "room" /\ joined /\ open
    /\ init' = "participant"
    /\ IF \E p \in room : Accepts(p)
       THEN \E p \in room : Accepts(p) /\ available' = p /\ got' = p
       ELSE available' = available /\ got' = available
    /\ UNCHANGED <<roomVars, identity, orphan, listens, open, choiceVars>>

InitLinks ==
    /\ init = "participant" /\ got # None
    /\ init' = "output" /\ SetParticipant(got)
    /\ UNCHANGED <<roomVars, got, open, choiceVars>>

\* The audio output has published its track, and somebody subscribed to it.
OutputStarted ==
    /\ init = "output"
    /\ init' = "done"
    /\ UNCHANGED <<roomVars, identity, futureVars, listens, open, choiceVars>>

\* aclose(): the session closes, for a participant that left or for another reason.
Close ==
    /\ open
    /\ open' = FALSE /\ init' = IF init = "done" THEN "done" ELSE "cancelled"
    /\ UNCHANGED <<roomVars, identity, futureVars, listens, choiceVars>>

-----------------------------------------------------------------------------
Next ==
    \/ \E there \in SUBSET Participants : RoomConnected(there)
    \/ \E p \in Participants : ParticipantConnected(p) \/ ParticipantDisconnected(p) \/ Choose(p)
    \/ Unset \/ InitLooks \/ InitLinks \/ OutputStarted \/ Close

\* The task of the event loop runs, and somebody subscribes to the agent's track.
Fairness == WF_vars(InitLooks) /\ WF_vars(InitLinks) /\ WF_vars(OutputStarted)

Spec == Init /\ [][Next]_vars /\ Fairness

-----------------------------------------------------------------------------
(* Properties *)

TypeOK ==
    /\ room \subseteq Participants /\ joined \in BOOLEAN /\ orphan \in BOOLEAN
    /\ {identity, available, got, listens, chosen} \subseteq Participants \cup {None}
    /\ init \in {"room", "participant", "output", "done", "cancelled"}
    /\ choices \in 0 .. MaxChoices

\* The participant that is linked, for whose leaving the session is closed, is in the room
\* and is the one that was set; unless the application chose one when none was set, or
\* chose none, or the first one left before it was set.
LinkedIsSet ==
    /\ available # None => available \in room
    /\ ~loose /\ identity # None /\ available # None => available = identity

\* The choice of the application stands, once a participant was linked, for the text of the
\* user and for the inputs.
ChoiceStands == chosen # None => identity = chosen /\ listens = chosen

\* The audio output is started when a participant that is linked stays; unless the
\* participant was changed while _init_task waited for one: it waits for a future that
\* nobody resolves.
OutputStarts == <>[](available # None /\ open /\ ~orphan) => <>(init = "done")
=============================================================================
