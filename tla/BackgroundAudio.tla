---------------------------- MODULE BackgroundAudio ----------------------------
(***************************************************************************)
(* BackgroundAudioPlayer (voice/background_audio.py): sounds that are      *)
(* mixed into a track of their own, one of them while the agent thinks.    *)
(* It is started and closed under a lock, which the task that publishes    *)
(* the track again after a reconnection takes, too.                        *)
(*                                                                         *)
(* The session, the room and the mixer are external: the agent's state     *)
(* changes, the room reconnects, and a sound comes to its end.             *)
(***************************************************************************)
EXTENDS Naturals, Sequences, FiniteSets

CONSTANTS
    MaxSounds,      \* bound: sounds that are played
    MaxReconnects   \* bound: reconnections

VARIABLES
    lock,        \* who holds _lock: "none", "start", "close" or "republish"
    opening,     \* where start() stands
    closing,     \* where aclose() stands
    thinks,      \* the agent is thinking
    sounds,      \* the play tasks, with their handles
    thinking,    \* _thinking_handle: its sound, or 0
    publication, \* whether _publication is set
    tracks,      \* tracks that were published and are of this connection
    republish,   \* where _republish_task stands
    reconnects,
    onState,     \* _agent_state_changed is registered
    onReconnect, \* _on_reconnected is registered
    raced        \* a sound or a reconnection came while it was being closed, or published

handlers == <<onState, onReconnect>>
trackVars == <<publication, tracks, republish, reconnects>>
soundVars == <<sounds, thinking>>
vars == <<lock, opening, closing, thinks, soundVars, trackVars, handlers, raced>>

Init ==
    /\ lock = "none" /\ opening = "no" /\ closing = "no" /\ thinks = FALSE
    /\ sounds = <<>> /\ thinking = 0
    /\ publication = FALSE /\ tracks = 0 /\ republish = "none" /\ reconnects = 0
    /\ onState = FALSE /\ onReconnect = FALSE /\ raced = FALSE

Live(i) == sounds[i].at \in {"plays", "ends"}

-----------------------------------------------------------------------------
(* play *)

\* A task and a handle; none is selected where the probabilities say so.
Play(kind) == Append(sounds, [kind |-> kind, at |-> "plays", stop |-> FALSE, done |-> FALSE])

\* The sound has been played: its handle is done.
SoundEnds(i) ==
    /\ sounds[i].at = "plays" /\ ~sounds[i].done /\ sounds[i].kind # "ambient"
    /\ sounds' = [sounds EXCEPT ![i].done = TRUE]
    /\ UNCHANGED <<lock, opening, closing, thinks, thinking, trackVars, handlers, raced>>

\* _play_task goes on after wait_for_playout(), and takes a sound that was stopped off the
\* mixer.
PlayTaskEnds(i) ==
    /\ sounds[i].at = "plays" /\ sounds[i].done
    /\ sounds' = [sounds EXCEPT ![i].at = "over"]
    /\ UNCHANGED <<lock, opening, closing, thinks, thinking, trackVars, handlers, raced>>

\* "if self._thinking_handle and not self._thinking_handle.done(): return"
MayThink == thinking = 0 \/ sounds[thinking].done

\* Mutant: the handle is forgotten, and the sound goes on.
Forgets == sounds

\* stop(): the handle is done.
Stopped == IF thinking # 0 /\ ~sounds[thinking].done
           THEN [sounds EXCEPT ![thinking].stop = TRUE, ![thinking].done = TRUE] ELSE sounds

\* _agent_state_changed
StateChanges ==
    /\ thinks' = ~thinks
    /\ IF ~onState THEN UNCHANGED <<soundVars, raced>>
       ELSE IF thinks THEN sounds' = Stopped /\ UNCHANGED <<thinking, raced>>
       ELSE IF MayThink THEN
            /\ Len(sounds) < MaxSounds
            /\ sounds' = Play("thinking") /\ thinking' = Len(sounds) + 1
            /\ raced' = (raced \/ closing # "no")
       ELSE UNCHANGED <<soundVars, raced>>
    /\ UNCHANGED <<lock, opening, closing, trackVars, handlers>>

\* play() of the application.
PlayByHand ==
    /\ opening = "done" /\ closing = "no" /\ Len(sounds) < MaxSounds
    /\ sounds' = Play("once")
    /\ UNCHANGED <<lock, opening, closing, thinks, thinking, trackVars, handlers, raced>>

-----------------------------------------------------------------------------
(* start *)

Start ==
    /\ opening = "no" /\ lock = "none"
    /\ opening' = "publishing" /\ lock' = "start"
    /\ UNCHANGED <<closing, thinks, soundVars, trackVars, handlers, raced>>

\* The track is published; the mixer runs, the handlers are registered, and the ambient
\* sound begins.
Started ==
    /\ opening = "publishing"
    /\ opening' = "done" /\ lock' = "none"
    /\ publication' = TRUE /\ tracks' = tracks + 1
    /\ onState' = TRUE /\ onReconnect' = TRUE
    /\ sounds' \in {Play("ambient"), sounds}
    /\ UNCHANGED <<closing, thinks, thinking, republish, reconnects, raced>>

-----------------------------------------------------------------------------
(* Reconnection *)

\* The tracks of the connection are gone.  _on_reconnected cancels the task of before, which
\* may have sent its request.
Reconnected ==
    /\ reconnects < MaxReconnects /\ opening # "no"
    /\ reconnects' = reconnects + 1 /\ tracks' = 0
    /\ IF onReconnect
       THEN /\ publication' = FALSE /\ republish' = "new"
            /\ lock' = IF lock = "republish" THEN "none" ELSE lock
       ELSE UNCHANGED <<publication, republish, lock>>
    /\ raced' = (raced \/ closing # "no" \/ opening = "publishing" \/ republish = "publishing")
    /\ UNCHANGED <<opening, closing, thinks, soundVars, handlers>>

Republish ==
    /\ republish = "new" /\ lock = "none"
    /\ IF publication THEN republish' = "over" /\ UNCHANGED lock
                      ELSE republish' = "publishing" /\ lock' = "republish"
    /\ UNCHANGED <<opening, closing, thinks, soundVars, publication, tracks, reconnects,
                   handlers, raced>>

Republished ==
    /\ republish = "publishing"
    /\ republish' = "over" /\ lock' = "none"
    /\ publication' = TRUE /\ tracks' = tracks + 1
    /\ UNCHANGED <<opening, closing, thinks, soundVars, reconnects, handlers, raced>>

-----------------------------------------------------------------------------
(* aclose *)

\* All play tasks of now are cancelled.
CancelAll == [i \in 1 .. Len(sounds) |->
    IF Live(i) THEN [sounds[i] EXCEPT !.at = "over", !.done = TRUE] ELSE sounds[i]]

Close ==
    /\ opening = "done" /\ closing = "no" /\ lock = "none"
    /\ closing' = "sounds" /\ lock' = "close" /\ sounds' = CancelAll
    /\ UNCHANGED <<opening, thinks, thinking, trackVars, handlers, raced>>

\* The task that waits for the lock is cancelled, and then the mixer.
CancelRepublish ==
    /\ closing = "sounds"
    /\ closing' = "mixer" /\ republish' = IF republish = "new" THEN "over" ELSE republish
    /\ UNCHANGED <<lock, opening, thinks, soundVars, publication, tracks, reconnects, handlers,
                   raced>>

\* The source and the mixer are closed; the handlers are taken off.
CloseMixer ==
    /\ closing = "mixer"
    /\ closing' = "track" /\ onState' = FALSE /\ onReconnect' = FALSE
    /\ UNCHANGED <<lock, opening, thinks, soundVars, trackVars, raced>>

\* The track is unpublished, if _publication names one; the lock is free.
CloseEnds ==
    /\ closing = "track"
    /\ closing' = "closed" /\ lock' = "none"
    /\ tracks' = IF publication /\ tracks > 0 THEN tracks - 1 ELSE tracks
    /\ UNCHANGED <<opening, thinks, soundVars, publication, republish, reconnects, handlers,
                   raced>>

-----------------------------------------------------------------------------
Next ==
    \/ \E i \in 1 .. Len(sounds) : SoundEnds(i) \/ PlayTaskEnds(i)
    \/ StateChanges \/ PlayByHand \/ Start \/ Started
    \/ Reconnected \/ Republish \/ Republished
    \/ Close \/ CancelRepublish \/ CloseMixer \/ CloseEnds

\* The tasks run, and the room answers.
Fairness ==
    /\ WF_vars(Started) /\ WF_vars(Republish) /\ WF_vars(Republished)
    /\ WF_vars(CancelRepublish) /\ WF_vars(CloseMixer) /\ WF_vars(CloseEnds)
    /\ \A i \in 1 .. MaxSounds : WF_vars(i \in 1 .. Len(sounds) /\ PlayTaskEnds(i))

Spec == Init /\ [][Next]_vars /\ Fairness

-----------------------------------------------------------------------------
(* Properties *)

TypeOK ==
    /\ lock \in {"none", "start", "close", "republish"}
    /\ opening \in {"no", "publishing", "done"}
    /\ closing \in {"no", "sounds", "mixer", "track", "closed"}
    /\ Len(sounds) <= MaxSounds + 1 /\ thinking \in 0 .. Len(sounds)
    /\ republish \in {"none", "new", "publishing", "over"}
    /\ reconnects \in 0 .. MaxReconnects /\ tracks \in 0 .. 2

\* One thinking sound is on at a time, and only while the agent thinks.
ThinksAloud ==
    LET On(i) == sounds[i].kind = "thinking" /\ sounds[i].at = "plays" /\ ~sounds[i].done IN
    /\ \A i, j \in 1 .. Len(sounds) : On(i) /\ On(j) => i = j
    /\ \A i \in 1 .. Len(sounds) : On(i) /\ onState => thinks

\* There is one track, and none after the close, when no sound is played either; unless a
\* sound or a reconnection came while it was being closed or published.
OneTrack ==
    /\ ~raced => tracks <= 1
    /\ closing = "closed" /\ ~raced => tracks = 0 /\ \A i \in 1 .. Len(sounds) : ~Live(i)

\* The track is there again after a reconnection, unless the player is closed; or the room
\* reconnected while the track was being published.
TrackComesBack == opening = "done" ~> tracks > 0 \/ closing # "no" \/ raced
=============================================================================
