----------------------------- MODULE SpeechFloor -----------------------------
(***************************************************************************)
(* What the speech queue of an AgentActivity promises to whoever schedules *)
(* a speech: the audio output is granted in the order of the requests, to  *)
(* one speech at a time, and a grant ends when its speech is resolved.     *)
(* A speech may be resolved without having been granted (interrupted while *)
(* it waits) or without having spoken (interrupted once granted).          *)
(* SpeechScheduling implements this module.                                *)
(***************************************************************************)
EXTENDS Naturals

CONSTANT MaxSpeech    \* bound: speeches that may ask for the floor

Speech == 1 .. MaxSpeech

VARIABLES
    waiting,   \* the speeches that asked and were not granted the floor yet
    granted,   \* the speech that was granted the floor, if any
    speaking,  \* the speech that uses it, if any
    resolved   \* the speeches that are over

vars == <<waiting, granted, speaking, resolved>>

Init == waiting = {} /\ granted = {} /\ speaking = {} /\ resolved = {}

\* A new speech asks for the floor, behind all the others.
Ask(h) ==
    /\ \A g \in waiting \cup granted \cup resolved : g < h
    /\ waiting' = waiting \cup {h}
    /\ UNCHANGED <<granted, speaking, resolved>>

\* The floor is free, and goes to the speech that asked first.
Grant(h) ==
    /\ granted = {}
    /\ h \in waiting
    /\ \A g \in waiting : h <= g
    /\ granted' = {h}
    /\ waiting' = waiting \ {h}
    /\ UNCHANGED <<speaking, resolved>>

Speak(h) ==
    /\ h \in granted
    /\ speaking = {}
    /\ speaking' = {h}
    /\ UNCHANGED <<waiting, granted, resolved>>

\* The speech leaves the output, and keeps the floor until it is resolved.
FallSilent(h) ==
    /\ speaking = {h}
    /\ speaking' = {}
    /\ UNCHANGED <<waiting, granted, resolved>>

Resolve(h) ==
    /\ h \notin resolved
    /\ resolved' = resolved \cup {h}
    /\ waiting' = waiting \ {h}
    /\ granted' = granted \ {h}
    /\ speaking' = speaking \ {h}

Next == \E h \in Speech :
            Ask(h) \/ Grant(h) \/ Speak(h) \/ FallSilent(h) \/ Resolve(h)

Spec == Init /\ [][Next]_vars
=============================================================================
