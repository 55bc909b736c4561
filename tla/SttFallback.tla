---------------------------- MODULE SttFallback ----------------------------
(***************************************************************************)
(* The streams of the STT fallback adapter (stt/fallback_adapter.py): _run, *)
(* which tries the providers in turn, _forward_input_task, which copies the *)
(* audio to the provider in use and to those that recover, and the tasks   *)
(* that recover.  One stream follows the other; a provider's availability  *)
(* and its recovery belong to the adapter and outlive the stream.          *)
(*                                                                         *)
(* The streams of the providers are external.  They may fail, they answer  *)
(* audio, and end once told that there is no more.                         *)
(***************************************************************************)
EXTENDS Naturals

CONSTANTS
    NumProviders,  \* the length of _stt_instances
    MaxStreams,    \* bound: streams of the adapter
    MaxFrames      \* bound: frames pushed to each

VARIABLES
    status,      \* available of each provider
    recovery,    \* how the recovering stream of each provider stands
    owner,       \* the stream whose _recovering_streams holds it
    stream,      \* the number of the stream
    phase,       \* how its _main_task stands
    allFailed,   \* all_failed
    main,        \* the provider of main_stream, 0 before there is one
    mainState,   \* how main_stream stands
    forward,     \* forward_input_task
    unread,      \* frames in _input_ch
    pushed,      \* frames pushed
    inputEnded   \* _input_ch is closed

adapterVars == <<status, recovery, owner>>
inputVars   == <<unread, pushed, inputEnded>>
vars == <<adapterVars, stream, phase, allFailed, main, mainState, forward, inputVars>>

Providers == 1 .. NumProviders
Over      == phase \in {"ended", "error"}

\* How a recovering stream stands: it waits for audio, was fed some, failed or was heard and
\* is being left, or is being closed with the stream that owns it.
Recoveries == {"none", "running", "fed", "failed", "heard", "closing"}

AllFailed(available) == \A p \in Providers : ~available[p]
Candidates(i, available, all) == {p \in Providers : p >= i /\ (available[p] \/ all)}
First(S) == CHOOSE p \in S : \A q \in S : p <= q

\* _try_recovery of the providers S for the stream n; none has two recoveries.
TryRecovery(S, n) ==
    LET new == {p \in S : recovery[p] = "none"}
    IN /\ recovery' = [p \in Providers |-> IF p \in new THEN "running" ELSE recovery[p]]
       /\ owner' = [p \in Providers |-> IF p \in new THEN n ELSE owner[p]]

\* A stream starts with the first provider that is available, or with all if none is.
Init ==
    /\ status = [p \in Providers |-> TRUE]
    /\ recovery = [p \in Providers |-> "none"] /\ owner = [p \in Providers |-> 1]
    /\ stream = 1 /\ phase = "running" /\ allFailed = FALSE
    /\ main = 1 /\ mainState = "listening" /\ forward = "running"
    /\ unread = 0 /\ pushed = 0 /\ inputEnded = FALSE

-----------------------------------------------------------------------------
(* The application *)

PushFrame ==
    /\ ~Over /\ ~inputEnded /\ pushed < MaxFrames
    /\ pushed' = pushed + 1 /\ unread' = unread + 1
    /\ UNCHANGED <<adapterVars, stream, phase, allFailed, main, mainState, forward, inputEnded>>

EndInput ==
    /\ ~Over /\ ~inputEnded
    /\ inputEnded' = TRUE
    /\ UNCHANGED <<adapterVars, stream, phase, allFailed, main, mainState, forward, unread,
                   pushed>>

\* aclose(): _run is cancelled, and closes main_stream.
Close ==
    /\ ~Over
    /\ phase' = "ended" /\ inputEnded' = TRUE /\ mainState' = "closed"
    /\ UNCHANGED <<adapterVars, stream, allFailed, main, forward, unread, pushed>>

\* stream() once more: _run up to its first await.
NewStream ==
    /\ Over /\ forward # "running" /\ stream < MaxStreams
    /\ stream' = stream + 1 /\ phase' = "running"
    /\ allFailed' = AllFailed(status)
    /\ main' = First(Candidates(1, status, allFailed'))
    /\ TryRecovery(1 .. main' - 1, stream + 1)
    /\ mainState' = "listening" /\ forward' = "running"
    /\ unread' = 0 /\ pushed' = 0 /\ inputEnded' = FALSE
    /\ UNCHANGED status

-----------------------------------------------------------------------------
(* _forward_input_task *)

\* The recovering streams of this stream that take a frame.  One that failed, was heard or
\* is being closed refuses it while it is still in _recovering_streams: the RuntimeError
\* keeps the frame from the streams after it, and from main_stream.
Takers == {p \in Providers : owner[p] = stream /\ recovery[p] \in {"running", "fed"}}
Refused == \E p \in Providers : owner[p] = stream /\ recovery[p] \in {"failed", "heard", "closing"}

Forward ==
    /\ forward = "running" /\ unread > 0
    /\ unread' = unread - 1
    /\ \E S \in IF Refused THEN SUBSET Takers ELSE {Takers} :
        recovery' = [p \in Providers |-> IF p \in S THEN "fed" ELSE recovery[p]]
    /\ UNCHANGED <<status, owner, stream, phase, allFailed, main, mainState, forward, pushed,
                   inputEnded>>

\* main_stream.end_input(), which raises when main_stream is closed: the task ends either
\* way.
ForwardEnds ==
    /\ forward = "running" /\ inputEnded /\ unread = 0
    /\ forward' = "done"
    /\ mainState' = IF mainState = "listening" THEN "told" ELSE mainState
    /\ UNCHANGED <<adapterVars, stream, phase, allFailed, main, inputVars>>

-----------------------------------------------------------------------------
(* _run *)

\* The stream of the provider fails.
MainFails ==
    /\ phase = "running" /\ mainState \in {"listening", "told"}
    /\ mainState' = "failed"
    /\ UNCHANGED <<adapterVars, stream, phase, allFailed, main, forward, inputVars>>

\* The next provider's stream is fed by the task, which is started again if it ended.
ForwardTo == "running"

\* It was read to its error and closed: the provider is not available, and the next one is
\* tried while those that are passed over recover; without a next one, the recoveries of
\* this stream are closed, and it raises.
FallBack ==
    /\ phase = "running" /\ mainState = "failed"
    /\ LET next == Candidates(main + 1, status, allFailed)
           passed == {p \in Providers : p >= main /\ (next # {} => p < First(next))}
       IN /\ status' = [status EXCEPT ![main] = FALSE]
          /\ IF next # {}
             THEN /\ TryRecovery(passed, stream)
                  /\ main' = First(next) /\ mainState' = "listening"
                  /\ forward' = ForwardTo
                  /\ UNCHANGED phase
             ELSE /\ recovery' = [p \in Providers |->
                        IF \/ recovery[p] = "none" /\ p \in passed
                           \/ p \in Takers
                        THEN "closing" ELSE recovery[p]]
                  /\ owner' = [p \in Providers |->
                        IF recovery[p] = "none" /\ p \in passed THEN stream ELSE owner[p]]
                  /\ forward' = "done" /\ phase' = "error" /\ mainState' = "closed"
                  /\ UNCHANGED main
    /\ UNCHANGED <<stream, allFailed, inputVars>>

\* The stream of the provider ends: it was told to, and so does the adapter's stream.
MainEnds ==
    /\ phase = "running" /\ mainState = "told"
    /\ phase' = "ended" /\ mainState' = "closed"
    /\ UNCHANGED <<adapterVars, stream, allFailed, main, forward, inputVars>>

-----------------------------------------------------------------------------
(* _recover_stt_task *)

\* A transcript of what the recovering stream was fed: the stream is left, and closed.
RecoveryHears(p) ==
    /\ recovery[p] = "fed"
    /\ recovery' = [recovery EXCEPT ![p] = "heard"]
    /\ UNCHANGED <<status, owner, stream, phase, allFailed, main, mainState, forward, inputVars>>

RecoveryFails(p) ==
    /\ recovery[p] \in {"running", "fed"}
    /\ recovery' = [recovery EXCEPT ![p] = "failed"]
    /\ UNCHANGED <<status, owner, stream, phase, allFailed, main, mainState, forward, inputVars>>

\* The task ends, and its stream leaves the list.
RecoveryEnds(p) ==
    /\ recovery[p] \in {"heard", "failed", "closing"}
    /\ status' = [status EXCEPT ![p] = @ \/ recovery[p] = "heard"]
    /\ recovery' = [recovery EXCEPT ![p] = "none"]
    /\ UNCHANGED <<owner, stream, phase, allFailed, main, mainState, forward, inputVars>>

-----------------------------------------------------------------------------
Next ==
    \/ PushFrame \/ EndInput \/ Close \/ NewStream \/ Forward \/ ForwardEnds
    \/ MainFails \/ FallBack \/ MainEnds
    \/ \E p \in Providers : RecoveryHears(p) \/ RecoveryFails(p) \/ RecoveryEnds(p)

\* The tasks of the loop run, and a provider that is told of the end ends or fails.
Fairness ==
    /\ WF_vars(Forward \/ ForwardEnds) /\ WF_vars(FallBack) /\ WF_vars(MainEnds)
    /\ \A p \in Providers : WF_vars(RecoveryEnds(p))

Spec == Init /\ [][Next]_vars /\ Fairness

-----------------------------------------------------------------------------
(* Properties *)

TypeOK ==
    /\ status \in [Providers -> BOOLEAN] /\ recovery \in [Providers -> Recoveries]
    /\ owner \in [Providers -> 1 .. stream] /\ stream \in 1 .. MaxStreams
    /\ phase \in {"running", "ended", "error"} /\ main \in Providers
    /\ mainState \in {"listening", "told", "failed", "closed"}
    /\ forward \in {"running", "done"}
    /\ unread \in 0 .. pushed /\ pushed \in 0 .. MaxFrames

\* The audio of a stream goes somewhere while the stream runs: the task that forwards it
\* runs until the provider in use was told that there is no more, also when a provider
\* fails after the end of the input.
SomeoneForwards ==
    phase = "running" /\ mainState = "listening" => forward = "running"

\* A stream whose input ended is over in the end: by the answers of a provider, which was
\* told of the end whichever provider was in use when it came, or by the last failure.
EndsWithInput == inputEnded ~> Over
=============================================================================
