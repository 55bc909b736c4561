------------------------------ MODULE SttStream ------------------------------
(***************************************************************************)
(* A recognition stream: the retries of RecognizeStream._main_task         *)
(* (stt/stt.py) around _run as the plugins write it, a loop that connects, *)
(* sends the audio, reads the transcripts, and connects again when the     *)
(* options change or the session has lasted too long.                      *)
(*                                                                         *)
(* The plugins differ in what their loop does when something happens to    *)
(* the connection; Profile says what.  The service is external: it answers *)
(* each frame with a final transcript, and may close the connection.       *)
(***************************************************************************)
EXTENDS Naturals

CONSTANTS
    Plugins,     \* the plugins a stream may be of
    MaxRetry,    \* max_retry
    MaxFrames,   \* bound: frames of audio
    MaxFaults,   \* bound: failures to connect and closes by the service
    MaxUpdates,  \* bound: changes of the options
    MaxExpiries  \* bound: sessions that last too long

VARIABLES
    plugin,
    pushed,      \* frames the application pushed
    unread,      \* those still in _input_ch
    inputEnded,  \* end_input() was called
    wake,        \* _reconnect_event
    conn,        \* the connection
    sender,      \* the task that sends the audio has sent all of it
    inService,   \* frames sent and not transcribed
    transcribed,
    lost,        \* frames that will not be transcribed
    stopped,     \* _session_stopped_event of azure is set
    retries,     \* _num_retries
    failures,    \* the failures since the last transcript
    raised,      \* what the last one raised
    phase,       \* how _main_task stands
    faults, updates, expiries

inputVars == <<pushed, unread, inputEnded>>
audioVars == <<inService, transcribed, lost>>
retryVars == <<retries, failures, raised>>
bounds    == <<faults, updates, expiries>>
vars == <<plugin, inputVars, wake, conn, sender, audioVars, stopped, retryVars, phase, bounds>>

Over == phase \in {"ended", "cancelled", "error"}

-----------------------------------------------------------------------------
(* The plugins.  connect: what a failure to connect does.  close: what it may *)
(* do that the service closes while audio is to come: the task that reads     *)
(* raises, unless the one that sends fails first.  reconnect: what a change   *)
(* of the options does.  leave: when _run returns after the last frame.       *)
(* told: the service learns that there is no more audio.  expires: sessions   *)
(* are replaced after some time.  An outcome is "api", an APIError; "other",  *)
(* another exception; "over", _run returns; "again", the loop connects again; *)
(* or "cancelled": `await tasks_group` raises the CancelledError of the tasks *)
(* that were just cancelled.                                                  *)

Deepgram ==
    [connect |-> "other", close |-> {"api", "other"}, reconnect |-> "cancelled",
     leave |-> "closed", told |-> TRUE, expires |-> FALSE]

\* It leaves also when the service says nothing for a while after the last frame.
Assemblyai ==
    [connect |-> "other", close |-> {"api", "other"}, reconnect |-> "again",
     leave |-> "timeout", told |-> TRUE, expires |-> FALSE]

\* Nothing sets its _reconnect_event.
Speechmatics ==
    [connect |-> "other", close |-> {"api", "other"}, reconnect |-> "none",
     leave |-> "closed", told |-> TRUE, expires |-> FALSE]

\* "restart session if needed"; nothing is sent after the last frame.
Openai ==
    [connect |-> "other", close |-> {"api", "other"}, reconnect |-> "cancelled",
     leave |-> "closed", told |-> FALSE, expires |-> TRUE]

\* The service's stream may end, raise, or time out.
Google ==
    [connect |-> "api", close |-> {"over", "api", "again"}, reconnect |-> "again",
     leave |-> "closed", told |-> TRUE, expires |-> TRUE]

\* Errors are logged, and the loop goes on.
Gladia ==
    [connect |-> "again", close |-> {"over", "again"}, reconnect |-> "again", leave |-> "sent",
     told |-> TRUE, expires |-> FALSE]

\* The events of the session are not cleared when the loop, or an attempt, begins anew.
Azure ==
    [connect |-> "other", close |-> {"api"}, reconnect |-> "again", leave |-> "sent",
     told |-> TRUE, expires |-> FALSE]

\* It has no options to change, restarts a session that timed out, and never returns: after
\* the last answers, the loop begins another session.
Aws ==
    [connect |-> "other", close |-> {"other", "again"}, reconnect |-> "none",
     leave |-> "never", told |-> TRUE, expires |-> FALSE]

Profile ==
    CASE plugin = "deepgram" -> Deepgram [] plugin = "assemblyai" -> Assemblyai
      [] plugin = "speechmatics" -> Speechmatics [] plugin = "openai" -> Openai
      [] plugin = "google" -> Google [] plugin = "gladia" -> Gladia
      [] plugin = "azure" -> Azure [] plugin = "aws" -> Aws

Init ==
    /\ plugin \in Plugins
    /\ pushed = 0 /\ unread = 0 /\ inputEnded = FALSE
    /\ wake = FALSE /\ conn = FALSE /\ sender = FALSE
    /\ inService = 0 /\ transcribed = 0 /\ lost = 0 /\ stopped = FALSE
    /\ retries = 0 /\ failures = 0 /\ raised = "none" /\ phase = "running"
    /\ faults = 0 /\ updates = 0 /\ expiries = 0

-----------------------------------------------------------------------------
(* The application *)

PushFrame ==
    /\ ~Over /\ ~inputEnded /\ pushed < MaxFrames
    /\ pushed' = pushed + 1 /\ unread' = unread + 1
    /\ UNCHANGED <<plugin, inputEnded, wake, conn, sender, audioVars, stopped, retryVars, phase,
                   bounds>>

EndInput ==
    /\ ~Over /\ ~inputEnded
    /\ inputEnded' = TRUE
    /\ UNCHANGED <<plugin, pushed, unread, wake, conn, sender, audioVars, stopped, retryVars,
                   phase, bounds>>

UpdateOptions ==
    /\ ~Over /\ updates < MaxUpdates /\ Profile.reconnect # "none"
    /\ wake' = TRUE /\ updates' = updates + 1
    /\ UNCHANGED <<plugin, inputVars, conn, sender, audioVars, stopped, retryVars, phase,
                   faults, expiries>>

-----------------------------------------------------------------------------
(* _main_task *)

\* What an outcome of the loop comes to.  The connection is given up, with the audio the
\* service has not transcribed.
Leave(outcome) ==
    /\ conn' = FALSE /\ sender' = FALSE
    /\ inService' = 0 /\ lost' = lost + inService
    /\ UNCHANGED transcribed
    /\ failures' = IF outcome \in {"api", "other"} THEN failures + 1 ELSE failures
    /\ raised' = outcome
    /\ phase' = CASE outcome = "again" -> "running" [] outcome = "over" -> "ended"
                  [] outcome = "cancelled" -> "cancelled" [] outcome = "other" -> "error"
                  [] outcome = "api" -> IF retries = MaxRetry THEN "error" ELSE "waiting"

\* The next attempt, after retry_interval.
Retry ==
    /\ phase = "waiting"
    /\ retries' = retries + 1 /\ phase' = "running"
    /\ UNCHANGED <<plugin, inputVars, wake, conn, sender, audioVars, stopped, failures, raised,
                   bounds>>

-----------------------------------------------------------------------------
(* _run *)

Connect ==
    /\ phase = "running" /\ ~conn
    /\ conn' = TRUE
    /\ UNCHANGED <<plugin, inputVars, wake, sender, audioVars, stopped, retryVars, phase,
                   bounds>>

ConnectFails ==
    /\ phase = "running" /\ ~conn /\ faults < MaxFaults
    /\ faults' = faults + 1
    /\ Leave(Profile.connect)
    /\ UNCHANGED <<plugin, inputVars, wake, stopped, retries, updates, expiries>>

\* azure: an attempt after the first stop finds the event of that stop, when what was
\* pushed is written to the stream of the new session.
FindsStopped ==
    /\ phase = "running" /\ conn /\ plugin = "azure" /\ stopped
    /\ unread = 0 /\ Leave("api")
    /\ UNCHANGED <<plugin, inputVars, wake, stopped, retries, bounds>>

Runs == phase = "running" /\ conn /\ ~(plugin = "azure" /\ stopped)

SendFrame ==
    /\ phase = "running" /\ conn /\ unread > 0
    /\ unread' = unread - 1 /\ inService' = inService + 1
    /\ UNCHANGED <<plugin, pushed, inputEnded, wake, conn, sender, transcribed, lost, stopped,
                   retryVars, phase, bounds>>

\* The task that sends comes to the end of _input_ch.
SendEnds ==
    /\ Runs /\ inputEnded /\ unread = 0 /\ ~sender
    /\ sender' = TRUE
    /\ UNCHANGED <<plugin, inputVars, wake, conn, audioVars, stopped, retryVars, phase, bounds>>

\* _metrics_monitor_task: "reset the retry count after a successful recognition".
RetriesAfterTranscript == 0

\* A final transcript; the session may have lasted too long then.
Transcript ==
    /\ Runs /\ inService > 0
    /\ inService' = inService - 1 /\ transcribed' = transcribed + 1
    /\ retries' = RetriesAfterTranscript /\ failures' = 0 /\ UNCHANGED raised
    /\ \/ UNCHANGED <<wake, expiries>>
       \/ /\ Profile.expires /\ expiries < MaxExpiries
          /\ wake' = TRUE /\ expiries' = expiries + 1
    /\ UNCHANGED <<plugin, inputVars, conn, sender, lost, stopped, phase, faults,
                   updates>>

\* The loop sees _reconnect_event; azure waits for the session to stop.
Reconnect ==
    /\ Runs /\ wake
    /\ wake' = FALSE
    /\ Leave(Profile.reconnect)
    /\ stopped' = (plugin = "azure")
    /\ UNCHANGED <<plugin, inputVars, retries, bounds>>

\* The service closes: early, while audio is to come; or before its last answers, which
\* the tasks that read then expect.
ServiceCloses ==
    /\ Runs /\ faults < MaxFaults
    /\ faults' = faults + 1
    /\ LET expected == sender /\ plugin \notin {"google", "aws"}
       IN \E outcome \in IF expected THEN {"over"} ELSE Profile.close : Leave(outcome)
    /\ stopped' = (plugin = "azure")
    /\ UNCHANGED <<plugin, inputVars, wake, retries, updates, expiries>>

\* Mutant: the loop waits for a transcript of all that was pushed.
AllTranscribed == transcribed = pushed

\* When the loop may be left after the last frame: the service closed, having answered
\* all; or at once.
MayLeave == Profile.leave \in {"closed", "never"} => Profile.told /\ inService = 0

RunEnds ==
    /\ Runs /\ sender /\ MayLeave
    /\ Leave(IF Profile.leave = "never" THEN "again" ELSE "over")
    /\ UNCHANGED <<plugin, inputVars, wake, stopped, retries, bounds>>

-----------------------------------------------------------------------------
Next ==
    \/ PushFrame \/ EndInput \/ UpdateOptions
    \/ Retry \/ Connect \/ ConnectFails \/ FindsStopped
    \/ SendFrame \/ SendEnds \/ Transcript \/ Reconnect \/ ServiceCloses \/ RunEnds

\* The tasks of the stream run, and the service answers what it is sent.
Fairness ==
    /\ WF_vars(Retry) /\ WF_vars(Connect) /\ WF_vars(FindsStopped)
    /\ WF_vars(SendFrame) /\ WF_vars(SendEnds) /\ WF_vars(Transcript)
    /\ WF_vars(Reconnect) /\ WF_vars(RunEnds)

Spec == Init /\ [][Next]_vars /\ Fairness

-----------------------------------------------------------------------------
(* Properties *)

TypeOK ==
    /\ plugin \in Plugins
    /\ pushed \in 0 .. MaxFrames /\ unread \in 0 .. pushed /\ inService \in 0 .. pushed
    /\ transcribed \in 0 .. pushed /\ lost \in 0 .. pushed
    /\ retries \in 0 .. MaxRetry
    /\ phase \in {"running", "waiting", "ended", "cancelled", "error"}
    /\ faults \in 0 .. MaxFaults /\ updates \in 0 .. MaxUpdates /\ expiries \in 0 .. MaxExpiries

\* What is pushed while the stream runs is transcribed, still to be, or lost with a
\* connection: none is lost in a stream whose connection was neither closed nor replaced,
\* unless the plugin leaves before the last answers.
AudioIsKept ==
    /\ pushed = unread + inService + transcribed + lost
    /\ faults + updates + expiries = 0 /\ plugin \notin {"assemblyai", "gladia", "azure"}
            => lost = 0

\* A stream gives up on APIErrors only after MaxRetry + 1 of them without a transcript in
\* between.
RetriesAreUsed == phase = "error" /\ raised = "api" => failures = MaxRetry + 1

\* Until the application ends the input, the stream runs, or has raised an error: the loop
\* connects again when the options change or the session is too old, "restart session if
\* needed".
KeepsListening == phase \in {"ended", "cancelled"} => inputEnded

\* Which holds of the plugins that do not await the tasks they cancelled, and whose loop
\* is not left when the service closes.
SomeKeepListening == plugin \in {"assemblyai", "azure", "aws"} => KeepsListening

\* A stream ends once its input has ended and been sent; unless the service is not told,
\* or the loop begins another session.
StreamEnds == inputEnded /\ plugin \notin {"openai", "aws"} ~> Over
=============================================================================
