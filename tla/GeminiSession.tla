---------------------------- MODULE GeminiSession ----------------------------
(***************************************************************************)
(* RealtimeSession of the google plugin: _main_task keeps a session with   *)
(* the Gemini service and begins another when an option, the instructions  *)
(* or the tools change, when the service says that it goes away, or when   *)
(* one of the tasks of the session fails.  What is to be sent waits in     *)
(* _msg_ch; a generation the service begins resolves the future of the     *)
(* reply that waits, whatever the service began it for.                    *)
(*                                                                         *)
(* The service is external: it takes a turn for what it is sent, and when  *)
(* the user speaks.                                                        *)
(***************************************************************************)
EXTENDS Naturals, Sequences, FiniteSets

CONSTANTS
    MaxReplies,  \* bound: calls of generate_reply and of update_chat_ctx
    MaxChanges,  \* bound: changes of the options
    MaxFaults    \* bound: failures, and announcements that the service goes away

Replies == 1 .. MaxReplies
NoReply == 0
\* What a turn of the service is for, besides a reply.
User    == MaxReplies + 1
Context == MaxReplies + 2
NoTurn  == 0

VARIABLES
    options,     \* the version of the options
    unnoticed,   \* the model changed them, which the session does not see
    main,        \* how _main_task stands
    opened,      \* the version the session was connected with
    shouldClose, \* _session_should_close: "no"; "restart"; "away", the service goes
    msgs,        \* _msg_ch
    held,        \* what the task that sends has taken
    queued,      \* messages that were queued
    log,         \* those the service was sent
    replaced,    \* messages queued when _msg_ch was replaced last
    since,       \* the same, and the messages sent, when the session was connected
    asked,       \* turns the service owes
    turn,        \* the one it takes, as the session sees it
    generation,  \* _current_generation: what it is for, and whether it is open
    pending,     \* _pending_generation_fut
    future,      \* those of the replies
    answer,      \* the turns that resolved them
    spoilt,      \* a turn began, or goes on, that is not for the reply that waits
    replies, contexts, changes, faults

optionVars  == <<options, unnoticed>>
msgVars     == <<msgs, held, queued, log, replaced, since>>
serviceVars == <<asked, turn>>
replyVars   == <<pending, future, answer, spoilt>>
bounds      == <<replies, contexts, changes, faults>>
vars == <<optionVars, main, opened, shouldClose, msgVars, serviceVars, generation, replyVars,
          bounds>>

Init ==
    /\ options = 0 /\ unnoticed = FALSE
    /\ main = "connecting" /\ opened = 0 /\ shouldClose = "no"
    /\ msgs = <<>> /\ held = <<>> /\ queued = 0 /\ log = <<>> /\ replaced = 0
    /\ since = [queued |-> 0, sent |-> 0]
    /\ asked = <<>> /\ turn = NoTurn
    /\ generation = [for |-> NoTurn, open |-> FALSE]
    /\ pending = NoReply
    /\ future = [r \in Replies |-> "none"] /\ answer = [r \in Replies |-> NoTurn]
    /\ spoilt = FALSE
    /\ replies = 0 /\ contexts = 0 /\ changes = 0 /\ faults = 0

-----------------------------------------------------------------------------
(* The calls of the application *)

\* _send_client_event of a message that asks for a turn.
Queue(for) ==
    /\ msgs' = Append(msgs, [id |-> queued + 1, for |-> for])
    /\ queued' = queued + 1
    /\ UNCHANGED <<held, log, replaced, since>>

\* Mutant: the change is left to the next session.
MarkNothing == UNCHANGED <<shouldClose, msgs, replaced>>

\* _mark_restart_needed: "reset the msg_ch, do not send messages from previous session".
MarkRestart ==
    IF shouldClose # "no" THEN UNCHANGED <<shouldClose, msgs, replaced>>
    ELSE shouldClose' = "restart" /\ msgs' = <<>> /\ replaced' = queued

\* update_options, update_instructions and update_tools, when something differs.
UpdateSession ==
    /\ main # "ended" /\ changes < MaxChanges
    /\ changes' = changes + 1 /\ options' = options + 1
    /\ MarkRestart
    /\ UNCHANGED <<unnoticed, held, queued, log, since, main, opened, serviceVars, generation, replyVars, replies,
                   contexts, faults>>

\* RealtimeModel.update_options: the options are one object, so the session finds no
\* difference.
UpdateModel ==
    /\ main # "ended" /\ changes < MaxChanges
    /\ changes' = changes + 1 /\ options' = options + 1 /\ unnoticed' = TRUE
    /\ UNCHANGED <<main, opened, shouldClose, msgVars, serviceVars, generation, replyVars,
                   replies, contexts, faults>>

\* _chat_ctx stays empty, so all the items are new each time; and turn_complete is sent
\* as `msg.turn_complete or True`.
UpdateChatCtx ==
    /\ main # "ended" /\ replies + contexts < MaxReplies
    /\ contexts' = contexts + 1
    /\ Queue(Context)
    /\ UNCHANGED <<optionVars, main, opened, shouldClose, serviceVars, generation, replyVars,
                   replies, changes, faults>>

\* "Superseded by new generate_reply call".
Supersede(r) == [q \in Replies |->
    CASE q = r -> "waiting" [] q = pending /\ future[q] = "waiting" -> "cancelled"
      [] OTHER -> future[q]]

GenerateReply ==
    /\ main # "ended" /\ replies + contexts < MaxReplies
    /\ replies' = replies + 1
    /\ LET r == replies + 1 IN /\ future' = Supersede(r) /\ pending' = r /\ Queue(r)
    /\ spoilt' = (spoilt \/ asked # <<>> \/ turn # NoTurn)
    /\ UNCHANGED <<optionVars, main, opened, shouldClose, serviceVars, generation, answer,
                   contexts, changes, faults>>

ReplyTimeout(r) ==
    /\ future[r] = "waiting"
    /\ future' = [future EXCEPT ![r] = "failed"]
    /\ pending' = IF pending = r THEN NoReply ELSE pending
    /\ UNCHANGED <<optionVars, main, opened, shouldClose, msgVars, serviceVars, generation,
                   answer, spoilt, bounds>>

Closed == [generation EXCEPT !.open = FALSE]

\* aclose()
Close ==
    /\ main # "ended"
    /\ main' = "ended" /\ shouldClose' = "restart"
    /\ future' = [r \in Replies |-> IF r = pending /\ future[r] = "waiting" THEN "cancelled"
                                    ELSE future[r]]
    /\ generation' = Closed
    /\ msgs' = <<>> /\ held' = <<>> /\ asked' = <<>> /\ turn' = NoTurn
    /\ UNCHANGED <<optionVars, opened, queued, log, replaced, since, pending, answer, spoilt, bounds>>

-----------------------------------------------------------------------------
(* _main_task *)

\* The top of the loop: the session, if any, is closed, the event is cleared, and the
\* options are read.
Connect ==
    /\ main \in {"closing", "waiting"}
    /\ main' = "connecting" /\ shouldClose' = "no" /\ opened' = options
    /\ unnoticed' = FALSE
    /\ UNCHANGED <<options, msgVars, serviceVars, generation, replyVars, bounds>>

Connected ==
    /\ main = "connecting"
    /\ main' = "open" /\ since' = [queued |-> replaced, sent |-> Len(log)]
    /\ UNCHANGED <<optionVars, opened, shouldClose, msgs, held, queued, log, replaced, serviceVars, generation,
                   replyVars, bounds>>

\* "attempting to reconnect after 1 seconds"
ConnectFails ==
    /\ main = "connecting" /\ faults < MaxFaults
    /\ main' = "waiting" /\ faults' = faults + 1
    /\ UNCHANGED <<optionVars, opened, shouldClose, msgVars, serviceVars, generation,
                   replyVars, replies, contexts, changes>>

\* The end of _recv_task closes the generation.
RecvEnds == Closed

\* The tasks of the session are cancelled.
Leave ==
    /\ main' = "closing" /\ held' = <<>> /\ generation' = RecvEnds
    /\ asked' = <<>> /\ turn' = NoTurn
    /\ UNCHANGED <<optionVars, opened, queued, log, since, replyVars>>

\* The loop wakes.  After the service said that it goes away, the task that sends may have
\* taken a message before, which it drops.
Restart ==
    /\ main = "open" /\ shouldClose # "no"
    /\ \/ UNCHANGED msgs
       \/ shouldClose = "away" /\ msgs # <<>> /\ held = <<>> /\ msgs' = Tail(msgs)
    /\ Leave
    /\ UNCHANGED <<shouldClose, replaced, bounds>>

-----------------------------------------------------------------------------
(* _send_task *)

SendTakes ==
    /\ main = "open" /\ msgs # <<>> /\ held = <<>> /\ shouldClose = "no"
    /\ held' = <<Head(msgs)>> /\ msgs' = Tail(msgs)
    /\ UNCHANGED <<optionVars, main, opened, shouldClose, queued, log, replaced, since,
                   serviceVars, generation, replyVars, bounds>>

Sent ==
    /\ main = "open" /\ held # <<>>
    /\ log' = Append(log, held[1].id) /\ asked' = Append(asked, held[1].for) /\ held' = <<>>
    /\ UNCHANGED <<optionVars, main, opened, shouldClose, msgs, queued, replaced, since, turn,
                   generation, replyVars, bounds>>

\* One of the tasks fails: the loop wakes.
TaskFails ==
    /\ main = "open" /\ faults < MaxFaults
    /\ faults' = faults + 1
    /\ MarkRestart /\ Leave
    /\ UNCHANGED <<replies, contexts, changes>>

-----------------------------------------------------------------------------
(* _recv_task, and what the service sends *)

\* The service begins a turn for the user, or for what it was sent.
TurnBegins ==
    /\ main = "open" /\ turn = NoTurn
    /\ \/ turn' = User /\ UNCHANGED asked
       \/ asked # <<>> /\ turn' = Head(asked) /\ asked' = Tail(asked)
    /\ spoilt' = (spoilt \/ turn' # pending)
    /\ UNCHANGED <<optionVars, main, opened, shouldClose, msgVars, generation, pending,
                   future, answer, bounds>>

Waits == pending # NoReply /\ future[pending] = "waiting"

\* _start_new_generation, for the first response since the last generation was done.
Begin ==
    /\ spoilt' = (spoilt \/ (~generation.open /\ generation.for = turn))
    /\ IF ~generation.open /\ Waits
       THEN /\ future' = [future EXCEPT ![pending] = "resolved"]
            /\ answer' = [answer EXCEPT ![pending] = turn]
            /\ pending' = NoReply
       ELSE UNCHANGED <<pending, future, answer>>

Content ==
    /\ main = "open" /\ turn # NoTurn
    /\ Begin /\ generation' = [for |-> turn, open |-> TRUE]
    /\ UNCHANGED <<optionVars, main, opened, shouldClose, msgVars, serviceVars, bounds>>

\* The generation is done at a tool call; more of the turn may come.
ToolCall ==
    /\ main = "open" /\ turn # NoTurn
    /\ Begin /\ generation' = [for |-> turn, open |-> FALSE]
    /\ UNCHANGED <<optionVars, main, opened, shouldClose, msgVars, serviceVars, bounds>>

\* turn_complete, which begins a generation of its own after a tool call.
TurnComplete ==
    /\ main = "open" /\ turn # NoTurn
    /\ Begin /\ generation' = [for |-> turn, open |-> FALSE]
    /\ turn' = NoTurn
    /\ UNCHANGED <<optionVars, main, opened, shouldClose, msgVars, asked, bounds>>

\* _handle_go_away: "this isn't a seamless reconnection just yet".
GoAway ==
    /\ main = "open" /\ faults < MaxFaults
    /\ shouldClose = "no"
    /\ faults' = faults + 1 /\ shouldClose' = "away"
    /\ UNCHANGED <<optionVars, main, opened, msgVars, serviceVars, generation, replyVars,
                   replies, contexts, changes>>

-----------------------------------------------------------------------------
Next ==
    \/ UpdateSession \/ UpdateModel \/ UpdateChatCtx \/ GenerateReply \/ Close
    \/ \E r \in Replies : ReplyTimeout(r)
    \/ Connect \/ Connected \/ ConnectFails \/ Restart \/ TaskFails
    \/ SendTakes \/ Sent
    \/ TurnBegins \/ Content \/ ToolCall \/ TurnComplete \/ GoAway

\* The loop runs, and a connection is made or refused.
Fairness == WF_vars(Connect) /\ WF_vars(Connected \/ ConnectFails) /\ WF_vars(Restart)

Spec == Init /\ [][Next]_vars /\ Fairness

-----------------------------------------------------------------------------
(* Properties *)

TypeOK ==
    /\ options \in 0 .. MaxChanges /\ opened \in 0 .. options
    /\ main \in {"connecting", "open", "closing", "waiting", "ended"}
    /\ shouldClose \in {"no", "restart", "away"}
    /\ Len(held) \in 0 .. 1 /\ replaced \in 0 .. queued
    /\ generation.open \in BOOLEAN /\ pending \in Replies \cup {NoReply}
    /\ \A r \in Replies : future[r] \in {"none", "waiting", "resolved", "failed", "cancelled"}

\* A session that is not about to end has the options that are set; unless they were set
\* through the model.
OptionsAreCurrent ==
    main = "open" /\ shouldClose = "no" /\ ~unnoticed => opened = options

\* What is queued is sent in order and once; none is lost while nothing fails or changes;
\* and what was queued before a restart is not sent to the session after it.
MessagesAreKept ==
    /\ \A i \in 1 .. Len(log) - 1 : log[i] < log[i + 1]
    /\ changes + faults = 0 /\ main # "ended" => Len(log) + Len(held) + Len(msgs) = queued
    /\ \A i \in since.sent + 1 .. Len(log) : log[i] > since.queued

\* A generation that is open is of the session that is open: its streams end when the
\* session does, over every restart.
GenerationEnds == generation.open => main = "open"

\* A reply that waits is the one that the next generation resolves.
PendingIsKnown == \A r \in Replies : future[r] = "waiting" => r = pending

\* A reply is answered by the turn that the service takes for it; unless the service takes
\* a turn for the user, for an update of the chat context, or for a reply that was
\* superseded or timed out, or goes on with a turn after a tool call.
OwnTurn == ~spoilt => \A r \in Replies : answer[r] \in {NoTurn, r}

\* A session that is to be restarted is connected again, unless it is closed.
SessionGoesOn == shouldClose # "no" ~> shouldClose = "no" \/ main = "ended"
=============================================================================
