-------------------------- MODULE RealtimeSession --------------------------
(***************************************************************************)
(* RealtimeSession of the openai plugin (realtime/realtime_model.py): the  *)
(* task that keeps a connection, the replies that are asked for, and the   *)
(* handlers of the server's events.                                        *)
(*                                                                         *)
(* The server is external: it answers the requests in order, and speech of *)
(* the user, with one response at a time, made of audio, function calls or *)
(* text.  An event and its handler are one step.                           *)
(***************************************************************************)
EXTENDS Naturals, Sequences

CONSTANTS
    MaxReplies,   \* bound: calls of generate_reply
    MaxGens,      \* bound: responses
    MaxRecovery,  \* retries of _text_mode_recovery
    MaxFaults,    \* bound: lost connections
    MaxExpiries   \* bound: connections older than max_session_duration

VARIABLES
    conn,         \* where _main_task stands
    ws,           \* the connection carries messages
    chClosed,     \* _msg_ch is closed, by aclose()
    outbox,       \* _msg_ch: the replies to ask for, and the items of a recovery
    awaited,      \* the generation whose _done_fut _main_task awaits
    asked,        \* requests the server has and has not answered
    serving,      \* the response it is giving
    requester,    \* who asked for each response: a reply, or 0
    generation,   \* _current_generation
    gens,         \* how each generation stands
    readers,      \* the tasks that read its channels
    done,         \* done_fut of each reply
    keyed,        \* the reply's key in _response_created_futures
    got,          \* the generation it was given
    recovery,     \* _text_mode_recovery_atask
    recoveries,   \* _text_mode_recovery_retries
    faults, expiries,
    spoilt        \* what the properties except: see Spoilers

connVars   == <<conn, ws, chClosed, awaited>>
serverVars == <<asked, serving, requester>>
genVars    == <<generation, gens, readers>>
replyVars  == <<done, keyed, got>>
textVars   == <<recovery, recoveries>>
bounds     == <<faults, expiries>>
vars == <<connVars, outbox, serverVars, genVars, replyVars, textVars, bounds, spoilt>>

Replies == 1 .. MaxReplies
Gens    == 1 .. MaxGens

\* The keys of the table of replies besides the ids of the responses: that of the request.
EventId == 0
NoKey   == MaxGens + 1

\* many: a response of several items is emitted for each of them;
\* text: a recovery was cancelled, timed out or given up.
Spoilers == {"many", "text"}

NoRecovery == [at |-> "none", reply |-> 0, gen |-> 0]

Init ==
    /\ conn = "connecting" /\ ws = FALSE /\ chClosed = FALSE /\ awaited = 0
    /\ outbox = <<>> /\ asked = <<>> /\ serving = 0 /\ requester = [g \in Gens |-> 0]
    /\ generation = 0 /\ gens = [g \in Gens |-> "none"] /\ readers = [g \in Gens |-> 0]
    /\ done = [r \in Replies |-> "none"] /\ keyed = [r \in Replies |-> NoKey]
    /\ got = [r \in Replies |-> 0]
    /\ recovery = NoRecovery /\ recoveries = 0
    /\ faults = 0 /\ expiries = 0 /\ spoilt = {}

\* send_event, which drops what is sent after the close.
SendEvent(message) ==
    outbox' = IF chClosed THEN outbox ELSE Append(outbox, message)

-----------------------------------------------------------------------------
(* The application *)

\* generate_reply; the timer of _CreateResponseHandle starts.
GenerateReply(r) ==
    /\ done[r] = "none" /\ \A q \in Replies : q < r => done[q] # "none"
    /\ SendEvent(<<"create", r>>)
    /\ done' = [done EXCEPT ![r] = "pending"]
    /\ keyed' = [keyed EXCEPT ![r] = EventId]
    /\ recoveries' = 0
    /\ UNCHANGED <<connVars, serverVars, genVars, got, recovery, bounds, spoilt>>

\* _on_timeout
ReplyTimeout(r) ==
    /\ done[r] = "pending"
    /\ done' = [done EXCEPT ![r] = "timeout"]
    /\ UNCHANGED <<connVars, outbox, serverVars, genVars, keyed, got, textVars, bounds, spoilt>>

\* aclose(), which then awaits _main_task.
Close ==
    /\ ~chClosed
    /\ chClosed' = TRUE
    /\ UNCHANGED <<conn, ws, awaited, outbox, serverVars, genVars, replyVars, textVars, bounds,
                   spoilt>>

-----------------------------------------------------------------------------
(* _main_task and _run_ws *)

\* What the server was doing for a connection that is gone.
Forgotten == asked' = <<>> /\ serving' = 0 /\ UNCHANGED requester

\* _run_ws returns, and the loop goes on unless the session was closed.
NextConnection ==
    /\ conn' = IF chClosed THEN "over" ELSE "connecting"
    /\ ws' = FALSE /\ awaited' = 0 /\ Forgotten

\* Connected, and on a reconnection the options, the tools and the chat were sent.
Connected ==
    /\ conn = "connecting"
    /\ conn' = "up" /\ ws' = TRUE
    /\ UNCHANGED <<chClosed, awaited, outbox, serverVars, genVars, replyVars, textVars, bounds,
                   spoilt>>

ConnectFails ==
    /\ conn = "connecting" /\ faults < MaxFaults
    /\ conn' = "dead" /\ faults' = faults + 1
    /\ UNCHANGED <<ws, chClosed, awaited, outbox, serverVars, genVars, replyVars, textVars,
                   expiries, spoilt>>

\* _send_task
Send ==
    /\ conn \in {"up", "expired"} /\ ws /\ outbox # <<>>
    /\ outbox' = Tail(outbox)
    /\ LET message == Head(outbox)
       IN IF message[1] = "create"
          THEN asked' = Append(asked, message[2]) /\ UNCHANGED recovery
          ELSE /\ recovery' = IF recovery.gen = message[2] THEN [recovery EXCEPT !.at = "sent"]
                              ELSE recovery
               /\ UNCHANGED asked
    /\ UNCHANGED <<connVars, serving, requester, genVars, replyVars, recoveries, bounds, spoilt>>

ConnectionLost ==
    /\ ws /\ faults < MaxFaults
    /\ ws' = FALSE /\ faults' = faults + 1 /\ Forgotten
    /\ UNCHANGED <<conn, chClosed, awaited, outbox, genVars, replyVars, textVars, expiries,
                   spoilt>>

\* _recv_task raises "closed unexpectedly", and with it _main_task.
RecvFails ==
    /\ conn = "up" /\ ~ws
    /\ conn' = "dead"
    /\ UNCHANGED <<ws, chClosed, awaited, outbox, serverVars, genVars, replyVars, textVars,
                   bounds, spoilt>>

\* _send_task breaks at the message it could not send, which is lost; it closes the
\* connection, which _recv_task then takes for a close of its own.
SendFails ==
    /\ conn = "up" /\ ~ws /\ outbox # <<>>
    /\ outbox' = Tail(outbox)
    /\ NextConnection
    /\ UNCHANGED <<chClosed, genVars, replyVars, textVars, bounds, spoilt>>

\* _send_task comes to the end of the closed channel, and closes the connection.
SendEnds ==
    /\ conn \in {"up", "expired"} /\ chClosed /\ outbox = <<>>
    /\ IF conn = "up" THEN NextConnection
       ELSE ws /\ ws' = FALSE /\ Forgotten /\ UNCHANGED <<conn, awaited>>
    /\ UNCHANGED <<chClosed, outbox, genVars, replyVars, textVars, bounds, spoilt>>

\* max_session_duration is over: "wait for the current generation to complete before
\* reconnecting".
Expire ==
    /\ conn = "up" /\ ws /\ expiries < MaxExpiries
    /\ expiries' = expiries + 1
    /\ IF generation = 0 THEN NextConnection
       ELSE /\ conn' = "expired" /\ awaited' = generation
            /\ UNCHANGED <<ws, serverVars>>
    /\ UNCHANGED <<chClosed, outbox, genVars, replyVars, textVars, faults, spoilt>>

ExpiredEnds ==
    /\ conn = "expired" /\ gens[awaited] = "done"
    /\ NextConnection
    /\ UNCHANGED <<chClosed, outbox, genVars, replyVars, textVars, bounds, spoilt>>

-----------------------------------------------------------------------------
(* The events of the server *)

\* "set key to the response id"
KeyOfResponse(r, g) ==
    IF r # 0 /\ keyed[r] = EventId THEN [keyed EXCEPT ![r] = g] ELSE keyed

\* response.created, to a request or to the speech of the user.
ResponseCreated(r, g) ==
    /\ ws /\ serving = 0
    /\ gens[g] = "none" /\ \A f \in Gens : f < g => gens[f] # "none"
    /\ \/ asked # <<>> /\ r = Head(asked) /\ asked' = Tail(asked)
       \/ r = 0 /\ UNCHANGED asked
    /\ serving' = g /\ requester' = [requester EXCEPT ![g] = r]
    /\ generation' = g /\ gens' = [gens EXCEPT ![g] = "created"]
    /\ keyed' = KeyOfResponse(r, g)
    /\ UNCHANGED <<connVars, outbox, readers, done, got, textVars, bounds, spoilt>>

\* The replies whose future has the key of the response: one, or none.
Keyed(g) == {r \in Replies : keyed[r] = g}

\* A function call or a part of audio: _emit_generation_event.  The reply that asked for
\* it reads it, unless it has timed out; without one, the activity does, in a new speech.
Item ==
    /\ serving # 0 /\ generation = serving /\ gens[serving] \in {"created", "emitted"}
    /\ LET g == serving
       IN /\ keyed' = [r \in Replies |-> IF r \in Keyed(g) THEN NoKey ELSE keyed[r]]
          /\ done' = [r \in Replies |-> IF r \in Keyed(g) /\ done[r] = "pending"
                                        THEN "generated" ELSE done[r]]
          /\ got' = [r \in Replies |-> IF r \in Keyed(g) /\ done[r] = "pending" THEN g ELSE got[r]]
          /\ readers' = [readers EXCEPT ![g] =
                            IF @ < 2 /\ \A r \in Keyed(g) : done[r] = "pending" THEN @ + 1 ELSE @]
          /\ gens' = [gens EXCEPT ![g] = "emitted"]
          /\ spoilt' = IF gens[g] = "emitted" THEN spoilt \cup {"many"} ELSE spoilt
    /\ recoveries' = 0
    /\ UNCHANGED <<connVars, outbox, serverVars, generation, recovery, bounds>>

\* A text instead of audio: the response is cancelled (_handle_response_content_part_added),
\* and asked for again (_handle_response_content_part_done).
Text ==
    /\ serving # 0 /\ generation = serving /\ gens[serving] = "created"
    /\ gens' = [gens EXCEPT ![serving] = "text"]
    /\ LET timedOut == \E r \in Keyed(serving) : done[r] # "pending"
       IN IF recoveries >= MaxRecovery
          THEN /\ recoveries' = 0 /\ spoilt' = spoilt \cup {"text"}
               /\ UNCHANGED <<keyed, recovery, outbox>>
          ELSE /\ keyed' = [r \in Replies |-> IF r \in Keyed(serving) THEN NoKey ELSE keyed[r]]
               /\ IF timedOut
                  THEN recoveries' = 0 /\ UNCHANGED <<recovery, outbox, spoilt>>
                  ELSE /\ recoveries' = recoveries + 1
                       /\ recovery' = [at |-> "updating", gen |-> serving,
                            reply |-> IF Keyed(serving) = {} THEN 0
                                      ELSE CHOOSE r \in Keyed(serving) : TRUE]
                       /\ SendEvent(<<"items", serving>>)
                       /\ spoilt' = IF recovery.at # "none" THEN spoilt \cup {"text"} ELSE spoilt
    /\ UNCHANGED <<connVars, serverVars, generation, readers, done, got, bounds>>

\* Mutant: the handle of the reply that is repeated is not registered again.
RegisteredOnce(r) == keyed

\* _create_response with the handle of the reply that is repeated, if any.
Registered(r) == IF r = 0 THEN keyed ELSE [keyed EXCEPT ![r] = EventId]

\* _retry_generation: the items were created, and the response is asked for once more.
Recovered ==
    /\ recovery.at = "sent" /\ ws
    /\ LET r == recovery.reply
       IN IF r # 0 /\ done[r] # "pending"
          THEN UNCHANGED <<outbox, keyed>>
          ELSE /\ SendEvent(<<"create", r>>)
               /\ keyed' = Registered(r)
    /\ recovery' = NoRecovery
    /\ UNCHANGED <<connVars, serverVars, genVars, done, got, recoveries, bounds, spoilt>>

\* "update_chat_ctx timed out."
RecoveryTimeout ==
    /\ recovery.at # "none"
    /\ recovery' = NoRecovery /\ spoilt' = spoilt \cup {"text"}
    /\ UNCHANGED <<connVars, outbox, serverVars, genVars, replyVars, recoveries, bounds>>

\* response.done closes the channels of the generation.
ResponseDone ==
    /\ serving # 0
    /\ serving' = 0
    /\ gens' = [gens EXCEPT ![generation] = "done"] /\ generation' = 0
    /\ UNCHANGED <<connVars, outbox, asked, requester, readers, replyVars, textVars, bounds,
                   spoilt>>

-----------------------------------------------------------------------------
Next ==
    \/ \E r \in Replies : GenerateReply(r) \/ ReplyTimeout(r)
    \/ Close \/ Connected \/ ConnectFails \/ Send \/ ConnectionLost
    \/ RecvFails \/ SendFails \/ SendEnds \/ Expire \/ ExpiredEnds
    \/ \E g \in Gens : \E r \in {0} \cup Replies : ResponseCreated(r, g)
    \/ Item \/ Text \/ Recovered \/ RecoveryTimeout \/ ResponseDone

\* The tasks of the loop run, timers fire, and the server ends its responses.
Fairness ==
    /\ \A r \in Replies : WF_vars(ReplyTimeout(r))
    /\ WF_vars(Connected \/ ConnectFails) /\ WF_vars(Send)
    /\ WF_vars(RecvFails \/ SendFails) /\ WF_vars(SendEnds) /\ WF_vars(ExpiredEnds)
    /\ WF_vars(ResponseDone)

Spec == Init /\ [][Next]_vars /\ Fairness

-----------------------------------------------------------------------------
(* Properties *)

TypeOK ==
    /\ conn \in {"connecting", "up", "expired", "dead", "over"}
    /\ ws \in BOOLEAN /\ chClosed \in BOOLEAN /\ awaited \in {0} \cup Gens
    /\ serving \in {0} \cup Gens /\ requester \in [Gens -> {0} \cup Replies]
    /\ generation \in {0} \cup Gens
    /\ gens \in [Gens -> {"none", "created", "emitted", "text", "done"}]
    /\ readers \in [Gens -> 0 .. 2]
    /\ done \in [Replies -> {"none", "pending", "generated", "timeout"}]
    /\ keyed \in [Replies -> {NoKey, EventId} \cup Gens] /\ got \in [Replies -> {0} \cup Gens]
    /\ recovery.at \in {"none", "updating", "sent"} /\ recoveries \in 0 .. MaxRecovery

\* A reply gets the response to its own request, over retries, responses to the user's
\* speech and reconnections; and a generation has one reader, unless it has several items.
OwnGeneration ==
    /\ \A r \in Replies : got[r] # 0 => requester[got[r]] = r
    /\ "many" \notin spoilt => \A g \in Gens : readers[g] <= 1

\* The future of a reply that waits is in the table, or with the recovery that will ask
\* again, so that the next response resolves it; unless a recovery was lost.
PendingIsKnown ==
    "text" \notin spoilt =>
        \A r \in Replies : done[r] = "pending" => keyed[r] # NoKey \/ recovery.reply = r

\* The generation that _main_task awaits is not under way any more, and did not end: its
\* connection was lost, closed by aclose(), or replaced when it had just begun.
AwaitsForEver ==
    /\ conn = "expired" /\ serving # awaited /\ gens[awaited] # "done"
    /\ faults > 0 \/ chClosed \/ expiries > 1

\* A connection that is too old is replaced, "reset the connection after this many seconds
\* if provided", and a session that is closed ends; unless _main_task awaits such a
\* generation.
ConnectionGoesOn ==
    /\ conn = "expired" ~> conn # "expired" \/ AwaitsForEver
    /\ chClosed ~> conn \in {"dead", "over"} \/ AwaitsForEver
=============================================================================
