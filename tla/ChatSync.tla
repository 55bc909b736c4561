------------------------------ MODULE ChatSync ------------------------------
(***************************************************************************)
(* The chat of a realtime session: the copy of the server's conversation   *)
(* (llm/remote_chat_context.py, a doubly linked list), update_chat_ctx,    *)
(* which makes the conversation what the application wants by the diff of  *)
(* llm/utils.py, and the events of the server that keep the copy.          *)
(*                                                                         *)
(* The server is external: it applies the messages in order, refuses what  *)
(* it cannot apply, and appends what the user and the model say.           *)
(***************************************************************************)
EXTENDS Naturals, Sequences, FiniteSets, SequencesExt

CONSTANTS
    Items,          \* the ids of items, without Nil
    Nil,            \* None
    Calls,          \* the items that a reconnection leaves out: function calls
    MaxLen,         \* bound: items of a chat
    MaxUpdates,     \* bound: calls of update_chat_ctx
    MaxSaid,        \* bound: items the server adds
    MaxReconnects   \* bound: replaced connections

VARIABLES
    head, tail, next, prev, known,  \* the linked list, and the keys of _id_to_item
    server,      \* the conversation
    up, down,    \* messages to the server, events from it
    wanted,      \* what the application asked for last
    before,      \* what the copy was then
    awaited,     \* the futures that update_chat_ctx awaits
    updating,    \* the lock is held
    disturbed,   \* a connection was replaced, or an update timed out
    updates, said, reconnects

list   == <<head, tail, next, prev, known>>
bounds == <<updates, said, reconnects>>
vars   == <<list, server, up, down, wanted, before, awaited, updating, disturbed, bounds>>

-----------------------------------------------------------------------------
(* The linked list *)

\* to_chat_ctx: the items from the head on.
ToChatCtx ==
    LET From[n \in 0 .. Cardinality(Items)] ==
            [i \in Items \cup {Nil} |->
                IF i = Nil \/ n = 0 THEN <<>> ELSE <<i>> \o From[n - 1][next[i]]]
    IN From[Cardinality(Items)][head]

Becomes(l) ==
    /\ head' = l.head /\ tail' = l.tail /\ next' = l.next /\ prev' = l.prev
    /\ known' = l.known

\* Mutant: a message inserted at the head is taken for the last one.
TailAfterAnyInsert(i, after) == IF after = Nil \/ next[after] = Nil THEN i ELSE tail

\* "if new_node._next is not None: ... else: self._tail = new_node"
TailAfterInsert(i, after) ==
    IF after = Nil THEN (IF head = Nil THEN i ELSE tail)
    ELSE IF next[after] = Nil THEN i ELSE tail

\* insert, which raises ValueError for an item that is there or a predecessor that is not.
Insert(after, i) ==
    IF i \in known \/ (after # Nil /\ after \notin known) THEN UNCHANGED list
    ELSE LET follower == IF after = Nil THEN head ELSE next[after]
         IN Becomes([head |-> IF after = Nil THEN i ELSE head,
                     tail |-> TailAfterInsert(i, after),
                     next |-> [j \in Items |-> IF j = i THEN follower
                                               ELSE IF j = after THEN i ELSE next[j]],
                     prev |-> [j \in Items |-> IF j = i THEN after
                                               ELSE IF j = follower THEN i ELSE prev[j]],
                     known |-> known \cup {i}])

\* delete, which raises ValueError for an item that is not there.
Delete(i) ==
    IF i \notin known THEN UNCHANGED list
    ELSE Becomes([head |-> IF head = i THEN next[i] ELSE head,
                  tail |-> IF tail = i THEN prev[i] ELSE tail,
                  next |-> [j \in Items |-> IF j = i THEN Nil
                                            ELSE IF j = prev[i] THEN next[i] ELSE next[j]],
                  prev |-> [j \in Items |-> IF j = i THEN Nil
                                            ELSE IF j = next[i] THEN prev[i] ELSE prev[j]],
                  known |-> known \ {i}])

-----------------------------------------------------------------------------
(* The diff *)

Longer(m, n) == IF m >= n THEN m ELSE n

\* The table of _compute_lcs.
Table(old, new) ==
    LET dp[c \in (0 .. Len(old)) \X (0 .. Len(new))] ==
            LET i == c[1]  j == c[2]
            IN IF i = 0 \/ j = 0 THEN 0
               ELSE IF old[i] = new[j] THEN dp[<<i - 1, j - 1>>] + 1
               ELSE Longer(dp[<<i - 1, j>>], dp[<<i, j - 1>>])
    IN dp

\* _compute_lcs: the ids that stay.
Lcs(old, new) ==
    LET dp == Table(old, new)
        back[c \in (0 .. Len(old)) \X (0 .. Len(new))] ==
            LET i == c[1]  j == c[2]
            IN IF i = 0 \/ j = 0 THEN {}
               ELSE IF old[i] = new[j] THEN {old[i]} \cup back[<<i - 1, j - 1>>]
               ELSE IF dp[<<i - 1, j>>] > dp[<<i, j - 1>>] THEN back[<<i - 1, j>>]
               ELSE back[<<i, j - 1>>]
    IN back[<<Len(old), Len(new)>>]

\* The items of a chat that are in a set.
Only(chat, kept) ==
    LET upTo[n \in 0 .. Len(chat)] ==
            IF n = 0 THEN <<>>
            ELSE IF chat[n] \in kept THEN Append(upTo[n - 1], chat[n]) ELSE upTo[n - 1]
    IN upTo[Len(chat)]

Message(what, after, i) == [what |-> what, after |-> after, item |-> i]

\* compute_chat_ctx_diff, and the events of _create_update_chat_ctx_events: what does not
\* stay is deleted, what is new is created after its predecessor.
Diff(old, new) ==
    LET stays   == Lcs(old, new)
        removed == Only(old, Items \ stays)
        created == Only(new, Items \ stays)
        Before(i) == LET n == CHOOSE n \in DOMAIN new : new[n] = i
                     IN IF n = 1 THEN Nil ELSE new[n - 1]
    IN [n \in DOMAIN removed |-> Message("delete", Nil, removed[n])]
       \o [n \in DOMAIN created |-> Message("create", Before(created[n]), created[n])]

-----------------------------------------------------------------------------
\* Chats without an item twice.
Chats == {s \in BoundedSeq(Items, MaxLen) : IsInjective(s)}

\* The list of the items of a chat.
Linked(chat) ==
    LET At(i) == CHOOSE n \in DOMAIN chat : chat[n] = i
        Get(n) == IF n \in DOMAIN chat THEN chat[n] ELSE Nil
    IN [head |-> Get(1), tail |-> Get(Len(chat)), known |-> ToSet(chat),
        next |-> [i \in Items |-> IF Contains(chat, i) THEN Get(At(i) + 1) ELSE Nil],
        prev |-> [i \in Items |-> IF Contains(chat, i) THEN Get(At(i) - 1) ELSE Nil]]

\* A session with some chat that is in the copy.
Init ==
    /\ server \in Chats
    /\ LET l == Linked(server)
       IN /\ head = l.head /\ tail = l.tail /\ next = l.next /\ prev = l.prev
          /\ known = l.known
    /\ up = <<>> /\ down = <<>>
    /\ wanted = server /\ before = server
    /\ awaited = {} /\ updating = FALSE /\ disturbed = FALSE
    /\ updates = 0 /\ said = 0 /\ reconnects = 0

\* update_chat_ctx, up to the wait for its futures; without any it returns.  What is wanted
\* was in the copy, or is new.
UpdateChatCtx(chat) ==
    /\ ~updating /\ updates < MaxUpdates
    /\ \A i \in ToSet(chat) : i \in known \/ ~Contains(server, i)
    /\ updates' = updates + 1
    /\ LET messages == Diff(ToChatCtx, chat)
       IN /\ up' = up \o messages
          /\ awaited' = {<<m.what, m.item>> : m \in ToSet(messages)}
          /\ updating' = (messages # <<>>)
    /\ wanted' = chat /\ before' = ToChatCtx
    /\ UNCHANGED <<list, server, down, disturbed, said, reconnects>>

\* Its futures are resolved.
UpdateEnds ==
    /\ updating /\ awaited = {}
    /\ updating' = FALSE
    /\ UNCHANGED <<list, server, up, down, wanted, before, awaited, disturbed, bounds>>

\* "update_chat_ctx timed out.", while messages are on their way, or were refused.
UpdateTimeout ==
    /\ updating /\ awaited # {}
    /\ updating' = FALSE /\ awaited' = {} /\ disturbed' = TRUE
    /\ UNCHANGED <<list, server, up, down, wanted, before, bounds>>

\* Another connection, and another conversation: the chat without the calls is created
\* anew, ahead of the messages that were not sent yet, and the copy begins empty.
Reconnect ==
    /\ reconnects < MaxReconnects
    /\ \E unsent \in {<<>>, up} :
        up' = Diff(<<>>, Only(ToChatCtx, Items \ Calls)) \o unsent
    /\ Becomes(Linked(<<>>))
    /\ server' = <<>> /\ down' = <<>>
    /\ disturbed' = TRUE /\ reconnects' = reconnects + 1
    /\ UNCHANGED <<wanted, before, awaited, updating, updates, said>>

-----------------------------------------------------------------------------
(* The server *)

ServerApplies ==
    /\ up # <<>>
    /\ LET m == Head(up)
           At(i) == CHOOSE n \in DOMAIN server : server[n] = i
       IN IF \/ m.what = "delete" /\ ~Contains(server, m.item)
             \/ /\ m.what = "create"
                /\ Contains(server, m.item) \/ (m.after # Nil /\ ~Contains(server, m.after))
          THEN UNCHANGED <<server, down>>
          ELSE /\ server' = IF m.what = "delete" THEN RemoveAt(server, At(m.item))
                            ELSE InsertAt(server, IF m.after = Nil THEN 1 ELSE At(m.after) + 1, m.item)
               /\ down' = Append(down, m)
    /\ up' = Tail(up)
    /\ UNCHANGED <<list, wanted, before, awaited, updating, disturbed, bounds>>

\* The user or the model says something new.
ServerAdds(i) ==
    /\ said < MaxSaid
    /\ i \notin ToSet(server) \cup ToSet(wanted) \cup ToSet(before) \cup known
    /\ \A m \in ToSet(up) : m.item # i
    /\ said' = said + 1
    /\ server' = Append(server, i)
    /\ down' = Append(down, Message("create", IF server = <<>> THEN Nil ELSE Last(server), i))
    /\ UNCHANGED <<list, up, wanted, before, awaited, updating, disturbed, updates, reconnects>>

\* _handle_conversion_item_created
ItemCreated ==
    /\ down # <<>> /\ Head(down).what = "create"
    /\ Insert(Head(down).after, Head(down).item)
    /\ down' = Tail(down)
    /\ awaited' = awaited \ {<<"create", Head(down).item>>}
    /\ UNCHANGED <<server, up, wanted, before, updating, disturbed, bounds>>

\* _handle_conversion_item_deleted
ItemDeleted ==
    /\ down # <<>> /\ Head(down).what = "delete"
    /\ Delete(Head(down).item)
    /\ down' = Tail(down)
    /\ awaited' = awaited \ {<<"delete", Head(down).item>>}
    /\ UNCHANGED <<server, up, wanted, before, updating, disturbed, bounds>>

-----------------------------------------------------------------------------
Next ==
    \/ \E chat \in Chats : UpdateChatCtx(chat)
    \/ UpdateEnds \/ UpdateTimeout \/ Reconnect
    \/ ServerApplies \/ ItemCreated \/ ItemDeleted
    \/ \E i \in Items : ServerAdds(i)

Spec == Init /\ [][Next]_vars

-----------------------------------------------------------------------------
(* Properties *)

TypeOK ==
    /\ head \in Items \cup {Nil} /\ tail \in Items \cup {Nil} /\ known \subseteq Items
    /\ next \in [Items -> Items \cup {Nil}] /\ prev \in [Items -> Items \cup {Nil}]
    /\ ToSet(server) \subseteq Items /\ IsInjective(server)
    /\ wanted \in Chats /\ updating \in BOOLEAN /\ disturbed \in BOOLEAN
    /\ updates \in 0 .. MaxUpdates /\ said \in 0 .. MaxSaid /\ reconnects \in 0 .. MaxReconnects

\* The pointers of the copy agree: from the head come all the items that are known, once,
\* each pointing back to the one before, up to the tail.
ListIsLinked ==
    LET chat == ToChatCtx
    IN /\ ToSet(chat) = known /\ Len(chat) = Cardinality(known)
       /\ tail = IF chat = <<>> THEN Nil ELSE Last(chat)
       /\ \A n \in DOMAIN chat : prev[chat[n]] = IF n = 1 THEN Nil ELSE chat[n - 1]

\* Once all the events are handled, the copy is the conversation, also after the session
\* changed the connection.
CopyIsConversation == down = <<>> => ToChatCtx = server

\* What stays is a longest common subsequence: "Computes the minimal list of create/remove
\* operations".
DiffIsMinimal ==
    LET Common == {s \in BoundedSeq(Items, MaxLen) :
                     \A t \in {before, wanted} : s = Only(t, ToSet(s))}
    IN \A s \in Common : Len(s) <= Cardinality(Lcs(before, wanted))

\* After an update the conversation holds what was wanted, in order, and of the rest only
\* what came meanwhile; unless the connection was replaced or an update timed out.
UpdateIsDone ==
    ~updating /\ updates > 0 /\ ~disturbed =>
        /\ Only(ToChatCtx, ToSet(wanted)) = wanted
        /\ known \cap ToSet(before) \subseteq ToSet(wanted)

ChatIsRight == ListIsLinked /\ CopyIsConversation /\ DiffIsMinimal /\ UpdateIsDone
=============================================================================
