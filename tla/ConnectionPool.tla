---------------------------- MODULE ConnectionPool ----------------------------
(***************************************************************************)
(* utils/connection_pool.py: a pool of persistent connections (websockets  *)
(* of the TTS and STT plugins), used by several tasks of one asyncio loop. *)
(*                                                                         *)
(* A user runs "async with pool.connection()": get() drains what is queued *)
(* for closing, then reuses an available connection or opens a new one;    *)
(* the exit puts the connection back, or removes it after an exception.    *)
(* get() suspends in close_cb, once per connection it closes, and in       *)
(* connect_cb; everything else is one step.  The owner of the pool calls   *)
(* prewarm(), invalidate() and aclose().  A connection is a number, in the *)
(* order in which connect_cb opened them.                                  *)
(***************************************************************************)
EXTENDS Naturals

CONSTANTS
    User,     \* the tasks that use the pool
    Owner,    \* the task that closes it
    MaxConn   \* bound: connections that connect_cb may open

ASSUME PoolAssumption == Owner \notin User /\ MaxConn \in Nat

Conn   == 1 .. MaxConn
None   == 0
Closer == User \cup {Owner}   \* the tasks that run _drain_to_close

VARIABLES
    opened,       \* connections opened so far: 1 .. opened
    closed,       \* the connections on which close_cb has completed
    connections,  \* the keys of _connections
    expired,      \* those of them older than max_session_duration
    available,    \* _available
    toClose,      \* _to_close
    at,           \* where each task stands
    snapshot,     \* what is left of the list a task iterates in _drain_to_close
    held,         \* the connection a user holds
    prewarm       \* _prewarm_task

vars == <<opened, closed, connections, expired, available, toClose, at, snapshot,
          held, prewarm>>

Init ==
    /\ opened = 0 /\ closed = {}
    /\ connections = {} /\ expired = {} /\ available = {} /\ toClose = {}
    /\ at = [t \in Closer |-> "idle"]
    /\ snapshot = [t \in Closer |-> {}]
    /\ held = [u \in User |-> None]
    /\ prewarm = "none"

-----------------------------------------------------------------------------
(* Taking a connection: the loop of get(), with q what _to_close holds. *)

\* Connections are popped in the arbitrary order of a set: the expired ones, some
\* or all, that come up before a fresh one are removed.
Reuse(u, q) ==
    \E c \in available \ expired, S \in SUBSET (available \cap expired) :
        /\ connections' = connections \ S
        /\ expired' = expired \ S
        /\ available' = available \ (S \cup {c})
        /\ toClose' = q \cup S
        /\ held' = [held EXCEPT ![u] = c]
        /\ at' = [at EXCEPT ![u] = "using"]

\* Whatever is available has expired: call connect_cb.
OpenNew(u, q) ==
    /\ available \subseteq expired
    /\ connections' = connections \ available
    /\ expired' = expired \ available
    /\ available' = {}
    /\ toClose' = q \cup available
    /\ at' = [at EXCEPT ![u] = "connecting"]
    /\ UNCHANGED held

\* Mutant: the connection that is returned stays in _available.
TakeOrOpenPeek(u, q) ==
    \/ \E c \in available \ expired :
        /\ held' = [held EXCEPT ![u] = c]
        /\ at' = [at EXCEPT ![u] = "using"]
        /\ toClose' = q
        /\ UNCHANGED <<connections, expired, available>>
    \/ OpenNew(u, q)

TakeOrOpen(u, q) == Reuse(u, q) \/ OpenNew(u, q)

-----------------------------------------------------------------------------
(* get() *)

\* With nothing to close, get() does not suspend before it takes a connection.
GetNow(u) ==
    /\ at[u] = "idle" /\ toClose = {}
    /\ TakeOrOpen(u, {})
    /\ UNCHANGED <<opened, closed, snapshot, prewarm>>

\* Else it awaits close_cb for each connection in a copy of _to_close.
GetDraining(u) ==
    /\ at[u] = "idle" /\ toClose # {}
    /\ at' = [at EXCEPT ![u] = "draining"]
    /\ snapshot' = [snapshot EXCEPT ![u] = toClose]
    /\ UNCHANGED <<opened, closed, connections, expired, available, toClose, held,
                   prewarm>>

\* close_cb returns, and the copy has another connection.
CloseOne(t, c) ==
    /\ at[t] = "draining"
    /\ c \in snapshot[t] /\ snapshot[t] # {c}
    /\ closed' = closed \cup {c}
    /\ snapshot' = [snapshot EXCEPT ![t] = @ \ {c}]
    /\ UNCHANGED <<opened, connections, expired, available, toClose, at, held, prewarm>>

\* The last close_cb returns: _to_close is cleared, with what was added to it
\* since the copy was made, and get() takes a connection.
CloseLastOfGet(u, c) ==
    /\ at[u] = "draining"
    /\ snapshot[u] = {c}
    /\ closed' = closed \cup {c}
    /\ snapshot' = [snapshot EXCEPT ![u] = {}]
    /\ TakeOrOpen(u, {})
    /\ UNCHANGED <<opened, prewarm>>

\* close_cb raised, or the task was cancelled: _to_close is not cleared.
DrainFails(t) ==
    /\ at[t] = "draining"
    /\ at' = [at EXCEPT ![t] = "idle"]
    /\ snapshot' = [snapshot EXCEPT ![t] = {}]
    /\ UNCHANGED <<opened, closed, connections, expired, available, toClose, held,
                   prewarm>>

\* connect_cb returns a new connection; get() returns it.
Connected(u) ==
    /\ at[u] = "connecting"
    /\ opened < MaxConn
    /\ opened' = opened + 1
    /\ connections' = connections \cup {opened'}
    /\ held' = [held EXCEPT ![u] = opened']
    /\ at' = [at EXCEPT ![u] = "using"]
    /\ UNCHANGED <<closed, expired, available, toClose, snapshot, prewarm>>

\* connect_cb raised or timed out, or the task was cancelled.
ConnectFails(u) ==
    /\ at[u] = "connecting"
    /\ at' = [at EXCEPT ![u] = "idle"]
    /\ UNCHANGED <<opened, closed, connections, expired, available, toClose, snapshot,
                   held, prewarm>>

-----------------------------------------------------------------------------
(* Giving a connection back *)

\* Mutant: a connection that was removed is put back too.
PutBackAlways(c) == available \cup {c}

\* put(conn): a connection that is not tracked any more is not kept.
PutBack(c) == IF c \in connections THEN available \cup {c} ELSE available

\* Mutant: a connection is forgotten, not queued.
QueuedForget(c) == toClose

\* What remove(conn) adds to _to_close.
Queued(c) == IF c \in connections THEN toClose \cup {c} ELSE toClose

Remove(c) ==
    /\ available' = available \ {c}
    /\ toClose' = Queued(c)
    /\ connections' = connections \ {c}
    /\ expired' = expired \ {c}

\* "async with pool.connection()" ends.
Put(u) ==
    /\ at[u] = "using"
    /\ available' = PutBack(held[u])
    /\ held' = [held EXCEPT ![u] = None]
    /\ at' = [at EXCEPT ![u] = "idle"]
    /\ UNCHANGED <<opened, closed, connections, expired, toClose, snapshot, prewarm>>

\* It ends with an exception.
RemoveAndLeave(u) ==
    /\ at[u] = "using"
    /\ Remove(held[u])
    /\ held' = [held EXCEPT ![u] = None]
    /\ at' = [at EXCEPT ![u] = "idle"]
    /\ UNCHANGED <<opened, closed, snapshot, prewarm>>

\* The user calls remove(conn) itself, so as to reconnect, and ends normally later.
RemoveHeld(u) ==
    /\ at[u] = "using"
    /\ held[u] \in connections
    /\ Remove(held[u])
    /\ UNCHANGED <<opened, closed, at, snapshot, held, prewarm>>

-----------------------------------------------------------------------------
(* The owner *)

\* max_session_duration passes for a connection.
Expire(c) ==
    /\ c \in connections \ expired
    /\ expired' = expired \cup {c}
    /\ UNCHANGED <<opened, closed, connections, available, toClose, at, snapshot, held,
                   prewarm>>

\* Mutant: invalidate() leaves what is available.
KeptAvailable == available

KeptByInvalidate == {}

\* invalidate(): every connection, in use or not, is queued for closing.
InvalidateAll ==
    /\ toClose' = toClose \cup connections
    /\ connections' = {} /\ expired' = {}
    /\ available' = KeptByInvalidate

Invalidate ==
    /\ InvalidateAll
    /\ UNCHANGED <<opened, closed, at, snapshot, held, prewarm>>

\* prewarm(): once per pool, and only when there is no connection.
Prewarm ==
    /\ prewarm = "none" /\ connections = {}
    /\ prewarm' = "created"
    /\ UNCHANGED <<opened, closed, connections, expired, available, toClose, at,
                   snapshot, held>>

\* The task of prewarm() starts: get() may have opened a connection meanwhile.
PrewarmStart ==
    /\ prewarm = "created"
    /\ prewarm' = IF connections = {} THEN "connecting" ELSE "done"
    /\ UNCHANGED <<opened, closed, connections, expired, available, toClose, at,
                   snapshot, held>>

PrewarmConnected ==
    /\ prewarm = "connecting"
    /\ opened < MaxConn
    /\ opened' = opened + 1
    /\ connections' = connections \cup {opened'}
    /\ available' = available \cup {opened'}
    /\ prewarm' = "done"
    /\ UNCHANGED <<closed, expired, toClose, at, snapshot, held>>

\* connect_cb failed, or aclose() cancelled the task.
PrewarmEnds ==
    /\ prewarm \in {"created", "connecting"}
    /\ prewarm = "created" => at[Owner] = "cancelling"
    /\ prewarm' = "done"
    /\ UNCHANGED <<opened, closed, connections, expired, available, toClose, at,
                   snapshot, held>>

\* aclose() cancels the task of prewarm() and waits for it.
CloseStart ==
    /\ at[Owner] = "idle"
    /\ at' = [at EXCEPT ![Owner] = "cancelling"]
    /\ UNCHANGED <<opened, closed, connections, expired, available, toClose, snapshot,
                   held, prewarm>>

\* Then it invalidates the pool and drains it.
CloseDrain ==
    /\ at[Owner] = "cancelling"
    /\ prewarm \in {"none", "done"}
    /\ InvalidateAll
    /\ snapshot' = [snapshot EXCEPT ![Owner] = toClose']
    /\ at' = [at EXCEPT ![Owner] = IF toClose' = {} THEN "idle" ELSE "draining"]
    /\ UNCHANGED <<opened, closed, held, prewarm>>

\* The last close_cb of aclose() returns.
CloseLastOfClose(c) ==
    /\ at[Owner] = "draining"
    /\ snapshot[Owner] = {c}
    /\ closed' = closed \cup {c}
    /\ snapshot' = [snapshot EXCEPT ![Owner] = {}]
    /\ toClose' = {}
    /\ at' = [at EXCEPT ![Owner] = "idle"]
    /\ UNCHANGED <<opened, connections, expired, available, held, prewarm>>

-----------------------------------------------------------------------------
UserStep(u) ==
    \/ GetNow(u) \/ GetDraining(u)
    \/ \E c \in Conn : CloseLastOfGet(u, c)
    \/ Connected(u) \/ ConnectFails(u)
    \/ Put(u) \/ RemoveAndLeave(u) \/ RemoveHeld(u)

OwnerStep ==
    \/ Invalidate
    \/ Prewarm \/ PrewarmStart \/ PrewarmConnected \/ PrewarmEnds
    \/ CloseStart \/ CloseDrain
    \/ \E c \in Conn : CloseLastOfClose(c)

Next ==
    \/ \E u \in User : UserStep(u)
    \/ OwnerStep
    \/ \E t \in Closer : DrainFails(t) \/ \E c \in Conn : CloseOne(t, c)
    \/ \E c \in Conn : Expire(c)

Spec == Init /\ [][Next]_vars

-----------------------------------------------------------------------------
(* Properties *)

Closing == UNION {snapshot[t] : t \in Closer}

\* The type invariant.  get() reads _connections[conn] of what it pops from
\* _available: it never raises KeyError, since what is available is tracked.
TypeOK ==
    /\ opened \in 0 .. MaxConn
    /\ closed \subseteq 1 .. opened /\ toClose \subseteq 1 .. opened
    /\ connections \subseteq 1 .. opened
    /\ expired \subseteq connections /\ available \subseteq connections
    /\ at \in [Closer -> {"idle", "draining", "connecting", "using", "cancelling"}]
    /\ snapshot \in [Closer -> SUBSET (1 .. opened)]
    /\ held \in [User -> {None} \cup 1 .. opened]
    /\ prewarm \in {"none", "created", "connecting", "done"}

\* A connection serves one user at a time, across reuse, removal, invalidation
\* and prewarming: two never hold it, and what is held is not available.
ExclusiveUse ==
    \A u \in User : held[u] # None =>
        /\ held[u] \notin available
        /\ \A v \in User : held[v] = held[u] => v = u

\* get() never returns a connection that is closed, queued for closing, or about
\* to be closed by another task that is draining.
NeverHandsOutClosing ==
    [][\A u \in User : held'[u] # held[u] /\ held'[u] # None
          => held'[u] \notin closed' \cup toClose' \cup Closing']_vars

\* A connection stops being tracked only by being queued for closing.
RemovedIsQueued == [][connections \ connections' \subseteq toClose']_vars

\* No connection is leaked: an open one is tracked, or queued for closing, or in
\* the copy of a task that is closing it ("Marks the connection to be closed
\* during the next drain cycle").
NothingLeaked ==
    \A c \in (1 .. opened) \ closed : c \in connections \cup toClose \cup Closing
=============================================================================
