------------------------- MODULE ConnectionPoolProofs -------------------------
(***************************************************************************)
(* Theorems of ConnectionPool, for every set of users and every number of  *)
(* connections.  TypeOK /\ ExclusiveUse is inductive; with Separate, which *)
(* says that a tracked connection is not on its way to be closed, it gives *)
(* that get() never returns a connection somebody closes.                  *)
(***************************************************************************)
EXTENDS ConnectionPool, TLAPS

\* A tracked connection is in no list of connections to close.
Separate ==
    /\ connections \cap closed = {} /\ connections \cap toClose = {}
    /\ \A t \in Closer : connections \cap snapshot[t] = {}

PoolInv == TypeOK /\ ExclusiveUse /\ Separate

-----------------------------------------------------------------------------
\* The expired S were removed, then c was taken, or none was left.
Took(u, q, S, c) ==
    /\ c \notin S
    /\ connections' = connections \ S
    /\ expired' = expired \ S
    /\ available' = available \ (S \cup {c})
    /\ toClose' = q \cup S
    /\ \/ held' = [held EXCEPT ![u] = c] /\ c # None
       \/ held' = held /\ c = None
    /\ \/ at' = [at EXCEPT ![u] = "using"]
       \/ at' = [at EXCEPT ![u] = "connecting"]

\* What taking a connection does, whoever takes it and whatever q it found.
LEMMA Taking ==
    ASSUME PoolInv, NEW u \in User, NEW q, TakeOrOpen(u, q)
    PROVE  \E S \in SUBSET available, c \in {None} \cup available : Took(u, q, S, c)
  <1>1. None \notin available
    BY PoolAssumption DEF PoolInv, TypeOK, None, Conn
  <1>2. CASE Reuse(u, q)
    <2>1. PICK c \in available \ expired, S \in SUBSET (available \cap expired) :
             /\ connections' = connections \ S
             /\ expired' = expired \ S
             /\ available' = available \ (S \cup {c})
             /\ toClose' = q \cup S
             /\ held' = [held EXCEPT ![u] = c]
             /\ at' = [at EXCEPT ![u] = "using"]
      BY <1>2 DEF Reuse
    <2>2. S \in SUBSET available /\ c \in available \ S /\ c # None
      BY <2>1, <1>1
    <2> QED BY <2>1, <2>2 DEF Took
  <1>3. CASE OpenNew(u, q)
    <2>1. available \ (available \cup {None}) = {}
      OBVIOUS
    <2> QED BY <1>1, <1>3, <2>1 DEF OpenNew, Took
  <1> QED BY <1>2, <1>3 DEF TakeOrOpen

\* Taking keeps the invariant, if q holds no tracked connection.
LEMMA TakingKeeps ==
    ASSUME PoolInv, NEW u \in User, NEW q \in SUBSET (1 .. opened),
           connections \cap q = {}, TakeOrOpen(u, q),
           opened' = opened, prewarm' = prewarm,
           closed \subseteq closed', closed' \subseteq 1 .. opened,
           connections \cap closed' = {},
           snapshot' \in [Closer -> SUBSET (1 .. opened)],
           \A t \in Closer : connections \cap snapshot'[t] = {}
    PROVE  PoolInv'
  <1>1. PICK S \in SUBSET available, c \in {None} \cup available : Took(u, q, S, c)
    BY Taking
  <1>2. u \in Closer
    BY DEF Closer
  <1>3. TypeOK'
    <2>1. /\ connections' \subseteq 1 .. opened' /\ expired' \subseteq connections'
          /\ available' \subseteq connections' /\ toClose' \subseteq 1 .. opened'
      BY <1>1 DEF Took, PoolInv, TypeOK
    <2>2. at' \in [Closer -> {"idle", "draining", "connecting", "using", "cancelling"}]
      BY <1>1, <1>2 DEF Took, PoolInv, TypeOK
    <2>3. held' \in [User -> {None} \cup 1 .. opened']
      BY <1>1 DEF Took, PoolInv, TypeOK
    <2> QED BY <2>1, <2>2, <2>3 DEF PoolInv, TypeOK
  <1>4. ExclusiveUse'
    BY <1>1 DEF Took, PoolInv, TypeOK, ExclusiveUse
  <1>5. Separate'
    BY <1>1 DEF Took, PoolInv, TypeOK, Separate
  <1> QED BY <1>3, <1>4, <1>5 DEF PoolInv

\* The empty pool satisfies the invariant.
LEMMA InitPool == Init => PoolInv
  BY PoolAssumption DEF Init, PoolInv, TypeOK, ExclusiveUse, Separate, Closer, Conn, None

-----------------------------------------------------------------------------
\* The steps that close connections keep the invariant.
LEMMA ClosingKeeps ==
    ASSUME PoolInv, NEW t \in Closer, NEW c \in Conn,
           CloseOne(t, c) \/ DrainFails(t) \/ CloseLastOfClose(c)
    PROVE  PoolInv'
  <1>0. Owner \in Closer
    BY DEF Closer
  <1>1. CASE CloseOne(t, c)
    <2>1. TypeOK'
      BY <1>1 DEF CloseOne, PoolInv, TypeOK
    <2>2. ExclusiveUse' /\ Separate'
      BY <1>1 DEF CloseOne, PoolInv, TypeOK, ExclusiveUse, Separate
    <2> QED BY <2>1, <2>2 DEF PoolInv
  <1>2. CASE DrainFails(t)
    <2>1. TypeOK'
      BY <1>2 DEF DrainFails, PoolInv, TypeOK
    <2>2. ExclusiveUse' /\ Separate'
      BY <1>2 DEF DrainFails, PoolInv, TypeOK, ExclusiveUse, Separate
    <2> QED BY <2>1, <2>2 DEF PoolInv
  <1>3. CASE CloseLastOfClose(c)
    <2>1. TypeOK'
      BY <1>0, <1>3 DEF CloseLastOfClose, PoolInv, TypeOK
    <2>2. ExclusiveUse' /\ Separate'
      BY <1>0, <1>3 DEF CloseLastOfClose, PoolInv, TypeOK, ExclusiveUse, Separate
    <2> QED BY <2>1, <2>2 DEF PoolInv
  <1> QED BY <1>1, <1>2, <1>3

\* The steps of a user keep the invariant.
LEMMA UserKeeps ==
    ASSUME PoolInv, NEW u \in User, UserStep(u)
    PROVE  PoolInv'
  <1>0. u \in Closer
    BY DEF Closer
  <1>1. CASE GetNow(u)
    BY <1>1, TakingKeeps DEF GetNow, PoolInv, TypeOK, Separate
  <1>2. CASE GetDraining(u)
    <2>1. TypeOK'
      BY <1>0, <1>2 DEF GetDraining, PoolInv, TypeOK
    <2>2. ExclusiveUse' /\ Separate'
      BY <1>0, <1>2 DEF GetDraining, PoolInv, TypeOK, ExclusiveUse, Separate
    <2> QED BY <2>1, <2>2 DEF PoolInv
  <1>3. ASSUME NEW c \in Conn, CloseLastOfGet(u, c)
        PROVE  PoolInv'
    <2>1. c \in 1 .. opened /\ c \notin connections
      BY <1>0, <1>3 DEF CloseLastOfGet, PoolInv, TypeOK, Separate
    <2>2. /\ closed' \subseteq 1 .. opened /\ connections \cap closed' = {}
          /\ closed \subseteq closed'
      BY <1>3, <2>1 DEF CloseLastOfGet, PoolInv, TypeOK, Separate
    <2>3. /\ snapshot' \in [Closer -> SUBSET (1 .. opened)]
          /\ \A t \in Closer : connections \cap snapshot'[t] = {}
      BY <1>0, <1>3 DEF CloseLastOfGet, PoolInv, TypeOK, Separate
    <2>4. TakeOrOpen(u, {}) /\ opened' = opened /\ prewarm' = prewarm
      BY <1>3 DEF CloseLastOfGet
    <2> QED BY <2>2, <2>3, <2>4, TakingKeeps
  <1>4. CASE Connected(u)
    <2>1. opened + 1 \in Nat /\ opened + 1 \notin 1 .. opened /\ opened + 1 # None
      BY PoolAssumption DEF PoolInv, TypeOK, None
    <2>2. 1 .. opened' = (1 .. opened) \cup {opened + 1} /\ opened' \in 0 .. MaxConn
      BY <1>4, PoolAssumption DEF Connected, PoolInv, TypeOK
    <2>3. TypeOK'
      BY <1>0, <1>4, <2>2 DEF Connected, PoolInv, TypeOK
    <2>4. ExclusiveUse' /\ Separate'
      BY <1>0, <1>4, <2>1 DEF Connected, PoolInv, TypeOK, ExclusiveUse, Separate
    <2> QED BY <2>3, <2>4 DEF PoolInv
  <1>5. CASE ConnectFails(u)
    <2>1. TypeOK'
      BY <1>0, <1>5 DEF ConnectFails, PoolInv, TypeOK
    <2>2. ExclusiveUse' /\ Separate'
      BY <1>5 DEF ConnectFails, PoolInv, TypeOK, ExclusiveUse, Separate
    <2> QED BY <2>1, <2>2 DEF PoolInv
  <1>6. CASE Put(u)
    <2>1. available' = available \/ (held[u] \in connections /\ available' = available \cup {held[u]})
      BY <1>6, Zenon DEF Put, PutBack
    <2>2. TypeOK'
      BY <1>0, <1>6, <2>1 DEF Put, PoolInv, TypeOK
    <2>3. ExclusiveUse' /\ Separate'
      BY <1>6, <2>1 DEF Put, PoolInv, TypeOK, ExclusiveUse, Separate
    <2> QED BY <2>2, <2>3 DEF PoolInv
  <1>7. CASE RemoveAndLeave(u)
    <2>1. \/ held[u] \in connections /\ toClose' = toClose \cup {held[u]}
          \/ toClose' = toClose
      BY <1>7, Zenon DEF RemoveAndLeave, Remove, Queued
    <2>2. /\ available' = available \ {held[u]} /\ connections' = connections \ {held[u]}
          /\ expired' = expired \ {held[u]}
      BY <1>7 DEF RemoveAndLeave, Remove
    <2>3. TypeOK'
      BY <1>0, <1>7, <2>1, <2>2 DEF RemoveAndLeave, PoolInv, TypeOK
    <2>4. ExclusiveUse' /\ Separate'
      BY <1>7, <2>1, <2>2 DEF RemoveAndLeave, PoolInv, TypeOK, ExclusiveUse, Separate
    <2> QED BY <2>3, <2>4 DEF PoolInv
  <1>8. CASE RemoveHeld(u)
    <2>1. \/ held[u] \in connections /\ toClose' = toClose \cup {held[u]}
          \/ toClose' = toClose
      BY <1>8, Zenon DEF RemoveHeld, Remove, Queued
    <2>2. /\ available' = available \ {held[u]} /\ connections' = connections \ {held[u]}
          /\ expired' = expired \ {held[u]}
      BY <1>8 DEF RemoveHeld, Remove
    <2>3. TypeOK'
      BY <1>8, <2>1, <2>2 DEF RemoveHeld, PoolInv, TypeOK
    <2>4. ExclusiveUse' /\ Separate'
      BY <1>8, <2>1, <2>2 DEF RemoveHeld, PoolInv, TypeOK, ExclusiveUse, Separate
    <2> QED BY <2>3, <2>4 DEF PoolInv
  <1> QED BY <1>1, <1>2, <1>3, <1>4, <1>5, <1>6, <1>7, <1>8 DEF UserStep

\* The steps of the owner, but the last of aclose(), keep the invariant.
LEMMA OwnerKeeps ==
    ASSUME PoolInv,
           \/ Invalidate \/ Prewarm \/ PrewarmStart \/ PrewarmConnected
           \/ PrewarmEnds \/ CloseStart \/ CloseDrain
    PROVE  PoolInv'
  <1>0. Owner \in Closer
    BY DEF Closer
  <1>1. CASE Invalidate
    BY <1>1 DEF Invalidate, InvalidateAll, KeptByInvalidate, PoolInv, TypeOK,
                ExclusiveUse, Separate
  <1>2. CASE Prewarm
    BY <1>2 DEF Prewarm, PoolInv, TypeOK, ExclusiveUse, Separate
  <1>3. CASE PrewarmStart
    BY <1>3 DEF PrewarmStart, PoolInv, TypeOK, ExclusiveUse, Separate
  <1>4. CASE PrewarmConnected
    <2>1. opened + 1 \in Nat /\ opened + 1 \notin 1 .. opened /\ opened + 1 # None
      BY PoolAssumption DEF PoolInv, TypeOK, None
    <2>2. 1 .. opened' = (1 .. opened) \cup {opened + 1} /\ opened' \in 0 .. MaxConn
      BY <1>4, PoolAssumption DEF PrewarmConnected, PoolInv, TypeOK
    <2>3. TypeOK'
      BY <1>4, <2>2 DEF PrewarmConnected, PoolInv, TypeOK
    <2>4. ExclusiveUse' /\ Separate'
      BY <1>4, <2>1 DEF PrewarmConnected, PoolInv, TypeOK, ExclusiveUse, Separate
    <2> QED BY <2>3, <2>4 DEF PoolInv
  <1>5. CASE PrewarmEnds
    BY <1>5 DEF PrewarmEnds, PoolInv, TypeOK, ExclusiveUse, Separate
  <1>6. CASE CloseStart
    <2>1. TypeOK'
      BY <1>0, <1>6 DEF CloseStart, PoolInv, TypeOK
    <2> QED BY <1>6, <2>1 DEF CloseStart, PoolInv, ExclusiveUse, Separate
  <1>7. CASE CloseDrain
    <2>1. \/ at' = [at EXCEPT ![Owner] = "idle"]
          \/ at' = [at EXCEPT ![Owner] = "draining"]
      BY <1>7, Zenon DEF CloseDrain
    <2>2. /\ connections' = {} /\ expired' = {} /\ available' = {}
          /\ toClose' = toClose \cup connections
          /\ snapshot' = [snapshot EXCEPT ![Owner] = toClose \cup connections]
      BY <1>7 DEF CloseDrain, InvalidateAll, KeptByInvalidate
    <2>3. TypeOK'
      BY <1>0, <1>7, <2>1, <2>2 DEF CloseDrain, PoolInv, TypeOK
    <2>4. ExclusiveUse' /\ Separate'
      BY <1>7, <2>2 DEF CloseDrain, PoolInv, TypeOK, ExclusiveUse, Separate
    <2> QED BY <2>3, <2>4 DEF PoolInv
  <1> QED BY <1>1, <1>2, <1>3, <1>4, <1>5, <1>6, <1>7

\* Every step keeps the invariant.
LEMMA PoolStep == PoolInv /\ [Next]_vars => PoolInv'
  <1> SUFFICES ASSUME PoolInv, [Next]_vars PROVE PoolInv'
    OBVIOUS
  <1>1. CASE UNCHANGED vars
    BY <1>1 DEF vars, PoolInv, TypeOK, ExclusiveUse, Separate
  <1>2. ASSUME NEW u \in User, UserStep(u) PROVE PoolInv'
    BY <1>2, UserKeeps
  <1>3. CASE OwnerStep
    <2>1. ASSUME NEW c \in Conn, CloseLastOfClose(c) PROVE PoolInv'
      <3>1. Owner \in Closer
        BY DEF Closer
      <3> QED BY <2>1, <3>1, ClosingKeeps
    <2> QED BY <1>3, <2>1, OwnerKeeps DEF OwnerStep
  <1>4. ASSUME NEW t \in Closer, DrainFails(t) PROVE PoolInv'
    BY <1>4 DEF DrainFails, PoolInv, TypeOK, ExclusiveUse, Separate
  <1>5. ASSUME NEW t \in Closer, NEW c \in Conn, CloseOne(t, c) PROVE PoolInv'
    BY <1>5, ClosingKeeps
  <1>6. ASSUME NEW c \in Conn, Expire(c) PROVE PoolInv'
    BY <1>6 DEF Expire, PoolInv, TypeOK, ExclusiveUse, Separate
  <1> QED BY <1>1, <1>2, <1>3, <1>4, <1>5, <1>6 DEF Next

-----------------------------------------------------------------------------
\* The conjunction of the three invariants holds of every execution of the pool.
THEOREM PoolInvariant == Spec => []PoolInv
  BY InitPool, PoolStep, PTL DEF Spec

\* Every connection that get() pops from _available is tracked, so that reading
\* its age never raises KeyError.
THEOREM PoolTypeCorrect == Spec => []TypeOK
  <1>1. PoolInv => TypeOK
    BY DEF PoolInv
  <1> QED BY <1>1, PoolInvariant, PTL

\* A connection serves one user at a time.
THEOREM UseIsExclusive == Spec => []ExclusiveUse
  <1>1. PoolInv => ExclusiveUse
    BY DEF PoolInv
  <1> QED BY <1>1, PoolInvariant, PTL

\* What a step hands out is tracked after the step.
LEMMA HandedOutIsTracked ==
    ASSUME PoolInv, Next, NEW u \in User, held'[u] # held[u], held'[u] # None
    PROVE  held'[u] \in connections'
  <1>1. ASSUME NEW v \in User, NEW q, TakeOrOpen(v, q)
        PROVE  held'[u] \in connections'
    <2>1. PICK S \in SUBSET available, c \in {None} \cup available : Took(v, q, S, c)
      BY <1>1, Taking
    <2> QED BY <2>1 DEF Took, PoolInv, TypeOK
  <1>2. ASSUME NEW v \in User, UserStep(v)
        PROVE  held'[u] \in connections'
    BY <1>1, <1>2 DEF UserStep, GetNow, GetDraining, CloseLastOfGet, Connected,
       ConnectFails, Put, RemoveAndLeave, RemoveHeld, PoolInv, TypeOK
  <1>3. ~OwnerStep
    BY DEF OwnerStep, Invalidate, Prewarm, PrewarmStart, PrewarmConnected, PrewarmEnds,
       CloseStart, CloseDrain, CloseLastOfClose
  <1> QED BY <1>2, <1>3 DEF Next, CloseOne, DrainFails, Expire

\* get() never returns a connection that is closed, queued for closing, or being
\* closed by another task that drains.
THEOREM ClosingIsNeverHandedOut == Spec => NeverHandsOutClosing
  <1>1. ASSUME PoolInv, PoolInv', [Next]_vars
        PROVE  [\A u \in User : held'[u] # held[u] /\ held'[u] # None
                  => held'[u] \notin closed' \cup toClose' \cup Closing']_vars
    <2> SUFFICES ASSUME Next, NEW u \in User, held'[u] # held[u], held'[u] # None
                 PROVE  held'[u] \notin closed' \cup toClose' \cup Closing'
      BY <1>1
    <2>1. held'[u] \in connections'
      BY <1>1, HandedOutIsTracked
    <2> QED BY <1>1, <2>1 DEF PoolInv, Separate, Closing
  <1> QED BY <1>1, PoolInvariant, PTL DEF Spec, NeverHandsOutClosing

\* A connection that stops being tracked is queued for closing.
THEOREM RemovalIsQueued == Spec => RemovedIsQueued
  <1>1. ASSUME PoolInv, [Next]_vars
        PROVE  [connections \ connections' \subseteq toClose']_vars
    <2> SUFFICES ASSUME Next PROVE connections \ connections' \subseteq toClose'
      BY <1>1
    <2>1. ASSUME NEW v \in User, NEW q, TakeOrOpen(v, q)
          PROVE  connections \ connections' \subseteq toClose'
      BY <2>1, <1>1, Taking DEF Took
    <2>2. ASSUME NEW v \in User, UserStep(v)
          PROVE  connections \ connections' \subseteq toClose'
      BY <2>1, <2>2 DEF UserStep, GetNow, GetDraining, CloseLastOfGet, Connected,
         ConnectFails, Put, RemoveAndLeave, RemoveHeld, Remove, Queued
    <2>3. CASE OwnerStep
      BY <2>3 DEF OwnerStep, Invalidate, InvalidateAll, Prewarm, PrewarmStart,
         PrewarmConnected, PrewarmEnds, CloseStart, CloseDrain, CloseLastOfClose
    <2> QED BY <2>2, <2>3 DEF Next, CloseOne, DrainFails, Expire
  <1> QED BY <1>1, PoolInvariant, PTL DEF Spec, RemovedIsQueued
=============================================================================
