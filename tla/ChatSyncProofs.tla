--------------------------- MODULE ChatSyncProofs ---------------------------
(***************************************************************************)
(* What holds of the chat of a realtime session, the component ChatSync of *)
(* MCServices, for every value of the constants: the recursions that the   *)
(* diff and the local list are computed with exist and compute what they   *)
(* say, although no induction theorem can be used; a message makes one     *)
(* chat of another; and the messages and events on their way lead from     *)
(* what one side has to what the other wants.                              *)
(***************************************************************************)
EXTENDS MCServices, SequenceTheorems, FiniteSetTheorems, WellFoundedInduction, TLAPS

-----------------------------------------------------------------------------
(* Sequences without an element, and with one more *)

\* A sequence without its element at a position.
LEMMA Removed ==
    ASSUME NEW S, NEW s \in Seq(S), NEW n \in 1 .. Len(s)
    PROVE  LET r == SubSeq(s, 1, n - 1) \o SubSeq(s, n + 1, Len(s))
           IN /\ r \in Seq(S) /\ Len(r) = Len(s) - 1
              /\ \A i \in 1 .. Len(s) - 1 : r[i] = IF i < n THEN s[i] ELSE s[i + 1]
<1> DEFINE u == SubSeq(s, 1, n - 1)
           v == SubSeq(s, n + 1, Len(s))
<1>1. Len(s) \in Nat /\ n \in Nat /\ \A i \in 1 .. Len(s) : s[i] \in S
  BY ElementOfSeq, LenProperties
<1>2. u \in Seq(S) /\ Len(u) = n - 1 /\ \A i \in 1 .. n - 1 : u[i] = s[i]
  <2>1. \A i \in 1 .. n - 1 : s[i] \in S
    BY <1>1
  <2>2. /\ u \in Seq(S) /\ Len(u) = (IF 1 <= n - 1 THEN n - 1 - 1 + 1 ELSE 0)
        /\ \A i \in 1 .. n - 1 - 1 + 1 : u[i] = s[1 + i - 1]
    BY <1>1, <2>1, SubSeqProperties
  <2>3. QED
    BY <1>1, <2>2
<1>3. v \in Seq(S) /\ Len(v) = Len(s) - n /\ \A i \in 1 .. Len(s) - n : v[i] = s[n + i]
  <2>1. \A i \in n + 1 .. Len(s) : s[i] \in S
    BY <1>1
  <2>2. /\ v \in Seq(S) /\ Len(v) = (IF n + 1 <= Len(s) THEN Len(s) - (n + 1) + 1 ELSE 0)
        /\ \A i \in 1 .. Len(s) - (n + 1) + 1 : v[i] = s[n + 1 + i - 1]
    BY <1>1, <2>1, SubSeqProperties
  <2>3. QED
    BY <1>1, <2>2
<1>4. /\ u \o v \in Seq(S) /\ Len(u \o v) = Len(u) + Len(v)
      /\ \A i \in 1 .. Len(u) + Len(v) :
           (u \o v)[i] = IF i <= Len(u) THEN u[i] ELSE v[i - Len(u)]
  BY <1>2, <1>3, ConcatProperties
<1> HIDE DEF u, v
<1>5. ASSUME NEW i \in 1 .. Len(s) - 1
      PROVE  (u \o v)[i] = IF i < n THEN s[i] ELSE s[i + 1]
  <2>1. i \in 1 .. Len(u) + Len(v)
    BY <1>1, <1>2, <1>3
  <2>2. CASE i < n
    BY <1>1, <1>2, <1>4, <2>1, <2>2
  <2>3. CASE ~(i < n)
    <3>1. (u \o v)[i] = v[i - (n - 1)] /\ i - (n - 1) \in 1 .. Len(s) - n
      BY <1>1, <1>2, <1>4, <2>1, <2>3
    <3>2. v[i - (n - 1)] = s[n + (i - (n - 1))] /\ n + (i - (n - 1)) = i + 1
      BY <1>1, <1>3, <3>1
    <3>3. QED
      BY <2>3, <3>1, <3>2
  <2>4. QED
    BY <2>2, <2>3
<1>6. /\ u \o v \in Seq(S) /\ Len(u \o v) = Len(s) - 1
      /\ \A i \in 1 .. Len(s) - 1 : (u \o v)[i] = IF i < n THEN s[i] ELSE s[i + 1]
  BY <1>1, <1>2, <1>3, <1>4, <1>5
<1>7. QED
  BY <1>6 DEF u, v

\* The sequence d is c with e at the place n.
Adds(S, c, d, n, e) ==
    /\ d \in Seq(S) /\ Len(d) = Len(c) + 1
    /\ \A i \in 1 .. Len(c) + 1 : d[i] = IF i < n THEN c[i] ELSE IF i = n THEN e ELSE c[i - 1]

\* A sequence with an element inserted at a position.
LEMMA Inserted ==
    ASSUME NEW S, NEW s \in Seq(S), NEW n \in 1 .. Len(s) + 1, NEW e \in S
    PROVE  Adds(S, s, SubSeq(s, 1, n - 1) \o <<e>> \o SubSeq(s, n, Len(s)), n, e)
<1> DEFINE u == SubSeq(s, 1, n - 1)
           v == SubSeq(s, n, Len(s))
<1>1. Len(s) \in Nat /\ n \in Nat /\ \A i \in 1 .. Len(s) : s[i] \in S
  BY ElementOfSeq, LenProperties
<1>2. u \in Seq(S) /\ Len(u) = n - 1 /\ \A i \in 1 .. n - 1 : u[i] = s[i]
  <2>1. \A i \in 1 .. n - 1 : s[i] \in S
    BY <1>1
  <2>2. /\ u \in Seq(S) /\ Len(u) = (IF 1 <= n - 1 THEN n - 1 - 1 + 1 ELSE 0)
        /\ \A i \in 1 .. n - 1 - 1 + 1 : u[i] = s[1 + i - 1]
    BY <1>1, <2>1, SubSeqProperties
  <2>3. QED
    BY <1>1, <2>2
<1>3. v \in Seq(S) /\ Len(v) = Len(s) - n + 1 /\ \A i \in 1 .. Len(s) - n + 1 : v[i] = s[n + i - 1]
  <2>1. \A i \in n .. Len(s) : s[i] \in S
    BY <1>1
  <2>2. /\ v \in Seq(S) /\ Len(v) = (IF n <= Len(s) THEN Len(s) - n + 1 ELSE 0)
        /\ \A i \in 1 .. Len(s) - n + 1 : v[i] = s[n + i - 1]
    BY <1>1, <2>1, SubSeqProperties
  <2>3. QED
    BY <1>1, <2>2
<1>4. /\ Append(u, e) \in Seq(S) /\ Len(Append(u, e)) = n
      /\ \A i \in 1 .. n : Append(u, e)[i] = IF i = n THEN e ELSE s[i]
  BY <1>1, <1>2, AppendProperties
<1>5. u \o <<e>> = Append(u, e)
  BY <1>2, AppendIsConcat
<1> DEFINE w == Append(u, e)
<1>6. /\ w \o v \in Seq(S) /\ Len(w \o v) = Len(w) + Len(v)
      /\ \A i \in 1 .. Len(w) + Len(v) :
           (w \o v)[i] = IF i <= Len(w) THEN w[i] ELSE v[i - Len(w)]
  BY <1>3, <1>4, ConcatProperties
<1> HIDE DEF u, v
<1>7. ASSUME NEW i \in 1 .. Len(s) + 1
      PROVE  (w \o v)[i] = IF i < n THEN s[i] ELSE IF i = n THEN e ELSE s[i - 1]
  <2> HIDE DEF w
  <2>1. i \in 1 .. Len(w) + Len(v) /\ Len(w) = n
    BY <1>1, <1>3, <1>4 DEF w
  <2>2. CASE i <= n
    <3>1. (w \o v)[i] = w[i]
      BY <1>1, <1>6, <2>1, <2>2
    <3>2. w[i] = IF i = n THEN e ELSE s[i]
      BY <1>1, <1>4, <2>2 DEF w
    <3>3. QED
      BY <1>1, <2>2, <3>1, <3>2
  <2>3. CASE ~(i <= n)
    <3>1. (w \o v)[i] = v[i - n] /\ i - n \in 1 .. Len(s) - n + 1
      BY <1>1, <1>6, <2>1, <2>3
    <3>2. v[i - n] = s[n + (i - n) - 1] /\ n + (i - n) - 1 = i - 1
      BY <1>1, <1>3, <3>1
    <3>3. QED
      BY <1>1, <2>3, <3>1, <3>2
  <2>4. QED
    BY <1>1, <2>2, <2>3
<1> HIDE DEF w
<1>8. /\ w \o v \in Seq(S) /\ Len(w \o v) = Len(s) + 1
      /\ \A i \in 1 .. Len(s) + 1 :
           (w \o v)[i] = IF i < n THEN s[i] ELSE IF i = n THEN e ELSE s[i - 1]
  <2>1. Len(w) = n
    BY <1>4 DEF w
  <2>2. QED
    BY <1>1, <1>3, <1>6, <1>7, <2>1
<1>9. Adds(S, s, w \o v, n, e)
  BY <1>8 DEF Adds
<1>10. QED
  BY <1>5, <1>9 DEF u, v, w

-----------------------------------------------------------------------------
(* The chat: recursion, and the items of a chat *)

\* What holds of 0, and of each number when it holds of the one before, holds up to N.
LEMMA Reaches ==
    ASSUME NEW T \in SUBSET Nat, NEW N \in Nat, 0 \in T,
           \A n \in 1 .. N : n - 1 \in T => n \in T
    PROVE  \A n \in 0 .. N : n \in T
<1> SUFFICES ASSUME \E n \in 0 .. N : n \notin T PROVE FALSE
  OBVIOUS
<1> DEFINE S == {n \in 0 .. N : n \notin T}
<1>1. PICK m \in S : \A q \in S : <<q, m>> \notin OpToRel(<, Nat)
  <2>1. S \in SUBSET Nat /\ S # {}
    OBVIOUS
  <2>2. QED
    BY <2>1, NatLessThanWellFounded, WFMin, Zenon
<1>2. m - 1 \notin S \/ m = 0
  <2>1. ASSUME m # 0, m - 1 \in S PROVE FALSE
    <3>1. <<m - 1, m>> \in OpToRel(<, Nat)
      BY <2>1 DEF OpToRel
    <3>2. QED
      BY <1>1, <2>1, <3>1
  <2>2. QED
    BY <2>1
<1>3. QED
  BY <1>2

\* A function may be defined by recursion over 0 .. N.
Recursion(V, a, N) ==
    \A G \in [1 .. N -> [V -> V]] :
      \E f \in [0 .. N -> V] : f[0] = a /\ \A n \in 1 .. N : f[n] = G[n][f[n - 1]]

\* What is computed from one number to the next exists up to any number.
LEMMA RecursionExists == ASSUME NEW V, NEW a \in V, NEW N \in Nat PROVE Recursion(V, a, N)
<1> SUFFICES ASSUME NEW G \in [1 .. N -> [V -> V]]
             PROVE  \E f \in [0 .. N -> V] : f[0] = a /\ \A n \in 1 .. N : f[n] = G[n][f[n - 1]]
  BY DEF Recursion
<1> DEFINE Is(f, m) == f \in [0 .. m -> V] /\ f[0] = a /\ \A n \in 1 .. m : f[n] = G[n][f[n - 1]]
           T == {m \in Nat : \E f : Is(f, m)}
<1>1. 0 \in T
  <2>1. Is([n \in 0 .. 0 |-> a], 0)
    OBVIOUS
  <2>2. QED
    BY <2>1
<1>2. ASSUME NEW m \in 1 .. N, m - 1 \in T PROVE m \in T
  <2>1. PICK f : Is(f, m - 1)
    BY <1>2
  <2> DEFINE g == [n \in 0 .. m |-> IF n = m THEN G[m][f[m - 1]] ELSE f[n]]
  <2>2. g \in [0 .. m -> V]
    <3>1. G[m][f[m - 1]] \in V
      BY <2>1
    <3>2. \A n \in 0 .. m : n # m => f[n] \in V
      BY <2>1
    <3>3. QED
      BY <3>1, <3>2
  <2>3. g[0] = a
    BY <2>1
  <2>4. ASSUME NEW n \in 1 .. m PROVE g[n] = G[n][g[n - 1]]
    BY <2>1
  <2>5. Is(g, m)
    BY <2>2, <2>3, <2>4
  <2>6. m \in Nat
    OBVIOUS
  <2> HIDE DEF Is, g
  <2>7. QED
    BY <2>5, <2>6
<1> HIDE DEF T
<1>3. N \in T
  <2>1. T \in SUBSET Nat
    BY DEF T
  <2>2. \A n \in 0 .. N : n \in T
    BY <1>1, <1>2, <2>1, Reaches
  <2>3. QED
    BY <2>2
<1>4. QED
  BY <1>3 DEF T

\* And over a grid, from the neighbours on the left, above and between.
Grid(V, a, M, N) ==
    \A G \in [1 .. M -> [1 .. N -> [V \X V \X V -> V]]] :
      \E f \in [(0 .. M) \X (0 .. N) -> V] :
        /\ \A i \in 0 .. M, j \in 0 .. N : i = 0 \/ j = 0 => f[<<i, j>>] = a
        /\ \A i \in 1 .. M, j \in 1 .. N :
             f[<<i, j>>] = G[i][j][<<f[<<i - 1, j - 1>>], f[<<i - 1, j>>], f[<<i, j - 1>>]>>]

\* What is computed from a cell's three neighbours exists for any table.
LEMMA GridExists ==
    ASSUME NEW V, NEW a \in V, NEW M \in Nat, NEW N \in Nat PROVE Grid(V, a, M, N)
<1> SUFFICES ASSUME NEW G \in [1 .. M -> [1 .. N -> [V \X V \X V -> V]]]
             PROVE  \E f \in [(0 .. M) \X (0 .. N) -> V] :
                      /\ \A i \in 0 .. M, j \in 0 .. N : i = 0 \/ j = 0 => f[<<i, j>>] = a
                      /\ \A i \in 1 .. M, j \in 1 .. N :
                           f[<<i, j>>] = G[i][j][<<f[<<i - 1, j - 1>>], f[<<i - 1, j>>], f[<<i, j - 1>>]>>]
  BY DEF Grid
<1> DEFINE Row == [0 .. N -> V]
           Follows(i, r, s) == s[0] = a /\ \A j \in 1 .. N : s[j] = G[i][j][<<r[j - 1], r[j], s[j - 1]>>]
<1>1. ASSUME NEW i \in 1 .. M, NEW r \in Row PROVE \E s \in Row : Follows(i, r, s)
  <2> DEFINE H == [j \in 1 .. N |-> [x \in V |-> G[i][j][<<r[j - 1], r[j], x>>]]]
  <2>1. H \in [1 .. N -> [V -> V]]
    <3>1. ASSUME NEW j \in 1 .. N, NEW x \in V PROVE G[i][j][<<r[j - 1], r[j], x>>] \in V
      <4>1. j - 1 \in 0 .. N /\ j \in 0 .. N
        OBVIOUS
      <4>2. <<r[j - 1], r[j], x>> \in V \X V \X V
        BY <4>1
      <4>3. G[i][j] \in [V \X V \X V -> V]
        OBVIOUS
      <4>4. QED
        BY <4>2, <4>3
    <3>2. QED
      BY <3>1
  <2>2. PICK s \in Row : s[0] = a /\ \A j \in 1 .. N : s[j] = H[j][s[j - 1]]
    <3> HIDE DEF H
    <3>1. Recursion(V, a, N)
      BY RecursionExists
    <3>2. QED
      BY <2>1, <3>1, Zenon DEF Recursion
  <2>3. ASSUME NEW j \in 1 .. N PROVE s[j] = G[i][j][<<r[j - 1], r[j], s[j - 1]>>]
    <3>1. s[j - 1] \in V
      OBVIOUS
    <3>2. QED
      BY <2>2, <3>1
  <2>4. QED
    BY <2>2, <2>3
<1> HIDE DEF Follows
<1> DEFINE K == [i \in 1 .. M |-> [r \in Row |-> CHOOSE s \in Row : Follows(i, r, s)]]
           border == [j \in 0 .. N |-> a]
<1>2. K \in [1 .. M -> [Row -> Row]] /\ border \in Row
  BY <1>1
<1>3. PICK f \in [0 .. M -> Row] : f[0] = border /\ \A i \in 1 .. M : f[i] = K[i][f[i - 1]]
  <2> HIDE DEF K, Row, border
  <2>1. Recursion(Row, border, M)
    BY <1>2, RecursionExists
  <2>2. QED
    BY <1>2, <2>1, Zenon DEF Recursion
<1>4. ASSUME NEW i \in 1 .. M PROVE Follows(i, f[i - 1], f[i])
  <2>1. f[i - 1] \in Row
    OBVIOUS
  <2>2. f[i] = CHOOSE s \in Row : Follows(i, f[i - 1], s)
    BY <1>3, <2>1
  <2> HIDE DEF Row
  <2>3. QED
    BY <1>1, <2>1, <2>2
<1> DEFINE g == [c \in (0 .. M) \X (0 .. N) |-> f[c[1]][c[2]]]
<1>5. \A i \in 0 .. M, j \in 0 .. N : g[<<i, j>>] = f[i][j] /\ g[<<i, j>>] \in V
  OBVIOUS
<1>6. g \in [(0 .. M) \X (0 .. N) -> V]
  BY <1>5
<1> HIDE DEF g, K
<1>7. ASSUME NEW i \in 0 .. M, NEW j \in 0 .. N, i = 0 \/ j = 0 PROVE g[<<i, j>>] = a
  <2>1. CASE i = 0
    BY <1>3, <1>5, <2>1
  <2>2. CASE i # 0
    <3>1. i \in 1 .. M /\ j = 0
      BY <1>7, <2>2
    <3>2. f[i][0] = a
      BY <1>4, <3>1 DEF Follows
    <3>3. QED
      BY <1>5, <3>1, <3>2
  <2>3. QED
    BY <2>1, <2>2
<1>8. ASSUME NEW i \in 1 .. M, NEW j \in 1 .. N
      PROVE  g[<<i, j>>] = G[i][j][<<g[<<i - 1, j - 1>>], g[<<i - 1, j>>], g[<<i, j - 1>>]>>]
  <2>1. i \in 0 .. M /\ j \in 0 .. N /\ i - 1 \in 0 .. M /\ j - 1 \in 0 .. N
    OBVIOUS
  <2>2. f[i][j] = G[i][j][<<f[i - 1][j - 1], f[i - 1][j], f[i][j - 1]>>]
    BY <1>4 DEF Follows
  <2>3. /\ g[<<i, j>>] = f[i][j] /\ g[<<i - 1, j - 1>>] = f[i - 1][j - 1]
        /\ g[<<i - 1, j>>] = f[i - 1][j] /\ g[<<i, j - 1>>] = f[i][j - 1]
    BY <1>5, <2>1
  <2>4. QED
    BY <2>2, <2>3
<1>9. QED
  BY <1>6, <1>7, <1>8

\* The items of a chat up to n that are in a set, at their places in it.
Selects(o, chat, chosen, n, at) ==
    /\ o \in Seq(Items) /\ at \in [1 .. Len(o) -> 1 .. n]
    /\ \A k \in 1 .. Len(o) : o[k] = chat[at[k]] /\ o[k] \in chosen
    /\ \A k, l \in 1 .. Len(o) : k < l => at[k] < at[l]
    /\ \A m \in 1 .. n : chat[m] \in chosen => \E k \in 1 .. Len(o) : at[k] = m

\* What Only does of a chat, up to each item.
UpTo(f, chat, chosen) ==
    /\ f \in [0 .. Len(chat) -> Seq(Items)] /\ f[0] = <<>>
    /\ \A n \in 1 .. Len(chat) :
         f[n] = IF chat[n] \in chosen THEN Append(f[n - 1], chat[n]) ELSE f[n - 1]

\* Only is what its recursion computes at the end of the chat.
LEMMA OnlyIs ==
    ASSUME NEW chat \in Seq(Items), NEW chosen
    PROVE  \E f : UpTo(f, chat, chosen) /\ Chat!Only(chat, chosen) = f[Len(chat)]
<1> DEFINE N == Len(chat)
           Body(f) == [n \in 0 .. N |->
                         IF n = 0 THEN <<>>
                         ELSE IF chat[n] \in chosen THEN Append(f[n - 1], chat[n]) ELSE f[n - 1]]
           G == [n \in 1 .. N |-> [s \in Seq(Items) |->
                         IF chat[n] \in chosen THEN Append(s, chat[n]) ELSE s]]
<1>1. N \in Nat /\ \A n \in 1 .. N : chat[n] \in Items
  BY ElementOfSeq, LenProperties
<1>2. G \in [1 .. N -> [Seq(Items) -> Seq(Items)]]
  <2>1. ASSUME NEW n \in 1 .. N, NEW s \in Seq(Items) PROVE Append(s, chat[n]) \in Seq(Items)
    BY <1>1, AppendProperties
  <2> HIDE DEF N
  <2>2. QED
    BY <2>1
<1>3. PICK f \in [0 .. N -> Seq(Items)] : f[0] = <<>> /\ \A n \in 1 .. N : f[n] = G[n][f[n - 1]]
  <2> HIDE DEF N, G
  <2>1. Recursion(Seq(Items), <<>>, N)
    BY <1>1, EmptySeq, RecursionExists
  <2>2. QED
    BY <1>2, <2>1, Zenon DEF Recursion
<1>4. f = Body(f)
  <2>1. ASSUME NEW n \in 1 .. N PROVE f[n] = IF chat[n] \in chosen THEN Append(f[n - 1], chat[n]) ELSE f[n - 1]
    <3>1. f[n - 1] \in Seq(Items)
      BY <1>1
    <3>2. QED
      BY <1>3, <3>1
  <2>2. \A n \in 0 .. N : n = 0 \/ n \in 1 .. N
    BY <1>1
  <2> HIDE DEF N, G
  <2>3. QED
    BY <1>3, <2>1, <2>2
<1> HIDE DEF G
<1> DEFINE c == CHOOSE g : g = Body(g)
<1>5. c = Body(c)
  <2> HIDE DEF Body
  <2>1. QED
    BY <1>4
<1>6. Chat!Only(chat, chosen) = c[N]
  BY DEF Chat!Only
<1> HIDE DEF c
<1>7. c[0] = <<>> /\ \A n \in 1 .. N : c[n] = IF chat[n] \in chosen THEN Append(c[n - 1], chat[n]) ELSE c[n - 1]
  <2>1. \A n \in 0 .. N : c[n] = IF n = 0 THEN <<>>
                                 ELSE IF chat[n] \in chosen THEN Append(c[n - 1], chat[n]) ELSE c[n - 1]
    BY <1>5
  <2>2. 0 \in 0 .. N /\ \A n \in 1 .. N : n \in 0 .. N /\ n # 0
    BY <1>1
  <2> HIDE DEF N
  <2>3. QED
    BY <2>1, <2>2
<1>8. \A n \in 0 .. N : c[n] \in Seq(Items)
  <2> DEFINE T == {n \in Nat : c[n] \in Seq(Items)}
  <2>1. 0 \in T
    BY <1>7, EmptySeq
  <2>2. ASSUME NEW n \in 1 .. N, n - 1 \in T PROVE n \in T
    <3>1. c[n - 1] \in Seq(Items) /\ chat[n] \in Items
      BY <1>1, <2>2
    <3>2. Append(c[n - 1], chat[n]) \in Seq(Items)
      BY <3>1, AppendProperties
    <3>3. c[n] \in Seq(Items)
      BY <1>7, <3>1, <3>2
    <3>4. QED
      BY <1>1, <3>3
  <2> HIDE DEF T
  <2>3. T \in SUBSET Nat
    BY DEF T
  <2>4. \A n \in 0 .. N : n \in T
    BY <1>1, <2>1, <2>2, <2>3, Reaches
  <2>5. QED
    BY <2>4 DEF T
<1>9. c \in [0 .. N -> Seq(Items)]
  <2> HIDE DEF N
  <2>1. c = [n \in 0 .. N |-> c[n]]
    BY <1>5
  <2>2. QED
    BY <1>8, <2>1
<1>10. QED
  BY <1>6, <1>7, <1>9 DEF UpTo

\* What Only leaves of a chat.
LEMMA OnlySelects ==
    ASSUME NEW chat \in Seq(Items), NEW chosen
    PROVE  \E at : Selects(Chat!Only(chat, chosen), chat, chosen, Len(chat), at)
<1> DEFINE N == Len(chat)
<1>1. N \in Nat /\ \A n \in 1 .. N : chat[n] \in Items
  BY ElementOfSeq, LenProperties
<1>a. PICK f : UpTo(f, chat, chosen) /\ Chat!Only(chat, chosen) = f[N]
  BY OnlyIs
<1>2. /\ f \in [0 .. N -> Seq(Items)] /\ f[0] = <<>>
      /\ \A n \in 1 .. N :
           f[n] = IF chat[n] \in chosen THEN Append(f[n - 1], chat[n]) ELSE f[n - 1]
  BY <1>a DEF UpTo
<1> HIDE DEF N
<1> DEFINE T == {n \in Nat : \E at : Selects(f[n], chat, chosen, n, at)}
<1>3. 0 \in T
  <2>1. f[0] = <<>> /\ Len(<<>>) = 0 /\ <<>> \in Seq(Items)
    BY <1>2, EmptySeq
  <2>2. Selects(f[0], chat, chosen, 0, [k \in {} |-> k])
    BY <2>1 DEF Selects
  <2>3. QED
    BY <2>2
<1>4. ASSUME NEW n \in 1 .. N, n - 1 \in T PROVE n \in T
  <2>1. PICK at : Selects(f[n - 1], chat, chosen, n - 1, at)
    BY <1>4
  <2>2. n \in Nat /\ chat[n] \in Items /\ n - 1 \in Nat
    BY <1>1
  <2> DEFINE o == f[n - 1]
             L == Len(o)
  <2>3. o \in Seq(Items) /\ L \in Nat
    BY <2>1, LenProperties DEF Selects
  <2>4. CASE chat[n] \notin chosen
    <3>1. f[n] = o
      BY <1>2, <2>4
    <3>2. Selects(o, chat, chosen, n, at)
      <4>1. at \in [1 .. Len(o) -> 1 .. n]
        BY <2>1, <2>2 DEF Selects
      <4>2. \A m \in 1 .. n : chat[m] \in chosen => m \in 1 .. n - 1
        BY <2>2, <2>4
      <4> HIDE DEF o
      <4>3. QED
        BY <2>1, <4>1, <4>2 DEF Selects, o
    <3>3. QED
      BY <2>2, <3>1, <3>2
  <2>5. CASE chat[n] \in chosen
    <3> DEFINE p == Append(o, chat[n])
               bt == [k \in 1 .. L + 1 |-> IF k = L + 1 THEN n ELSE at[k]]
    <3>1. f[n] = p
      BY <1>2, <2>5
    <3>2. /\ p \in Seq(Items) /\ Len(p) = L + 1 /\ p[L + 1] = chat[n]
          /\ \A k \in 1 .. L : p[k] = o[k]
      BY <2>2, <2>3, AppendProperties
    <3>3. /\ at \in [1 .. L -> 1 .. n - 1]
          /\ \A k \in 1 .. L : o[k] = chat[at[k]] /\ o[k] \in chosen
          /\ \A k, l \in 1 .. L : k < l => at[k] < at[l]
          /\ \A m \in 1 .. n - 1 : chat[m] \in chosen => \E k \in 1 .. L : at[k] = m
      BY <2>1 DEF Selects
    <3> HIDE DEF L, o, p
    <3>4. bt \in [1 .. L + 1 -> 1 .. n]
      BY <2>2, <2>3, <3>3
    <3>5. ASSUME NEW k \in 1 .. L + 1 PROVE p[k] = chat[bt[k]] /\ p[k] \in chosen
      <4>1. CASE k = L + 1
        BY <2>5, <3>2, <4>1
      <4>2. CASE k # L + 1
        <5>1. k \in 1 .. L
          BY <2>3, <4>2
        <5>2. p[k] = o[k] /\ bt[k] = at[k]
          BY <3>2, <4>2, <5>1
        <5>3. QED
          BY <3>3, <5>1, <5>2
      <4>3. QED
        BY <4>1, <4>2
    <3>6. \A k, l \in 1 .. L + 1 : k < l => bt[k] < bt[l]
      BY <2>2, <2>3, <3>3
    <3>7. ASSUME NEW m \in 1 .. n, chat[m] \in chosen PROVE \E k \in 1 .. L + 1 : bt[k] = m
      <4>1. CASE m = n
        <5>1. L + 1 \in 1 .. L + 1 /\ bt[L + 1] = n
          BY <2>3
        <5>2. QED
          BY <4>1, <5>1
      <4>2. CASE m # n
        <5>1. PICK k \in 1 .. L : at[k] = m
          BY <2>2, <3>3, <3>7, <4>2
        <5>2. k \in 1 .. L + 1 /\ bt[k] = m
          BY <2>3, <5>1
        <5>3. QED
          BY <5>2
      <4>3. QED
        BY <4>1, <4>2
    <3> HIDE DEF bt
    <3>8. Selects(p, chat, chosen, n, bt)
      BY <3>2, <3>4, <3>5, <3>6, <3>7 DEF Selects
    <3>9. QED
      BY <2>2, <3>1, <3>8
  <2>6. QED
    BY <2>4, <2>5
<1> HIDE DEF T
<1>5. N \in T
  <2>1. T \in SUBSET Nat
    BY DEF T
  <2>2. \A n \in 0 .. N : n \in T
    BY <1>1, <1>3, <1>4, <2>1, Reaches
  <2>3. QED
    BY <1>1, <2>2
<1>6. QED
  BY <1>a, <1>5 DEF T, N

\* Two sequences of the same elements in the same order are the same.
LEMMA SameOrder ==
    ASSUME NEW S, NEW s \in Seq(S), NEW t \in Seq(S),
           \A i, j \in 1 .. Len(s) : s[i] = s[j] => i = j,
           \A i, j \in 1 .. Len(t) : t[i] = t[j] => i = j,
           \A i \in 1 .. Len(s) : \E k \in 1 .. Len(t) : s[i] = t[k],
           \A k \in 1 .. Len(t) : \E i \in 1 .. Len(s) : s[i] = t[k],
           \A i, j \in 1 .. Len(s) : \A k, l \in 1 .. Len(t) :
               s[i] = t[k] /\ s[j] = t[l] /\ i < j => k < l
    PROVE  s = t
<1>1. Len(s) \in Nat /\ Len(t) \in Nat
  BY LenProperties
<1> DEFINE T == {n \in Nat : n <= Len(t) /\ \A k \in 1 .. n : s[k] = t[k]}
           N == Len(s)
<1>2. 0 \in T
  BY <1>1
<1>3. ASSUME NEW n \in 1 .. N, n - 1 \in T PROVE n \in T
  <2>1. n \in 1 .. Len(s) /\ n \in Nat /\ n - 1 <= Len(t) /\ \A k \in 1 .. n - 1 : s[k] = t[k]
    BY <1>1, <1>3
  <2>2. PICK k \in 1 .. Len(t) : s[n] = t[k]
    BY <2>1
  <2>3. k >= n
    <3>1. CASE k < n
      <4>1. k \in 1 .. n - 1 /\ k \in 1 .. Len(s)
        BY <1>1, <2>1, <3>1
      <4>2. s[k] = s[n]
        BY <2>1, <2>2, <4>1
      <4>3. QED
        BY <2>1, <3>1, <4>1, <4>2
    <3>2. QED
      BY <1>1, <2>1, <3>1
  <2>4. k = n
    <3>1. SUFFICES ASSUME k > n PROVE FALSE
      BY <1>1, <2>1, <2>3
    <3>2. n \in 1 .. Len(t)
      BY <1>1, <2>1, <3>1
    <3>3. PICK j \in 1 .. Len(s) : s[j] = t[n]
      BY <3>2
    <3>4. j # n
      BY <1>1, <2>1, <2>2, <3>1, <3>2, <3>3
    <3>5. CASE j < n
      <4>1. j \in 1 .. n - 1 /\ j \in 1 .. Len(t)
        BY <1>1, <2>1, <3>2, <3>5
      <4>2. t[j] = t[n]
        BY <2>1, <3>3, <4>1
      <4>3. QED
        BY <2>1, <3>2, <3>5, <4>1, <4>2
    <3>6. CASE n < j
      <4>1. k < n
        BY <2>1, <2>2, <3>2, <3>3, <3>6
      <4>2. QED
        BY <1>1, <2>1, <3>1, <4>1
    <3>7. QED
      BY <1>1, <2>1, <3>4, <3>5, <3>6
  <2>5. \A i \in 1 .. n : i = n \/ i \in 1 .. n - 1
    BY <2>1
  <2>6. n <= Len(t)
    BY <1>1, <2>4
  <2>7. QED
    BY <2>1, <2>2, <2>4, <2>5, <2>6
<1> HIDE DEF T
<1>4. N \in T
  <2>1. T \in SUBSET Nat
    BY DEF T
  <2>2. \A n \in 0 .. N : n \in T
    BY <1>1, <1>2, <1>3, <2>1, Reaches
  <2>3. QED
    BY <1>1, <2>2
<1>5. Len(s) <= Len(t) /\ \A k \in 1 .. Len(s) : s[k] = t[k]
  BY <1>4 DEF T
<1>6. ASSUME Len(s) < Len(t) PROVE FALSE
  <2>1. Len(t) \in 1 .. Len(t)
    BY <1>1, <1>6
  <2>2. PICK j \in 1 .. Len(s) : s[j] = t[Len(t)]
    BY <2>1
  <2>3. t[j] = t[Len(t)] /\ j \in 1 .. Len(t)
    BY <1>1, <1>5, <2>2
  <2>4. QED
    BY <1>1, <1>6, <2>1, <2>3
<1>7. Len(s) = Len(t)
  BY <1>1, <1>5, <1>6
<1>8. QED
  BY <1>5, <1>7, SeqEqual

\* A chat without an item twice, an item of it, and two chats whose common items come in the
\* same order.
IsChat(c) == c \in Seq(Items) /\ \A i, j \in 1 .. Len(c) : c[i] = c[j] => i = j
In(x, c) == \E i \in 1 .. Len(c) : c[i] = x
Agree(c, d) ==
    \A i, j \in 1 .. Len(c) : \A k, l \in 1 .. Len(d) :
        c[i] = d[k] /\ c[j] = d[l] /\ i < j => k < l

\* The chat that Only leaves.
LEMMA OnlyLeaves ==
    ASSUME NEW c, IsChat(c), NEW chosen
    PROVE  LET o == Chat!Only(c, chosen)
           IN /\ IsChat(o) /\ Agree(o, c)
              /\ \A x : In(x, o) <=> In(x, c) /\ x \in chosen
<1> DEFINE o == Chat!Only(c, chosen)
<1>1. PICK at : Selects(o, c, chosen, Len(c), at)
  BY OnlySelects DEF IsChat
<1> HIDE DEF o
<1>2. o \in Seq(Items) /\ Len(o) \in Nat /\ Len(c) \in Nat
  BY <1>1, LenProperties DEF Selects, IsChat
<1>3. \A k \in 1 .. Len(o) : at[k] \in 1 .. Len(c) /\ o[k] = c[at[k]] /\ o[k] \in chosen
  BY <1>1 DEF Selects
<1>4. ASSUME NEW k \in 1 .. Len(o), NEW l \in 1 .. Len(o), o[k] = o[l] PROVE k = l
  <2>1. at[k] = at[l]
    BY <1>3, <1>4 DEF IsChat
  <2>2. ~(k < l) /\ ~(l < k)
    BY <1>1, <1>2, <1>3, <2>1 DEF Selects
  <2>3. QED
    BY <1>2, <2>2
<1>5. Agree(o, c)
  <2>1. ASSUME NEW i \in 1 .. Len(o), NEW j \in 1 .. Len(o), NEW k \in 1 .. Len(c),
               NEW l \in 1 .. Len(c), o[i] = c[k], o[j] = c[l], i < j
        PROVE  k < l
    <3>1. at[i] = k /\ at[j] = l
      BY <1>3, <2>1 DEF IsChat
    <3>2. QED
      BY <1>1, <2>1, <3>1 DEF Selects
  <2>2. QED
    BY <2>1 DEF Agree
<1>6. ASSUME NEW x PROVE In(x, o) <=> In(x, c) /\ x \in chosen
  <2>1. ASSUME In(x, o) PROVE In(x, c) /\ x \in chosen
    <3>1. PICK k \in 1 .. Len(o) : o[k] = x
      BY <2>1 DEF In
    <3>2. at[k] \in 1 .. Len(c) /\ c[at[k]] = x /\ x \in chosen
      BY <1>3, <3>1
    <3>3. QED
      BY <3>2 DEF In
  <2>2. ASSUME In(x, c), x \in chosen PROVE In(x, o)
    <3>1. PICK m \in 1 .. Len(c) : c[m] = x
      BY <2>2 DEF In
    <3>2. PICK k \in 1 .. Len(o) : at[k] = m
      BY <1>1, <2>2, <3>1 DEF Selects
    <3>3. o[k] = x
      BY <1>3, <3>1, <3>2
    <3>4. QED
      BY <3>3 DEF In
  <2>3. QED
    BY <2>1, <2>2
<1>7. QED
  BY <1>2, <1>4, <1>5, <1>6 DEF IsChat, o

\* The items of one chat in another that has them all, in the same order.
LEMMA OnlyIsWhole ==
    ASSUME NEW e, IsChat(e), NEW w, IsChat(w), Agree(e, w), \A x : In(x, w) => In(x, e)
    PROVE  Chat!Only(e, Chat!ToSet(w)) = w
<1> DEFINE o == Chat!Only(e, Chat!ToSet(w))
<1>1. Len(w) \in Nat /\ DOMAIN w = 1 .. Len(w)
  BY LenProperties DEF IsChat
<1>2. \A x : x \in Chat!ToSet(w) <=> In(x, w)
  BY <1>1 DEF Chat!ToSet, In
<1>3. IsChat(o) /\ Agree(o, e) /\ \A x : In(x, o) <=> In(x, w)
  BY <1>2, OnlyLeaves
<1> HIDE DEF o
<1>4. \A i \in 1 .. Len(o) : \E k \in 1 .. Len(w) : o[i] = w[k]
  <2>1. ASSUME NEW i \in 1 .. Len(o) PROVE \E k \in 1 .. Len(w) : o[i] = w[k]
    <3>1. In(o[i], o)
      BY DEF In
    <3>2. In(o[i], w)
      BY <1>3, <3>1
    <3>3. QED
      BY <3>2 DEF In
  <2>2. QED
    BY <2>1
<1>5. \A k \in 1 .. Len(w) : \E i \in 1 .. Len(o) : o[i] = w[k]
  <2>1. ASSUME NEW k \in 1 .. Len(w) PROVE \E i \in 1 .. Len(o) : o[i] = w[k]
    <3>1. In(w[k], w)
      BY DEF In
    <3>2. In(w[k], o)
      BY <1>3, <3>1
    <3>3. QED
      BY <3>2 DEF In
  <2>2. QED
    BY <2>1
<1>6. ASSUME NEW i \in 1 .. Len(o), NEW j \in 1 .. Len(o), NEW k \in 1 .. Len(w),
             NEW l \in 1 .. Len(w), o[i] = w[k], o[j] = w[l], i < j
      PROVE  k < l
  <2>1. In(o[i], o) /\ In(o[j], o)
    BY DEF In
  <2>2. In(o[i], w) /\ In(o[j], w)
    BY <1>3, <2>1
  <2>3. PICK m \in 1 .. Len(e), n \in 1 .. Len(e) : o[i] = e[m] /\ o[j] = e[n]
    BY <2>2 DEF In
  <2>4. m < n
    BY <1>3, <1>6, <2>3 DEF Agree
  <2>5. QED
    BY <1>6, <2>3, <2>4 DEF Agree
<1>7. o = w
  BY <1>3, <1>4, <1>5, <1>6, SameOrder DEF IsChat
<1>8. QED
  BY <1>7 DEF o

\* The items up to a place are as many.
LEMMA ChatLength ==
    ASSUME NEW c, IsChat(c)
    PROVE  LET X == {c[i] : i \in 1 .. Len(c)}
           IN /\ IsFiniteSet(X) /\ Cardinality(X) = Len(c)
              /\ Cardinality(Items) \in Nat /\ Len(c) <= Cardinality(Items)
<1> DEFINE X(n) == {c[i] : i \in 1 .. n}
           T == {n \in Nat : IsFiniteSet(X(n)) /\ Cardinality(X(n)) = n}
<1>1. Len(c) \in Nat
  BY LenProperties DEF IsChat
<1>2. 0 \in T
  <2>1. X(0) = {}
    OBVIOUS
  <2>2. QED
    BY <2>1, FS_EmptySet
<1>3. ASSUME NEW n \in 1 .. Len(c), n - 1 \in T PROVE n \in T
  <2>1. X(n) = X(n - 1) \cup {c[n]}
    <3>1. \A i : i \in 1 .. n <=> i \in 1 .. n - 1 \/ i = n
      BY <1>1
    <3>2. QED
      BY <3>1
  <2>2. c[n] \notin X(n - 1)
    <3>1. \A i \in 1 .. n - 1 : i \in 1 .. Len(c) /\ i # n
      BY <1>1
    <3>2. QED
      BY <3>1 DEF IsChat
  <2>3. IsFiniteSet(X(n - 1)) /\ Cardinality(X(n - 1)) = n - 1
    BY <1>3
  <2> HIDE DEF X
  <2>4. /\ IsFiniteSet(X(n - 1) \cup {c[n]})
        /\ Cardinality(X(n - 1) \cup {c[n]}) = Cardinality(X(n - 1)) + 1
    BY <2>2, <2>3, FS_AddElement
  <2>5. IsFiniteSet(X(n)) /\ Cardinality(X(n)) = (n - 1) + 1
    BY <2>1, <2>3, <2>4
  <2>6. n \in Nat /\ (n - 1) + 1 = n
    BY <1>1
  <2>7. QED
    BY <2>5, <2>6
<1> HIDE DEF T
<1>4. Len(c) \in T
  <2>1. T \in SUBSET Nat
    BY DEF T
  <2>2. \A n \in 0 .. Len(c) : n \in T
    BY <1>1, <1>2, <1>3, <2>1, Reaches
  <2>3. QED
    BY <1>1, <2>2
<1>5. X(Len(c)) \in SUBSET Items
  BY ElementOfSeq DEF IsChat
<1>6. IsFiniteSet(Items)
  BY ServicesAssumption
<1> HIDE DEF X
<1>7. /\ IsFiniteSet(X(Len(c))) /\ Cardinality(X(Len(c))) = Len(c)
      /\ Cardinality(X(Len(c))) <= Cardinality(Items) /\ Cardinality(Items) \in Nat
  BY <1>4, <1>5, <1>6, FS_Subset, FS_CardinalityType DEF T
<1>8. QED
  BY <1>7 DEF X

-----------------------------------------------------------------------------
(* The linked list *)

Get(c, n) == IF n \in 1 .. Len(c) THEN c[n] ELSE Nil

\* The list has the items of a chat.
Copied(c) ==
    /\ IsChat(c) /\ known = {c[i] : i \in 1 .. Len(c)}
    /\ head = Get(c, 1) /\ tail = Get(c, Len(c))
    /\ next \in [Items -> Items \cup {Nil}] /\ prev \in [Items -> Items \cup {Nil}]
    /\ \A i \in 1 .. Len(c) : next[c[i]] = Get(c, i + 1) /\ prev[c[i]] = Get(c, i - 1)

Walk(f, N) ==
    \A n \in 0 .. N : \A i \in Items \cup {Nil} :
        f[n][i] = IF i = Nil \/ n = 0 THEN <<>> ELSE <<i>> \o f[n - 1][next[i]]

\* The number of elements, as ChatSync's instance names it.
LEMMA CardinalityIs == \A S : Chat!Cardinality(S) = Cardinality(S)
  BY Zenon DEF Chat!Cardinality, Cardinality

\* The recursion of to_chat_ctx has a function.
LEMMA WalkExists ==
    ASSUME next \in [Items -> Items \cup {Nil}]
    PROVE  \E f : Walk(f, Cardinality(Items)) /\ Chat!ToChatCtx = f[Cardinality(Items)][head]
<1> DEFINE N == Cardinality(Items)
           I == Items \cup {Nil}
           S == [I -> Seq(Items)]
           Body(f) == [n \in 0 .. N |-> [i \in I |->
                         IF i = Nil \/ n = 0 THEN <<>> ELSE <<i>> \o f[n - 1][next[i]]]]
           G == [n \in 1 .. N |-> [F \in S |-> [i \in I |->
                         IF i = Nil THEN <<>> ELSE <<i>> \o F[next[i]]]]]
           none == [i \in I |-> <<>>]
<1>1. N \in Nat
  BY ServicesAssumption, FS_CardinalityType
<1>2. none \in S
  BY EmptySeq
<1>3. G \in [1 .. N -> [S -> S]]
  <2>1. ASSUME NEW F \in S, NEW i \in I
        PROVE  (IF i = Nil THEN <<>> ELSE <<i>> \o F[next[i]]) \in Seq(Items)
    <3>1. CASE i = Nil
      BY <3>1, EmptySeq
    <3>2. CASE i # Nil
      <4>1. next[i] \in I /\ <<i>> \in Seq(Items)
        BY <3>2
      <4>2. F[next[i]] \in Seq(Items)
        BY <4>1
      <4>3. <<i>> \o F[next[i]] \in Seq(Items)
        BY <4>1, <4>2, ConcatProperties
      <4>4. QED
        BY <3>2, <4>3
    <3>3. QED
      BY <3>1, <3>2
  <2> HIDE DEF N, I
  <2>2. QED
    BY <2>1
<1>4. PICK f \in [0 .. N -> S] : f[0] = none /\ \A n \in 1 .. N : f[n] = G[n][f[n - 1]]
  <2> HIDE DEF N, G, S, none
  <2>1. Recursion(S, none, N)
    BY <1>1, <1>2, RecursionExists
  <2>2. QED
    BY <1>3, <2>1, Zenon DEF Recursion
<1>5. f = Body(f)
  <2>1. ASSUME NEW n \in 0 .. N
        PROVE  f[n] = [i \in I |-> IF i = Nil \/ n = 0 THEN <<>> ELSE <<i>> \o f[n - 1][next[i]]]
    <3>1. CASE n = 0
      BY <1>4, <3>1
    <3>2. CASE n # 0
      <4>1. n \in 1 .. N /\ f[n - 1] \in S
        <5> HIDE DEF N, S
        <5>1. n \in 1 .. N /\ n - 1 \in 0 .. N
          BY <1>1, <3>2
        <5>2. QED
          BY <5>1
      <4>2. f[n] = [i \in I |-> IF i = Nil THEN <<>> ELSE <<i>> \o f[n - 1][next[i]]]
        <5> HIDE DEF S
        <5>1. QED
          BY <1>4, <4>1
      <4> HIDE DEF N, I, S
      <4>3. QED
        BY <3>2, <4>2
    <3>3. QED
      BY <3>1, <3>2
  <2> HIDE DEF N, I, S, G
  <2>2. QED
    BY <2>1
<1> HIDE DEF G, none
<1> DEFINE c == CHOOSE g : g = Body(g)
<1>6. c = Body(c)
  <2> HIDE DEF Body
  <2>1. QED
    BY <1>5
<1>7. Chat!ToChatCtx = c[N][head]
  BY CardinalityIs, Zenon DEF Chat!ToChatCtx
<1> HIDE DEF c
<1>8. Walk(c, N)
  <2>1. ASSUME NEW n \in 0 .. N
        PROVE  c[n] = [i \in I |-> IF i = Nil \/ n = 0 THEN <<>> ELSE <<i>> \o c[n - 1][next[i]]]
    BY <1>6
  <2> HIDE DEF N
  <2>2. ASSUME NEW n \in 0 .. N, NEW i \in I
        PROVE  c[n][i] = IF i = Nil \/ n = 0 THEN <<>> ELSE <<i>> \o c[n - 1][next[i]]
    BY <2>1
  <2>3. QED
    BY <2>2 DEF Walk
<1>9. QED
  BY <1>7, <1>8

\* to_chat_ctx gives the chat whose items the list has.
LEMMA CtxIs == ASSUME NEW c, Copied(c) PROVE Chat!ToChatCtx = c
<1> DEFINE N == Cardinality(Items)
           L == Len(c)
<1>1. c \in Seq(Items) /\ L \in Nat /\ N \in Nat /\ L <= N /\ Nil \notin Items
      /\ \A i \in 1 .. L : c[i] \in Items
  BY ChatLength, LenProperties, ElementOfSeq, ServicesAssumption DEF Copied, IsChat
<1>2. PICK f : Walk(f, N) /\ Chat!ToChatCtx = f[N][head]
  BY WalkExists DEF Copied
<1> DEFINE T == {n \in Nat : \A k \in 1 .. L + 1 : L + 1 - k <= n => f[n][Get(c, k)] = SubSeq(c, k, L)}
<1> HIDE DEF N
<1>3. SubSeq(c, L + 1, L) = <<>>
  BY <1>1, SubSeqEmpty
<1>4. \A n \in 0 .. N : f[n][Nil] = <<>>
  BY <1>2 DEF Walk
<1>5. 0 \in T
  <2>1. ASSUME NEW k \in 1 .. L + 1, L + 1 - k <= 0 PROVE f[0][Get(c, k)] = SubSeq(c, k, L)
    <3>1. k = L + 1 /\ 0 \in 0 .. N
      BY <1>1, <2>1
    <3>2. Get(c, k) = Nil
      BY <1>1, <3>1 DEF Get
    <3>3. QED
      BY <1>3, <1>4, <3>1, <3>2
  <2>2. QED
    BY <2>1
<1>6. ASSUME NEW n \in 1 .. N, n - 1 \in T PROVE n \in T
  <2>1. ASSUME NEW k \in 1 .. L + 1, L + 1 - k <= n PROVE f[n][Get(c, k)] = SubSeq(c, k, L)
    <3>1. CASE k = L + 1
      <4>1. Get(c, k) = Nil /\ n \in 0 .. N
        BY <1>1, <3>1 DEF Get
      <4>2. QED
        BY <1>3, <1>4, <3>1, <4>1
    <3>2. CASE k # L + 1
      <4>1. k \in 1 .. L /\ k + 1 \in 1 .. L + 1 /\ L + 1 - (k + 1) <= n - 1 /\ n \in 0 .. N /\ n # 0
        BY <1>1, <2>1, <3>2
      <4>2. Get(c, k) = c[k] /\ c[k] \in Items
        BY <1>1, <4>1 DEF Get
      <4>3. f[n][c[k]] = <<c[k]>> \o f[n - 1][next[c[k]]]
        BY <1>1, <1>2, <4>1, <4>2 DEF Walk
      <4>4. next[c[k]] = Get(c, k + 1)
        BY <4>1 DEF Copied
      <4>5. f[n - 1][Get(c, k + 1)] = SubSeq(c, k + 1, L)
        BY <1>6, <4>1
      <4>6. SubSeq(c, k, L) = <<c[k]>> \o SubSeq(c, k + 1, L)
        <5>1. k \in 1 .. Len(c) /\ L \in k .. Len(c)
          BY <1>1, <4>1
        <5>2. QED
          BY <1>1, <5>1, SubSeqRecursiveFirst
      <4>7. QED
        BY <4>2, <4>3, <4>4, <4>5, <4>6
    <3>3. QED
      BY <3>1, <3>2
  <2>2. QED
    BY <1>1, <2>1
<1> HIDE DEF T
<1>7. N \in T
  <2>1. T \in SUBSET Nat
    BY DEF T
  <2>2. \A n \in 0 .. N : n \in T
    BY <1>1, <1>5, <1>6, <2>1, Reaches
  <2>3. QED
    BY <1>1, <2>2
<1>8. f[N][Get(c, 1)] = SubSeq(c, 1, L)
  BY <1>1, <1>7 DEF T
<1>9. QED
  BY <1>1, <1>2, <1>8, SubSeqFull DEF Copied

-----------------------------------------------------------------------------
(* The chat: what a message makes of it, and of the list *)

\* What a message of the server's protocol makes of a chat.
Deletes(m, c, d) ==
    m.what = "delete" /\ \E n \in 1 .. Len(c) : c[n] = m.item /\ d = Chat!RemoveAt(c, n)
Creates(m, c, d) ==
    /\ m.what = "create" /\ m.item \in Items /\ ~In(m.item, c)
    /\ \E n \in 1 .. Len(c) + 1 :
         /\ IF n = 1 THEN m.after = Nil ELSE c[n - 1] = m.after
         /\ d = Chat!InsertAt(c, n, m.item)
Does(m, c, d) == Deletes(m, c, d) \/ Creates(m, c, d)

\* Inserting adds the item at the place, and nothing else.
LEMMA InsertAdds ==
    ASSUME NEW c \in Seq(Items), NEW n \in 1 .. Len(c) + 1, NEW e \in Items
    PROVE  Adds(Items, c, Chat!InsertAt(c, n, e), n, e)
BY Inserted DEF Chat!InsertAt

\* What was removed at a place would be added there.
LEMMA RemoveAdds ==
    ASSUME NEW c \in Seq(Items), NEW n \in 1 .. Len(c)
    PROVE  Adds(Items, Chat!RemoveAt(c, n), c, n, c[n])
<1> DEFINE d == Chat!RemoveAt(c, n)
<1>1. Len(c) \in Nat /\ n \in Nat
  BY LenProperties
<1>2. /\ d \in Seq(Items) /\ Len(d) = Len(c) - 1
      /\ \A i \in 1 .. Len(c) - 1 : d[i] = IF i < n THEN c[i] ELSE c[i + 1]
  BY Removed DEF Chat!RemoveAt
<1> HIDE DEF d
<1>3. Len(c) = Len(d) + 1
  BY <1>1, <1>2
<1>4. ASSUME NEW i \in 1 .. Len(c) PROVE c[i] = IF i < n THEN d[i] ELSE IF i = n THEN c[n] ELSE d[i - 1]
  <2>1. CASE i < n
    BY <1>1, <1>2, <2>1
  <2>2. CASE i > n
    <3>1. i - 1 \in 1 .. Len(c) - 1 /\ ~(i - 1 < n) /\ (i - 1) + 1 = i /\ ~(i < n) /\ i # n
      BY <1>1, <2>2
    <3>2. QED
      BY <1>2, <3>1
  <2>3. QED
    BY <1>1, <2>1, <2>2
<1>5. QED
  BY <1>3, <1>4 DEF Adds, d

\* x comes before y.
Ahead(c, x, y) == \E i, j \in 1 .. Len(c) : i < j /\ c[i] = x /\ c[j] = y

\* The order of the items of a chat.
LEMMA AheadIs ==
    ASSUME NEW c, IsChat(c)
    PROVE  /\ \A x, y : Ahead(c, x, y) => In(x, c) /\ In(y, c) /\ x # y /\ ~Ahead(c, y, x)
           /\ \A x, y : In(x, c) /\ In(y, c) => x = y \/ Ahead(c, x, y) \/ Ahead(c, y, x)
           /\ \A x, y, z : Ahead(c, x, y) /\ Ahead(c, y, z) => Ahead(c, x, z)
           /\ \A x : In(x, c) => x \in Items
<1>1. Len(c) \in Nat /\ \A i \in 1 .. Len(c) : c[i] \in Items
  BY LenProperties, ElementOfSeq DEF IsChat
<1>2. ASSUME NEW x, NEW y, Ahead(c, x, y) PROVE In(x, c) /\ In(y, c) /\ x # y /\ ~Ahead(c, y, x)
  BY <1>1, <1>2 DEF Ahead, In, IsChat
<1>3. ASSUME NEW x, NEW y, In(x, c), In(y, c) PROVE x = y \/ Ahead(c, x, y) \/ Ahead(c, y, x)
  <2>1. PICK i \in 1 .. Len(c), j \in 1 .. Len(c) : c[i] = x /\ c[j] = y
    BY <1>3 DEF In
  <2>2. i < j \/ j < i \/ i = j
    BY <1>1
  <2>3. QED
    BY <2>1, <2>2 DEF Ahead
<1>4. ASSUME NEW x, NEW y, NEW z, Ahead(c, x, y), Ahead(c, y, z) PROVE Ahead(c, x, z)
  <2>1. PICK i \in 1 .. Len(c), j \in 1 .. Len(c) : i < j /\ c[i] = x /\ c[j] = y
    BY <1>4 DEF Ahead
  <2>2. PICK k \in 1 .. Len(c), l \in 1 .. Len(c) : k < l /\ c[k] = y /\ c[l] = z
    BY <1>4 DEF Ahead
  <2>3. j = k
    BY <2>1, <2>2 DEF IsChat
  <2>4. i < l
    BY <1>1, <2>1, <2>2, <2>3
  <2>5. QED
    BY <2>1, <2>2, <2>4 DEF Ahead
<1>5. \A x : In(x, c) => x \in Items
  BY <1>1 DEF In
<1>6. QED
  BY <1>2, <1>3, <1>4, <1>5

\* The order of a chat with an item more.
LEMMA AddsIs ==
    ASSUME NEW c \in Seq(Items), NEW d, NEW n \in 1 .. Len(c) + 1, NEW e, Adds(Items, c, d, n, e)
    PROVE  /\ \A x : In(x, d) <=> In(x, c) \/ x = e
           /\ IsChat(d) => IsChat(c) /\ ~In(e, c)
           /\ IsChat(c) /\ ~In(e, c) => IsChat(d)
           /\ \A x, y : Ahead(c, x, y) => Ahead(d, x, y)
           /\ \A i \in 1 .. Len(c) : IF i < n THEN Ahead(d, c[i], e) ELSE Ahead(d, e, c[i])
<1> DEFINE At(i) == IF i < n THEN i ELSE i + 1
           L == Len(c)
<1>1. L \in Nat /\ n \in 1 .. L + 1 /\ Len(d) = L + 1 /\ d \in Seq(Items)
  BY LenProperties DEF Adds
<1>2. d[n] = e /\ n \in 1 .. L + 1
  BY <1>1 DEF Adds
<1>3. ASSUME NEW i \in 1 .. L PROVE At(i) \in 1 .. L + 1 /\ At(i) # n /\ d[At(i)] = c[i]
  <2>1. CASE i < n
    BY <1>1, <2>1 DEF Adds
  <2>2. CASE ~(i < n)
    <3>1. i + 1 \in 1 .. L + 1 /\ ~(i + 1 < n) /\ i + 1 # n /\ (i + 1) - 1 = i
      BY <1>1, <2>2
    <3>2. QED
      BY <2>2, <3>1 DEF Adds
  <2>3. QED
    BY <2>1, <2>2
<1>4. \A k \in 1 .. L + 1 : k = n \/ \E i \in 1 .. L : At(i) = k
  <2>1. ASSUME NEW k \in 1 .. L + 1, k # n PROVE \E i \in 1 .. L : At(i) = k
    <3>1. CASE k < n
      <4>1. k \in 1 .. L /\ At(k) = k
        BY <1>1, <3>1
      <4>2. QED
        BY <4>1
    <3>2. CASE k > n
      <4>1. k - 1 \in 1 .. L /\ At(k - 1) = k
        BY <1>1, <3>2
      <4>2. QED
        BY <4>1
    <3>3. QED
      BY <1>1, <2>1, <3>1, <3>2
  <2>2. QED
    BY <2>1
<1>5. \A i, j \in 1 .. L : (i < j <=> At(i) < At(j)) /\ (At(i) = At(j) => i = j)
  BY <1>1
<1>6. \A i \in 1 .. L : IF i < n THEN At(i) < n ELSE n < At(i)
  BY <1>1
<1> HIDE DEF At
<1>7. ASSUME NEW x PROVE In(x, d) <=> In(x, c) \/ x = e
  <2>1. ASSUME In(x, d) PROVE In(x, c) \/ x = e
    <3>1. PICK k \in 1 .. L + 1 : d[k] = x
      BY <1>1, <2>1 DEF In
    <3>2. CASE k = n
      BY <1>2, <3>1, <3>2
    <3>3. CASE k # n
      <4>1. PICK i \in 1 .. L : At(i) = k
        BY <1>4, <3>3
      <4>2. QED
        BY <1>3, <3>1, <4>1 DEF In
    <3>4. QED
      BY <3>2, <3>3
  <2>2. ASSUME In(x, c) PROVE In(x, d)
    <3>1. PICK i \in 1 .. L : c[i] = x
      BY <2>2 DEF In
    <3>2. QED
      BY <1>1, <1>3, <3>1 DEF In
  <2>3. In(e, d)
    BY <1>1, <1>2 DEF In
  <2>4. QED
    BY <2>1, <2>2, <2>3
<1>8. ASSUME IsChat(d) PROVE IsChat(c) /\ ~In(e, c)
  <2>1. ASSUME NEW i \in 1 .. L, NEW j \in 1 .. L, c[i] = c[j] PROVE i = j
    <3>1. At(i) = At(j)
      BY <1>1, <1>3, <1>8, <2>1 DEF IsChat
    <3>2. QED
      BY <1>5, <3>1
  <2>2. ASSUME NEW i \in 1 .. L, c[i] = e PROVE FALSE
    BY <1>1, <1>2, <1>3, <1>8, <2>2 DEF IsChat
  <2>3. QED
    BY <2>1, <2>2 DEF IsChat, In
<1>9. ASSUME IsChat(c), ~In(e, c) PROVE IsChat(d)
  <2>1. ASSUME NEW k \in 1 .. L + 1, NEW l \in 1 .. L + 1, d[k] = d[l] PROVE k = l
    <3>1. CASE k = n /\ l = n
      BY <3>1
    <3>2. CASE k = n /\ l # n
      BY <1>2, <1>3, <1>4, <1>9, <2>1, <3>2 DEF In
    <3>3. CASE k # n /\ l = n
      BY <1>2, <1>3, <1>4, <1>9, <2>1, <3>3 DEF In
    <3>4. CASE k # n /\ l # n
      <4>1. PICK i \in 1 .. L, j \in 1 .. L : At(i) = k /\ At(j) = l
        BY <1>4, <3>4
      <4>2. c[i] = c[j]
        BY <1>3, <2>1, <4>1
      <4>3. QED
        BY <1>9, <4>1, <4>2 DEF IsChat
    <3>5. QED
      BY <3>1, <3>2, <3>3, <3>4
  <2>2. QED
    BY <1>1, <2>1 DEF IsChat
<1>10. ASSUME NEW x, NEW y, Ahead(c, x, y) PROVE Ahead(d, x, y)
  <2>1. PICK i \in 1 .. L, j \in 1 .. L : i < j /\ c[i] = x /\ c[j] = y
    BY <1>10 DEF Ahead
  <2>2. At(i) < At(j) /\ d[At(i)] = x /\ d[At(j)] = y
    BY <1>3, <1>5, <2>1
  <2>3. QED
    BY <1>1, <1>3, <2>2 DEF Ahead
<1>11. ASSUME NEW i \in 1 .. L PROVE IF i < n THEN Ahead(d, c[i], e) ELSE Ahead(d, e, c[i])
  BY <1>1, <1>2, <1>3, <1>6 DEF Ahead
<1>12. QED
  BY <1>7, <1>8, <1>9, <1>10, <1>11

\* What a message leaves, in terms of the order of the items.
Gone(i, c, d) ==
    /\ In(i, c) /\ IsChat(d) /\ \A x : In(x, d) <=> In(x, c) /\ x # i
    /\ \A x, y : Ahead(d, x, y) => Ahead(c, x, y)
Come(i, after, c, d) ==
    /\ ~In(i, c) /\ IsChat(d) /\ \A x : In(x, d) <=> In(x, c) \/ x = i
    /\ \A x, y : Ahead(c, x, y) => Ahead(d, x, y)
    /\ IF after = Nil THEN \A y : In(y, c) => Ahead(d, i, y)
       ELSE In(after, c) /\ Ahead(d, after, i) /\ \A y : Ahead(c, after, y) => Ahead(d, i, y)

\* A message that deletes takes its item from the chat, and keeps the order of the others.
LEMMA DeletesIs ==
    ASSUME NEW c, NEW d, NEW m, IsChat(c), Deletes(m, c, d) PROVE Gone(m.item, c, d)
<1>1. PICK n \in 1 .. Len(c) : c[n] = m.item /\ d = Chat!RemoveAt(c, n)
  BY DEF Deletes
<1>2. Adds(Items, d, c, n, m.item)
  BY <1>1, RemoveAdds DEF IsChat
<1>3. d \in Seq(Items) /\ n \in 1 .. Len(d) + 1
  <2>1. c \in Seq(Items) /\ Len(c) \in Nat
    BY LenProperties DEF IsChat
  <2>2. d \in Seq(Items)
    BY <1>1, <2>1, Removed DEF Chat!RemoveAt
  <2>3. QED
    BY <1>2, <2>2 DEF Adds
<1>4. /\ \A x : In(x, c) <=> In(x, d) \/ x = m.item
      /\ IsChat(d) /\ ~In(m.item, d) /\ \A x, y : Ahead(d, x, y) => Ahead(c, x, y)
  BY <1>2, <1>3, AddsIs
<1>5. QED
  BY <1>4 DEF Gone

\* A message that creates puts its item behind the one it names, and keeps the order.
LEMMA CreatesIs ==
    ASSUME NEW c, NEW d, NEW m, IsChat(c), Creates(m, c, d) PROVE Come(m.item, m.after, c, d)
<1>1. PICK n \in 1 .. Len(c) + 1 :
        (IF n = 1 THEN m.after = Nil ELSE c[n - 1] = m.after) /\ d = Chat!InsertAt(c, n, m.item)
  BY DEF Creates
<1>2. c \in Seq(Items) /\ Len(c) \in Nat /\ m.item \in Items /\ ~In(m.item, c) /\ Nil \notin Items
  BY LenProperties, ServicesAssumption DEF IsChat, Creates
<1>3. Adds(Items, c, d, n, m.item)
  BY <1>1, <1>2, InsertAdds
<1>4. /\ \A x : In(x, d) <=> In(x, c) \/ x = m.item
      /\ IsChat(d) /\ \A x, y : Ahead(c, x, y) => Ahead(d, x, y)
  BY <1>2, <1>3, AddsIs
<1>5. \A i \in 1 .. Len(c) : IF i < n THEN Ahead(d, c[i], m.item) ELSE Ahead(d, m.item, c[i])
  BY <1>2, <1>3, AddsIs
<1>6. CASE n = 1
  <2>1. \A i \in 1 .. Len(c) : Ahead(d, m.item, c[i])
    BY <1>2, <1>5, <1>6
  <2>2. QED
    BY <1>1, <1>2, <1>4, <1>6, <2>1 DEF Come, In
<1>7. CASE n # 1
  <2>1. n - 1 \in 1 .. Len(c) /\ n - 1 < n /\ c[n - 1] = m.after
    BY <1>1, <1>2, <1>7
  <2>2. m.after # Nil /\ In(m.after, c) /\ Ahead(d, m.after, m.item)
    BY <1>2, <1>5, <2>1, ElementOfSeq DEF In
  <2>3. ASSUME NEW y, Ahead(c, m.after, y) PROVE Ahead(d, m.item, y)
    <3>1. PICK i \in 1 .. Len(c), j \in 1 .. Len(c) : i < j /\ c[i] = m.after /\ c[j] = y
      BY <2>3 DEF Ahead
    <3>2. i = n - 1
      BY <2>1, <3>1 DEF IsChat
    <3>3. ~(j < n)
      BY <1>2, <3>1, <3>2
    <3>4. QED
      BY <1>5, <3>1, <3>3
  <2>4. QED
    BY <1>2, <1>4, <2>2, <2>3 DEF Come
<1>8. QED
  BY <1>6, <1>7

\* A message that can be applied makes one chat.
LEMMA DoesOnce ==
    ASSUME NEW c, NEW d, NEW e, NEW m, IsChat(c), Does(m, c, d), Does(m, c, e) PROVE d = e
<1>1. CASE m.what = "delete"
  <2>1. PICK k \in 1 .. Len(c) : c[k] = m.item /\ d = Chat!RemoveAt(c, k)
    BY <1>1 DEF Does, Deletes, Creates
  <2>2. PICK l \in 1 .. Len(c) : c[l] = m.item /\ e = Chat!RemoveAt(c, l)
    BY <1>1 DEF Does, Deletes, Creates
  <2>3. k = l
    BY <2>1, <2>2 DEF IsChat
  <2>4. QED
    BY <2>1, <2>2, <2>3
<1>2. CASE m.what # "delete"
  <2>1. PICK k \in 1 .. Len(c) + 1 :
          (IF k = 1 THEN m.after = Nil ELSE c[k - 1] = m.after) /\ d = Chat!InsertAt(c, k, m.item)
    BY <1>2 DEF Does, Deletes, Creates
  <2>2. PICK l \in 1 .. Len(c) + 1 :
          (IF l = 1 THEN m.after = Nil ELSE c[l - 1] = m.after) /\ e = Chat!InsertAt(c, l, m.item)
    BY <1>2 DEF Does, Deletes, Creates
  <2>3. Len(c) \in Nat /\ Nil \notin Items /\ \A i \in 1 .. Len(c) : c[i] \in Items
    BY LenProperties, ElementOfSeq, ServicesAssumption DEF IsChat
  <2>4. k = l
    <3>1. CASE m.after = Nil
      <4>1. k = 1
        <5>1. k # 1 => k - 1 \in 1 .. Len(c)
          BY <2>3
        <5>2. QED
          BY <2>1, <2>3, <3>1, <5>1
      <4>2. l = 1
        <5>1. l # 1 => l - 1 \in 1 .. Len(c)
          BY <2>3
        <5>2. QED
          BY <2>2, <2>3, <3>1, <5>1
      <4>3. QED
        BY <4>1, <4>2
    <3>2. CASE m.after # Nil
      <4>1. k - 1 \in 1 .. Len(c) /\ l - 1 \in 1 .. Len(c) /\ c[k - 1] = c[l - 1]
        BY <2>1, <2>2, <2>3, <3>2
      <4>2. k - 1 = l - 1
        BY <4>1 DEF IsChat
      <4>3. QED
        BY <2>3, <4>2
    <3>3. QED
      BY <3>1, <3>2
  <2>5. QED
    BY <2>1, <2>2, <2>4
<1>3. QED
  BY <1>1, <1>2

\* An item of the chat can be deleted.
LEMMA DeleteExists ==
    ASSUME NEW c, NEW m, IsChat(c), m.what = "delete", In(m.item, c) PROVE \E d : Deletes(m, c, d)
BY DEF Deletes, In

\* An item can be created behind one of the chat, or in front.
LEMMA CreateExists ==
    ASSUME NEW c, NEW m, IsChat(c), m.what = "create", ~In(m.item, c), m.item \in Items,
           m.after = Nil \/ In(m.after, c)
    PROVE  \E d : Creates(m, c, d)
<1>1. Len(c) \in Nat
  BY LenProperties DEF IsChat
<1>2. \E n \in 1 .. Len(c) + 1 : IF n = 1 THEN m.after = Nil ELSE c[n - 1] = m.after
  <2>1. CASE m.after = Nil
    BY <1>1, <2>1
  <2>2. CASE In(m.after, c)
    <3>1. PICK k \in 1 .. Len(c) : c[k] = m.after
      BY <2>2 DEF In
    <3>2. k + 1 \in 1 .. Len(c) + 1 /\ k + 1 # 1 /\ (k + 1) - 1 = k
      BY <1>1
    <3>3. QED
      BY <3>1, <3>2
  <2>3. QED
    BY <2>1, <2>2
<1>3. QED
  BY <1>2 DEF Creates

\* An item that is said later stays at the end.
LEMMA SaidStaysLast ==
    ASSUME NEW c, NEW d, NEW m, NEW i \in Items, IsChat(c), Does(m, c, d), ~In(i, c), m.item # i
    PROVE  Does(m, Append(c, i), Append(d, i)) /\ ~In(i, d) /\ IsChat(Append(c, i))
<1> DEFINE p == Append(c, i)
           q == Append(d, i)
           L == Len(c)
<1>1. c \in Seq(Items) /\ L \in Nat
  BY LenProperties DEF IsChat
<1>2. IsChat(d) /\ ~In(i, d)
  BY DeletesIs, CreatesIs DEF Does, Gone, Come
<1>3. /\ p \in Seq(Items) /\ Len(p) = L + 1 /\ p[L + 1] = i /\ \A k \in 1 .. L : p[k] = c[k]
  BY <1>1, AppendProperties
<1>4. d \in Seq(Items) /\ Len(d) \in Nat
  BY <1>2, LenProperties DEF IsChat
<1>5. /\ q \in Seq(Items) /\ Len(q) = Len(d) + 1 /\ q[Len(d) + 1] = i
      /\ \A k \in 1 .. Len(d) : q[k] = d[k]
  BY <1>4, AppendProperties
<1> HIDE DEF p, q
<1>6. IsChat(p)
  <2>1. \A k \in 1 .. L + 1 : k \in 1 .. L \/ k = L + 1
    BY <1>1
  <2>2. \A k \in 1 .. L : c[k] # i
    BY DEF In
  <2>3. ASSUME NEW k \in 1 .. L + 1, NEW l \in 1 .. L + 1, p[k] = p[l] PROVE k = l
    <3>1. CASE k \in 1 .. L /\ l \in 1 .. L
      BY <1>3, <2>3, <3>1 DEF IsChat
    <3>2. CASE ~(k \in 1 .. L /\ l \in 1 .. L)
      BY <1>3, <2>1, <2>2, <2>3, <3>2
    <3>3. QED
      BY <3>1, <3>2
  <2>4. QED
    BY <1>3, <2>3 DEF IsChat
<1>7. CASE Deletes(m, c, d)
  <2>1. PICK n \in 1 .. L : c[n] = m.item /\ d = Chat!RemoveAt(c, n)
    BY <1>7 DEF Deletes
  <2>2. Adds(Items, d, c, n, m.item)
    BY <1>1, <2>1, RemoveAdds
  <2>3. n \in 1 .. L + 1 /\ p[n] = m.item
    BY <1>1, <1>3, <2>1
  <2> DEFINE r == Chat!RemoveAt(p, n)
  <2>4. Adds(Items, r, p, n, p[n]) /\ r \in Seq(Items) /\ Len(r) = L
    <3>1. n \in 1 .. Len(p)
      BY <1>3, <2>3
    <3>2. r \in Seq(Items) /\ Len(r) = Len(p) - 1
      BY <1>3, <3>1, Removed DEF Chat!RemoveAt
    <3>3. Adds(Items, r, p, n, p[n])
      BY <1>3, <3>1, RemoveAdds
    <3>4. QED
      BY <1>1, <1>3, <3>2, <3>3
  <2> HIDE DEF r
  <2>5. L = Len(d) + 1
    BY <2>2 DEF Adds
  <2>6. ASSUME NEW k \in 1 .. L PROVE r[k] = q[k]
    <3> DEFINE j == IF k < n THEN k ELSE k + 1
    <3>1. j \in 1 .. L + 1 /\ n \in Nat
      BY <1>1
    <3>2. p[j] = r[k]
      BY <1>1, <1>3, <2>4 DEF Adds
    <3>3. CASE k = L
      <4>1. j = L + 1
        BY <1>1, <3>3
      <4>2. QED
        BY <1>3, <1>5, <2>5, <3>2, <3>3, <4>1
    <3>4. CASE k # L
      <4>1. j \in 1 .. L /\ k \in 1 .. Len(d)
        BY <1>1, <1>4, <2>5, <3>4
      <4>2. c[j] = d[k]
        BY <1>1, <1>4, <2>2, <2>5, <4>1 DEF Adds
      <4>3. QED
        BY <1>3, <1>5, <3>2, <4>1, <4>2
    <3>5. QED
      BY <3>3, <3>4
  <2>7. r = q
    BY <1>5, <2>4, <2>5, <2>6, SeqEqual
  <2>8. Deletes(m, p, q)
    BY <1>3, <1>7, <2>3, <2>7 DEF Deletes, r
  <2>9. QED
    BY <1>2, <1>6, <2>8 DEF Does, p, q
<1>8. CASE Creates(m, c, d)
  <2>1. PICK n \in 1 .. L + 1 :
          (IF n = 1 THEN m.after = Nil ELSE c[n - 1] = m.after) /\ d = Chat!InsertAt(c, n, m.item)
    BY <1>8 DEF Creates
  <2>2. m.item \in Items /\ m.what = "create" /\ ~In(m.item, c)
    BY <1>8 DEF Creates
  <2>3. Adds(Items, c, d, n, m.item)
    BY <1>1, <2>1, <2>2, InsertAdds
  <2> DEFINE r == Chat!InsertAt(p, n, m.item)
  <2>4. n \in 1 .. Len(p) + 1
    BY <1>1, <1>3
  <2>5. Adds(Items, p, r, n, m.item)
    BY <1>3, <2>2, <2>4, InsertAdds
  <2> HIDE DEF r
  <2>6. r \in Seq(Items) /\ Len(r) = L + 1 + 1 /\ Len(d) = L + 1
    BY <1>3, <2>3, <2>5 DEF Adds
  <2>7. ASSUME NEW k \in 1 .. L + 1 + 1 PROVE r[k] = q[k]
    <3>1. r[k] = IF k < n THEN p[k] ELSE IF k = n THEN m.item ELSE p[k - 1]
      BY <1>3, <2>5 DEF Adds
    <3>2. CASE k = L + 1 + 1
      <4>1. ~(k < n) /\ k # n /\ k - 1 = L + 1
        BY <1>1, <3>2
      <4>2. QED
        BY <1>3, <1>5, <2>6, <3>1, <3>2, <4>1
    <3>3. CASE k # L + 1 + 1
      <4>1. k \in 1 .. L + 1 /\ (k < n => k \in 1 .. L) /\ (~(k < n) /\ k # n => k - 1 \in 1 .. L)
        BY <1>1, <3>3
      <4>2. d[k] = IF k < n THEN c[k] ELSE IF k = n THEN m.item ELSE c[k - 1]
        BY <2>3, <4>1 DEF Adds
      <4>3. q[k] = d[k]
        BY <1>5, <2>6, <4>1
      <4>4. QED
        BY <1>3, <3>1, <4>1, <4>2, <4>3
    <3>4. QED
      BY <3>2, <3>3
  <2>8. r = q
    BY <1>5, <2>6, <2>7, SeqEqual
  <2>9. ~In(m.item, p)
    <3>1. \A k \in 1 .. L + 1 : k \in 1 .. L \/ k = L + 1
      BY <1>1
    <3>2. \A k \in 1 .. L : p[k] # m.item
      BY <1>3, <2>2 DEF In
    <3>3. QED
      BY <1>3, <3>1, <3>2 DEF In
  <2>10. IF n = 1 THEN m.after = Nil ELSE p[n - 1] = m.after
    <3>1. n # 1 => n - 1 \in 1 .. L
      BY <1>1
    <3>2. QED
      BY <1>3, <2>1, <3>1
  <2>11. Creates(m, p, q)
    BY <2>2, <2>4, <2>8, <2>9, <2>10 DEF Creates, r
  <2>12. QED
    BY <1>2, <1>6, <2>11 DEF Does, p, q
<1>9. QED
  BY <1>7, <1>8 DEF Does

\* The item at a place, or None beside the chat.
LEMMA GetAdds ==
    ASSUME NEW c \in Seq(Items), NEW d, NEW n \in 1 .. Len(c) + 1, NEW e, Adds(Items, c, d, n, e)
    PROVE  \A i \in Int : Get(d, i) = IF i < n THEN Get(c, i) ELSE IF i = n THEN e ELSE Get(c, i - 1)
<1>1. Len(c) \in Nat /\ n \in Nat /\ 1 <= n /\ n <= Len(c) + 1 /\ Len(d) = Len(c) + 1
  BY LenProperties DEF Adds
<1>2. ASSUME NEW i \in Int
      PROVE Get(d, i) = IF i < n THEN Get(c, i) ELSE IF i = n THEN e ELSE Get(c, i - 1)
  <2>1. CASE i \in 1 .. Len(c) + 1
    <3>1. Get(d, i) = d[i] /\ d[i] = IF i < n THEN c[i] ELSE IF i = n THEN e ELSE c[i - 1]
      BY <1>1, <2>1 DEF Adds, Get
    <3>2. i < n => Get(c, i) = c[i]
      BY <1>1, <2>1 DEF Get
    <3>3. ~(i < n) /\ i # n => Get(c, i - 1) = c[i - 1]
      BY <1>1, <2>1 DEF Get
    <3>4. QED
      BY <3>1, <3>2, <3>3
  <2>2. CASE i \notin 1 .. Len(c) + 1
    <3>1. Get(d, i) = Nil
      BY <1>1, <2>2 DEF Get
    <3>2. i < n => Get(c, i) = Nil
      BY <1>1, <2>2 DEF Get
    <3>3. ~(i < n) => i # n /\ Get(c, i - 1) = Nil
      BY <1>1, <2>2 DEF Get
    <3>4. QED
      BY <3>1, <3>2, <3>3
  <2>3. QED
    BY <2>1, <2>2
<1>3. QED
  BY <1>2

\* At the places of a chat are its items, each once, and nothing elsewhere.
LEMMA GetIs ==
    ASSUME NEW c, IsChat(c)
    PROVE  /\ \A i \in Int : Get(c, i) \in Items \cup {Nil}
           /\ \A i \in Int : i \in 1 .. Len(c) <=> Get(c, i) # Nil
           /\ \A i, j \in Int : Get(c, i) = Get(c, j) /\ Get(c, i) # Nil => i = j
           /\ \A i \in Int : Get(c, i) # Nil => In(Get(c, i), c)
<1>1. Nil \notin Items /\ \A i \in 1 .. Len(c) : c[i] \in Items
  BY ServicesAssumption, ElementOfSeq DEF IsChat
<1>2. \A i \in Int : i \in 1 .. Len(c) <=> Get(c, i) # Nil
  BY <1>1 DEF Get
<1>3. \A i, j \in Int : Get(c, i) = Get(c, j) /\ Get(c, i) # Nil => i = j
  <2>1. ASSUME NEW i \in Int, NEW j \in Int, Get(c, i) = Get(c, j), Get(c, i) # Nil PROVE i = j
    <3>1. i \in 1 .. Len(c) /\ j \in 1 .. Len(c)
      BY <1>2, <2>1
    <3>2. c[i] = c[j]
      BY <2>1, <3>1 DEF Get
    <3>3. QED
      BY <3>1, <3>2 DEF IsChat
  <2>2. QED
    BY <2>1
<1>4. QED
  BY <1>1, <1>2, <1>3 DEF Get, In

\* The list has the items of a chat, in terms of Get.
LEMMA CopiedIs ==
    ASSUME NEW c, IsChat(c)
    PROVE  Copied(c) <=>
             /\ known = {x \in Items : In(x, c)}
             /\ head = Get(c, 1) /\ tail = Get(c, Len(c))
             /\ next \in [Items -> Items \cup {Nil}] /\ prev \in [Items -> Items \cup {Nil}]
             /\ \A i \in 1 .. Len(c) :
                  next[Get(c, i)] = Get(c, i + 1) /\ prev[Get(c, i)] = Get(c, i - 1)
<1>1. \A i \in 1 .. Len(c) : Get(c, i) = c[i] /\ c[i] \in Items
  BY ElementOfSeq DEF Get, IsChat
<1>2. {c[i] : i \in 1 .. Len(c)} = {x \in Items : In(x, c)}
  BY <1>1 DEF In
<1>3. QED
  BY <1>1, <1>2 DEF Copied

\* insert puts an item where the message says.
LEMMA InsertKeepsList ==
    ASSUME NEW c, NEW d, NEW m, Copied(c), Creates(m, c, d), Chat!Insert(m.after, m.item)
    PROVE  Copied(d)'
<1> DEFINE e == m.item
           L == Len(c)
<1>1. PICK n \in 1 .. L + 1 :
        (IF n = 1 THEN m.after = Nil ELSE c[n - 1] = m.after) /\ d = Chat!InsertAt(c, n, e)
  BY DEF Creates
<1>2. /\ IsChat(c) /\ c \in Seq(Items) /\ L \in Nat /\ e \in Items /\ ~In(e, c) /\ Nil \notin Items
      /\ n \in Nat
  BY LenProperties, ServicesAssumption DEF IsChat, Creates, Copied
<1>3. Adds(Items, c, d, n, e)
  BY <1>1, <1>2, InsertAdds
<1>4. IsChat(d) /\ (\A x : In(x, d) <=> In(x, c) \/ x = e) /\ Len(d) = L + 1
  <2>1. Len(d) = L + 1
    BY <1>3 DEF Adds
  <2>2. \A x : In(x, d) <=> In(x, c) \/ x = e
    BY <1>2, <1>3, AddsIs
  <2>3. IsChat(c) /\ ~In(e, c) => IsChat(d)
    BY <1>2, <1>3, AddsIs
  <2>4. QED
    BY <1>2, <2>1, <2>2, <2>3
<1>5. \A i \in Int : Get(d, i) = IF i < n THEN Get(c, i) ELSE IF i = n THEN e ELSE Get(c, i - 1)
  BY <1>2, <1>3, GetAdds
<1>6. m.after = Get(c, n - 1)
  BY <1>1, <1>2 DEF Get
<1>7. /\ \A i \in Int : Get(c, i) \in Items \cup {Nil}
      /\ \A i \in Int : i \in 1 .. L <=> Get(c, i) # Nil
      /\ \A i, j \in Int : Get(c, i) = Get(c, j) /\ Get(c, i) # Nil => i = j
      /\ \A i \in Int : Get(c, i) # e
  <2>1. \A i \in Int : Get(c, i) # Nil => In(Get(c, i), c)
    BY <1>2, GetIs
  <2>2. QED
    BY <1>2, <2>1, GetIs
<1>8. /\ known = {x \in Items : In(x, c)} /\ head = Get(c, 1) /\ tail = Get(c, L)
      /\ next \in [Items -> Items \cup {Nil}] /\ prev \in [Items -> Items \cup {Nil}]
      /\ \A i \in 1 .. L : next[Get(c, i)] = Get(c, i + 1) /\ prev[Get(c, i)] = Get(c, i - 1)
  BY <1>2, CopiedIs
<1>9. m.after # Nil => m.after \in known /\ n - 1 \in 1 .. L
  <2>1. m.after # Nil => n - 1 \in 1 .. L /\ In(m.after, c) /\ m.after \in Items
    BY <1>2, <1>6, <1>7, GetIs
  <2>2. QED
    BY <1>8, <2>1
<1> DEFINE follower == IF m.after = Nil THEN head ELSE next[m.after]
<1>10. follower = Get(c, n)
  <2>1. CASE m.after = Nil
    <3>1. n = 1
      BY <1>1, <1>2, <1>6, <1>7, <2>1
    <3>2. QED
      BY <1>8, <2>1, <3>1
  <2>2. CASE m.after # Nil
    BY <1>2, <1>6, <1>8, <1>9, <2>2
  <2>3. QED
    BY <2>1, <2>2
<1>11. /\ head' = IF m.after = Nil THEN e ELSE head
       /\ tail' = Chat!TailAfterInsert(e, m.after)
       /\ next' = [j \in Items |-> IF j = e THEN follower ELSE IF j = m.after THEN e ELSE next[j]]
       /\ prev' = [j \in Items |-> IF j = e THEN m.after ELSE IF j = follower THEN e ELSE prev[j]]
       /\ known' = known \cup {e}
  BY <1>2, <1>8, <1>9 DEF Chat!Insert, Chat!Becomes
<1>12. known' = {x \in Items : In(x, d)}
  BY <1>2, <1>4, <1>8, <1>11
<1> HIDE DEF follower, e
<1>13. head' = Get(d, 1)
  BY <1>1, <1>2, <1>5, <1>6, <1>7, <1>8, <1>9, <1>11
<1>14. tail' = Get(d, Len(d))
  <2>1. Get(d, Len(d)) = IF n = L + 1 THEN e ELSE Get(c, L)
    BY <1>2, <1>4, <1>5
  <2>2. CASE n = 1
    <3>1. m.after = Nil
      BY <1>1, <2>2
    <3>2. head = Nil <=> L = 0
      BY <1>2, <1>7, <1>8
    <3>3. tail' = IF head = Nil THEN e ELSE tail
      BY <1>11, <3>1 DEF Chat!TailAfterInsert, e
    <3>4. QED
      BY <1>2, <1>8, <2>1, <2>2, <3>2, <3>3
  <2>3. CASE n # 1
    <3>1. m.after # Nil /\ next[m.after] = Get(c, n)
      BY <1>2, <1>6, <1>7, <1>8, <2>3
    <3>2. Get(c, n) = Nil <=> n = L + 1
      BY <1>2, <1>7
    <3>3. tail' = IF next[m.after] = Nil THEN e ELSE tail
      BY <1>11, <3>1 DEF Chat!TailAfterInsert, e
    <3>4. QED
      BY <1>8, <2>1, <3>1, <3>2, <3>3
  <2>4. QED
    BY <2>2, <2>3
<1>15. next' \in [Items -> Items \cup {Nil}] /\ prev' \in [Items -> Items \cup {Nil}]
  <2>1. follower \in Items \cup {Nil} /\ m.after \in Items \cup {Nil} /\ e \in Items
    BY <1>2, <1>6, <1>7, <1>10 DEF e
  <2>2. QED
    BY <1>8, <1>11, <2>1
<1>16. ASSUME NEW i \in 1 .. L + 1
       PROVE  next'[Get(d, i)] = Get(d, i + 1) /\ prev'[Get(d, i)] = Get(d, i - 1)
  <2>0. e \in Items
    BY <1>2 DEF e
  <2>1. CASE i < n
    <3>1. i \in 1 .. L /\ Get(d, i) = Get(c, i) /\ Get(c, i) \in Items /\ Get(c, i) # e
      BY <1>2, <1>5, <1>7, <2>1
    <3>2. next'[Get(c, i)] = IF Get(c, i) = m.after THEN e ELSE Get(c, i + 1)
      BY <1>8, <1>11, <3>1
    <3>3. Get(c, i) = m.after <=> i = n - 1
      BY <1>2, <1>6, <1>7, <3>1
    <3>4. Get(d, i + 1) = IF i + 1 < n THEN Get(c, i + 1) ELSE e
      BY <1>2, <1>5, <2>1
    <3>5. prev'[Get(c, i)] = IF Get(c, i) = follower THEN e ELSE Get(c, i - 1)
      BY <1>8, <1>11, <3>1
    <3>6. Get(c, i) # follower
      BY <1>2, <1>7, <1>10, <2>1, <3>1
    <3>7. Get(d, i - 1) = Get(c, i - 1)
      BY <1>2, <1>5, <2>1
    <3>8. QED
      BY <1>2, <2>1, <3>1, <3>2, <3>3, <3>4, <3>5, <3>6, <3>7
  <2>2. CASE i = n
    <3>1. Get(d, i) = e /\ Get(d, i + 1) = Get(c, n) /\ Get(d, i - 1) = Get(c, n - 1)
      BY <1>2, <1>5, <2>2
    <3>2. next'[e] = follower /\ prev'[e] = m.after
      BY <1>11, <2>0
    <3>3. QED
      BY <1>6, <1>10, <3>1, <3>2
  <2>3. CASE i > n
    <3>1. /\ i - 1 \in 1 .. L /\ Get(d, i) = Get(c, i - 1) /\ Get(c, i - 1) \in Items
          /\ Get(c, i - 1) # e /\ (i - 1) + 1 = i /\ (i - 1) - 1 = i - 2
      BY <1>2, <1>5, <1>7, <2>3
    <3>2. next'[Get(c, i - 1)] = IF Get(c, i - 1) = m.after THEN e ELSE Get(c, i)
      BY <1>8, <1>11, <3>1
    <3>3. Get(c, i - 1) # m.after
      BY <1>2, <1>6, <1>7, <2>3, <3>1
    <3>4. Get(d, i + 1) = Get(c, i)
      BY <1>2, <1>5, <2>3
    <3>5. prev'[Get(c, i - 1)] = IF Get(c, i - 1) = follower THEN e ELSE Get(c, i - 2)
      BY <1>8, <1>11, <3>1
    <3>6. Get(c, i - 1) = follower <=> i - 1 = n
      BY <1>2, <1>7, <1>10, <3>1
    <3>7. Get(d, i - 1) = IF i - 1 = n THEN e ELSE Get(c, i - 2)
      BY <1>2, <1>5, <2>3, <3>1
    <3>8. QED
      BY <3>1, <3>2, <3>3, <3>4, <3>5, <3>6, <3>7
  <2>4. QED
    BY <1>2, <2>1, <2>2, <2>3
<1>17. QED
  <2>1. Copied(d)' <=>
             /\ known' = {x \in Items : In(x, d)}
             /\ head' = Get(d, 1) /\ tail' = Get(d, Len(d))
             /\ next' \in [Items -> Items \cup {Nil}] /\ prev' \in [Items -> Items \cup {Nil}]
             /\ \A i \in 1 .. Len(d) :
                  next'[Get(d, i)] = Get(d, i + 1) /\ prev'[Get(d, i)] = Get(d, i - 1)
    <3>1. \A i \in 1 .. Len(d) : Get(d, i) = d[i] /\ d[i] \in Items
      BY <1>4, ElementOfSeq DEF Get, IsChat
    <3>2. {d[i] : i \in 1 .. Len(d)} = {x \in Items : In(x, d)}
      BY <3>1 DEF In
    <3>3. QED
      BY <1>4, <3>1, <3>2 DEF Copied
  <2>2. QED
    BY <1>4, <1>12, <1>13, <1>14, <1>15, <1>16, <2>1

\* delete takes an item out of the list.
LEMMA DeleteKeepsList ==
    ASSUME NEW c, NEW d, NEW m, Copied(c), Deletes(m, c, d), Chat!Delete(m.item)
    PROVE  Copied(d)'
<1> DEFINE e == m.item
           L == Len(d)
<1>1. PICK n \in 1 .. Len(c) : c[n] = e /\ d = Chat!RemoveAt(c, n)
  BY DEF Deletes
<1>2. /\ IsChat(c) /\ c \in Seq(Items) /\ Len(c) \in Nat /\ e \in Items /\ Nil \notin Items
      /\ n \in Nat
  BY <1>1, LenProperties, ElementOfSeq, ServicesAssumption DEF IsChat, Copied
<1>3. Adds(Items, d, c, n, e) /\ d \in Seq(Items) /\ L = Len(c) - 1
  BY <1>1, <1>2, RemoveAdds, Removed DEF Chat!RemoveAt
<1>4. Gone(e, c, d)
  BY <1>2, DeletesIs
<1>5. \A i \in Int : Get(c, i) = IF i < n THEN Get(d, i) ELSE IF i = n THEN e ELSE Get(d, i - 1)
  <2>1. n \in 1 .. L + 1
    BY <1>2, <1>3
  <2>2. QED
    BY <1>3, <2>1, GetAdds
<1>6. \A i \in Int : Get(d, i) = IF i < n THEN Get(c, i) ELSE Get(c, i + 1)
  <2>1. ASSUME NEW i \in Int PROVE Get(d, i) = IF i < n THEN Get(c, i) ELSE Get(c, i + 1)
    <3>1. CASE i < n
      BY <1>5, <3>1
    <3>2. CASE ~(i < n)
      <4>1. i + 1 \in Int /\ ~(i + 1 < n) /\ i + 1 # n /\ (i + 1) - 1 = i
        BY <1>2, <3>2
      <4>2. QED
        BY <1>5, <3>2, <4>1
    <3>3. QED
      BY <3>1, <3>2
  <2>2. QED
    BY <2>1
<1>7. /\ \A i \in Int : Get(c, i) \in Items \cup {Nil}
      /\ \A i \in Int : i \in 1 .. Len(c) <=> Get(c, i) # Nil
      /\ \A i, j \in Int : Get(c, i) = Get(c, j) /\ Get(c, i) # Nil => i = j
  BY <1>2, GetIs
<1>8. /\ known = {x \in Items : In(x, c)} /\ head = Get(c, 1) /\ tail = Get(c, Len(c))
      /\ next \in [Items -> Items \cup {Nil}] /\ prev \in [Items -> Items \cup {Nil}]
      /\ \A i \in 1 .. Len(c) :
           next[Get(c, i)] = Get(c, i + 1) /\ prev[Get(c, i)] = Get(c, i - 1)
  BY <1>2, CopiedIs
<1>9. e \in known /\ Get(c, n) = e
  BY <1>1, <1>2, <1>8 DEF In, Get
<1>10. next[e] = Get(c, n + 1) /\ prev[e] = Get(c, n - 1)
  BY <1>8, <1>9
<1>11. /\ head' = IF head = e THEN Get(c, n + 1) ELSE head
       /\ tail' = IF tail = e THEN Get(c, n - 1) ELSE tail
       /\ next' = [j \in Items |-> IF j = e THEN Nil
                                   ELSE IF j = Get(c, n - 1) THEN Get(c, n + 1) ELSE next[j]]
       /\ prev' = [j \in Items |-> IF j = e THEN Nil
                                   ELSE IF j = Get(c, n + 1) THEN Get(c, n - 1) ELSE prev[j]]
       /\ known' = known \ {e}
  BY <1>9, <1>10 DEF Chat!Delete, Chat!Becomes
<1>12. known' = {x \in Items : In(x, d)}
  BY <1>4, <1>8, <1>11 DEF Gone
<1> HIDE DEF e
<1>13. head' = Get(d, 1)
  <2>1. head = e <=> n = 1
    BY <1>2, <1>7, <1>8, <1>9
  <2>2. Get(d, 1) = IF n = 1 THEN Get(c, 2) ELSE Get(c, 1)
    BY <1>1, <1>2, <1>6
  <2>3. QED
    BY <1>8, <1>11, <2>1, <2>2
<1>14. tail' = Get(d, L)
  <2>1. tail = e <=> n = Len(c)
    BY <1>2, <1>7, <1>8, <1>9
  <2>2. Get(d, L) = IF n = Len(c) THEN Get(c, n - 1) ELSE Get(c, Len(c))
    <3>1. CASE n = Len(c)
      <4>1. L = n - 1 /\ L < n /\ L \in Int
        BY <1>2, <1>3, <3>1
      <4>2. QED
        BY <1>6, <3>1, <4>1
    <3>2. CASE n # Len(c)
      <4>1. ~(L < n) /\ L + 1 = Len(c) /\ L \in Int
        BY <1>1, <1>2, <1>3, <3>2
      <4>2. QED
        BY <1>6, <3>2, <4>1
    <3>3. QED
      BY <3>1, <3>2
  <2>3. QED
    BY <1>8, <1>11, <2>1, <2>2
<1>15. next' \in [Items -> Items \cup {Nil}] /\ prev' \in [Items -> Items \cup {Nil}]
  BY <1>2, <1>7, <1>8, <1>11
<1>16. ASSUME NEW i \in 1 .. L
       PROVE  next'[Get(d, i)] = Get(d, i + 1) /\ prev'[Get(d, i)] = Get(d, i - 1)
  <2>1. L \in Nat /\ i \in Nat
    BY <1>3, LenProperties
  <2>2. CASE i < n
    <3>1. i \in 1 .. Len(c) /\ Get(d, i) = Get(c, i) /\ Get(c, i) \in Items /\ Get(c, i) # e
      BY <1>2, <1>3, <1>6, <1>7, <1>9, <2>1, <2>2
    <3>2. /\ next'[Get(c, i)] = IF Get(c, i) = Get(c, n - 1) THEN Get(c, n + 1) ELSE Get(c, i + 1)
          /\ prev'[Get(c, i)] = IF Get(c, i) = Get(c, n + 1) THEN Get(c, n - 1) ELSE Get(c, i - 1)
      BY <1>8, <1>11, <3>1
    <3>3. Get(c, i) # Nil
      BY <1>7, <3>1
    <3>4. (Get(c, i) = Get(c, n - 1) <=> i = n - 1) /\ Get(c, i) # Get(c, n + 1)
      BY <1>2, <1>7, <2>1, <2>2, <3>3
    <3>5. /\ Get(d, i + 1) = IF i = n - 1 THEN Get(c, n + 1) ELSE Get(c, i + 1)
          /\ Get(d, i - 1) = Get(c, i - 1)
      BY <1>2, <1>6, <2>1, <2>2
    <3>6. QED
      BY <3>1, <3>2, <3>4, <3>5
  <2>3. CASE ~(i < n)
    <3>1. /\ i + 1 \in 1 .. Len(c) /\ Get(d, i) = Get(c, i + 1) /\ Get(c, i + 1) \in Items
          /\ Get(c, i + 1) # e /\ (i + 1) + 1 = i + 2 /\ (i + 1) - 1 = i
      BY <1>2, <1>3, <1>6, <1>7, <1>9, <2>1, <2>3
    <3>2. /\ next'[Get(c, i + 1)] =
               IF Get(c, i + 1) = Get(c, n - 1) THEN Get(c, n + 1) ELSE Get(c, i + 2)
          /\ prev'[Get(c, i + 1)] =
               IF Get(c, i + 1) = Get(c, n + 1) THEN Get(c, n - 1) ELSE Get(c, i)
      BY <1>8, <1>11, <3>1
    <3>3. Get(c, i + 1) # Nil
      BY <1>7, <3>1
    <3>4. (Get(c, i + 1) = Get(c, n + 1) <=> i = n) /\ Get(c, i + 1) # Get(c, n - 1)
      BY <1>2, <1>7, <2>1, <2>3, <3>3
    <3>5. /\ Get(d, i + 1) = Get(c, i + 2)
          /\ Get(d, i - 1) = IF i = n THEN Get(c, n - 1) ELSE Get(c, i)
      <4>1. Get(d, i + 1) = Get(c, i + 2)
        <5>1. i + 1 \in Int /\ ~(i + 1 < n) /\ (i + 1) + 1 = i + 2
          BY <1>2, <2>1, <2>3
        <5>2. QED
          BY <1>6, <5>1
      <4>2. CASE i = n
        <5>1. i - 1 \in Int /\ i - 1 < n
          BY <1>2, <4>2
        <5>2. QED
          BY <1>6, <4>1, <4>2, <5>1
      <4>3. CASE i # n
        <5>1. i - 1 \in Int /\ ~(i - 1 < n) /\ (i - 1) + 1 = i
          BY <1>2, <2>1, <2>3, <4>3
        <5>2. QED
          BY <1>6, <4>1, <4>3, <5>1
      <4>4. QED
        BY <4>2, <4>3
    <3>6. QED
      BY <3>1, <3>2, <3>4, <3>5
  <2>4. QED
    BY <2>2, <2>3
<1>17. QED
  <2>1. IsChat(d)
    BY <1>4 DEF Gone
  <2>2. Copied(d)' <=>
             /\ known' = {x \in Items : In(x, d)}
             /\ head' = Get(d, 1) /\ tail' = Get(d, Len(d))
             /\ next' \in [Items -> Items \cup {Nil}] /\ prev' \in [Items -> Items \cup {Nil}]
             /\ \A i \in 1 .. Len(d) :
                  next'[Get(d, i)] = Get(d, i + 1) /\ prev'[Get(d, i)] = Get(d, i - 1)
    <3>1. \A i \in 1 .. Len(d) : Get(d, i) = d[i] /\ d[i] \in Items
      BY <2>1, ElementOfSeq DEF Get, IsChat
    <3>2. {d[i] : i \in 1 .. Len(d)} = {x \in Items : In(x, d)}
      BY <3>1 DEF In
    <3>3. QED
      BY <2>1, <3>1, <3>2 DEF Copied
  <2>3. QED
    BY <2>1, <1>12, <1>13, <1>14, <1>15, <1>16, <2>2

-----------------------------------------------------------------------------
(* The chat: what stays, and the diff *)

\* What holds at the border of a grid, and of each place when it holds of its neighbours on
\* the left, above and between, holds all over it.
LEMMA GridReaches ==
    ASSUME NEW T, NEW M \in Nat, NEW N \in Nat,
           \A i \in 0 .. M, j \in 0 .. N : i = 0 \/ j = 0 => <<i, j>> \in T,
           \A i \in 1 .. M, j \in 1 .. N :
               <<i - 1, j - 1>> \in T /\ <<i - 1, j>> \in T /\ <<i, j - 1>> \in T => <<i, j>> \in T
    PROVE  \A i \in 0 .. M, j \in 0 .. N : <<i, j>> \in T
<1> DEFINE U == {s \in Nat : \A i \in 0 .. M, j \in 0 .. N : i + j <= s => <<i, j>> \in T}
<1>1. 0 \in U
  OBVIOUS
<1>2. ASSUME NEW s \in 1 .. M + N, s - 1 \in U PROVE s \in U
  <2>1. ASSUME NEW i \in 0 .. M, NEW j \in 0 .. N, i + j <= s PROVE <<i, j>> \in T
    <3>1. CASE i = 0 \/ j = 0
      BY <3>1
    <3>2. CASE ~(i = 0 \/ j = 0)
      <4>1. /\ i \in 1 .. M /\ j \in 1 .. N /\ i - 1 \in 0 .. M /\ j - 1 \in 0 .. N
            /\ (i - 1) + (j - 1) <= s - 1 /\ (i - 1) + j <= s - 1 /\ i + (j - 1) <= s - 1
        BY <2>1, <3>2
      <4>2. <<i - 1, j - 1>> \in T /\ <<i - 1, j>> \in T /\ <<i, j - 1>> \in T
        BY <1>2, <4>1
      <4>3. QED
        BY <4>1, <4>2
    <3>3. QED
      BY <3>1, <3>2
  <2>2. QED
    BY <2>1
<1> HIDE DEF U
<1>3. M + N \in U
  <2>1. U \in SUBSET Nat /\ M + N \in Nat
    BY DEF U
  <2>2. \A n \in 0 .. M + N : n \in U
    BY <1>1, <1>2, <2>1, Reaches
  <2>3. QED
    BY <2>1, <2>2
<1>4. \A i \in 0 .. M, j \in 0 .. N : i + j <= M + N
  OBVIOUS
<1>5. QED
  BY <1>3, <1>4 DEF U

\* The table of _compute_lcs.
TableIs(dp, old, new) ==
    /\ \A i \in 0 .. Len(old), j \in 0 .. Len(new) :
         dp[<<i, j>>] \in Nat /\ (i = 0 \/ j = 0 => dp[<<i, j>>] = 0)
    /\ \A i \in 1 .. Len(old), j \in 1 .. Len(new) :
         dp[<<i, j>>] = IF old[i] = new[j] THEN dp[<<i - 1, j - 1>>] + 1
                        ELSE Chat!Longer(dp[<<i - 1, j>>], dp[<<i, j - 1>>])

\* The table of the diff is what its recursion says.
LEMMA TableExists ==
    ASSUME NEW old \in Seq(Items), NEW new \in Seq(Items)
    PROVE  TableIs(Chat!Table(old, new), old, new)
<1> DEFINE M == Len(old)
           N == Len(new)
           D == (0 .. M) \X (0 .. N)
           Body(f) == [c \in D |->
                         IF c[1] = 0 \/ c[2] = 0 THEN 0
                         ELSE IF old[c[1]] = new[c[2]] THEN f[<<c[1] - 1, c[2] - 1>>] + 1
                         ELSE Chat!Longer(f[<<c[1] - 1, c[2]>>], f[<<c[1], c[2] - 1>>])]
           G == [i \in 1 .. M |-> [j \in 1 .. N |-> [t \in Nat \X Nat \X Nat |->
                   IF old[i] = new[j] THEN t[1] + 1 ELSE Chat!Longer(t[2], t[3])]]]
<1>1. M \in Nat /\ N \in Nat
  BY LenProperties
<1> HIDE DEF M, N
<1>2. G \in [1 .. M -> [1 .. N -> [Nat \X Nat \X Nat -> Nat]]]
  BY DEF Chat!Longer
<1>3. PICK f \in [D -> Nat] :
        /\ \A i \in 0 .. M, j \in 0 .. N : i = 0 \/ j = 0 => f[<<i, j>>] = 0
        /\ \A i \in 1 .. M, j \in 1 .. N :
             f[<<i, j>>] = G[i][j][<<f[<<i - 1, j - 1>>], f[<<i - 1, j>>], f[<<i, j - 1>>]>>]
  <2> HIDE DEF G
  <2>1. Grid(Nat, 0, M, N)
    BY <1>1, GridExists
  <2>2. QED
    BY <1>2, <2>1, Zenon DEF Grid
<1>4. f = Body(f)
  <2>1. ASSUME NEW i \in 0 .. M, NEW j \in 0 .. N PROVE f[<<i, j>>] = Body(f)[<<i, j>>]
    <3>1. CASE i = 0 \/ j = 0
      BY <1>3, <3>1
    <3>2. CASE ~(i = 0 \/ j = 0)
      <4>1. i \in 1 .. M /\ j \in 1 .. N /\ i - 1 \in 0 .. M /\ j - 1 \in 0 .. N
        BY <1>1, <3>2
      <4>2. f[<<i - 1, j - 1>>] \in Nat /\ f[<<i - 1, j>>] \in Nat /\ f[<<i, j - 1>>] \in Nat
        BY <4>1
      <4>3. f[<<i, j>>] = IF old[i] = new[j] THEN f[<<i - 1, j - 1>>] + 1
                          ELSE Chat!Longer(f[<<i - 1, j>>], f[<<i, j - 1>>])
        BY <1>3, <4>1, <4>2
      <4>4. QED
        BY <3>2, <4>3
    <3>3. QED
      BY <3>1, <3>2
  <2>2. \A c \in D : \E i \in 0 .. M, j \in 0 .. N : c = <<i, j>>
    OBVIOUS
  <2>3. \A c \in D : f[c] = Body(f)[c]
    <3> HIDE DEF Body
    <3>1. QED
      BY <2>1, <2>2
  <2>4. Body(f) = [c \in D |-> Body(f)[c]]
    OBVIOUS
  <2> HIDE DEF Body, D
  <2>5. QED
    BY <2>3, <2>4
<1> HIDE DEF G
<1> DEFINE dp == CHOOSE g : g = Body(g)
<1>5. dp = Body(dp)
  <2> HIDE DEF Body
  <2>1. QED
    BY <1>4
<1>6. Chat!Table(old, new) = dp
  BY DEF Chat!Table, M, N
<1> HIDE DEF dp
<1>7. \A i \in 0 .. M, j \in 0 .. N : i = 0 \/ j = 0 => dp[<<i, j>>] = 0
  BY <1>5
<1>8. ASSUME NEW i \in 1 .. M, NEW j \in 1 .. N
      PROVE  dp[<<i, j>>] = IF old[i] = new[j] THEN dp[<<i - 1, j - 1>>] + 1
                            ELSE Chat!Longer(dp[<<i - 1, j>>], dp[<<i, j - 1>>])
  <2>1. i \in 0 .. M /\ j \in 0 .. N /\ i # 0 /\ j # 0
    BY <1>1
  <2>2. <<i, j>> \in D /\ <<i, j>>[1] = i /\ <<i, j>>[2] = j
    BY <2>1
  <2>3. dp[<<i, j>>] = Body(dp)[<<i, j>>]
    BY <1>5
  <2>4. QED
    BY <2>1, <2>2, <2>3
<1> DEFINE T == {c \in D : dp[c] \in Nat}
<1>9. \A i \in 0 .. M, j \in 0 .. N : <<i, j>> \in T
  <2>1. \A i \in 0 .. M, j \in 0 .. N : i = 0 \/ j = 0 => <<i, j>> \in T
    BY <1>7
  <2>2. ASSUME NEW i \in 1 .. M, NEW j \in 1 .. N,
               <<i - 1, j - 1>> \in T, <<i - 1, j>> \in T, <<i, j - 1>> \in T
        PROVE  <<i, j>> \in T
    <3>1. <<i, j>> \in D
      BY <1>1
    <3>2. dp[<<i - 1, j - 1>>] \in Nat /\ dp[<<i - 1, j>>] \in Nat /\ dp[<<i, j - 1>>] \in Nat
      BY <2>2
    <3>3. dp[<<i - 1, j - 1>>] + 1 \in Nat
          /\ Chat!Longer(dp[<<i - 1, j>>], dp[<<i, j - 1>>]) \in Nat
      BY <3>2 DEF Chat!Longer
    <3>4. dp[<<i, j>>] \in Nat
      BY <1>8, <3>3
    <3>5. QED
      BY <3>1, <3>4
  <2> HIDE DEF T
  <2>3. QED
    BY <1>1, <2>1, <2>2, GridReaches
<1>10. QED
  BY <1>6, <1>7, <1>8, <1>9 DEF TableIs, M, N

\* The walk back through the table.
BackIs(back, dp, old, new) ==
    /\ \A i \in 0 .. Len(old), j \in 0 .. Len(new) : i = 0 \/ j = 0 => back[<<i, j>>] = {}
    /\ \A i \in 1 .. Len(old), j \in 1 .. Len(new) :
         back[<<i, j>>] = IF old[i] = new[j] THEN {old[i]} \cup back[<<i - 1, j - 1>>]
                          ELSE IF dp[<<i - 1, j>>] > dp[<<i, j - 1>>] THEN back[<<i - 1, j>>]
                          ELSE back[<<i, j - 1>>]

\* What stays is what following the table back says.
LEMMA BackExists ==
    ASSUME NEW old \in Seq(Items), NEW new \in Seq(Items)
    PROVE  \E back : /\ BackIs(back, Chat!Table(old, new), old, new)
                     /\ Chat!Lcs(old, new) = back[<<Len(old), Len(new)>>]
<1> DEFINE M == Len(old)
           N == Len(new)
           D == (0 .. M) \X (0 .. N)
           dp == Chat!Table(old, new)
           Body(f) == [c \in D |->
                         IF c[1] = 0 \/ c[2] = 0 THEN {}
                         ELSE IF old[c[1]] = new[c[2]] THEN {old[c[1]]} \cup f[<<c[1] - 1, c[2] - 1>>]
                         ELSE IF dp[<<c[1] - 1, c[2]>>] > dp[<<c[1], c[2] - 1>>]
                              THEN f[<<c[1] - 1, c[2]>>] ELSE f[<<c[1], c[2] - 1>>]]
           S == SUBSET Items
           G == [i \in 1 .. M |-> [j \in 1 .. N |-> [t \in S \X S \X S |->
                   IF old[i] = new[j] THEN {old[i]} \cup t[1]
                   ELSE IF dp[<<i - 1, j>>] > dp[<<i, j - 1>>] THEN t[2] ELSE t[3]]]]
<1>1. M \in Nat /\ N \in Nat /\ \A i \in 1 .. M : old[i] \in Items
  BY LenProperties, ElementOfSeq
<1> HIDE DEF M, N, dp
<1>2. G \in [1 .. M -> [1 .. N -> [S \X S \X S -> S]]]
  <2>1. ASSUME NEW i \in 1 .. M, NEW j \in 1 .. N, NEW t \in S \X S \X S
        PROVE  (IF old[i] = new[j] THEN {old[i]} \cup t[1]
                ELSE IF dp[<<i - 1, j>>] > dp[<<i, j - 1>>] THEN t[2] ELSE t[3]) \in S
    <3>1. t[1] \in S /\ t[2] \in S /\ t[3] \in S
      OBVIOUS
    <3>2. {old[i]} \cup t[1] \in S
      BY <1>1, <3>1
    <3>3. QED
      BY <3>1, <3>2
  <2> HIDE DEF S
  <2>2. QED
    BY <2>1
<1>3. PICK f \in [D -> S] :
        /\ \A i \in 0 .. M, j \in 0 .. N : i = 0 \/ j = 0 => f[<<i, j>>] = {}
        /\ \A i \in 1 .. M, j \in 1 .. N :
             f[<<i, j>>] = G[i][j][<<f[<<i - 1, j - 1>>], f[<<i - 1, j>>], f[<<i, j - 1>>]>>]
  <2>1. {} \in S
    OBVIOUS
  <2> HIDE DEF G, S
  <2>2. Grid(S, {}, M, N)
    BY <1>1, <2>1, GridExists
  <2>3. QED
    BY <1>2, <2>2, Zenon DEF Grid
<1>4. f = Body(f)
  <2>1. ASSUME NEW i \in 0 .. M, NEW j \in 0 .. N PROVE f[<<i, j>>] = Body(f)[<<i, j>>]
    <3>1. CASE i = 0 \/ j = 0
      BY <1>3, <3>1
    <3>2. CASE ~(i = 0 \/ j = 0)
      <4>1. i \in 1 .. M /\ j \in 1 .. N /\ i - 1 \in 0 .. M /\ j - 1 \in 0 .. N
        BY <1>1, <3>2
      <4>2. f[<<i - 1, j - 1>>] \in S /\ f[<<i - 1, j>>] \in S /\ f[<<i, j - 1>>] \in S
        <5> HIDE DEF S
        <5>1. QED
          BY <4>1
      <4>3. f[<<i, j>>] = IF old[i] = new[j] THEN {old[i]} \cup f[<<i - 1, j - 1>>]
                          ELSE IF dp[<<i - 1, j>>] > dp[<<i, j - 1>>] THEN f[<<i - 1, j>>]
                          ELSE f[<<i, j - 1>>]
        <5> DEFINE t == <<f[<<i - 1, j - 1>>], f[<<i - 1, j>>], f[<<i, j - 1>>]>>
        <5>1. t \in S \X S \X S
          <6> HIDE DEF S
          <6>1. QED
            BY <4>2
        <5>2. f[<<i, j>>] = G[i][j][t]
          BY <1>3, <4>1
        <5>3. G[i][j][t] = IF old[i] = new[j] THEN {old[i]} \cup t[1]
                           ELSE IF dp[<<i - 1, j>>] > dp[<<i, j - 1>>] THEN t[2] ELSE t[3]
          <6> HIDE DEF S, t
          <6>1. QED
            BY <4>1, <5>1
        <5>4. QED
          BY <5>2, <5>3
      <4>4. QED
        BY <3>2, <4>3
    <3>3. QED
      BY <3>1, <3>2
  <2>2. \A c \in D : \E i \in 0 .. M, j \in 0 .. N : c = <<i, j>>
    OBVIOUS
  <2>3. \A c \in D : f[c] = Body(f)[c]
    <3> HIDE DEF Body
    <3>1. QED
      BY <2>1, <2>2
  <2>4. Body(f) = [c \in D |-> Body(f)[c]]
    OBVIOUS
  <2> HIDE DEF Body, D
  <2>5. QED
    BY <2>3, <2>4
<1> HIDE DEF G
<1> DEFINE back == CHOOSE g : g = Body(g)
<1>5. back = Body(back)
  <2> HIDE DEF Body
  <2>1. QED
    BY <1>4
<1>6. Chat!Lcs(old, new) = back[<<M, N>>]
  BY DEF Chat!Lcs, M, N, dp
<1> HIDE DEF back
<1>7. \A i \in 0 .. M, j \in 0 .. N : i = 0 \/ j = 0 => back[<<i, j>>] = {}
  BY <1>5
<1>8. ASSUME NEW i \in 1 .. M, NEW j \in 1 .. N
      PROVE  back[<<i, j>>] = IF old[i] = new[j] THEN {old[i]} \cup back[<<i - 1, j - 1>>]
                              ELSE IF dp[<<i - 1, j>>] > dp[<<i, j - 1>>] THEN back[<<i - 1, j>>]
                              ELSE back[<<i, j - 1>>]
  <2>1. i \in 0 .. M /\ j \in 0 .. N /\ i # 0 /\ j # 0
    BY <1>1
  <2>2. <<i, j>> \in D /\ <<i, j>>[1] = i /\ <<i, j>>[2] = j
    BY <2>1
  <2>3. back[<<i, j>>] = Body(back)[<<i, j>>]
    BY <1>5
  <2>4. QED
    BY <2>1, <2>2, <2>3
<1>9. BackIs(back, dp, old, new)
  BY <1>7, <1>8 DEF BackIs, M, N
<1>10. QED
  BY <1>6, <1>9 DEF M, N, dp

\* What stays: items of both chats, in the same order, and as many as the table says.
LEMMA BackStays ==
    ASSUME NEW old, NEW new, NEW dp, NEW back, IsChat(old), IsChat(new),
           TableIs(dp, old, new), BackIs(back, dp, old, new),
           NEW i \in 0 .. Len(old), NEW j \in 0 .. Len(new)
    PROVE  LET X == back[<<i, j>>]
           IN /\ \A x \in X : (\E k \in 1 .. i : old[k] = x) /\ (\E l \in 1 .. j : new[l] = x)
              /\ \A x, y \in X : Ahead(old, x, y) => Ahead(new, x, y)
              /\ IsFiniteSet(X) /\ Cardinality(X) = dp[<<i, j>>]
<1> DEFINE M == Len(old)
           N == Len(new)
           Places(a, b) == \A x \in back[<<a, b>>] : (\E k \in 1 .. a : old[k] = x)
                                                     /\ (\E l \in 1 .. b : new[l] = x)
           Order(a, b) == \A x, y \in back[<<a, b>>] : Ahead(old, x, y) => Ahead(new, x, y)
           Count(a, b) == IsFiniteSet(back[<<a, b>>]) /\ Cardinality(back[<<a, b>>]) = dp[<<a, b>>]
           T == {c \in Nat \X Nat : Places(c[1], c[2]) /\ Order(c[1], c[2]) /\ Count(c[1], c[2])}
<1>1. M \in Nat /\ N \in Nat
  BY LenProperties DEF IsChat
<1>2. \A a, b \in Nat : <<a, b>> \in T <=> Places(a, b) /\ Order(a, b) /\ Count(a, b)
  <2> HIDE DEF Places, Order, Count
  <2>1. QED
    OBVIOUS
<1>3. ASSUME NEW a \in 0 .. M, NEW b \in 0 .. N, a = 0 \/ b = 0 PROVE <<a, b>> \in T
  <2>1. back[<<a, b>>] = {} /\ dp[<<a, b>>] = 0
    BY <1>3 DEF BackIs, TableIs
  <2>2. Places(a, b) /\ Order(a, b) /\ Count(a, b)
    BY <2>1, FS_EmptySet
  <2> HIDE DEF Places, Order, Count, T
  <2>3. QED
    BY <1>1, <1>2, <2>2
<1>4. ASSUME NEW a \in 1 .. M, NEW b \in 1 .. N,
             <<a - 1, b - 1>> \in T, <<a - 1, b>> \in T, <<a, b - 1>> \in T
      PROVE  <<a, b>> \in T
  <2>1. /\ Places(a - 1, b - 1) /\ Order(a - 1, b - 1) /\ Count(a - 1, b - 1)
        /\ Places(a - 1, b) /\ Order(a - 1, b) /\ Count(a - 1, b)
        /\ Places(a, b - 1) /\ Order(a, b - 1) /\ Count(a, b - 1)
    <3>1. a - 1 \in Nat /\ a \in Nat /\ b - 1 \in Nat /\ b \in Nat
      BY <1>1
    <3> HIDE DEF Places, Order, Count, T
    <3>2. QED
      BY <1>2, <1>4, <3>1
  <2>2. /\ back[<<a, b>>] = IF old[a] = new[b] THEN {old[a]} \cup back[<<a - 1, b - 1>>]
                            ELSE IF dp[<<a - 1, b>>] > dp[<<a, b - 1>>] THEN back[<<a - 1, b>>]
                            ELSE back[<<a, b - 1>>]
        /\ dp[<<a, b>>] = IF old[a] = new[b] THEN dp[<<a - 1, b - 1>>] + 1
                          ELSE Chat!Longer(dp[<<a - 1, b>>], dp[<<a, b - 1>>])
    BY DEF BackIs, TableIs
  <2>3. /\ \A k \in 1 .. a - 1 : k \in 1 .. a /\ k \in 1 .. M /\ k < a
        /\ \A l \in 1 .. b - 1 : l \in 1 .. b /\ l \in 1 .. N /\ l < b
    BY <1>1
  <2>4. Places(a, b) /\ Order(a, b) /\ Count(a, b)
    <3>1. CASE old[a] = new[b]
      <4> DEFINE X == back[<<a - 1, b - 1>>]
                 e == old[a]
      <4>1. back[<<a, b>>] = {e} \cup X /\ dp[<<a, b>>] = dp[<<a - 1, b - 1>>] + 1
        BY <2>2, <3>1
      <4>2. Places(a, b)
        BY <2>1, <2>3, <3>1, <4>1
      <4>3. e \notin X
        <5>1. SUFFICES ASSUME e \in X PROVE FALSE
          OBVIOUS
        <5>2. PICK k \in 1 .. a - 1 : old[k] = e
          BY <2>1, <5>1
        <5>3. k \in 1 .. M /\ k < a
          BY <2>3
        <5>4. k = a
          BY <5>2, <5>3 DEF IsChat
        <5>5. QED
          BY <5>3, <5>4
      <4>4. Count(a, b)
        <5>1. /\ IsFiniteSet(X \cup {e}) /\ Cardinality(X \cup {e}) = Cardinality(X) + 1
          BY <2>1, <4>3, FS_AddElement
        <5>2. X \cup {e} = back[<<a, b>>]
          BY <4>1
        <5>3. QED
          BY <2>1, <4>1, <5>1, <5>2
      <4>5. ASSUME NEW x \in back[<<a, b>>], NEW y \in back[<<a, b>>], Ahead(old, x, y)
            PROVE  Ahead(new, x, y)
        <5>1. x # y /\ ~Ahead(old, y, x)
          BY <4>5, AheadIs
        <5>2. CASE x \in X /\ y \in X
          BY <2>1, <4>5, <5>2
        <5>3. CASE x = e
          <6>1. y \in X
            BY <4>1, <5>1, <5>3
          <6>2. PICK k \in 1 .. a - 1 : old[k] = y
            BY <2>1, <6>1
          <6>3. Ahead(old, y, e)
            BY <2>3, <6>2 DEF Ahead
          <6>4. QED
            BY <5>1, <5>3, <6>3
        <5>4. CASE x \in X /\ y = e
          <6>1. PICK l \in 1 .. b - 1 : new[l] = x
            BY <2>1, <5>4
          <6>2. QED
            BY <2>3, <3>1, <5>4, <6>1 DEF Ahead
        <5>5. QED
          BY <4>1, <5>2, <5>3, <5>4
      <4>6. QED
        BY <4>2, <4>4, <4>5
    <3>2. CASE old[a] # new[b]
      <4>1. CASE dp[<<a - 1, b>>] > dp[<<a, b - 1>>]
        <5>1. back[<<a, b>>] = back[<<a - 1, b>>]
          BY <2>2, <3>2, <4>1
        <5>2. dp[<<a, b>>] = dp[<<a - 1, b>>]
          <6>1. a - 1 \in 0 .. M /\ b \in 0 .. N /\ a \in 0 .. M /\ b - 1 \in 0 .. N
            BY <1>1
          <6>2. dp[<<a - 1, b>>] \in Nat /\ dp[<<a, b - 1>>] \in Nat
            BY <6>1 DEF TableIs
          <6>3. QED
            BY <2>2, <3>2, <4>1, <6>2 DEF Chat!Longer
        <5>3. QED
          BY <2>1, <2>3, <5>1, <5>2
      <4>2. CASE ~(dp[<<a - 1, b>>] > dp[<<a, b - 1>>])
        <5>1. back[<<a, b>>] = back[<<a, b - 1>>]
          BY <2>2, <3>2, <4>2
        <5>2. dp[<<a, b>>] = dp[<<a, b - 1>>]
          <6>1. a - 1 \in 0 .. M /\ b \in 0 .. N /\ a \in 0 .. M /\ b - 1 \in 0 .. N
            BY <1>1
          <6>2. dp[<<a - 1, b>>] \in Nat /\ dp[<<a, b - 1>>] \in Nat
            BY <6>1 DEF TableIs
          <6>3. QED
            BY <2>2, <3>2, <4>2, <6>2 DEF Chat!Longer
        <5>3. QED
          BY <2>1, <2>3, <5>1, <5>2
      <4>3. QED
        BY <4>1, <4>2
    <3>3. QED
      BY <3>1, <3>2
  <2> HIDE DEF Places, Order, Count, T
  <2>5. QED
    BY <1>1, <1>2, <2>4
<1> HIDE DEF T, M, N
<1>5. \A a \in 0 .. M, b \in 0 .. N : <<a, b>> \in T
  BY <1>1, <1>3, <1>4, GridReaches
<1>6. i \in 0 .. M /\ j \in 0 .. N /\ i \in Nat /\ j \in Nat
  BY <1>1 DEF M, N
<1>7. Places(i, j) /\ Order(i, j) /\ Count(i, j)
  <2> HIDE DEF Places, Order, Count
  <2>1. QED
    BY <1>2, <1>5, <1>6
<1>8. QED
  BY <1>7

\* The table bounds the items that the two chats can keep in common.
LEMMA TableBounds ==
    ASSUME NEW old \in Seq(Items), NEW new \in Seq(Items), NEW dp, TableIs(dp, old, new),
           NEW chosen, NEW f, NEW g, UpTo(f, old, chosen), UpTo(g, new, chosen),
           NEW i \in 0 .. Len(old), NEW j \in 0 .. Len(new), f[i] = g[j]
    PROVE  Len(f[i]) <= dp[<<i, j>>]
<1> DEFINE M == Len(old)
           N == Len(new)
           Bound(a, b) == f[a] = g[b] => Len(f[a]) <= dp[<<a, b>>]
           T == {c \in Nat \X Nat : Bound(c[1], c[2])}
<1>1. M \in Nat /\ N \in Nat /\ (\A a \in 1 .. M : old[a] \in Items) /\ \A b \in 1 .. N : new[b] \in Items
  BY LenProperties, ElementOfSeq
<1>2. \A a, b \in Nat : <<a, b>> \in T <=> Bound(a, b)
  <2> HIDE DEF Bound
  <2>1. QED
    OBVIOUS
<1>3. /\ \A a \in 0 .. M : f[a] \in Seq(Items) /\ Len(f[a]) \in Nat
      /\ \A b \in 0 .. N : g[b] \in Seq(Items) /\ Len(g[b]) \in Nat
  <2>1. (\A a \in 0 .. M : f[a] \in Seq(Items)) /\ \A b \in 0 .. N : g[b] \in Seq(Items)
    BY DEF UpTo
  <2>2. QED
    BY <2>1, LenProperties
<1>4. f[0] = <<>> /\ g[0] = <<>> /\ Len(<<>>) = 0
  BY EmptySeq DEF UpTo
<1>5. ASSUME NEW a \in 0 .. M, NEW b \in 0 .. N, a = 0 \/ b = 0 PROVE <<a, b>> \in T
  <2>1. dp[<<a, b>>] = 0
    BY <1>5 DEF TableIs
  <2>2. f[a] = g[b] => Len(f[a]) = 0
    BY <1>4, <1>5
  <2>3. Bound(a, b)
    BY <2>1, <2>2
  <2> HIDE DEF Bound, T
  <2>4. QED
    BY <1>1, <1>2, <2>3
<1>6. ASSUME NEW a \in 1 .. M, NEW b \in 1 .. N,
             <<a - 1, b - 1>> \in T, <<a - 1, b>> \in T, <<a, b - 1>> \in T
      PROVE  <<a, b>> \in T
  <2>1. Bound(a - 1, b - 1) /\ Bound(a - 1, b) /\ Bound(a, b - 1)
    <3>1. a - 1 \in Nat /\ a \in Nat /\ b - 1 \in Nat /\ b \in Nat
      BY <1>1
    <3> HIDE DEF Bound, T
    <3>2. QED
      BY <1>2, <1>6, <3>1
  <2>2. a - 1 \in 0 .. M /\ b \in 0 .. N /\ a \in 0 .. M /\ b - 1 \in 0 .. N
    BY <1>1
  <2>3. /\ dp[<<a - 1, b>>] \in Nat /\ dp[<<a, b - 1>>] \in Nat /\ dp[<<a - 1, b - 1>>] \in Nat
        /\ dp[<<a, b>>] = IF old[a] = new[b] THEN dp[<<a - 1, b - 1>>] + 1
                          ELSE Chat!Longer(dp[<<a - 1, b>>], dp[<<a, b - 1>>])
    BY <2>2 DEF TableIs
  <2>4. /\ f[a] = IF old[a] \in chosen THEN Append(f[a - 1], old[a]) ELSE f[a - 1]
        /\ g[b] = IF new[b] \in chosen THEN Append(g[b - 1], new[b]) ELSE g[b - 1]
    BY DEF UpTo
  <2>5. SUFFICES ASSUME f[a] = g[b] PROVE Len(f[a]) <= dp[<<a, b>>]
    <3>1. Bound(a, b)
      BY <2>5
    <3> HIDE DEF Bound, T
    <3>2. QED
      BY <1>1, <1>2, <3>1
  <2>6. /\ old[a] \in Items /\ f[a - 1] \in Seq(Items) /\ Len(f[a - 1]) \in Nat
        /\ new[b] \in Items /\ g[b - 1] \in Seq(Items) /\ Len(f[a]) \in Nat
    BY <1>1, <1>3, <2>2
  <2>7. CASE old[a] \in chosen /\ new[b] \in chosen
    <3>1. Append(f[a - 1], old[a]) = Append(g[b - 1], new[b])
      BY <2>4, <2>5, <2>7
    <3>2. f[a - 1] = g[b - 1] /\ old[a] = new[b]
      BY <2>6, <3>1, AppendInjective
    <3>3. Len(f[a]) = Len(f[a - 1]) + 1
      BY <2>4, <2>6, <2>7, AppendProperties
    <3>4. QED
      BY <2>1, <2>3, <2>6, <3>2, <3>3
  <2>8. CASE old[a] = new[b] /\ old[a] \notin chosen
    <3>1. f[a] = f[a - 1] /\ g[b] = g[b - 1]
      BY <2>4, <2>8
    <3>2. Len(f[a]) <= dp[<<a - 1, b - 1>>] /\ dp[<<a, b>>] = dp[<<a - 1, b - 1>>] + 1
      BY <2>1, <2>3, <2>5, <2>8, <3>1
    <3>3. QED
      BY <2>3, <2>6, <3>2
  <2>9. CASE old[a] # new[b] /\ old[a] \notin chosen
    <3>1. f[a] = f[a - 1]
      BY <2>4, <2>9
    <3>2. Len(f[a]) <= dp[<<a - 1, b>>]
      BY <2>1, <2>5, <3>1
    <3>3. QED
      BY <2>3, <2>6, <2>9, <3>2 DEF Chat!Longer
  <2>10. CASE old[a] # new[b] /\ new[b] \notin chosen
    <3>1. g[b] = g[b - 1]
      BY <2>4, <2>10
    <3>2. Len(f[a]) <= dp[<<a, b - 1>>]
      BY <2>1, <2>5, <3>1
    <3>3. QED
      BY <2>3, <2>6, <2>10, <3>2 DEF Chat!Longer
  <2>11. QED
    BY <2>7, <2>8, <2>9, <2>10
<1> HIDE DEF T, M, N
<1>7. \A a \in 0 .. M, b \in 0 .. N : <<a, b>> \in T
  BY <1>1, <1>5, <1>6, GridReaches
<1>8. i \in 0 .. M /\ j \in 0 .. N /\ i \in Nat /\ j \in Nat
  BY <1>1 DEF M, N
<1>9. Bound(i, j)
  <2> HIDE DEF Bound
  <2>1. QED
    BY <1>2, <1>7, <1>8
<1>10. QED
  BY <1>9

\* What stays of two chats.
LEMMA LcsStays ==
    ASSUME NEW old, NEW new, IsChat(old), IsChat(new)
    PROVE  /\ \A x \in Chat!Lcs(old, new) : In(x, old) /\ In(x, new)
           /\ \A x, y \in Chat!Lcs(old, new) : Ahead(old, x, y) => Ahead(new, x, y)
           /\ \A s : Chat!Only(old, Chat!ToSet(s)) = s /\ Chat!Only(new, Chat!ToSet(s)) = s
                       => Len(s) <= Cardinality(Chat!Lcs(old, new))
<1> DEFINE dp == Chat!Table(old, new)
           M == Len(old)
           N == Len(new)
<1>1. old \in Seq(Items) /\ new \in Seq(Items) /\ M \in Nat /\ N \in Nat
  BY LenProperties DEF IsChat
<1>2. TableIs(dp, old, new)
  BY <1>1, TableExists
<1>3. PICK back : BackIs(back, dp, old, new) /\ Chat!Lcs(old, new) = back[<<M, N>>]
  BY <1>1, BackExists
<1>4. M \in 0 .. M /\ N \in 0 .. N
  BY <1>1
<1> HIDE DEF dp
<1>5. /\ \A x \in back[<<M, N>>] : (\E k \in 1 .. M : old[k] = x) /\ (\E l \in 1 .. N : new[l] = x)
      /\ \A x, y \in back[<<M, N>>] : Ahead(old, x, y) => Ahead(new, x, y)
      /\ Cardinality(back[<<M, N>>]) = dp[<<M, N>>]
  BY <1>2, <1>3, <1>4, BackStays
<1>6. ASSUME NEW s, Chat!Only(old, Chat!ToSet(s)) = s, Chat!Only(new, Chat!ToSet(s)) = s
      PROVE  Len(s) <= dp[<<M, N>>]
  <2>1. PICK f : UpTo(f, old, Chat!ToSet(s)) /\ Chat!Only(old, Chat!ToSet(s)) = f[M]
    BY <1>1, OnlyIs
  <2>2. PICK g : UpTo(g, new, Chat!ToSet(s)) /\ Chat!Only(new, Chat!ToSet(s)) = g[N]
    BY <1>1, OnlyIs
  <2>3. f[M] = g[N] /\ f[M] = s
    BY <1>6, <2>1, <2>2
  <2>4. Len(f[M]) <= dp[<<M, N>>]
    BY <1>1, <1>2, <1>4, <2>1, <2>2, <2>3, TableBounds
  <2>5. QED
    BY <2>3, <2>4
<1>7. QED
  BY <1>3, <1>5, <1>6 DEF In

\* The messages that lead from a chat to another, up to n.
Msg == [what : {"delete", "create"}, after : Items \cup {Nil}, item : Items]
Reach(c, ms, n, d) ==
    \E cs \in [0 .. n -> Seq(Items)] :
        cs[0] = c /\ cs[n] = d /\ \A k \in 1 .. n : Does(ms[k], cs[k - 1], cs[k])
Links(c, ms, d) == Reach(c, ms, Len(ms), d)

\* What an application wanted is in a chat, in order, and of what was there nothing else.
Goal(e, w, b) ==
    /\ IsChat(e) /\ \A x : In(x, w) => In(x, e)
    /\ \A x, y : In(x, w) /\ In(y, w) /\ Ahead(e, x, y) => Ahead(w, x, y)
    /\ \A x : In(x, e) /\ In(x, b) => In(x, w)

\* A message more.
LEMMA ReachMore ==
    ASSUME NEW c, NEW ms, NEW n \in Nat, NEW d, NEW e \in Seq(Items), Reach(c, ms, n, d),
           Does(ms[n + 1], d, e)
    PROVE  Reach(c, ms, n + 1, e)
<1>1. PICK cs \in [0 .. n -> Seq(Items)] :
        cs[0] = c /\ cs[n] = d /\ \A k \in 1 .. n : Does(ms[k], cs[k - 1], cs[k])
  BY DEF Reach
<1> DEFINE bs == [k \in 0 .. n + 1 |-> IF k = n + 1 THEN e ELSE cs[k]]
<1>2. bs \in [0 .. n + 1 -> Seq(Items)] /\ bs[0] = c /\ bs[n + 1] = e
  BY <1>1
<1>3. ASSUME NEW k \in 1 .. n + 1 PROVE Does(ms[k], bs[k - 1], bs[k])
  <2>1. CASE k = n + 1
    <3>1. bs[k - 1] = d /\ bs[k] = e
      BY <1>1, <2>1
    <3> HIDE DEF bs
    <3>2. QED
      BY <2>1, <3>1
  <2>2. CASE k # n + 1
    <3>1. k \in 1 .. n /\ bs[k - 1] = cs[k - 1] /\ bs[k] = cs[k]
      BY <2>2
    <3> HIDE DEF bs
    <3>2. QED
      BY <1>1, <3>1
  <2>3. QED
    BY <2>1, <2>2
<1> HIDE DEF bs
<1>4. QED
  BY <1>2, <1>3 DEF Reach

\* No message leaves the chat as it is.
LEMMA ReachNone == ASSUME NEW c \in Seq(Items), NEW ms PROVE Reach(c, ms, 0, c)
<1> DEFINE cs == [k \in 0 .. 0 |-> c]
<1>1. cs \in [0 .. 0 -> Seq(Items)] /\ cs[0] = c
  OBVIOUS
<1> HIDE DEF cs
<1>2. \A k \in 1 .. 0 : Does(ms[k], cs[k - 1], cs[k])
  OBVIOUS
<1>3. QED
  BY <1>1, <1>2 DEF Reach

\* The deletes and the creates of a diff.
Differs(ms, removed, created, new) ==
    /\ ms \in Seq(Msg) /\ Len(ms) = Len(removed) + Len(created)
    /\ \A n \in 1 .. Len(removed) : ms[n].what = "delete" /\ ms[n].item = removed[n]
    /\ \A n \in 1 .. Len(created) :
         /\ ms[Len(removed) + n].what = "create" /\ ms[Len(removed) + n].item = created[n]
         /\ \E p \in 1 .. Len(new) :
              /\ new[p] = created[n]
              /\ ms[Len(removed) + n].after = IF p = 1 THEN Nil ELSE new[p - 1]

\* The diff deletes what does not stay and then creates the rest, in the order of the chat.
LEMMA DiffIs ==
    ASSUME NEW old, NEW new, IsChat(old), IsChat(new)
    PROVE  Differs(Chat!Diff(old, new), Chat!Only(old, Items \ Chat!Lcs(old, new)),
                   Chat!Only(new, Items \ Chat!Lcs(old, new)), new)
<1> DEFINE stays == Chat!Lcs(old, new)
           removed == Chat!Only(old, Items \ stays)
           created == Chat!Only(new, Items \ stays)
           R == Len(removed)
           C == Len(created)
           Before(i) == LET n == CHOOSE n \in DOMAIN new : new[n] = i
                        IN IF n = 1 THEN Nil ELSE new[n - 1]
           u == [n \in DOMAIN removed |-> Chat!Message("delete", Nil, removed[n])]
           v == [n \in DOMAIN created |-> Chat!Message("create", Before(created[n]), created[n])]
<1>1. /\ IsChat(removed) /\ IsChat(created)
      /\ \A x : In(x, removed) <=> In(x, old) /\ x \in Items \ stays
      /\ \A x : In(x, created) <=> In(x, new) /\ x \in Items \ stays
  BY OnlyLeaves
<1>2. Chat!Diff(old, new) = u \o v
  BY Zenon DEF Chat!Diff
<1> HIDE DEF removed, created, stays
<1>3. /\ removed \in Seq(Items) /\ R \in Nat /\ DOMAIN removed = 1 .. R
      /\ created \in Seq(Items) /\ C \in Nat /\ DOMAIN created = 1 .. C
      /\ new \in Seq(Items) /\ Len(new) \in Nat /\ DOMAIN new = 1 .. Len(new)
  BY <1>1, LenProperties DEF IsChat
<1>4. /\ \A n \in 1 .. R : removed[n] \in Items
      /\ \A n \in 1 .. C : created[n] \in Items
      /\ \A n \in 1 .. Len(new) : new[n] \in Items
  BY <1>3, ElementOfSeq
<1>5. ASSUME NEW n \in 1 .. C
      PROVE  /\ Before(created[n]) \in Items \cup {Nil}
             /\ \E p \in 1 .. Len(new) :
                  new[p] = created[n] /\ Before(created[n]) = IF p = 1 THEN Nil ELSE new[p - 1]
  <2>1. In(created[n], new)
    BY <1>1 DEF In
  <2> DEFINE p == CHOOSE q \in DOMAIN new : new[q] = created[n]
  <2>2. p \in 1 .. Len(new) /\ new[p] = created[n]
    BY <1>3, <2>1 DEF In
  <2>3. Before(created[n]) = IF p = 1 THEN Nil ELSE new[p - 1]
    OBVIOUS
  <2> HIDE DEF p, Before
  <2>4. p # 1 => p - 1 \in 1 .. Len(new)
    BY <1>3, <2>2
  <2>5. QED
    BY <1>4, <2>2, <2>3, <2>4
<1> HIDE DEF Before
<1>6. /\ \A n \in 1 .. R : u[n] \in Msg /\ u[n].what = "delete" /\ u[n].item = removed[n]
      /\ u \in Seq(Msg) /\ Len(u) = R
  <2>1. \A n \in 1 .. R : u[n] \in Msg /\ u[n].what = "delete" /\ u[n].item = removed[n]
    BY <1>3, <1>4 DEF Chat!Message, Msg
  <2>2. u = [n \in 1 .. R |-> u[n]]
    BY <1>3
  <2> HIDE DEF u
  <2>3. u \in [1 .. R -> Msg]
    BY <2>1, <2>2
  <2>4. QED
    BY <1>3, <2>1, <2>3, SeqDef, LenProperties
<1>7. /\ \A n \in 1 .. C : /\ v[n] \in Msg /\ v[n].what = "create" /\ v[n].item = created[n]
                           /\ v[n].after = Before(created[n])
      /\ v \in Seq(Msg) /\ Len(v) = C
  <2>1. \A n \in 1 .. C : /\ v[n] \in Msg /\ v[n].what = "create" /\ v[n].item = created[n]
                          /\ v[n].after = Before(created[n])
    BY <1>3, <1>4, <1>5 DEF Chat!Message, Msg
  <2>2. v = [n \in 1 .. C |-> v[n]]
    BY <1>3
  <2> HIDE DEF v
  <2>3. v \in [1 .. C -> Msg]
    BY <2>1, <2>2
  <2>4. QED
    BY <1>3, <2>1, <2>3, SeqDef, LenProperties
<1> HIDE DEF u, v
<1> DEFINE ms == Chat!Diff(old, new)
<1>8. /\ ms \in Seq(Msg) /\ Len(ms) = R + C
      /\ \A n \in 1 .. R + C : ms[n] = IF n <= R THEN u[n] ELSE v[n - R]
  <2>1. /\ u \o v \in Seq(Msg) /\ Len(u \o v) = Len(u) + Len(v)
        /\ \A n \in 1 .. Len(u) + Len(v) :
             (u \o v)[n] = IF n <= Len(u) THEN u[n] ELSE v[n - Len(u)]
    <3>1. u \in Seq(Msg) /\ v \in Seq(Msg)
      BY <1>6, <1>7
    <3>2. QED
      BY <3>1, ConcatProperties, Zenon
  <2>2. ms = u \o v
    BY <1>2
  <2> HIDE DEF ms
  <2>3. QED
    BY <1>6, <1>7, <2>1, <2>2
<1> HIDE DEF ms
<1>9. \A n \in 1 .. R : ms[n].what = "delete" /\ ms[n].item = removed[n]
  <2>1. ASSUME NEW n \in 1 .. R PROVE ms[n] = u[n]
    <3>1. n \in 1 .. R + C /\ n <= R
      BY <1>3
    <3>2. QED
      BY <1>8, <3>1
  <2>2. QED
    BY <1>6, <2>1
<1>10. ASSUME NEW n \in 1 .. C
       PROVE  /\ ms[R + n].what = "create" /\ ms[R + n].item = created[n]
              /\ \E p \in 1 .. Len(new) :
                   new[p] = created[n] /\ ms[R + n].after = IF p = 1 THEN Nil ELSE new[p - 1]
  <2>1. ms[R + n] = v[n]
    <3>1. R + n \in 1 .. R + C /\ ~(R + n <= R) /\ (R + n) - R = n
      BY <1>3
    <3>2. QED
      BY <1>8, <3>1
  <2>2. QED
    BY <1>5, <1>7, <2>1
<1>11. /\ R \in Nat /\ C \in Nat /\ ms \in Seq(Msg) /\ Len(ms) = R + C
  BY <1>3, <1>8
<1>12. QED
  <2>1. Differs(ms, removed, created, new)
    BY <1>9, <1>10, <1>11 DEF Differs
  <2>2. QED
    BY <2>1 DEF removed, created, stays, ms

\* No two messages of a diff are for the same item, and each is for an item of a chat.
LEMMA DiffKeys ==
    ASSUME NEW old, NEW new, IsChat(old), IsChat(new)
    PROVE  LET ms == Chat!Diff(old, new)
           IN /\ \A n \in 1 .. Len(ms) : In(ms[n].item, old) \/ In(ms[n].item, new)
              /\ \A n, k \in 1 .. Len(ms) :
                   ms[n].what = ms[k].what /\ ms[n].item = ms[k].item => n = k
<1> DEFINE stays == Chat!Lcs(old, new)
           removed == Chat!Only(old, Items \ stays)
           created == Chat!Only(new, Items \ stays)
           ms == Chat!Diff(old, new)
           R == Len(removed)
           C == Len(created)
<1>1. /\ IsChat(removed) /\ IsChat(created)
      /\ \A x : In(x, removed) <=> In(x, old) /\ x \in Items \ stays
      /\ \A x : In(x, created) <=> In(x, new) /\ x \in Items \ stays
  BY OnlyLeaves
<1>2. /\ R \in Nat /\ C \in Nat /\ Len(ms) = R + C
      /\ \A n \in 1 .. R : ms[n].what = "delete" /\ ms[n].item = removed[n]
      /\ \A n \in 1 .. C : ms[R + n].what = "create" /\ ms[R + n].item = created[n]
  <2>1. Differs(ms, removed, created, new)
    BY DiffIs
  <2> HIDE DEF ms, removed, created, stays
  <2>2. QED
    BY <1>1, <2>1, LenProperties DEF Differs, IsChat
<1> HIDE DEF ms, removed, created, stays
<1>3. ASSUME NEW n \in 1 .. R + C, n \notin 1 .. R
      PROVE  n - R \in 1 .. C /\ ms[n].what = "create" /\ ms[n].item = created[n - R]
  <2>1. n - R \in 1 .. C /\ R + (n - R) = n
    BY <1>2, <1>3
  <2>2. ms[R + (n - R)].what = "create" /\ ms[R + (n - R)].item = created[n - R]
    BY <1>2, <2>1, Zenon
  <2>3. QED
    BY <2>1, <2>2
<1>4. ASSUME NEW n \in 1 .. R + C PROVE In(ms[n].item, old) \/ In(ms[n].item, new)
  <2>1. CASE n \in 1 .. R
    <3>1. In(ms[n].item, removed)
      BY <1>2, <2>1 DEF In
    <3>2. QED
      BY <1>1, <3>1
  <2>2. CASE n \notin 1 .. R
    <3>1. In(ms[n].item, created)
      BY <1>3, <2>2 DEF In
    <3>2. QED
      BY <1>1, <3>1
  <2>3. QED
    BY <2>1, <2>2
<1>5. ASSUME NEW n \in 1 .. R + C, NEW k \in 1 .. R + C,
             ms[n].what = ms[k].what, ms[n].item = ms[k].item
      PROVE  n = k
  <2>1. CASE n \in 1 .. R /\ k \in 1 .. R
    BY <1>1, <1>2, <1>5, <2>1 DEF IsChat
  <2>2. CASE n \notin 1 .. R /\ k \notin 1 .. R
    <3>1. n - R \in 1 .. C /\ k - R \in 1 .. C /\ created[n - R] = created[k - R]
      BY <1>3, <1>5, <2>2
    <3>2. n - R = k - R
      BY <1>1, <3>1 DEF IsChat
    <3>3. QED
      BY <1>2, <3>2
  <2>3. ms[n].what = "delete" <=> n \in 1 .. R
    BY <1>2, <1>3
  <2>4. ms[k].what = "delete" <=> k \in 1 .. R
    BY <1>2, <1>3
  <2>5. QED
    BY <1>5, <2>1, <2>2, <2>3, <2>4
<1>6. QED
  BY <1>2, <1>4, <1>5 DEF ms

\* What is left of the server's chat d0 after n deletes.
Left(d, d0, removed, n) ==
    /\ IsChat(d) /\ \A x : In(x, d) <=> In(x, d0) /\ \A k \in 1 .. n : removed[k] # x
    /\ \A x, y : Ahead(d, x, y) => Ahead(d0, x, y)

\* The deletes of a diff can be applied.
LEMMA DeletesApply ==
    ASSUME NEW d0, IsChat(d0), NEW ms, NEW removed, IsChat(removed), NEW created, NEW new,
           Differs(ms, removed, created, new), \A x : In(x, removed) => In(x, d0)
    PROVE  \E d : Reach(d0, ms, Len(removed), d) /\ Left(d, d0, removed, Len(removed))
<1> DEFINE R == Len(removed)
           T == {n \in Nat : \E d : Reach(d0, ms, n, d) /\ Left(d, d0, removed, n)}
<1>1. R \in Nat /\ d0 \in Seq(Items)
  BY LenProperties DEF IsChat
<1>2. 0 \in T
  <2>1. Reach(d0, ms, 0, d0)
    BY <1>1, ReachNone
  <2>2. Left(d0, d0, removed, 0)
    BY DEF Left
  <2>3. QED
    BY <2>1, <2>2
<1>3. ASSUME NEW n \in 1 .. R, n - 1 \in T PROVE n \in T
  <2>1. PICK d : Reach(d0, ms, n - 1, d) /\ Left(d, d0, removed, n - 1)
    BY <1>3
  <2>2. ms[n].what = "delete" /\ ms[n].item = removed[n]
    BY DEF Differs
  <2>3. In(removed[n], d)
    <3>1. In(removed[n], d0)
      BY DEF In
    <3>2. \A k \in 1 .. n - 1 : removed[k] # removed[n]
      <4>1. \A k \in 1 .. n - 1 : k \in 1 .. R /\ k # n
        BY <1>1
      <4>2. QED
        BY <4>1 DEF IsChat
    <3>3. QED
      BY <2>1, <3>1, <3>2 DEF Left
  <2>4. PICK e : Deletes(ms[n], d, e)
    BY <2>1, <2>2, <2>3, DeleteExists DEF Left
  <2>5. Gone(removed[n], d, e)
    BY <2>1, <2>2, <2>4, DeletesIs DEF Left
  <2>6. Left(e, d0, removed, n)
    <3>1. IsChat(e) /\ \A x, y : Ahead(e, x, y) => Ahead(d0, x, y)
      BY <2>1, <2>5 DEF Left, Gone
    <3>2. \A k : k \in 1 .. n <=> k \in 1 .. n - 1 \/ k = n
      BY <1>1
    <3>3. ASSUME NEW x PROVE In(x, e) <=> In(x, d0) /\ \A k \in 1 .. n : removed[k] # x
      <4>1. In(x, e) <=> In(x, d) /\ x # removed[n]
        BY <2>5 DEF Gone
      <4>2. In(x, d) <=> In(x, d0) /\ \A k \in 1 .. n - 1 : removed[k] # x
        BY <2>1 DEF Left
      <4>3. QED
        BY <3>2, <4>1, <4>2
    <3>4. QED
      BY <3>1, <3>3 DEF Left
  <2>7. Reach(d0, ms, n, e)
    <3>1. n - 1 \in Nat /\ (n - 1) + 1 = n
      BY <1>1
    <3>2. e \in Seq(Items) /\ Does(ms[(n - 1) + 1], d, e)
      BY <2>4, <2>6, <3>1 DEF Left, IsChat, Does
    <3>3. Reach(d0, ms, (n - 1) + 1, e)
      BY <2>1, <3>1, <3>2, ReachMore
    <3>4. QED
      BY <3>1, <3>3
  <2>8. n \in Nat
    BY <1>1
  <2>9. QED
    BY <2>6, <2>7, <2>8
<1> HIDE DEF T
<1>4. R \in T
  <2>1. T \in SUBSET Nat
    BY DEF T
  <2>2. \A n \in 0 .. R : n \in T
    BY <1>1, <1>2, <1>3, <2>1, Reaches
  <2>3. QED
    BY <1>1, <2>2
<1>5. QED
  BY <1>4 DEF T

\* A chat in the order of a wanted one, after n creates on top of what stays.
Grown(d, d1, created, new, stays, n) ==
    /\ IsChat(d)
    /\ \A x : In(x, new) => (In(x, d) <=> x \in stays \/ \E k \in 1 .. n : created[k] = x)
    /\ \A x : ~In(x, new) => (In(x, d) => In(x, d1))
    /\ \A x, y : In(x, new) /\ In(y, new) /\ Ahead(d, x, y) => Ahead(new, x, y)

\* A new item, created after its predecessor, is in order.
LEMMA CreateInOrder ==
    ASSUME NEW d, IsChat(d), NEW new, IsChat(new), NEW p \in 1 .. Len(new), NEW b, NEW e,
           b = (IF p = 1 THEN Nil ELSE new[p - 1]), p # 1 => In(b, d),
           Come(new[p], b, d, e),
           \A x, y : In(x, new) /\ In(y, new) /\ Ahead(d, x, y) => Ahead(new, x, y)
    PROVE  \A x, y : In(x, new) /\ In(y, new) /\ Ahead(e, x, y) => Ahead(new, x, y)
<1> DEFINE i == new[p]
<1>1. Len(new) \in Nat /\ Nil \notin Items /\ i \in Items /\ In(i, new)
  BY LenProperties, ElementOfSeq, ServicesAssumption DEF IsChat, In
<1>2. IsChat(e) /\ ~In(i, d) /\ (\A x : In(x, e) <=> In(x, d) \/ x = i)
      /\ (\A x, y : Ahead(d, x, y) => Ahead(e, x, y))
      /\ (b = Nil => \A y : In(y, d) => Ahead(e, i, y))
      /\ (b # Nil => Ahead(e, b, i) /\ \A y : Ahead(d, b, y) => Ahead(e, i, y))
  BY DEF Come
<1>3. p = 1 => b = Nil
  OBVIOUS
<1>4. p # 1 => b # Nil /\ In(b, new) /\ Ahead(new, b, i) /\ In(b, d)
  <2>1. SUFFICES ASSUME p # 1 PROVE b # Nil /\ In(b, new) /\ Ahead(new, b, i) /\ In(b, d)
    OBVIOUS
  <2>2. p - 1 \in 1 .. Len(new) /\ p - 1 < p /\ b = new[p - 1]
    BY <1>1, <2>1
  <2>3. b # Nil
    BY <1>1, <2>2, ElementOfSeq DEF IsChat
  <2>4. QED
    BY <2>1, <2>2, <2>3 DEF In, Ahead
<1>5. \A y : Ahead(new, y, i) => p # 1 /\ (y = b \/ Ahead(new, y, b))
  <2>1. ASSUME NEW y, Ahead(new, y, i) PROVE p # 1 /\ (y = b \/ Ahead(new, y, b))
    <3>1. PICK k \in 1 .. Len(new), l \in 1 .. Len(new) : k < l /\ new[k] = y /\ new[l] = i
      BY <2>1 DEF Ahead
    <3>2. l = p
      BY <3>1 DEF IsChat
    <3>3. p # 1 /\ p - 1 \in 1 .. Len(new) /\ (k = p - 1 \/ k < p - 1)
      BY <1>1, <3>1, <3>2
    <3>4. QED
      BY <3>1, <3>3 DEF Ahead
  <2>2. QED
    BY <2>1
<1> HIDE DEF i
<1>6. ASSUME NEW x, NEW y, In(x, new), In(y, new), Ahead(e, x, y) PROVE Ahead(new, x, y)
  <2>1. In(x, e) /\ In(y, e) /\ x # y /\ ~Ahead(e, y, x)
    BY <1>2, <1>6, AheadIs
  <2>2. Ahead(new, x, y) \/ Ahead(new, y, x)
    BY <1>6, <2>1, AheadIs
  <2>3. CASE x # i /\ y # i
    <3>1. In(x, d) /\ In(y, d) /\ ~Ahead(d, y, x)
      BY <1>2, <2>1, <2>3
    <3>2. Ahead(d, x, y)
      BY <2>1, <3>1, AheadIs
    <3>3. QED
      BY <1>6, <3>2
  <2>4. CASE x = i
    <3>1. SUFFICES ASSUME Ahead(new, y, i) PROVE FALSE
      BY <2>2, <2>4
    <3>2. b # Nil /\ In(b, new) /\ In(b, d) /\ Ahead(e, b, i) /\ (y = b \/ Ahead(new, y, b))
      BY <1>2, <1>4, <1>5, <3>1
    <3>3. y # b
      BY <2>1, <2>4, <3>2
    <3>4. In(y, d) /\ Ahead(new, y, b)
      BY <1>2, <2>1, <2>4, <3>2, <3>3
    <3>5. ~Ahead(d, b, y)
      BY <1>6, <3>2, <3>4, AheadIs
    <3>6. Ahead(d, y, b)
      BY <3>2, <3>3, <3>4, <3>5, AheadIs
    <3>7. Ahead(e, y, i)
      BY <1>2, <3>2, <3>6, AheadIs
    <3>8. QED
      BY <2>1, <2>4, <3>7
  <2>5. CASE y = i
    <3>1. SUFFICES ASSUME Ahead(new, i, x) PROVE FALSE
      BY <2>2, <2>5
    <3>2. In(x, d)
      BY <1>2, <2>1, <2>5
    <3>3. CASE p = 1
      BY <1>2, <1>3, <2>1, <2>5, <3>2, <3>3
    <3>4. CASE p # 1
      <4>1. b # Nil /\ In(b, new) /\ Ahead(new, b, i) /\ In(b, d)
        BY <1>4, <3>4
      <4>2. Ahead(new, b, x) /\ b # x /\ ~Ahead(new, x, b)
        BY <3>1, <4>1, AheadIs
      <4>3. Ahead(d, b, x)
        <5>1. ~Ahead(d, x, b)
          BY <1>6, <4>1, <4>2
        <5>2. QED
          BY <3>2, <4>1, <4>2, <5>1, AheadIs
      <4>4. QED
        BY <1>2, <2>1, <2>5, <4>1, <4>3
    <3>5. QED
      BY <3>3, <3>4
  <2>6. QED
    BY <2>3, <2>4, <2>5
<1>7. QED
  BY <1>6

\* The creates of a diff can be applied.
LEMMA CreatesApply ==
    ASSUME NEW d0, NEW d1, IsChat(d1), NEW new, IsChat(new), NEW ms, NEW removed, NEW created,
           IsChat(removed), IsChat(created), Agree(created, new),
           Differs(ms, removed, created, new), Reach(d0, ms, Len(removed), d1), NEW stays,
           \A x : In(x, created) <=> In(x, new) /\ x \in Items \ stays,
           \A x : In(x, new) => (In(x, d1) <=> x \in stays),
           \A x, y : In(x, new) /\ In(y, new) /\ Ahead(d1, x, y) => Ahead(new, x, y)
    PROVE  \E d : Links(d0, ms, d) /\ Grown(d, d1, created, new, stays, Len(created))
<1> DEFINE R == Len(removed)
           C == Len(created)
           T == {n \in Nat : \E d : /\ Reach(d0, ms, R + n, d)
                                    /\ Grown(d, d1, created, new, stays, n)}
<1>1. R \in Nat /\ C \in Nat /\ Len(new) \in Nat /\ Len(ms) = R + C
      /\ \A n \in 1 .. C : created[n] \in Items
  BY LenProperties, ElementOfSeq DEF IsChat, Differs
<1>2. 0 \in T
  <2>1. Grown(d1, d1, created, new, stays, 0)
    BY DEF Grown
  <2>2. R + 0 = R
    BY <1>1
  <2>3. QED
    BY <2>1, <2>2
<1>3. ASSUME NEW n \in 1 .. C, n - 1 \in T PROVE n \in T
  <2>1. PICK d : Reach(d0, ms, R + (n - 1), d) /\ Grown(d, d1, created, new, stays, n - 1)
    BY <1>3
  <2> DEFINE m == ms[R + n]
             i == created[n]
  <2>2. m.what = "create" /\ m.item = i
    BY DEF Differs
  <2>3. PICK p \in 1 .. Len(new) : new[p] = i /\ m.after = IF p = 1 THEN Nil ELSE new[p - 1]
    BY DEF Differs
  <2> HIDE DEF m
  <2>4. In(i, created) /\ In(i, new) /\ i \in Items \ stays
    BY DEF In
  <2>5. \A k \in 1 .. C : created[k] = i => k = n
    BY DEF IsChat
  <2>6. ~In(i, d)
    <3>1. \A k \in 1 .. n - 1 : k \in 1 .. C /\ k # n
      BY <1>1
    <3>2. QED
      BY <2>1, <2>4, <2>5, <3>1 DEF Grown
  <2>7. p # 1 => In(m.after, d)
    <3>1. SUFFICES ASSUME p # 1 PROVE In(new[p - 1], d)
      BY <2>3
    <3>2. p - 1 \in 1 .. Len(new) /\ p - 1 < p
      BY <1>1, <3>1
    <3>3. In(new[p - 1], new) /\ new[p - 1] \in Items
      BY <3>2, ElementOfSeq DEF In, IsChat
    <3>4. CASE new[p - 1] \in stays
      BY <2>1, <3>3, <3>4 DEF Grown
    <3>5. CASE new[p - 1] \notin stays
      <4>1. PICK k \in 1 .. C : created[k] = new[p - 1]
        <5>1. In(new[p - 1], created)
          BY <3>3, <3>5
        <5>2. QED
          BY <5>1 DEF In
      <4>2. ~(n < k)
        BY <1>1, <2>3, <3>2, <4>1 DEF Agree
      <4>3. k # n
        BY <2>3, <3>2, <4>1 DEF IsChat
      <4>4. k \in 1 .. n - 1
        BY <1>1, <4>2, <4>3
      <4>5. QED
        BY <2>1, <3>3, <4>1, <4>4 DEF Grown
    <3>6. QED
      BY <3>4, <3>5
  <2>8. PICK e : Creates(m, d, e)
    <3>1. m.after = Nil \/ In(m.after, d)
      BY <2>3, <2>7
    <3>2. IsChat(d)
      BY <2>1 DEF Grown
    <3>3. QED
      BY <2>2, <2>4, <2>6, <3>1, <3>2, CreateExists
  <2>9. Come(i, m.after, d, e)
    BY <2>1, <2>2, <2>8, CreatesIs DEF Grown
  <2>10. Grown(e, d1, created, new, stays, n)
    <3>1. IsChat(e) /\ \A x : In(x, e) <=> In(x, d) \/ x = i
      BY <2>9 DEF Come
    <3>2. \A k : k \in 1 .. n <=> k \in 1 .. n - 1 \/ k = n
      BY <1>1
    <3>3. ASSUME NEW x, In(x, new)
          PROVE  In(x, e) <=> x \in stays \/ \E k \in 1 .. n : created[k] = x
      <4>1. In(x, d) <=> x \in stays \/ \E k \in 1 .. n - 1 : created[k] = x
        BY <2>1, <3>3 DEF Grown
      <4>2. QED
        BY <3>1, <3>2, <4>1
    <3>4. ASSUME NEW x, ~In(x, new), In(x, e) PROVE In(x, d1)
      BY <2>1, <2>4, <3>1, <3>4 DEF Grown
    <3>5. \A x, y : In(x, new) /\ In(y, new) /\ Ahead(e, x, y) => Ahead(new, x, y)
      <4>1. /\ IsChat(d)
            /\ \A x, y : In(x, new) /\ In(y, new) /\ Ahead(d, x, y) => Ahead(new, x, y)
        BY <2>1 DEF Grown
      <4>2. Come(new[p], m.after, d, e)
        BY <2>3, <2>9
      <4> HIDE DEF i
      <4>3. QED
        BY <2>3, <2>7, <4>1, <4>2, CreateInOrder
    <3>6. QED
      BY <3>1, <3>3, <3>4, <3>5 DEF Grown
  <2>11. Reach(d0, ms, R + n, e)
    <3>1. R + (n - 1) \in Nat /\ (R + (n - 1)) + 1 = R + n
      BY <1>1
    <3>2. e \in Seq(Items) /\ Does(ms[(R + (n - 1)) + 1], d, e)
      BY <2>8, <2>10, <3>1 DEF Grown, IsChat, Does, m
    <3>3. Reach(d0, ms, (R + (n - 1)) + 1, e)
      BY <2>1, <3>1, <3>2, ReachMore
    <3>4. QED
      BY <3>1, <3>3
  <2>12. n \in Nat
    BY <1>1
  <2>13. QED
    BY <2>10, <2>11, <2>12
<1> HIDE DEF T
<1>4. C \in T
  <2>1. T \in SUBSET Nat
    BY DEF T
  <2>2. \A n \in 0 .. C : n \in T
    BY <1>1, <1>2, <1>3, <2>1, Reaches
  <2>3. QED
    BY <1>1, <2>2
<1>5. QED
  BY <1>1, <1>4 DEF T, Links

\* The diff of two chats can be applied to a chat that has the old one in order, and nothing
\* of the new one but that; it makes it what was wanted.
LEMMA DiffApplies ==
    ASSUME NEW old, NEW new, NEW d0, IsChat(old), IsChat(new), IsChat(d0),
           \A x : In(x, old) => In(x, d0),
           \A x, y : Ahead(old, x, y) => Ahead(d0, x, y),
           \A x : In(x, new) /\ In(x, d0) => In(x, old)
    PROVE  \E e : Links(d0, Chat!Diff(old, new), e) /\ Goal(e, new, old)
<1> DEFINE stays == Chat!Lcs(old, new)
           removed == Chat!Only(old, Items \ stays)
           created == Chat!Only(new, Items \ stays)
           ms == Chat!Diff(old, new)
<1>1. /\ IsChat(removed) /\ IsChat(created) /\ Agree(created, new)
      /\ \A x : In(x, removed) <=> In(x, old) /\ x \in Items \ stays
      /\ \A x : In(x, created) <=> In(x, new) /\ x \in Items \ stays
  BY OnlyLeaves
<1>2. Differs(ms, removed, created, new)
  BY DiffIs
<1>3. /\ \A x \in stays : In(x, old) /\ In(x, new)
      /\ \A x, y \in stays : Ahead(old, x, y) => Ahead(new, x, y)
  BY LcsStays
<1> HIDE DEF stays, removed, created, ms
<1>4. PICK d1 : Reach(d0, ms, Len(removed), d1) /\ Left(d1, d0, removed, Len(removed))
  BY <1>1, <1>2, DeletesApply
<1>5. \A x : In(x, d1) <=> In(x, d0) /\ ~In(x, removed)
  BY <1>4 DEF Left, In
<1>6. ASSUME NEW x, In(x, new) PROVE In(x, d1) <=> x \in stays
  <2>1. x \in Items
    BY <1>6, AheadIs
  <2>2. QED
    BY <1>1, <1>3, <1>5, <1>6, <2>1
<1>7. ASSUME NEW x, NEW y, In(x, new), In(y, new), Ahead(d1, x, y) PROVE Ahead(new, x, y)
  <2>1. IsChat(d1) /\ Ahead(d0, x, y)
    BY <1>4, <1>7 DEF Left
  <2>2. In(x, d1) /\ In(y, d1) /\ x # y /\ ~Ahead(d0, y, x)
    BY <1>7, <2>1, AheadIs
  <2>3. x \in stays /\ y \in stays /\ In(x, old) /\ In(y, old)
    BY <1>3, <1>6, <1>7, <2>2
  <2>4. Ahead(old, x, y)
    BY <2>2, <2>3, AheadIs
  <2>5. QED
    BY <1>3, <2>3, <2>4
<1>8. PICK e : Links(d0, ms, e) /\ Grown(e, d1, created, new, stays, Len(created))
  <2>1. IsChat(d1)
    BY <1>4 DEF Left
  <2>2. QED
    BY <1>1, <1>2, <1>4, <1>6, <1>7, <2>1, CreatesApply
<1>9. Goal(e, new, old)
  <2>1. /\ IsChat(e)
        /\ \A x, y : In(x, new) /\ In(y, new) /\ Ahead(e, x, y) => Ahead(new, x, y)
    BY <1>8 DEF Grown
  <2>2. ASSUME NEW x, In(x, new) PROVE In(x, e)
    <3>1. x \in Items
      BY <2>2, AheadIs
    <3>2. x \in stays \/ In(x, created)
      BY <1>1, <2>2, <3>1
    <3>3. QED
      BY <1>8, <2>2, <3>2 DEF Grown, In
  <2>3. ASSUME NEW x, In(x, e), In(x, old), ~In(x, new) PROVE FALSE
    <3>1. In(x, d1)
      BY <1>8, <2>3 DEF Grown
    <3>2. x \in Items
      BY <2>3, AheadIs
    <3>3. QED
      BY <1>1, <1>3, <1>5, <2>3, <3>1, <3>2
  <2>4. QED
    BY <2>1, <2>2, <2>3 DEF Goal
<1>10. QED
  BY <1>8, <1>9 DEF ms

-----------------------------------------------------------------------------
(* The chat: messages on their way *)

\* A message makes a chat of a chat.
LEMMA DoesChat == ASSUME NEW c, NEW m, NEW d, IsChat(c), Does(m, c, d) PROVE IsChat(d)
BY DeletesIs, CreatesIs DEF Does, Gone, Come

\* The first message leads to a chat from which the others lead on.
LEMMA LinksHead ==
    ASSUME NEW c, NEW d, NEW ms \in Seq(Msg), ms # <<>>, Links(c, ms, d)
    PROVE  \E e : Does(Head(ms), c, e) /\ Links(e, Tail(ms), d)
<1> DEFINE N == Len(ms)
<1>1. /\ N \in Nat /\ N >= 1 /\ Head(ms) = ms[1] /\ Tail(ms) \in Seq(Msg) /\ Len(Tail(ms)) = N - 1
      /\ \A k \in 1 .. N - 1 : Tail(ms)[k] = ms[k + 1]
  BY HeadTailProperties, EmptySeq, LenProperties
<1>2. PICK cs \in [0 .. N -> Seq(Items)] :
        cs[0] = c /\ cs[N] = d /\ \A k \in 1 .. N : Does(ms[k], cs[k - 1], cs[k])
  BY DEF Links, Reach
<1> HIDE DEF N
<1> DEFINE bs == [k \in 0 .. N - 1 |-> cs[k + 1]]
<1>3. bs \in [0 .. N - 1 -> Seq(Items)] /\ bs[0] = cs[1] /\ bs[N - 1] = d
      /\ \A k \in 0 .. N - 1 : bs[k] = cs[k + 1]
  <2>1. \A k \in 0 .. N - 1 : k + 1 \in 0 .. N
    BY <1>1
  <2>2. 0 \in 0 .. N - 1 /\ N - 1 \in 0 .. N - 1 /\ (N - 1) + 1 = N /\ 0 + 1 = 1
    BY <1>1
  <2>3. QED
    BY <1>2, <2>1, <2>2
<1> HIDE DEF bs
<1>4. ASSUME NEW k \in 1 .. N - 1 PROVE Does(Tail(ms)[k], bs[k - 1], bs[k])
  <2>1. k + 1 \in 1 .. N /\ (k + 1) - 1 = k /\ k \in 0 .. N - 1 /\ k - 1 \in 0 .. N - 1
        /\ (k - 1) + 1 = k
    BY <1>1
  <2>2. Does(ms[k + 1], cs[k], cs[k + 1])
    BY <1>2, <2>1
  <2>3. Tail(ms)[k] = ms[k + 1] /\ bs[k] = cs[k + 1] /\ bs[k - 1] = cs[k]
    BY <1>1, <1>3, <2>1
  <2>4. QED
    BY <2>2, <2>3
<1>5. Links(cs[1], Tail(ms), d)
  BY <1>1, <1>3, <1>4 DEF Links, Reach
<1>6. Does(Head(ms), c, cs[1])
  <2>1. 1 \in 1 .. N /\ 1 - 1 = 0
    BY <1>1
  <2>2. QED
    BY <1>1, <1>2, <2>1
<1>7. QED
  BY <1>5, <1>6

\* A message more at the end.
LEMMA LinksAppend ==
    ASSUME NEW c, NEW d, NEW e, NEW ms \in Seq(Msg), NEW m \in Msg, Links(c, ms, d), IsChat(e),
           Does(m, d, e)
    PROVE  Links(c, Append(ms, m), e)
<1> DEFINE N == Len(ms)
           ns == Append(ms, m)
<1>1. N \in Nat /\ Len(ns) = N + 1 /\ ns[N + 1] = m /\ \A k \in 1 .. N : ns[k] = ms[k]
  BY AppendProperties, LenProperties
<1> HIDE DEF ns
<1>2. Reach(c, ms, N, d)
  BY DEF Links
<1>3. Reach(c, ns, N, d)
  BY <1>1, <1>2 DEF Reach
<1>4. Reach(c, ns, N + 1, e)
  BY <1>1, <1>3, ReachMore DEF IsChat
<1>5. QED
  BY <1>1, <1>4 DEF Links, ns

\* Without messages there is one chat.
LEMMA LinksNone ==
    /\ \A c \in Seq(Items) : Links(c, <<>>, c)
    /\ \A c, d : Links(c, <<>>, d) => c = d
<1>1. Len(<<>>) = 0
  BY EmptySeq
<1>2. ASSUME NEW c \in Seq(Items) PROVE Links(c, <<>>, c)
  BY <1>1, ReachNone DEF Links
<1>3. ASSUME NEW c, NEW d, Links(c, <<>>, d) PROVE c = d
  BY <1>1, <1>3 DEF Links, Reach
<1>4. QED
  BY <1>2, <1>3

\* The chats on the way are chats, and an item said meanwhile stays last in them all.
LEMMA LinksSaid ==
    ASSUME NEW c, NEW d, NEW ms \in Seq(Msg), IsChat(c), Links(c, ms, d)
    PROVE  /\ IsChat(d)
           /\ \A i \in Items : ~In(i, c) /\ (\A n \in 1 .. Len(ms) : ms[n].item # i)
                => Links(Append(c, i), ms, Append(d, i)) /\ ~In(i, d)
<1> DEFINE N == Len(ms)
<1>1. N \in Nat
  BY LenProperties
<1>2. PICK cs \in [0 .. N -> Seq(Items)] :
        cs[0] = c /\ cs[N] = d /\ \A k \in 1 .. N : Does(ms[k], cs[k - 1], cs[k])
  BY DEF Links, Reach
<1> HIDE DEF N
<1>3. \A n \in 0 .. N : IsChat(cs[n])
  <2> DEFINE T == {n \in Nat : IsChat(cs[n])}
  <2>1. 0 \in T
    BY <1>2
  <2>2. \A n \in 1 .. N : n - 1 \in T => n \in T
    BY <1>1, <1>2, DoesChat
  <2> HIDE DEF T
  <2>3. T \in SUBSET Nat
    BY DEF T
  <2>4. \A n \in 0 .. N : n \in T
    BY <1>1, <2>1, <2>2, <2>3, Reaches
  <2>5. QED
    BY <2>4 DEF T
<1>4. ASSUME NEW i \in Items, ~In(i, c), \A n \in 1 .. N : ms[n].item # i
      PROVE  Links(Append(c, i), ms, Append(d, i)) /\ ~In(i, d)
  <2> DEFINE T == {n \in Nat : ~In(i, cs[n])}
  <2>1. 0 \in T
    BY <1>2, <1>4
  <2>2. ASSUME NEW n \in 1 .. N, n - 1 \in T PROVE n \in T
    <3>1. n - 1 \in 0 .. N /\ n \in Nat
      BY <1>1
    <3>2. ~In(i, cs[n])
      <4>1. IsChat(cs[n - 1]) /\ Does(ms[n], cs[n - 1], cs[n]) /\ ~In(i, cs[n - 1])
        BY <1>2, <1>3, <2>2, <3>1
      <4>2. ms[n].item # i
        BY <1>4
      <4>3. QED
        BY <4>1, <4>2, SaidStaysLast
    <3>3. QED
      BY <3>1, <3>2
  <2> HIDE DEF T
  <2>3. T \in SUBSET Nat
    BY DEF T
  <2>4. \A n \in 0 .. N : n \in T
    BY <1>1, <2>1, <2>2, <2>3, Reaches
  <2>5. \A n \in 0 .. N : ~In(i, cs[n])
    BY <2>4 DEF T
  <2> DEFINE bs == [n \in 0 .. N |-> Append(cs[n], i)]
  <2>6. \A n \in 0 .. N : bs[n] = Append(cs[n], i) /\ bs[n] \in Seq(Items)
    BY AppendProperties
  <2>7. bs \in [0 .. N -> Seq(Items)] /\ bs[0] = Append(c, i) /\ bs[N] = Append(d, i)
    <3>1. 0 \in 0 .. N /\ N \in 0 .. N
      BY <1>1
    <3>2. QED
      BY <1>2, <2>6, <3>1
  <2> HIDE DEF bs
  <2>8. ASSUME NEW n \in 1 .. N PROVE Does(ms[n], bs[n - 1], bs[n])
    <3>1. n - 1 \in 0 .. N /\ n \in 0 .. N
      BY <1>1
    <3>2. Does(ms[n], Append(cs[n - 1], i), Append(cs[n], i))
      BY <1>2, <1>3, <1>4, <2>5, <3>1, SaidStaysLast
    <3>3. QED
      BY <2>6, <3>1, <3>2
  <2>9. N \in 0 .. N
    BY <1>1
  <2>10. QED
    BY <1>2, <2>5, <2>7, <2>8, <2>9 DEF Links, Reach, N
<1>5. IsChat(d)
  <2>1. N \in 0 .. N
    BY <1>1
  <2>2. QED
    BY <1>2, <1>3, <2>1
<1>6. QED
  BY <1>4, <1>5 DEF N

\* Creates only add.
LEMMA LinksCome ==
    ASSUME NEW c, NEW d, NEW ms \in Seq(Msg), IsChat(c), Links(c, ms, d),
           \A n \in 1 .. Len(ms) : ms[n].what = "create"
    PROVE  /\ \A x : In(x, d) <=> In(x, c) \/ \E n \in 1 .. Len(ms) : ms[n].item = x
           /\ \A x, y : Ahead(c, x, y) => Ahead(d, x, y)
           /\ \A n \in 1 .. Len(ms) : ~In(ms[n].item, c)
<1> DEFINE N == Len(ms)
<1>1. N \in Nat
  BY LenProperties
<1>2. PICK cs \in [0 .. N -> Seq(Items)] :
        cs[0] = c /\ cs[N] = d /\ \A k \in 1 .. N : Does(ms[k], cs[k - 1], cs[k])
  BY DEF Links, Reach
<1> HIDE DEF N
<1> DEFINE Since(n) ==
             /\ IsChat(cs[n])
             /\ \A x : In(x, cs[n]) <=> In(x, c) \/ \E k \in 1 .. n : ms[k].item = x
             /\ \A x, y : Ahead(c, x, y) => Ahead(cs[n], x, y)
             /\ \A k \in 1 .. n : ~In(ms[k].item, c)
           T == {n \in Nat : Since(n)}
<1>3. 0 \in T
  BY <1>2
<1>4. ASSUME NEW n \in 1 .. N, n - 1 \in T PROVE n \in T
  <2>1. Since(n - 1)
    BY <1>4
  <2>2. Creates(ms[n], cs[n - 1], cs[n])
    BY <1>2 DEF Does, Deletes, N
  <2>3. Come(ms[n].item, ms[n].after, cs[n - 1], cs[n])
    BY <2>1, <2>2, CreatesIs
  <2>4. \A k : k \in 1 .. n <=> k \in 1 .. n - 1 \/ k = n
    BY <1>1
  <2>5. Since(n)
    <3>1. IsChat(cs[n]) /\ \A x, y : Ahead(c, x, y) => Ahead(cs[n], x, y)
      BY <2>1, <2>3 DEF Come
    <3>2. ASSUME NEW x PROVE In(x, cs[n]) <=> In(x, c) \/ \E k \in 1 .. n : ms[k].item = x
      <4>1. In(x, cs[n]) <=> In(x, cs[n - 1]) \/ x = ms[n].item
        BY <2>3 DEF Come
      <4>2. In(x, cs[n - 1]) <=> In(x, c) \/ \E k \in 1 .. n - 1 : ms[k].item = x
        BY <2>1
      <4>3. QED
        BY <2>4, <4>1, <4>2
    <3>3. \A k \in 1 .. n : ~In(ms[k].item, c)
      <4>1. ~In(ms[n].item, c)
        BY <2>1, <2>3 DEF Come
      <4>2. QED
        BY <2>1, <2>4, <4>1
    <3>4. QED
      BY <3>1, <3>2, <3>3
  <2>6. n \in Nat
    BY <1>1
  <2> HIDE DEF Since
  <2>7. QED
    BY <2>5, <2>6
<1> HIDE DEF T
<1>5. N \in T
  <2>1. T \in SUBSET Nat
    BY DEF T
  <2>2. \A n \in 0 .. N : n \in T
    BY <1>1, <1>3, <1>4, <2>1, Reaches
  <2>3. QED
    BY <1>1, <2>2
<1>6. QED
  BY <1>2, <1>5 DEF T, N

\* The chat: its types; the events that lead from the copy to the conversation; nothing is
\* awaited but by an update; the messages that lead from the conversation to what is wanted,
\* and who waits for which.
Own(m) == In(m.item, wanted) \/ In(m.item, before)
Key(m) == <<m.what, m.item>>
Once(ms) == \A n, k \in 1 .. Len(ms) : Own(ms[n]) /\ Key(ms[n]) = Key(ms[k]) => n = k

ChatFlags == updating \in BOOLEAN /\ disturbed \in BOOLEAN
ChatTypes ==
    /\ updates \in 0 .. MaxUpdates /\ said \in 0 .. MaxSaid /\ reconnects \in 0 .. MaxReconnects
    /\ wanted \in Chat!Chats /\ IsChat(before)
    /\ toServer \in Seq(Msg) /\ fromServer \in Seq(Msg)
ChatFlows == \E c : Copied(c) /\ Links(c, fromServer, server)
ChatWaits == ~updating => futures = {}
ChatLeads == \E e : Links(server, toServer, e) /\ Goal(e, wanted, before)
ChatOwns ==
    /\ \A n \in 1 .. Len(toServer) : Own(toServer[n]) /\ Key(toServer[n]) \in futures
    /\ \A n \in 1 .. Len(fromServer) :
         IF Own(fromServer[n]) THEN Key(fromServer[n]) \in futures
         ELSE fromServer[n].what = "create"
    /\ Once(toServer) /\ Once(fromServer)
    /\ \A n \in 1 .. Len(toServer), k \in 1 .. Len(fromServer) :
         Key(toServer[n]) # Key(fromServer[k])
ChatInv == ChatTypes /\ ChatFlows /\ ChatWaits /\ (~disturbed => ChatLeads /\ ChatOwns)

\* The set of a sequence has what is at its places.
LEMMA ToSetIs ==
    ASSUME NEW S, NEW s \in Seq(S) PROVE \A x : x \in Chat!ToSet(s) <=> \E k \in 1 .. Len(s) : s[k] = x
<1>1. DOMAIN s = 1 .. Len(s)
  BY LenProperties
<1>2. QED
  BY <1>1 DEF Chat!ToSet

\* The chats that may be asked for are chats.
LEMMA ChatsAre == ASSUME NEW c \in Chat!Chats PROVE IsChat(c)
<1>1. Chat!IsInjective(c) /\ \E m \in Nat : c \in [1 .. m -> Items]
  BY ServicesAssumption DEF Chat!Chats, Chat!BoundedSeq, Chat!SeqOf
<1>2. c \in Seq(Items)
  BY <1>1, SeqDef
<1>3. DOMAIN c = 1 .. Len(c)
  BY <1>2, LenProperties
<1>4. QED
  BY <1>1, <1>2, <1>3 DEF Chat!IsInjective, IsChat

\* The list of a chat has its items.
LEMMA LinkedIs ==
    ASSUME NEW c, IsChat(c)
    PROVE  LET l == Chat!Linked(c)
           IN /\ l.known = {c[i] : i \in 1 .. Len(c)} /\ l.head = Get(c, 1) /\ l.tail = Get(c, Len(c))
              /\ l.next \in [Items -> Items \cup {Nil}] /\ l.prev \in [Items -> Items \cup {Nil}]
              /\ \A i \in 1 .. Len(c) : l.next[c[i]] = Get(c, i + 1) /\ l.prev[c[i]] = Get(c, i - 1)
<1> DEFINE l == Chat!Linked(c)
           At(i) == CHOOSE n \in DOMAIN c : c[n] = i
           G(n) == IF n \in DOMAIN c THEN c[n] ELSE Nil
<1>1. Len(c) \in Nat /\ DOMAIN c = 1 .. Len(c) /\ (\A i \in 1 .. Len(c) : c[i] \in Items)
      /\ c \in Seq(Items)
  BY LenProperties, ElementOfSeq DEF IsChat
<1> DEFINE nexts == [i \in Items |-> IF Chat!Contains(c, i) THEN G(At(i) + 1) ELSE Nil]
           prevs == [i \in Items |-> IF Chat!Contains(c, i) THEN G(At(i) - 1) ELSE Nil]
<1>2. /\ l.head = G(1) /\ l.tail = G(Len(c)) /\ l.known = Chat!ToSet(c)
      /\ l.next = nexts /\ l.prev = prevs
  <2>1. l = [head |-> G(1), tail |-> G(Len(c)), known |-> Chat!ToSet(c), next |-> nexts,
             prev |-> prevs]
    BY Zenon DEF Chat!Linked
  <2> HIDE DEF l, G, nexts, prevs
  <2>2. QED
    BY <2>1
<1> HIDE DEF l
<1>3. \A n : G(n) = Get(c, n)
  BY <1>1 DEF Get
<1>4. \A n : G(n) \in Items \cup {Nil}
  BY <1>1
<1>5. \A i \in 1 .. Len(c) : Chat!Contains(c, c[i]) /\ At(c[i]) = i
  BY <1>1 DEF Chat!Contains, IsChat
<1> HIDE DEF At, G
<1>6. l.next \in [Items -> Items \cup {Nil}] /\ l.prev \in [Items -> Items \cup {Nil}]
  BY <1>2, <1>4
<1>7. \A i \in 1 .. Len(c) : l.next[c[i]] = Get(c, i + 1) /\ l.prev[c[i]] = Get(c, i - 1)
  BY <1>1, <1>2, <1>3, <1>5
<1>8. l.known = {c[i] : i \in 1 .. Len(c)}
  BY <1>1, <1>2 DEF Chat!ToSet
<1>9. QED
  BY <1>2, <1>3, <1>6, <1>7, <1>8 DEF l

\* The session begins with an empty chat, and nothing on its way.
LEMMA ChatStart == Chat!Init => ChatFlags /\ ChatInv
<1> SUFFICES ASSUME Chat!Init PROVE ChatFlags /\ ChatInv
  OBVIOUS
<1>1. /\ server \in Chat!Chats /\ toServer = <<>> /\ fromServer = <<>> /\ wanted = server
      /\ before = server /\ futures = {} /\ updating = FALSE /\ disturbed = FALSE
      /\ updates = 0 /\ said = 0 /\ reconnects = 0
  BY DEF Chat!Init
<1>2. IsChat(server)
  BY <1>1, ChatsAre
<1>3. Copied(server)
  <2> DEFINE l == Chat!Linked(server)
  <2>1. head = l.head /\ tail = l.tail /\ next = l.next /\ prev = l.prev /\ known = l.known
    BY DEF Chat!Init
  <2>2. /\ l.known = {server[i] : i \in 1 .. Len(server)}
        /\ l.head = Get(server, 1) /\ l.tail = Get(server, Len(server))
        /\ l.next \in [Items -> Items \cup {Nil}] /\ l.prev \in [Items -> Items \cup {Nil}]
        /\ \A i \in 1 .. Len(server) :
             l.next[server[i]] = Get(server, i + 1) /\ l.prev[server[i]] = Get(server, i - 1)
    BY <1>2, LinkedIs
  <2> HIDE DEF l
  <2>3. QED
    BY <1>2, <2>1, <2>2 DEF Copied
<1>4. <<>> \in Seq(Msg) /\ Len(<<>>) = 0 /\ Links(server, <<>>, server)
  BY <1>2, EmptySeq, LinksNone DEF IsChat
<1>5. Goal(server, server, server)
  BY <1>2 DEF Goal
<1>6. ChatOwns
  BY <1>1, <1>4 DEF ChatOwns, Once
<1>7. ChatTypes
  BY <1>1, <1>2, <1>4, ServicesAssumption DEF ChatTypes
<1>8. QED
  BY <1>1, <1>3, <1>4, <1>5, <1>6, <1>7 DEF ChatFlags, ChatInv, ChatFlows, ChatWaits, ChatLeads

\* The order of a chat with an item at its end.
LEMMA AppendIs ==
    ASSUME NEW c, IsChat(c), NEW i \in Items, ~In(i, c)
    PROVE  /\ IsChat(Append(c, i)) /\ \A x : In(x, Append(c, i)) <=> In(x, c) \/ x = i
           /\ \A x, y : Ahead(Append(c, i), x, y) /\ y # i => Ahead(c, x, y)
<1> DEFINE d == Append(c, i)
           L == Len(c)
<1>1. /\ c \in Seq(Items) /\ L \in Nat /\ d \in Seq(Items) /\ Len(d) = L + 1 /\ d[L + 1] = i
      /\ \A k \in 1 .. L : d[k] = c[k]
  BY LenProperties, AppendProperties DEF IsChat
<1> HIDE DEF d
<1>2. \A k : k \in 1 .. L + 1 <=> k \in 1 .. L \/ k = L + 1
  BY <1>1
<1>3. \A k \in 1 .. L : c[k] # i
  BY DEF In
<1>4. IsChat(d)
  <2>1. ASSUME NEW k \in 1 .. L + 1, NEW l \in 1 .. L + 1, d[k] = d[l] PROVE k = l
    <3>1. CASE k \in 1 .. L /\ l \in 1 .. L
      BY <1>1, <2>1, <3>1 DEF IsChat
    <3>2. CASE ~(k \in 1 .. L /\ l \in 1 .. L)
      BY <1>1, <1>2, <1>3, <2>1, <3>2
    <3>3. QED
      BY <3>1, <3>2
  <2>2. QED
    BY <1>1, <2>1 DEF IsChat
<1>5. \A x : In(x, d) <=> In(x, c) \/ x = i
  BY <1>1, <1>2 DEF In
<1>6. ASSUME NEW x, NEW y, Ahead(d, x, y), y # i PROVE Ahead(c, x, y)
  <2>1. PICK k \in 1 .. L + 1, l \in 1 .. L + 1 : k < l /\ d[k] = x /\ d[l] = y
    BY <1>1, <1>6 DEF Ahead
  <2>2. l \in 1 .. L
    BY <1>1, <1>2, <1>6, <2>1
  <2>3. k \in 1 .. L
    BY <1>1, <2>1, <2>2
  <2>4. QED
    BY <1>1, <2>1, <2>2, <2>3 DEF Ahead
<1>7. QED
  BY <1>4, <1>5, <1>6 DEF d

\* An update of the chat.
LEMMA ChatUpdate ==
    ASSUME ChatInv, NEW chat \in Chat!Chats, Chat!UpdateChatCtx(chat) PROVE ChatInv'
<1> USE DEF Chat!list, Chat!bounds
<1>1. PICK c : Copied(c) /\ Links(c, fromServer, server)
  BY DEF ChatInv, ChatFlows
<1>2. Chat!ToChatCtx = c /\ IsChat(c) /\ IsChat(chat)
  BY <1>1, CtxIs, ChatsAre DEF Copied
<1> DEFINE ms == Chat!Diff(c, chat)
<1>3. /\ ~updating /\ updates < MaxUpdates /\ updates' = updates + 1
      /\ toServer' = toServer \o ms /\ futures' = {<<m.what, m.item>> : m \in Chat!ToSet(ms)}
      /\ updating' = (ms # <<>>) /\ wanted' = chat /\ before' = c
      /\ UNCHANGED <<head, tail, next, prev, known, server, fromServer, disturbed, said, reconnects>>
  BY <1>2 DEF Chat!UpdateChatCtx
<1>4. \A i \in Chat!ToSet(chat) : i \in known \/ ~Chat!Contains(server, i)
  BY DEF Chat!UpdateChatCtx
<1>5. ms \in Seq(Msg) /\ toServer \in Seq(Msg) /\ fromServer \in Seq(Msg)
  BY <1>2, DiffIs DEF Differs, ChatInv, ChatTypes
<1>6. /\ \A n \in 1 .. Len(ms) : In(ms[n].item, c) \/ In(ms[n].item, chat)
      /\ \A n, k \in 1 .. Len(ms) : ms[n].what = ms[k].what /\ ms[n].item = ms[k].item => n = k
  BY <1>2, DiffKeys
<1> HIDE DEF ms
<1>7. ChatTypes'
  <2>1. updates' \in 0 .. MaxUpdates
    BY <1>3, ServicesAssumption DEF ChatInv, ChatTypes
  <2>2. toServer' \in Seq(Msg)
    BY <1>3, <1>5, ConcatProperties
  <2>3. QED
    BY <1>2, <1>3, <1>5, <2>1, <2>2 DEF ChatInv, ChatTypes
<1>8. ChatFlows'
  <2>1. Copied(c)'
    BY <1>1, <1>3 DEF Copied, Get, IsChat
  <2>2. Links(c, fromServer, server)'
    BY <1>1, <1>3
  <2>3. QED
    BY <2>1, <2>2 DEF ChatFlows
<1>9. ChatWaits'
  <2>1. SUFFICES ASSUME ms = <<>> PROVE futures' = {}
    BY <1>3 DEF ChatWaits
  <2>2. Len(ms) = 0
    BY <2>1, EmptySeq
  <2>3. \A x : x \notin Chat!ToSet(ms)
    <3>1. \A x : x \in Chat!ToSet(ms) <=> \E k \in 1 .. Len(ms) : ms[k] = x
      BY <1>5, ToSetIs
    <3>2. QED
      BY <2>2, <3>1
  <2>4. QED
    BY <1>3, <2>3
<1>10. ASSUME ~disturbed PROVE ChatLeads' /\ ChatOwns'
  <2>1. futures = {} /\ ChatOwns
    BY <1>3, <1>10 DEF ChatInv, ChatWaits
  <2>2. toServer = <<>>
    <3>1. Len(toServer) \in Nat /\ \A n \in 1 .. Len(toServer) : FALSE
      BY <1>5, <2>1, LenProperties DEF ChatOwns
    <3>2. Len(toServer) = 0
      BY <3>1
    <3>3. QED
      BY <1>5, <3>2, EmptySeq
  <2>3. toServer' = ms
    BY <1>3, <1>5, <2>2, ConcatEmptySeq
  <2>4. \A n \in 1 .. Len(fromServer) : fromServer[n].what = "create"
    BY <2>1 DEF ChatOwns
  <2>5. /\ \A x : In(x, server) <=> In(x, c) \/ \E n \in 1 .. Len(fromServer) : fromServer[n].item = x
        /\ \A x, y : Ahead(c, x, y) => Ahead(server, x, y)
        /\ \A n \in 1 .. Len(fromServer) : ~In(fromServer[n].item, c)
    BY <1>1, <1>2, <1>5, <2>4, LinksCome
  <2>6. IsChat(server)
    BY <1>1, <1>2, <1>5, LinksSaid
  <2>7. \A x : In(x, chat) /\ In(x, server) => In(x, c)
    <3>1. \A x : In(x, chat) <=> x \in Chat!ToSet(chat)
      BY <1>2, ToSetIs DEF IsChat, In
    <3>2. \A x : In(x, server) <=> Chat!Contains(server, x)
      BY DEF In, Chat!Contains
    <3>3. \A x : x \in known <=> In(x, c)
      BY <1>1 DEF Copied, In
    <3>4. QED
      BY <1>4, <3>1, <3>2, <3>3
  <2>8. PICK e : Links(server, ms, e) /\ Goal(e, chat, c)
    <3>1. \A x : In(x, c) => In(x, server)
      BY <2>5
    <3>2. QED
      BY <1>2, <2>5, <2>6, <2>7, <3>1, DiffApplies DEF ms
  <2>9. ChatLeads'
    BY <1>3, <2>3, <2>8 DEF ChatLeads
  <2>10. \A m : Own(m)' <=> In(m.item, chat) \/ In(m.item, c)
    BY <1>3 DEF Own
  <2>11. \A n \in 1 .. Len(fromServer) :
           ~In(fromServer[n].item, chat) /\ ~In(fromServer[n].item, c)
    <3>1. \A n \in 1 .. Len(fromServer) : In(fromServer[n].item, server)
      BY <2>5
    <3>2. QED
      BY <2>5, <2>7, <3>1
  <2>12. \A n \in 1 .. Len(ms) : Own(ms[n])' /\ Key(ms[n]) \in futures'
    <3>1. \A n \in 1 .. Len(ms) : ms[n] \in Chat!ToSet(ms)
      BY <1>5, ToSetIs
    <3>2. QED
      BY <1>3, <1>6, <2>10, <3>1 DEF Key
  <2>13. \A n, k \in 1 .. Len(ms) : Key(ms[n]) = Key(ms[k]) => n = k
    BY <1>6 DEF Key
  <2>14. \A n \in 1 .. Len(ms), k \in 1 .. Len(fromServer) : Key(ms[n]) # Key(fromServer[k])
    <3>1. \A n \in 1 .. Len(ms) : In(ms[n].item, chat) \/ In(ms[n].item, c)
      BY <1>6
    <3>2. QED
      BY <2>11, <3>1 DEF Key
  <2>15. fromServer' = fromServer /\ \A n \in 1 .. Len(fromServer) : ~Own(fromServer[n])'
    <3>1. fromServer' = fromServer
      BY <1>3
    <3>2. QED
      BY <2>10, <2>11, <3>1
  <2>16. ChatOwns'
    BY <2>3, <2>4, <2>12, <2>13, <2>14, <2>15 DEF ChatOwns, Once, Key
  <2>17. QED
    BY <2>9, <2>16
<1>11. QED
  BY <1>3, <1>7, <1>8, <1>9, <1>10 DEF ChatInv

\* Another connection.
LEMMA ChatReconnect == ASSUME ChatInv, Chat!Reconnect PROVE ChatInv'
<1> USE DEF Chat!list, Chat!bounds
<1>1. PICK c : Copied(c) /\ Links(c, fromServer, server)
  BY DEF ChatInv, ChatFlows
<1>2. Chat!ToChatCtx = c /\ IsChat(c)
  BY <1>1, CtxIs DEF Copied
<1>3. IsChat(<<>>)
  BY EmptySeq DEF IsChat
<1> DEFINE o == Chat!Only(c, Items \ Calls)
           ms == Chat!Diff(<<>>, o)
           l == Chat!Linked(<<>>)
<1>4. PICK unsent \in {<<>>, toServer} : toServer' = ms \o unsent
  BY <1>2 DEF Chat!Reconnect
<1>5. /\ reconnects < MaxReconnects /\ reconnects' = reconnects + 1 /\ disturbed' = TRUE
      /\ server' = <<>> /\ fromServer' = <<>>
      /\ head' = l.head /\ tail' = l.tail /\ next' = l.next /\ prev' = l.prev /\ known' = l.known
      /\ UNCHANGED <<wanted, before, futures, updating, updates, said>>
  BY DEF Chat!Reconnect, Chat!Becomes
<1>6. IsChat(o)
  BY <1>2, OnlyLeaves
<1> HIDE DEF o
<1>7. ms \in Seq(Msg)
  BY <1>3, <1>6, DiffIs DEF Differs
<1> HIDE DEF ms
<1>8. <<>> \in Seq(Msg) /\ Links(<<>>, <<>>, <<>>)
  BY EmptySeq, LinksNone
<1>9. ChatTypes'
  <2>1. toServer' \in Seq(Msg)
    <3>1. unsent \in Seq(Msg)
      BY <1>8 DEF ChatInv, ChatTypes
    <3>2. QED
      BY <1>4, <1>7, <3>1, ConcatProperties
  <2>2. reconnects' \in 0 .. MaxReconnects
    BY <1>5, ServicesAssumption DEF ChatInv, ChatTypes
  <2>3. QED
    BY <1>5, <1>8, <2>1, <2>2 DEF ChatInv, ChatTypes, IsChat
<1>10. Copied(<<>>)'
  <2>1. /\ l.known = {(<<>>)[i] : i \in 1 .. Len(<<>>)}
        /\ l.head = Get(<<>>, 1) /\ l.tail = Get(<<>>, Len(<<>>))
        /\ l.next \in [Items -> Items \cup {Nil}] /\ l.prev \in [Items -> Items \cup {Nil}]
    BY <1>3, LinkedIs
  <2>2. Len(<<>>) = 0
    BY EmptySeq
  <2> HIDE DEF l
  <2>3. QED
    BY <1>3, <1>5, <2>1, <2>2 DEF Copied, Get, IsChat
<1>11. ChatFlows'
  BY <1>5, <1>8, <1>10 DEF ChatFlows
<1>12. QED
  BY <1>5, <1>9, <1>11 DEF ChatInv, ChatWaits

\* The server does a message, or refuses what can not be done.
LEMMA ServerDoes ==
    ASSUME NEW c, IsChat(c), NEW m \in Msg
    PROVE  LET At(i) == CHOOSE n \in DOMAIN c : c[n] = i
               refused == \/ m.what = "delete" /\ ~Chat!Contains(c, m.item)
                          \/ /\ m.what = "create"
                             /\ \/ Chat!Contains(c, m.item)
                                \/ (m.after # Nil /\ ~Chat!Contains(c, m.after))
               d == IF m.what = "delete" THEN Chat!RemoveAt(c, At(m.item))
                    ELSE Chat!InsertAt(c, IF m.after = Nil THEN 1 ELSE At(m.after) + 1, m.item)
           IN /\ ~refused => Does(m, c, d)
              /\ \A e : Does(m, c, e) => ~refused
<1> DEFINE At(i) == CHOOSE n \in DOMAIN c : c[n] = i
           refused == \/ m.what = "delete" /\ ~Chat!Contains(c, m.item)
                      \/ /\ m.what = "create"
                         /\ \/ Chat!Contains(c, m.item)
                            \/ (m.after # Nil /\ ~Chat!Contains(c, m.after))
           d == IF m.what = "delete" THEN Chat!RemoveAt(c, At(m.item))
                ELSE Chat!InsertAt(c, IF m.after = Nil THEN 1 ELSE At(m.after) + 1, m.item)
<1>1. /\ Len(c) \in Nat /\ DOMAIN c = 1 .. Len(c) /\ Nil \notin Items
      /\ \A n \in 1 .. Len(c) : c[n] \in Items
  BY LenProperties, ElementOfSeq, ServicesAssumption DEF IsChat
<1>2. m.what \in {"delete", "create"} /\ m.item \in Items /\ m.after \in Items \cup {Nil}
  BY DEF Msg
<1>3. \A x : Chat!Contains(c, x) <=> In(x, c)
  BY DEF Chat!Contains, In
<1>4. \A x : In(x, c) => At(x) \in 1 .. Len(c) /\ c[At(x)] = x
  BY <1>1 DEF In
<1> HIDE DEF At
<1>5. ASSUME ~refused PROVE Does(m, c, d)
  <2>1. CASE m.what = "delete"
    <3>1. At(m.item) \in 1 .. Len(c) /\ c[At(m.item)] = m.item /\ d = Chat!RemoveAt(c, At(m.item))
      BY <1>3, <1>4, <1>5, <2>1
    <3> HIDE DEF d
    <3>2. Deletes(m, c, d)
      BY <2>1, <3>1 DEF Deletes
    <3>3. QED
      BY <3>2 DEF Does
  <2>2. CASE m.what = "create"
    <3> DEFINE n == IF m.after = Nil THEN 1 ELSE At(m.after) + 1
    <3>1. /\ ~In(m.item, c) /\ d = Chat!InsertAt(c, n, m.item)
          /\ m.after # Nil => In(m.after, c)
      BY <1>3, <1>5, <2>2
    <3>2. n \in 1 .. Len(c) + 1 /\ IF n = 1 THEN m.after = Nil ELSE c[n - 1] = m.after
      <4>1. CASE m.after = Nil
        BY <1>1, <4>1
      <4>2. CASE m.after # Nil
        <5>1. At(m.after) \in 1 .. Len(c) /\ c[At(m.after)] = m.after
          BY <1>4, <3>1, <4>2
        <5>2. n = At(m.after) + 1 /\ n # 1 /\ n - 1 = At(m.after)
          BY <1>1, <4>2, <5>1
        <5>3. QED
          BY <1>1, <5>1, <5>2
      <4>3. QED
        BY <4>1, <4>2
    <3> HIDE DEF d, n
    <3>3. Creates(m, c, d)
      BY <1>2, <2>2, <3>1, <3>2 DEF Creates
    <3>4. QED
      BY <3>3 DEF Does
  <2>3. QED
    BY <1>2, <2>1, <2>2
<1>6. ASSUME NEW e, Does(m, c, e) PROVE ~refused
  <2>1. CASE Deletes(m, c, e)
    <3>1. m.what = "delete" /\ In(m.item, c)
      BY <2>1 DEF Deletes, In
    <3>2. QED
      BY <1>3, <3>1
  <2>2. CASE Creates(m, c, e)
    <3>1. m.what = "create" /\ ~In(m.item, c)
      BY <2>2 DEF Creates
    <3>2. m.after # Nil => In(m.after, c)
      <4>1. Come(m.item, m.after, c, e)
        BY <2>2, CreatesIs
      <4>2. QED
        BY <4>1 DEF Come
    <3>3. QED
      BY <1>3, <3>1, <3>2
  <2>3. QED
    BY <1>6, <2>1, <2>2 DEF Does
<1>7. QED
  BY <1>5, <1>6 DEF At

\* The server applies a message.
LEMMA ChatApplies == ASSUME ChatInv, Chat!ServerApplies PROVE ChatInv'
<1> USE DEF Chat!list, Chat!bounds
<1> DEFINE m == Head(toServer)
           At(i) == CHOOSE n \in DOMAIN server : server[n] = i
           refused == \/ m.what = "delete" /\ ~Chat!Contains(server, m.item)
                      \/ /\ m.what = "create"
                         /\ \/ Chat!Contains(server, m.item)
                            \/ (m.after # Nil /\ ~Chat!Contains(server, m.after))
           d == IF m.what = "delete" THEN Chat!RemoveAt(server, At(m.item))
                ELSE Chat!InsertAt(server, IF m.after = Nil THEN 1 ELSE At(m.after) + 1, m.item)
<1>1. /\ toServer # <<>> /\ toServer' = Tail(toServer)
      /\ UNCHANGED <<head, tail, next, prev, known, wanted, before, futures, updating, disturbed,
                     updates, said, reconnects>>
  BY DEF Chat!ServerApplies
<1>2. IF refused THEN UNCHANGED <<server, fromServer>>
      ELSE server' = d /\ fromServer' = Append(fromServer, m)
  BY DEF Chat!ServerApplies
<1>3. PICK c : Copied(c) /\ Links(c, fromServer, server)
  BY DEF ChatInv, ChatFlows
<1>4. IsChat(c) /\ toServer \in Seq(Msg) /\ fromServer \in Seq(Msg)
  BY <1>3 DEF Copied, ChatInv, ChatTypes
<1>5. IsChat(server)
  BY <1>3, <1>4, LinksSaid
<1>6. /\ m \in Msg /\ Tail(toServer) \in Seq(Msg) /\ Len(toServer) \in Nat /\ Len(toServer) >= 1
      /\ m = toServer[1] /\ Len(Tail(toServer)) = Len(toServer) - 1
      /\ \A k \in 1 .. Len(toServer) - 1 : Tail(toServer)[k] = toServer[k + 1]
  BY <1>1, <1>4, HeadTailProperties, EmptySeq, LenProperties
<1> HIDE DEF m
<1>7. (~refused => Does(m, server, d)) /\ \A e : Does(m, server, e) => ~refused
  <2>1. m \in Msg
    BY <1>6
  <2>2. QED
    BY <1>5, <2>1, ServerDoes
<1> HIDE DEF d, refused
<1>8. /\ Append(fromServer, m) \in Seq(Msg) /\ Len(fromServer) \in Nat
      /\ Len(Append(fromServer, m)) = Len(fromServer) + 1
      /\ Append(fromServer, m)[Len(fromServer) + 1] = m
      /\ \A k \in 1 .. Len(fromServer) : Append(fromServer, m)[k] = fromServer[k]
  BY <1>4, <1>6, AppendProperties, LenProperties
<1>9. ChatTypes'
  <2>1. fromServer' \in Seq(Msg)
    BY <1>2, <1>4, <1>8
  <2>2. QED
    BY <1>1, <1>6, <2>1 DEF ChatInv, ChatTypes
<1>10. Copied(c)'
  BY <1>1, <1>3 DEF Copied, Get, IsChat
<1>11. ChatFlows'
  <2>1. CASE refused
    BY <1>2, <1>3, <1>10, <2>1 DEF ChatFlows
  <2>2. CASE ~refused
    <3>1. Does(m, server, server') /\ fromServer' = Append(fromServer, m)
      BY <1>2, <1>7, <2>2
    <3>2. IsChat(server')
      BY <1>5, <3>1, DoesChat
    <3>3. Links(c, fromServer', server')
      BY <1>3, <1>4, <1>6, <3>1, <3>2, LinksAppend
    <3>4. QED
      BY <1>10, <3>3 DEF ChatFlows
  <2>3. QED
    BY <2>1, <2>2
<1>12. ASSUME ~disturbed PROVE ChatLeads' /\ ChatOwns'
  <2>1. ChatLeads /\ ChatOwns
    BY <1>12 DEF ChatInv
  <2>2. PICK e : Links(server, toServer, e) /\ Goal(e, wanted, before)
    BY <2>1 DEF ChatLeads
  <2>3. PICK b : Does(m, server, b) /\ Links(b, Tail(toServer), e)
    BY <1>1, <1>4, <2>2, LinksHead DEF m
  <2>4. ~refused
    BY <1>7, <2>3
  <2>5. server' = b /\ fromServer' = Append(fromServer, m)
    <3>1. server' = d /\ fromServer' = Append(fromServer, m) /\ Does(m, server, d)
      BY <1>2, <1>7, <2>4
    <3>2. QED
      BY <1>5, <2>3, <3>1, DoesOnce
  <2>6. ChatLeads'
    <3>1. Links(server', toServer', e) /\ Goal(e, wanted', before')
      BY <1>1, <2>2, <2>3, <2>5
    <3>2. QED
      BY <3>1 DEF ChatLeads
  <2>7. \A x : Own(x)' <=> Own(x)
    BY <1>1 DEF Own
  <2> DEFINE ts == toServer'
             fs == fromServer'
             L == Len(fromServer)
             N == Len(toServer)
  <2>8. /\ Len(ts) = N - 1 /\ \A k \in 1 .. N - 1 : ts[k] = toServer[k + 1] /\ k + 1 \in 1 .. N
                                                    /\ k + 1 # 1
        /\ Len(fs) = L + 1 /\ fs[L + 1] = m /\ \A k \in 1 .. L : fs[k] = fromServer[k]
        /\ 1 \in 1 .. N /\ N \in Nat /\ L \in Nat /\ m = toServer[1] /\ futures' = futures
    BY <1>1, <1>6, <1>8, <2>5
  <2> HIDE DEF ts, fs, N, L
  <2>a. /\ \A n \in 1 .. N : Own(toServer[n]) /\ Key(toServer[n]) \in futures
        /\ \A n \in 1 .. L :
             IF Own(fromServer[n]) THEN Key(fromServer[n]) \in futures
             ELSE fromServer[n].what = "create"
        /\ \A n, k \in 1 .. N : Key(toServer[n]) = Key(toServer[k]) => n = k
        /\ \A n, k \in 1 .. L :
             Own(fromServer[n]) /\ Key(fromServer[n]) = Key(fromServer[k]) => n = k
        /\ \A n \in 1 .. N, k \in 1 .. L : Key(toServer[n]) # Key(fromServer[k])
    BY <2>1 DEF ChatOwns, Once, N, L
  <2>b. \A k : k \in 1 .. L + 1 <=> k \in 1 .. L \/ k = L + 1
    BY <2>8
  <2>9. \A n \in 1 .. N - 1 : Own(ts[n]) /\ Key(ts[n]) \in futures
    BY <2>8, <2>a
  <2>10. \A n \in 1 .. L + 1 : IF Own(fs[n]) THEN Key(fs[n]) \in futures ELSE fs[n].what = "create"
    BY <2>8, <2>a, <2>b
  <2>11. \A n, k \in 1 .. N - 1 : Key(ts[n]) = Key(ts[k]) => n = k
    <3>1. ASSUME NEW n \in 1 .. N - 1, NEW k \in 1 .. N - 1, Key(ts[n]) = Key(ts[k]) PROVE n = k
      <4>1. n + 1 = k + 1
        BY <2>8, <2>a, <3>1
      <4>2. QED
        BY <2>8, <4>1
    <3>2. QED
      BY <3>1
  <2>12. ASSUME NEW n \in 1 .. L + 1, NEW k \in 1 .. L + 1, Own(fs[n]), Key(fs[n]) = Key(fs[k])
         PROVE  n = k
    <3>1. CASE n \in 1 .. L /\ k \in 1 .. L
      BY <2>8, <2>a, <2>12, <3>1
    <3>2. CASE n = L + 1 /\ k \in 1 .. L
      BY <2>8, <2>a, <2>12, <3>2
    <3>3. CASE n \in 1 .. L /\ k = L + 1
      BY <2>8, <2>a, <2>12, <3>3
    <3>4. QED
      BY <2>b, <3>1, <3>2, <3>3
  <2>13. ASSUME NEW n \in 1 .. N - 1, NEW k \in 1 .. L + 1 PROVE Key(ts[n]) # Key(fs[k])
    <3>1. CASE k \in 1 .. L
      BY <2>8, <2>a, <3>1
    <3>2. CASE k = L + 1
      BY <2>8, <2>a, <3>2
    <3>3. QED
      BY <2>b, <3>1, <3>2
  <2>14. ChatOwns'
    <3>1. /\ \A n \in 1 .. Len(ts) : Own(ts[n]) /\ Key(ts[n]) \in futures
          /\ \A n \in 1 .. Len(fs) : IF Own(fs[n]) THEN Key(fs[n]) \in futures
                                     ELSE fs[n].what = "create"
          /\ \A n, k \in 1 .. Len(ts) : Own(ts[n]) /\ Key(ts[n]) = Key(ts[k]) => n = k
          /\ \A n, k \in 1 .. Len(fs) : Own(fs[n]) /\ Key(fs[n]) = Key(fs[k]) => n = k
          /\ \A n \in 1 .. Len(ts), k \in 1 .. Len(fs) : Key(ts[n]) # Key(fs[k])
      BY <2>8, <2>9, <2>10, <2>11, <2>12, <2>13
    <3>2. futures' = futures /\ wanted' = wanted /\ before' = before
      BY <1>1
    <3>3. QED
      BY <3>1, <3>2 DEF ChatOwns, Once, Own, Key, ts, fs
  <2>15. QED
    BY <2>6, <2>14
<1>13. QED
  BY <1>1, <1>9, <1>11, <1>12 DEF ChatInv, ChatWaits

\* An event is handled.
LEMMA ChatHandles == ASSUME ChatInv, Chat!ItemCreated \/ Chat!ItemDeleted PROVE ChatInv'
<1> USE DEF Chat!list, Chat!bounds
<1> DEFINE m == Head(fromServer)
<1>1. /\ fromServer # <<>> /\ fromServer' = Tail(fromServer) /\ futures' = futures \ {Key(m)}
      /\ UNCHANGED <<server, toServer, wanted, before, updating, disturbed, updates, said,
                     reconnects>>
      /\ \/ m.what = "create" /\ Chat!Insert(m.after, m.item)
         \/ m.what = "delete" /\ Chat!Delete(m.item)
  BY DEF Chat!ItemCreated, Chat!ItemDeleted, Key
<1>2. PICK c : Copied(c) /\ Links(c, fromServer, server)
  BY DEF ChatInv, ChatFlows
<1>3. IsChat(c) /\ toServer \in Seq(Msg) /\ fromServer \in Seq(Msg)
  BY <1>2 DEF Copied, ChatInv, ChatTypes
<1>4. PICK b : Does(m, c, b) /\ Links(b, Tail(fromServer), server)
  BY <1>1, <1>2, <1>3, LinksHead
<1>5. /\ Tail(fromServer) \in Seq(Msg) /\ Len(fromServer) \in Nat /\ Len(fromServer) >= 1
      /\ m = fromServer[1] /\ Len(Tail(fromServer)) = Len(fromServer) - 1
      /\ \A k \in 1 .. Len(fromServer) - 1 : Tail(fromServer)[k] = fromServer[k + 1]
  BY <1>1, <1>3, HeadTailProperties, EmptySeq, LenProperties
<1> HIDE DEF m
<1>6. Copied(b)'
  <2>1. CASE m.what = "create"
    <3>1. Creates(m, c, b) /\ Chat!Insert(m.after, m.item)
      BY <1>1, <1>4, <2>1 DEF Does, Deletes
    <3>2. QED
      BY <1>2, <3>1, InsertKeepsList
  <2>2. CASE m.what = "delete"
    <3>1. Deletes(m, c, b) /\ Chat!Delete(m.item)
      BY <1>1, <1>4, <2>2 DEF Does, Creates
    <3>2. QED
      BY <1>2, <3>1, DeleteKeepsList
  <2>3. QED
    BY <1>1, <2>1, <2>2
<1>7. ChatFlows'
  <2>1. Links(b, fromServer', server')
    BY <1>1, <1>4
  <2>2. QED
    BY <1>6, <2>1 DEF ChatFlows
<1>8. ChatTypes'
  BY <1>1, <1>5 DEF ChatInv, ChatTypes
<1>9. ChatWaits'
  BY <1>1 DEF ChatInv, ChatWaits
<1>10. ASSUME ~disturbed PROVE ChatLeads' /\ ChatOwns'
  <2>1. ChatLeads /\ ChatOwns
    BY <1>10 DEF ChatInv
  <2>2. ChatLeads'
    BY <1>1, <2>1 DEF ChatLeads
  <2> DEFINE fs == fromServer'
             L == Len(fromServer)
             N == Len(toServer)
  <2>3. /\ Len(fs) = L - 1 /\ 1 \in 1 .. L /\ m = fromServer[1] /\ L \in Nat
        /\ \A k \in 1 .. L - 1 : fs[k] = fromServer[k + 1] /\ k + 1 \in 1 .. L /\ k + 1 # 1
    BY <1>1, <1>5
  <2> HIDE DEF fs, N, L
  <2>4. /\ \A n \in 1 .. N : Own(toServer[n]) /\ Key(toServer[n]) \in futures
        /\ \A n \in 1 .. L :
             IF Own(fromServer[n]) THEN Key(fromServer[n]) \in futures
             ELSE fromServer[n].what = "create"
        /\ \A n, k \in 1 .. N : Own(toServer[n]) /\ Key(toServer[n]) = Key(toServer[k]) => n = k
        /\ \A n, k \in 1 .. L :
             Own(fromServer[n]) /\ Key(fromServer[n]) = Key(fromServer[k]) => n = k
        /\ \A n \in 1 .. N, k \in 1 .. L : Key(toServer[n]) # Key(fromServer[k])
    BY <2>1 DEF ChatOwns, Once, N, L
  <2>5. \A n \in 1 .. N : Key(toServer[n]) \in futures'
    BY <1>1, <2>3, <2>4
  <2>6. ASSUME NEW n \in 1 .. L - 1
        PROVE  IF Own(fs[n]) THEN Key(fs[n]) \in futures' ELSE fs[n].what = "create"
    <3>1. fs[n] = fromServer[n + 1] /\ n + 1 \in 1 .. L /\ n + 1 # 1
      BY <2>3
    <3>2. Own(fromServer[n + 1]) => Key(fromServer[n + 1]) # Key(m)
      BY <2>3, <2>4, <3>1
    <3>3. QED
      BY <1>1, <2>4, <3>1, <3>2
  <2>7. ASSUME NEW n \in 1 .. L - 1, NEW k \in 1 .. L - 1, Own(fs[n]), Key(fs[n]) = Key(fs[k])
        PROVE  n = k
    <3>1. n + 1 = k + 1
      BY <2>3, <2>4, <2>7
    <3>2. QED
      BY <2>3, <3>1
  <2>8. \A n \in 1 .. N, k \in 1 .. L - 1 : Key(toServer[n]) # Key(fs[k])
    BY <2>3, <2>4
  <2>9. ChatOwns'
    <3>1. /\ \A n \in 1 .. Len(toServer) : Own(toServer[n]) /\ Key(toServer[n]) \in futures'
          /\ \A n \in 1 .. Len(fs) : IF Own(fs[n]) THEN Key(fs[n]) \in futures'
                                     ELSE fs[n].what = "create"
          /\ \A n, k \in 1 .. Len(toServer) :
               Own(toServer[n]) /\ Key(toServer[n]) = Key(toServer[k]) => n = k
          /\ \A n, k \in 1 .. Len(fs) : Own(fs[n]) /\ Key(fs[n]) = Key(fs[k]) => n = k
          /\ \A n \in 1 .. Len(toServer), k \in 1 .. Len(fs) : Key(toServer[n]) # Key(fs[k])
      BY <2>3, <2>4, <2>5, <2>6, <2>7, <2>8 DEF N
    <3>2. toServer' = toServer /\ wanted' = wanted /\ before' = before
      BY <1>1
    <3>3. QED
      BY <3>1, <3>2 DEF ChatOwns, Once, Own, Key, fs
  <2>10. QED
    BY <2>2, <2>9
<1>11. QED
  BY <1>1, <1>7, <1>8, <1>9, <1>10 DEF ChatInv

\* Something is said.
LEMMA ChatSays == ASSUME ChatInv, NEW i \in Items, Chat!ServerAdds(i) PROVE ChatInv'
<1> USE DEF Chat!list, Chat!bounds
<1> DEFINE a == IF server = <<>> THEN Nil ELSE Chat!Last(server)
           m == Chat!Message("create", a, i)
<1>1. /\ said < MaxSaid /\ said' = said + 1 /\ server' = Append(server, i)
      /\ fromServer' = Append(fromServer, m)
      /\ UNCHANGED <<head, tail, next, prev, known, toServer, wanted, before, futures, updating,
                     disturbed, updates, reconnects>>
      /\ i \notin Chat!ToSet(server) /\ i \notin Chat!ToSet(wanted) /\ i \notin Chat!ToSet(before)
      /\ \A t \in Chat!ToSet(toServer) : t.item # i
  BY DEF Chat!ServerAdds
<1>2. PICK c : Copied(c) /\ Links(c, fromServer, server)
  BY DEF ChatInv, ChatFlows
<1>3. /\ IsChat(c) /\ toServer \in Seq(Msg) /\ fromServer \in Seq(Msg) /\ IsChat(wanted)
      /\ IsChat(before)
  BY <1>2, ChatsAre DEF Copied, ChatInv, ChatTypes
<1>4. IsChat(server)
  BY <1>2, <1>3, LinksSaid
<1>5. ~In(i, server) /\ ~In(i, wanted) /\ ~In(i, before) /\ \A n \in 1 .. Len(toServer) : toServer[n].item # i
  BY <1>1, <1>3, <1>4, ToSetIs DEF In, IsChat
<1>6. server \in Seq(Items) /\ Len(server) \in Nat /\ \A n \in 1 .. Len(server) : server[n] \in Items
  BY <1>4, LenProperties, ElementOfSeq DEF IsChat
<1>7. /\ m.what = "create" /\ m.item = i /\ m.after = a /\ m \in Msg
      /\ IF Len(server) = 0 THEN a = Nil ELSE a = server[Len(server)]
  <2>1. IF Len(server) = 0 THEN a = Nil ELSE a = server[Len(server)]
    BY <1>6, EmptySeq DEF Chat!Last
  <2>2. a \in Items \cup {Nil}
    BY <1>6, <2>1
  <2> HIDE DEF a
  <2>3. QED
    BY <2>1, <2>2 DEF Chat!Message, Msg
<1> HIDE DEF m, a
<1>8. Does(m, server, Append(server, i))
  <2> DEFINE L == Len(server)
             d == Chat!InsertAt(server, L + 1, i)
             s == Append(server, i)
  <2>1. L + 1 \in 1 .. L + 1
    BY <1>6
  <2>2. Adds(Items, server, d, L + 1, i)
    BY <1>6, <2>1, InsertAdds
  <2>3. s \in Seq(Items) /\ Len(s) = L + 1 /\ s[L + 1] = i /\ \A k \in 1 .. L : s[k] = server[k]
    BY <1>6, AppendProperties
  <2> HIDE DEF d, s
  <2>4. \A k \in 1 .. L + 1 : d[k] = s[k]
    <3>1. ASSUME NEW k \in 1 .. L + 1 PROVE d[k] = s[k]
      <4>1. d[k] = IF k < L + 1 THEN server[k] ELSE IF k = L + 1 THEN i ELSE server[k - 1]
        BY <2>2 DEF Adds
      <4>2. CASE k = L + 1
        BY <1>6, <2>3, <4>1, <4>2
      <4>3. CASE k # L + 1
        BY <1>6, <2>3, <4>1, <4>3
      <4>4. QED
        BY <4>2, <4>3
    <3>2. QED
      BY <3>1
  <2>5. d = s
    <3>1. d \in Seq(Items) /\ Len(d) = L + 1
      BY <2>2 DEF Adds
    <3>2. QED
      BY <2>3, <2>4, <3>1, SeqEqual
  <2>6. IF L + 1 = 1 THEN m.after = Nil ELSE server[(L + 1) - 1] = m.after
    BY <1>6, <1>7
  <2>7. s = Chat!InsertAt(server, L + 1, m.item)
    BY <1>7, <2>5 DEF d
  <2>8. Creates(m, server, s)
    BY <1>5, <1>7, <2>1, <2>6, <2>7 DEF Creates
  <2>9. QED
    BY <2>8 DEF Does, s
<1>9. IsChat(server')
  BY <1>1, <1>4, <1>5, AppendIs
<1>10. /\ fromServer' \in Seq(Msg) /\ Len(fromServer) \in Nat
       /\ Len(fromServer') = Len(fromServer) + 1 /\ fromServer'[Len(fromServer) + 1] = m
       /\ \A k \in 1 .. Len(fromServer) : fromServer'[k] = fromServer[k]
  BY <1>1, <1>3, <1>7, AppendProperties, LenProperties
<1>11. ChatTypes'
  <2>1. said' \in 0 .. MaxSaid
    <3>1. said \in 0 .. MaxSaid
      BY DEF ChatInv, ChatTypes
    <3>2. MaxSaid \in Nat
      BY ServicesAssumption
    <3>3. QED
      BY <1>1, <3>1, <3>2
  <2>2. QED
    BY <1>1, <1>10, <2>1 DEF ChatInv, ChatTypes, IsChat
<1>12. ChatFlows'
  <2>1. Copied(c)'
    BY <1>1, <1>2 DEF Copied, Get, IsChat
  <2>2. Links(c, fromServer', server')
    <3>1. Does(m, server, server')
      BY <1>1, <1>8
    <3>2. QED
      BY <1>1, <1>2, <1>3, <1>7, <1>9, <3>1, LinksAppend
  <2>3. QED
    BY <2>1, <2>2 DEF ChatFlows
<1>13. ChatWaits'
  BY <1>1 DEF ChatInv, ChatWaits
<1>14. ASSUME ~disturbed PROVE ChatLeads' /\ ChatOwns'
  <2>1. ChatLeads /\ ChatOwns
    BY <1>14 DEF ChatInv
  <2>2. PICK e : Links(server, toServer, e) /\ Goal(e, wanted, before)
    BY <2>1 DEF ChatLeads
  <2>3. Links(server', toServer', Append(e, i)) /\ ~In(i, e)
    BY <1>1, <1>3, <1>4, <1>5, <2>2, LinksSaid
  <2>4. Goal(Append(e, i), wanted, before)
    <3>1. IsChat(e)
      BY <2>2 DEF Goal
    <3>2. /\ IsChat(Append(e, i)) /\ \A x : In(x, Append(e, i)) <=> In(x, e) \/ x = i
          /\ \A x, y : Ahead(Append(e, i), x, y) /\ y # i => Ahead(e, x, y)
      BY <2>3, <3>1, AppendIs
    <3>3. QED
      BY <1>5, <2>2, <3>2 DEF Goal
  <2>5. ChatLeads'
    BY <1>1, <2>3, <2>4 DEF ChatLeads
  <2>6. ~Own(m)
    BY <1>5, <1>7 DEF Own
  <2> DEFINE fs == fromServer'
             L == Len(fromServer)
             N == Len(toServer)
  <2>7. /\ Len(fs) = L + 1 /\ fs[L + 1] = m /\ L \in Nat /\ \A k \in 1 .. L : fs[k] = fromServer[k]
        /\ \A k : k \in 1 .. L + 1 <=> k \in 1 .. L \/ k = L + 1
    BY <1>10
  <2> HIDE DEF fs, N, L
  <2>8. /\ \A n \in 1 .. N : Own(toServer[n]) /\ Key(toServer[n]) \in futures
        /\ \A n \in 1 .. L :
             IF Own(fromServer[n]) THEN Key(fromServer[n]) \in futures
             ELSE fromServer[n].what = "create"
        /\ \A n, k \in 1 .. N : Own(toServer[n]) /\ Key(toServer[n]) = Key(toServer[k]) => n = k
        /\ \A n, k \in 1 .. L :
             Own(fromServer[n]) /\ Key(fromServer[n]) = Key(fromServer[k]) => n = k
        /\ \A n \in 1 .. N, k \in 1 .. L : Key(toServer[n]) # Key(fromServer[k])
    BY <2>1 DEF ChatOwns, Once, N, L
  <2>9. \A n \in 1 .. L + 1 : IF Own(fs[n]) THEN Key(fs[n]) \in futures ELSE fs[n].what = "create"
    BY <1>7, <2>6, <2>7, <2>8
  <2>10. ASSUME NEW n \in 1 .. L + 1, NEW k \in 1 .. L + 1, Own(fs[n]), Key(fs[n]) = Key(fs[k])
         PROVE  n = k
    <3>1. n \in 1 .. L
      BY <2>6, <2>7, <2>10
    <3>2. CASE k \in 1 .. L
      BY <2>7, <2>8, <2>10, <3>1, <3>2
    <3>3. CASE k = L + 1
      <4>1. fs[n].item = m.item
        BY <2>7, <2>10, <3>3 DEF Key
      <4>2. QED
        BY <2>6, <2>10, <4>1 DEF Own
    <3>4. QED
      BY <2>7, <3>2, <3>3
  <2>11. ASSUME NEW n \in 1 .. N, NEW k \in 1 .. L + 1 PROVE Key(toServer[n]) # Key(fs[k])
    <3>1. CASE k \in 1 .. L
      BY <2>7, <2>8, <3>1
    <3>2. CASE k = L + 1
      <4>1. toServer[n].item # m.item
        BY <1>5, <1>7 DEF N
      <4>2. QED
        BY <2>7, <3>2, <4>1 DEF Key
    <3>3. QED
      BY <2>7, <3>1, <3>2
  <2>12. ChatOwns'
    <3>1. /\ \A n \in 1 .. Len(toServer) : Own(toServer[n]) /\ Key(toServer[n]) \in futures
          /\ \A n \in 1 .. Len(fs) : IF Own(fs[n]) THEN Key(fs[n]) \in futures
                                     ELSE fs[n].what = "create"
          /\ \A n, k \in 1 .. Len(toServer) :
               Own(toServer[n]) /\ Key(toServer[n]) = Key(toServer[k]) => n = k
          /\ \A n, k \in 1 .. Len(fs) : Own(fs[n]) /\ Key(fs[n]) = Key(fs[k]) => n = k
          /\ \A n \in 1 .. Len(toServer), k \in 1 .. Len(fs) : Key(toServer[n]) # Key(fs[k])
      BY <2>7, <2>8, <2>9, <2>10, <2>11 DEF N
    <3>2. /\ toServer' = toServer /\ futures' = futures /\ wanted' = wanted
          /\ before' = before
      BY <1>1
    <3>3. QED
      BY <3>1, <3>2 DEF ChatOwns, Once, Own, Key, fs
  <2>13. QED
    BY <2>5, <2>12
<1>15. QED
  BY <1>1, <1>11, <1>12, <1>13, <1>14 DEF ChatInv

\* Every step of the session and of the server keeps the invariant of the chat.
LEMMA ChatStep == ChatInv /\ [Chat!Next]_chatVars => ChatInv'
<1> SUFFICES ASSUME ChatInv, [Chat!Next]_chatVars PROVE ChatInv'
  OBVIOUS
<1> USE DEF Chat!list, Chat!bounds
<1>1. CASE UNCHANGED chatVars
  BY <1>1 DEF chatVars, ChatInv, ChatTypes, ChatFlows, ChatWaits, ChatLeads, ChatOwns, Once, Own,
     Key, Copied, Get, IsChat
<1>2. CASE Chat!UpdateEnds \/ Chat!UpdateTimeout
  <2>1. /\ UNCHANGED <<head, tail, next, prev, known, server, toServer, fromServer, wanted, before,
                       updates, said, reconnects>>
        /\ futures' = {} /\ updating' = FALSE
        /\ \/ disturbed' = TRUE
           \/ disturbed' = disturbed /\ futures' = futures
    BY <1>2 DEF Chat!UpdateEnds, Chat!UpdateTimeout
  <2>2. ChatTypes' /\ ChatFlows' /\ ChatWaits'
    BY <2>1 DEF ChatInv, ChatTypes, ChatFlows, ChatWaits, Copied, Get, IsChat
  <2>3. ASSUME ~disturbed' PROVE ChatLeads' /\ ChatOwns'
    <3>1. ~disturbed /\ futures' = futures /\ ChatLeads /\ ChatOwns
      BY <2>1, <2>3 DEF ChatInv
    <3>2. QED
      BY <2>1, <3>1 DEF ChatLeads, ChatOwns, Once, Own, Key
  <2>4. QED
    BY <2>2, <2>3 DEF ChatInv
<1>3. QED
  BY <1>1, <1>2, ChatUpdate, ChatReconnect, ChatApplies, ChatHandles, ChatSays DEF Chat!Next

\* Every step keeps the flags of the chat.
LEMMA ChatFlagsStep == ChatFlags /\ [Chat!Next]_chatVars => ChatFlags'
<1> SUFFICES ASSUME ChatFlags, [Chat!Next]_chatVars PROVE ChatFlags'
  OBVIOUS
<1>1. CASE UNCHANGED chatVars
  BY <1>1 DEF ChatFlags, chatVars
<1>2. ASSUME NEW chat \in Chat!Chats, Chat!UpdateChatCtx(chat) PROVE ChatFlags'
  <2>1. (updating' \in BOOLEAN) /\ UNCHANGED disturbed
    BY <1>2 DEF Chat!UpdateChatCtx
  <2>2. QED
    BY <2>1 DEF ChatFlags
<1>3. CASE Chat!UpdateEnds \/ Chat!UpdateTimeout \/ Chat!Reconnect \/ Chat!ServerApplies
           \/ Chat!ItemCreated \/ Chat!ItemDeleted
  BY <1>3, Zenon DEF ChatFlags, Chat!UpdateEnds, Chat!UpdateTimeout, Chat!Reconnect, Chat!ServerApplies,
     Chat!ItemCreated, Chat!ItemDeleted
<1>4. ASSUME NEW i \in Items, Chat!ServerAdds(i) PROVE ChatFlags'
  BY <1>4 DEF ChatFlags, Chat!ServerAdds
<1>5. QED
  BY <1>1, <1>2, <1>3, <1>4 DEF Chat!Next

\* Two orders that agree, by the places of the items.
LEMMA AgreeIs ==
    ASSUME NEW c, NEW w, IsChat(w),
           \A x, y : In(x, w) /\ In(y, w) /\ Ahead(c, x, y) => Ahead(w, x, y)
    PROVE  Agree(c, w)
<1>1. ASSUME NEW i \in 1 .. Len(c), NEW j \in 1 .. Len(c), NEW k \in 1 .. Len(w),
             NEW l \in 1 .. Len(w), c[i] = w[k], c[j] = w[l], i < j
      PROVE  k < l
  <2>1. In(w[k], w) /\ In(w[l], w) /\ Ahead(c, w[k], w[l])
    BY <1>1 DEF In, Ahead
  <2>2. PICK p \in 1 .. Len(w), q \in 1 .. Len(w) : p < q /\ w[p] = w[k] /\ w[q] = w[l]
    BY <2>1 DEF Ahead
  <2>3. p = k /\ q = l
    BY <2>2 DEF IsChat
  <2>4. QED
    BY <2>2, <2>3
<1>2. QED
  BY <1>1 DEF Agree

\* The chat's state has its type.
LEMMA ChatTyped == ChatInv /\ ChatFlags => Chat!TypeOK
<1> SUFFICES ASSUME ChatInv, ChatFlags PROVE Chat!TypeOK
  OBVIOUS
<1>1. PICK c : Copied(c) /\ Links(c, fromServer, server)
  BY DEF ChatInv, ChatFlows
<1>2. IsChat(c) /\ fromServer \in Seq(Msg)
  BY <1>1 DEF Copied, ChatInv, ChatTypes
<1>3. IsChat(server)
  BY <1>1, <1>2, LinksSaid
<1>4. \A i \in 1 .. Len(c) : c[i] \in Items
  BY <1>2, ElementOfSeq DEF IsChat
<1>5. /\ head \in Items \cup {Nil} /\ tail \in Items \cup {Nil} /\ known \subseteq Items
      /\ next \in [Items -> Items \cup {Nil}] /\ prev \in [Items -> Items \cup {Nil}]
  BY <1>1, <1>4 DEF Copied, Get
<1>6. Chat!ToSet(server) \subseteq Items /\ Chat!IsInjective(server)
  <2>1. server \in Seq(Items) /\ DOMAIN server = 1 .. Len(server)
    BY <1>3, LenProperties DEF IsChat
  <2>2. \A i \in 1 .. Len(server) : server[i] \in Items
    BY <2>1, ElementOfSeq
  <2>3. QED
    BY <1>3, <2>1, <2>2 DEF IsChat, Chat!ToSet, Chat!IsInjective
<1>7. /\ updates \in 0 .. MaxUpdates /\ said \in 0 .. MaxSaid /\ reconnects \in 0 .. MaxReconnects
      /\ wanted \in Chat!Chats
  BY DEF ChatInv, ChatTypes
<1>8. QED
  BY <1>5, <1>6, <1>7 DEF Chat!TypeOK, ChatFlags

\* The invariant of the chat implies what is asked of it.
LEMMA ChatImplies == ChatInv => Chat!ChatIsRight
<1> SUFFICES ASSUME ChatInv PROVE Chat!ChatIsRight
  OBVIOUS
<1>1. PICK c : Copied(c) /\ Links(c, fromServer, server)
  BY DEF ChatInv, ChatFlows
<1>2. /\ IsChat(c) /\ toServer \in Seq(Msg) /\ fromServer \in Seq(Msg) /\ IsChat(wanted)
      /\ IsChat(before) /\ Chat!ToChatCtx = c
  BY <1>1, ChatsAre, CtxIs DEF Copied, ChatInv, ChatTypes
<1>3. /\ c \in Seq(Items) /\ Len(c) \in Nat /\ DOMAIN c = 1 .. Len(c)
      /\ \A x : x \in Chat!ToSet(c) <=> In(x, c)
  BY <1>2, LenProperties, ToSetIs DEF IsChat, In
<1>4. \A x : x \in known <=> In(x, c)
  BY <1>1 DEF Copied, In
<1>5. Chat!ListIsLinked
  <2>1. Chat!ToSet(c) = known
    BY <1>3, <1>4
  <2>2. Len(c) = Chat!Cardinality(known)
    <3>1. known = {c[i] : i \in 1 .. Len(c)}
      BY <1>1 DEF Copied
    <3>2. Cardinality({c[i] : i \in 1 .. Len(c)}) = Len(c)
      BY <1>2, ChatLength
    <3>3. QED
      BY <3>1, <3>2, CardinalityIs
  <2>3. tail = IF c = <<>> THEN Nil ELSE Chat!Last(c)
    <3>1. tail = Get(c, Len(c))
      BY <1>1 DEF Copied
    <3>2. CASE c = <<>>
      <4>1. Len(c) = 0
        BY <3>2, EmptySeq
      <4>2. QED
        BY <3>1, <3>2, <4>1 DEF Get
    <3>3. CASE c # <<>>
      <4>1. Len(c) # 0
        BY <1>3, <3>3, EmptySeq
      <4>2. Len(c) \in 1 .. Len(c)
        BY <1>3, <4>1
      <4>3. QED
        BY <3>1, <3>3, <4>2 DEF Get, Chat!Last
    <3>4. QED
      BY <3>2, <3>3
  <2>4. \A n \in DOMAIN c : prev[c[n]] = IF n = 1 THEN Nil ELSE c[n - 1]
    <3>1. ASSUME NEW n \in 1 .. Len(c) PROVE prev[c[n]] = IF n = 1 THEN Nil ELSE c[n - 1]
      <4>1. prev[c[n]] = Get(c, n - 1)
        BY <1>1 DEF Copied
      <4>2. n - 1 \in 1 .. Len(c) <=> n # 1
        BY <1>3
      <4>3. QED
        BY <4>1, <4>2 DEF Get
    <3>2. QED
      BY <1>3, <3>1
  <2>5. QED
    BY <1>2, <2>1, <2>2, <2>3, <2>4 DEF Chat!ListIsLinked
<1>6. Chat!CopyIsConversation
  <2>1. fromServer = <<>> => c = server
    BY <1>1, LinksNone
  <2>2. QED
    BY <1>2, <2>1 DEF Chat!CopyIsConversation
<1>7. Chat!DiffIsMinimal
  <2>1. ASSUME NEW s, \A t \in {before, wanted} : s = Chat!Only(t, Chat!ToSet(s))
        PROVE  Len(s) <= Chat!Cardinality(Chat!Lcs(before, wanted))
    <3>1. Chat!Only(before, Chat!ToSet(s)) = s /\ Chat!Only(wanted, Chat!ToSet(s)) = s
      BY <2>1
    <3>2. Len(s) <= Cardinality(Chat!Lcs(before, wanted))
      BY <1>2, <3>1, LcsStays
    <3>3. QED
      BY <3>2, CardinalityIs
  <2>2. QED
    BY <2>1, Zenon DEF Chat!DiffIsMinimal
<1>8. Chat!UpdateIsDone
  <2>1. SUFFICES ASSUME ~updating, ~disturbed
                 PROVE  /\ Chat!Only(c, Chat!ToSet(wanted)) = wanted
                        /\ known \cap Chat!ToSet(before) \subseteq Chat!ToSet(wanted)
    BY <1>2 DEF Chat!UpdateIsDone
  <2>2. futures = {} /\ ChatLeads /\ ChatOwns
    BY <2>1 DEF ChatInv, ChatWaits
  <2>3. toServer = <<>>
    <3>1. Len(toServer) \in Nat /\ \A n \in 1 .. Len(toServer) : FALSE
      BY <1>2, <2>2, LenProperties DEF ChatOwns
    <3>2. Len(toServer) = 0
      BY <3>1
    <3>3. QED
      BY <1>2, <3>2, EmptySeq
  <2>4. Goal(server, wanted, before)
    BY <2>2, <2>3, LinksNone DEF ChatLeads
  <2>5. \A n \in 1 .. Len(fromServer) : ~Own(fromServer[n]) /\ fromServer[n].what = "create"
    BY <2>2 DEF ChatOwns
  <2>6. /\ \A x : In(x, server) <=> In(x, c) \/ \E n \in 1 .. Len(fromServer) : fromServer[n].item = x
        /\ \A x, y : Ahead(c, x, y) => Ahead(server, x, y)
    BY <1>1, <1>2, <2>5, LinksCome
  <2>7. \A x : In(x, wanted) => In(x, c)
    BY <2>4, <2>5, <2>6 DEF Goal, Own
  <2>8. Agree(c, wanted)
    <3>1. \A x, y : In(x, wanted) /\ In(y, wanted) /\ Ahead(c, x, y) => Ahead(wanted, x, y)
      BY <2>4, <2>6 DEF Goal
    <3>2. QED
      BY <1>2, <3>1, AgreeIs
  <2>9. Chat!Only(c, Chat!ToSet(wanted)) = wanted
    BY <1>2, <2>7, <2>8, OnlyIsWhole
  <2>10. ASSUME NEW x \in known, x \in Chat!ToSet(before) PROVE x \in Chat!ToSet(wanted)
    <3>1. \A y : y \in Chat!ToSet(before) => In(y, before)
      BY <1>2, ToSetIs DEF IsChat, In
    <3>2. \A y : In(y, wanted) => y \in Chat!ToSet(wanted)
      BY <1>2, ToSetIs DEF IsChat, In
    <3>3. In(x, server) /\ In(x, before)
      BY <1>4, <2>6, <2>10, <3>1
    <3>4. QED
      BY <2>4, <3>2, <3>3 DEF Goal
  <2>11. QED
    BY <2>9, <2>10
<1>9. QED
  BY <1>5, <1>6, <1>7, <1>8 DEF Chat!ChatIsRight

-----------------------------------------------------------------------------
\* The copy of the server's conversation is linked, and the conversation once all the events
\* were handled; the diff of an update changes as little as can be; and once the update is
\* done the copy is what was wanted, in its order: however long the chats are, and however
\* many updates, items of the server and lost connections there are.
THEOREM ChatStaysRight == Spec => []ChatIsRight
<1>1. Init => ChatInv
  BY ChatStart DEF Init
<1>2. ChatInv /\ [Next]_vars => ChatInv'
  <2>1. [Next]_vars => [Chat!Next]_chatVars
    BY DEF Next, vars
  <2>2. QED
    BY <2>1, ChatStep
<1>3. ChatInv => ChatIsRight
  BY ChatImplies DEF ChatIsRight
<1>4. QED
  BY <1>1, <1>2, <1>3, PTL DEF Spec
=============================================================================
