--------------------------- MODULE MCMediaProofs ----------------------------
(***************************************************************************)
(* What holds of the parts that MCMedia checks in one run, for every value *)
(* of the constants.  The parts share no state, so each has an invariant   *)
(* of its own.                                                             *)
(***************************************************************************)
EXTENDS MCMedia, FiniteSetTheorems, SequenceTheorems, TLAPS

-----------------------------------------------------------------------------
(* The input of a participant's microphone *)

Reader == [track : Input!Track, open : BOOLEAN,
           at : {"new", "waiting", "buffer", "reading", "cancelled", "ended"}]
Frame  == [by : Nat, what : {"before", "now"}]

InputTypes ==
    /\ tracks \in [Users -> SUBSET Input!Track] /\ published \in 0 .. MaxTracks
    /\ listens \in Users \cup {NoOne} /\ publication \in 0 .. published
    /\ readers \in Seq(Reader) /\ data \in Seq(Frame)
    /\ playback \in [Input!Track -> {"none", "sent", "taken"}]
    /\ inputPhase \in {"open", "stream", "forward", "closed"}

\* A track is of one participant, and what is read is of the participant that is set, or
\* of one who has left.
TracksInv ==
    /\ \A p \in Users : \A t \in tracks[p] : t <= published
    /\ \A i \in 1 .. Len(readers) : readers[i].track <= published
    /\ \A p, q \in Users : p # q => tracks[p] \cap tracks[q] = {}
    /\ \A p \in Users : publication \in tracks[p] => p = listens

\* Only the stream of the last task is open.
ReadsInv ==
    /\ \A i \in 1 .. Len(readers) : readers[i].open => i = Len(readers)
    /\ inputPhase = "open" /\ listens # NoOne /\ tracks[listens] # {} =>
          /\ publication \in tracks[listens] /\ readers # <<>>
          /\ readers[Len(readers)].track = publication /\ readers[Len(readers)].open
    /\ inputPhase = "open" => \A i \in 1 .. Len(readers) :
          readers[i].open => listens # NoOne /\ readers[i].track \in tracks[listens]

\* The last task, which aclose() cancels, may not have begun.
Began(i) == readers[i].at # "new"
            /\ (readers[i].at # "cancelled" \/ i < Len(readers)
                \/ inputPhase \notin {"forward", "closed"})

\* A task that has begun is alone: those before it have ended.
AloneInv ==
    ~late =>
        /\ \A i \in 1 .. Len(readers) : Began(i) => \A j \in 1 .. i - 1 : Input!Ended(j)
        /\ inputPhase \in {"forward", "closed"} =>
              /\ publication = Input!NoTrack
              /\ \A i \in 1 .. Len(readers) : Input!Ended(i) \/ ~readers[i].open

\* The frames are of tasks that have begun, in their order.
DataInv ==
    /\ \A n \in 1 .. Len(data) : data[n].by \in 1 .. Len(readers)
    /\ \A n \in 1 .. Len(data) : readers[data[n].by].at \notin {"new", "waiting", "buffer"}
    /\ \A n \in 1 .. Len(data) : data[n].what = "before" =>
          playback[readers[data[n].by].track] = "taken"
    /\ ~late => \A n \in 1 .. Len(data) : \A j \in 1 .. data[n].by - 1 : Input!Ended(j)

InputInv ==
    /\ late \in BOOLEAN /\ InputTypes /\ TracksInv /\ ReadsInv /\ AloneInv /\ DataInv
    /\ Input!FramesInOrder

\* Cardinality is one operator, through whichever of the modules it is named.
LEMMA OneCardinality ==
    \A S : Input!Cardinality(S) = Cardinality(S) /\ Context!Cardinality(S) = Cardinality(S)
BY DEF Input!Cardinality, Cardinality, Context!Cardinality

\* The tracks of a participant, in any order: at least one if there are some.
LEMMA TracksInOrder ==
    ASSUME InputTypes, NEW p \in Users, tracks[p] # {}, NEW order \in Input!SetToSeqs(tracks[p])
    PROVE  /\ order \in Seq(Input!Track) /\ Len(order) \in Nat /\ Len(order) # 0
           /\ \A i \in 1 .. Len(order) : order[i] \in tracks[p]
<1> DEFINE S == tracks[p]
<1>1. S \in SUBSET (1 .. MaxTracks)
  BY DEF InputTypes, Input!Track
<1>2. IsFiniteSet(S)
  <2>1. MaxTracks \in Int
    BY MediaAssumption
  <2>2. IsFiniteSet(1 .. MaxTracks)
    BY <2>1, FS_Interval
  <2> HIDE DEF S
  <2>3. QED
    BY <1>1, <2>2, FS_Subset
<1>3. Cardinality(S) \in Nat /\ Cardinality(S) # 0
  BY <1>2, FS_EmptySet, FS_CardinalityType
<1>4. order \in [1 .. Cardinality(S) -> S]
  BY OneCardinality DEF Input!SetToSeqs
<1> HIDE DEF S
<1>5. Len(order) = Cardinality(S) /\ \A i \in 1 .. Len(order) : order[i] \in S
  BY <1>3, <1>4
<1>6. \A i \in 1 .. Cardinality(S) : order[i] \in Input!Track
  BY <1>1, <1>4 DEF Input!Track
<1>7. order \in Seq(Input!Track)
  BY <1>3, <1>4, <1>6
<1>8. QED
  BY <1>3, <1>5, <1>7 DEF S

\* Nobody is heard at first.
LEMMA InputStart == Input!Init => InputInv
<1> SUFFICES ASSUME Input!Init PROVE InputInv
  OBVIOUS
<1> USE MediaAssumption DEF Input!Init, Input!NoTrack
<1>1. late \in BOOLEAN
  BY Zenon
<1>2. InputTypes
  BY DEF InputTypes
<1>3. TracksInv /\ ReadsInv /\ AloneInv /\ DataInv /\ Input!FramesInOrder
  BY DEF TracksInv, ReadsInv, AloneInv, DataInv, Input!FramesInOrder
<1>4. QED
  BY <1>1, <1>2, <1>3 DEF InputInv

-----------------------------------------------------------------------------
(* What becomes of the tasks that read *)

\* The tasks stay, and none is opened or comes back.
TasksStay ==
    /\ readers' \in Seq(Reader) /\ Len(readers') = Len(readers)
    /\ \A i \in 1 .. Len(readers) :
          /\ readers'[i].track = readers[i].track
          /\ readers'[i].open => readers[i].open
          /\ Input!Ended(i) => readers'[i].at \in {"cancelled", "ended"}

\* Each task is where it was.
InPlace == \A i \in 1 .. Len(readers) : readers'[i].at = readers[i].at

\* New tasks come after those there are, to read tracks of S; the last alone is open.
TasksGrow(S) ==
    /\ readers' \in Seq(Reader) /\ Len(readers') > Len(readers) /\ InPlace
    /\ \A i \in 1 .. Len(readers) : readers'[i].track = readers[i].track
    /\ \A i \in Len(readers) + 1 .. Len(readers') :
          readers'[i].at = "new" /\ readers'[i].track \in S
    /\ \A i \in 1 .. Len(readers') : readers'[i].open <=> i = Len(readers')

\* The streams are closed, and the tasks go on.
LEMMA TasksClose ==
    ASSUME InputTypes, readers' = Input!Closed(readers)
    PROVE  TasksStay /\ InPlace /\ \A i \in 1 .. Len(readers) : ~readers'[i].open
<1> DEFINE after(i) == [readers[i] EXCEPT !.open = FALSE]
<1>1. Len(readers) \in Nat /\ \A i \in 1 .. Len(readers) : readers[i] \in Reader
  BY DEF InputTypes
<1>2. \A i \in 1 .. Len(readers) :
         /\ after(i) \in Reader /\ after(i).track = readers[i].track
         /\ ~after(i).open /\ after(i).at = readers[i].at
  BY <1>1 DEF Reader
<1>3. readers' = [i \in 1 .. Len(readers) |-> after(i)]
  BY DEF Input!Closed
<1> HIDE DEF after
<1>4. readers' \in Seq(Reader) /\ Len(readers') = Len(readers)
  BY <1>1, <1>2, <1>3
<1>5. QED
  BY <1>2, <1>3, <1>4 DEF TasksStay, InPlace, Input!Ended

\* A track is read by a task of its own.
LEMMA TaskReads ==
    ASSUME InputTypes, NEW t \in Input!Track, readers' = Input!Read(readers, t)
    PROVE  /\ TasksGrow({t}) /\ readers' # <<>> /\ Len(readers') = Len(readers) + 1
           /\ readers'[Len(readers')].track = t /\ readers'[Len(readers')].open
<1> DEFINE new == [track |-> t, open |-> TRUE, at |-> "new"]
           rs == Input!Closed(readers)
<1>1. Len(readers) \in Nat /\ \A i \in 1 .. Len(readers) : readers[i] \in Reader
  BY DEF InputTypes
<1>2. /\ rs \in Seq(Reader) /\ Len(rs) = Len(readers)
      /\ \A i \in 1 .. Len(readers) :
            rs[i].track = readers[i].track /\ ~rs[i].open /\ rs[i].at = readers[i].at
  <2> DEFINE after(i) == [readers[i] EXCEPT !.open = FALSE]
  <2>1. \A i \in 1 .. Len(readers) :
           /\ after(i) \in Reader /\ after(i).track = readers[i].track
           /\ ~after(i).open /\ after(i).at = readers[i].at
    BY <1>1 DEF Reader
  <2>2. rs = [i \in 1 .. Len(readers) |-> after(i)]
    BY DEF Input!Closed
  <2> HIDE DEF after, rs
  <2>3. QED
    BY <1>1, <2>1, <2>2
<1>3. new \in Reader /\ new.track = t /\ new.open /\ new.at = "new"
  BY DEF Reader
<1>4. readers' = Append(rs, new)
  BY DEF Input!Read
<1> HIDE DEF new, rs
<1>5. /\ readers' \in Seq(Reader) /\ Len(readers') = Len(readers) + 1
      /\ \A i \in 1 .. Len(readers) : readers'[i] = rs[i]
      /\ readers'[Len(readers) + 1] = new
  BY <1>2, <1>3, <1>4
<1>6. \A i \in 1 .. Len(readers') : i \in 1 .. Len(readers) \/ i = Len(readers) + 1
  BY <1>1, <1>5
<1>7. QED
  BY <1>1, <1>2, <1>3, <1>5, <1>6 DEF TasksGrow, InPlace

\* Several are read in their order.
LEMMA TasksRead ==
    ASSUME InputTypes, NEW S \in SUBSET Input!Track, NEW order \in Seq(Input!Track),
           Len(order) # 0, \A i \in 1 .. Len(order) : order[i] \in S,
           readers' = Input!ReadAll(readers, order)
    PROVE  /\ TasksGrow(S) /\ readers' # <<>>
           /\ readers'[Len(readers')].track = order[Len(order)]
           /\ readers'[Len(readers')].open
<1> DEFINE new(i) == [track |-> order[i], open |-> i = Len(order), at |-> "new"]
           rs == Input!Closed(readers)
           ns == [i \in 1 .. Len(order) |-> new(i)]
           n == Len(order)
<1>1. /\ Len(readers) \in Nat /\ \A i \in 1 .. Len(readers) : readers[i] \in Reader
      /\ n \in Nat /\ n > 0 /\ n \in 1 .. n
  BY DEF InputTypes
<1>2. /\ rs \in Seq(Reader) /\ Len(rs) = Len(readers)
      /\ \A i \in 1 .. Len(readers) :
            rs[i].track = readers[i].track /\ ~rs[i].open /\ rs[i].at = readers[i].at
  <2> DEFINE after(i) == [readers[i] EXCEPT !.open = FALSE]
  <2>1. \A i \in 1 .. Len(readers) :
           /\ after(i) \in Reader /\ after(i).track = readers[i].track
           /\ ~after(i).open /\ after(i).at = readers[i].at
    BY <1>1 DEF Reader
  <2>2. rs = [i \in 1 .. Len(readers) |-> after(i)]
    BY DEF Input!Closed
  <2> HIDE DEF after, rs
  <2>3. QED
    BY <1>1, <2>1, <2>2
<1>3. \A i \in 1 .. n : /\ new(i) \in Reader /\ new(i).track = order[i]
                        /\ new(i).open <=> i = n
                        /\ new(i).at = "new" /\ order[i] \in S
  <2>1. \A i \in 1 .. n : order[i] \in Input!Track
    OBVIOUS
  <2>2. QED
    BY <2>1 DEF Reader
<1>4. readers' = rs \o ns
  BY DEF Input!ReadAll
<1> HIDE DEF new, rs
<1>5. ns \in Seq(Reader) /\ Len(ns) = n /\ \A i \in 1 .. n : ns[i] = new(i)
  BY <1>1, <1>3
<1> HIDE DEF ns, n
<1>6. /\ readers' \in Seq(Reader) /\ Len(readers') = Len(readers) + n
      /\ \A i \in 1 .. Len(readers) : readers'[i] = rs[i]
      /\ \A i \in Len(readers) + 1 .. Len(readers') :
            i - Len(readers) \in 1 .. n /\ readers'[i] = new(i - Len(readers))
      /\ readers'[Len(readers')] = new(n)
  <2>1. rs \in Seq(Reader) /\ ns \in Seq(Reader) /\ Len(rs) = Len(readers) /\ Len(ns) = n
    BY <1>2, <1>5
  <2>2. readers' \in Seq(Reader) /\ Len(readers') = Len(readers) + n
    <3>1. rs \o ns \in Seq(Reader)
      BY <2>1, ConcatProperties
    <3>2. Len(rs \o ns) = Len(rs) + Len(ns)
      BY ONLY <2>1, ConcatProperties
    <3>3. Len(readers') = Len(rs \o ns)
      BY ONLY <1>4
    <3>4. QED
      BY ONLY <1>4, <2>1, <3>1, <3>2, <3>3
  <2>3. \A i \in 1 .. Len(readers) : readers'[i] = rs[i]
    BY <1>1, <1>2, <1>4, <1>5
  <2>4. \A i \in Len(readers) + 1 .. Len(readers') :
           i - Len(readers) \in 1 .. n /\ readers'[i] = ns[i - Len(readers)]
    BY <1>1, <1>2, <1>4, <1>5, <2>2
  <2>5. readers'[Len(readers')] = ns[n]
    BY <1>1, <1>2, <1>4, <1>5, <2>2
  <2>6. QED
    BY <1>1, <1>5, <2>2, <2>3, <2>4, <2>5
<1>7. \A i \in 1 .. Len(readers') :
         i \in 1 .. Len(readers) \/ i \in Len(readers) + 1 .. Len(readers')
  BY <1>1, <1>6
<1>8. \A i \in 1 .. Len(readers') : readers'[i].open <=> i = Len(readers')
  <2> SUFFICES ASSUME NEW i \in 1 .. Len(readers') PROVE readers'[i].open <=> i = Len(readers')
    OBVIOUS
  <2>1. CASE i \in 1 .. Len(readers)
    BY <1>1, <1>2, <1>6, <2>1
  <2>2. CASE i \in Len(readers) + 1 .. Len(readers')
    <3> DEFINE k == i - Len(readers)
    <3>1. k \in 1 .. n /\ readers'[i] = new(k) /\ (i = Len(readers') <=> k = n)
      BY <1>1, <1>6, <2>2
    <3>2. new(k).open <=> k = n
      BY <1>3, <3>1
    <3>3. QED
      BY <3>1, <3>2
  <2>3. QED
    BY <1>7, <2>1, <2>2
<1>9. /\ Len(readers') > Len(readers) /\ readers' # <<>> /\ InPlace
      /\ \A i \in 1 .. Len(readers) : readers'[i].track = readers[i].track
  <2>1. Len(readers') > Len(readers) /\ readers' # <<>>
    BY <1>1, <1>6
  <2>2. \A i \in 1 .. Len(readers) :
           readers'[i].at = readers[i].at /\ readers'[i].track = readers[i].track
    BY <1>2, <1>6
  <2>3. QED
    BY <2>1, <2>2 DEF InPlace
<1>10. \A i \in Len(readers) + 1 .. Len(readers') :
          readers'[i].at = "new" /\ readers'[i].track \in S
  BY <1>3, <1>6
<1>11. readers'[Len(readers')].track = order[n] /\ readers'[Len(readers')].open
  BY <1>1, <1>3, <1>6
<1>12. QED
  BY <1>6, <1>8, <1>9, <1>10, <1>11 DEF TasksGrow, n

\* A task that has begun to read goes on or ends, and reads the track it has read.
TasksGoOn ==
    \A i \in 1 .. Len(readers) :
        /\ i \in 1 .. Len(readers') /\ readers'[i].track = readers[i].track
        /\ Input!Ended(i) => readers'[i].at \in {"cancelled", "ended"}
        /\ readers[i].at \notin {"new", "waiting", "buffer"} =>
              readers'[i].at \notin {"new", "waiting", "buffer"}

\* The frames there are stay in their order.
LEMMA FramesStay ==
    ASSUME InputTypes, TracksInv, DataInv, Input!FramesInOrder, TasksGoOn,
           data' = data, late => late',
           \A t \in 1 .. published : playback[t] = "taken" => playback'[t] = "taken"
    PROVE  DataInv' /\ Input!FramesInOrder'
<1>1. \A n \in 1 .. Len(data) :
         /\ data[n].by \in 1 .. Len(readers) /\ data[n].by \in 1 .. Len(readers')
         /\ readers'[data[n].by].track = readers[data[n].by].track
         /\ readers'[data[n].by].at \notin {"new", "waiting", "buffer"}
  BY DEF DataInv, TasksGoOn
<1>2. \A i \in 1 .. Len(readers) : readers[i].track \in 1 .. published
  <2>1. \A r \in Reader : r.track \in Nat \ {0}
    BY MediaAssumption DEF Reader, Input!Track
  <2>2. published \in Nat
    BY MediaAssumption DEF InputTypes
  <2>3. QED
    BY <2>1, <2>2 DEF InputTypes, TracksInv
<1>3. \A n \in 1 .. Len(data) : data[n].what = "before" =>
         playback'[readers'[data[n].by].track] = "taken"
  BY <1>1, <1>2 DEF DataInv
<1>4. ~late' => \A n \in 1 .. Len(data) : \A j \in 1 .. data[n].by - 1 : Input!Ended(j)'
  <2> SUFFICES ASSUME ~late', NEW n \in 1 .. Len(data), NEW j \in 1 .. data[n].by - 1
               PROVE  Input!Ended(j)'
    OBVIOUS
  <2>1. Input!Ended(j) /\ j \in 1 .. Len(readers)
    BY <1>1 DEF DataInv, InputTypes
  <2>2. QED
    BY <2>1 DEF TasksGoOn, Input!Ended
<1>5. DataInv'
  BY <1>1, <1>3, <1>4 DEF DataInv
<1>6. Input!FramesInOrder'
  BY <1>1 DEF Input!FramesInOrder
<1>7. QED
  BY <1>5, <1>6

\* Tasks that stay where they are go on, and so they do when others are added.
LEMMA TasksInPlaceGoOn ==
    ASSUME InputTypes, (TasksStay /\ InPlace) \/ \E S : TasksGrow(S)
    PROVE  TasksGoOn
<1>1. Len(readers) \in Nat
  BY DEF InputTypes
<1>2. \A i \in 1 .. Len(readers) :
         readers'[i].at = readers[i].at /\ readers'[i].track = readers[i].track
  BY DEF TasksStay, TasksGrow, InPlace
<1>3. Len(readers') \in Nat /\ Len(readers') >= Len(readers)
  BY <1>1 DEF TasksStay, TasksGrow
<1>4. QED
  BY <1>1, <1>2, <1>3 DEF TasksGoOn, Input!Ended

\* Until the last task is cancelled, tasks that stay where they are, and those that are added, leave
\* the others alone.
LEMMA TasksStayAlone ==
    ASSUME InputTypes, AloneInv, (TasksStay /\ InPlace) \/ \E S : TasksGrow(S),
           inputPhase \in {"open", "stream"}, inputPhase' \in {"open", "stream"}, late => late'
    PROVE  AloneInv'
<1>1. Len(readers) \in Nat
  BY DEF InputTypes
<1>2. \A i \in 1 .. Len(readers) : readers'[i].at = readers[i].at
  BY DEF TasksStay, TasksGrow, InPlace
<1>3. \A i \in 1 .. Len(readers') : i \in 1 .. Len(readers) \/ readers'[i].at = "new"
  <2>1. CASE TasksStay
    BY <2>1 DEF TasksStay
  <2>2. CASE \E S : TasksGrow(S)
    <3>1. Len(readers') \in Nat
      BY <2>2 DEF TasksGrow
    <3>2. QED
      BY <1>1, <2>2, <3>1 DEF TasksGrow
  <2>3. QED
    BY <2>1, <2>2
<1>4. \A i \in 1 .. Len(readers') : Began(i)' => \A j \in 1 .. i - 1 : late' \/ Input!Ended(j)'
  <2> SUFFICES ASSUME NEW i \in 1 .. Len(readers'), Began(i)', NEW j \in 1 .. i - 1, ~late'
               PROVE  Input!Ended(j)'
    OBVIOUS
  <2>1. i \in 1 .. Len(readers) /\ j \in 1 .. Len(readers) /\ Began(i)
    BY <1>1, <1>2, <1>3 DEF Began
  <2>2. Input!Ended(j)
    BY <2>1 DEF AloneInv
  <2>3. QED
    BY <1>2, <2>1, <2>2 DEF Input!Ended
<1>5. QED
  BY <1>4 DEF AloneInv

-----------------------------------------------------------------------------
(* Each step of the input keeps what is true of it *)

\* Nobody is no participant, and no track is no track.
LEMMA NobodyIsNoUser ==
    NoOne \notin Users /\ Input!NoTrack = 0 /\ 0 \notin Input!Track /\ MaxTracks \in Nat
    /\ \A r \in Reader : r.track \in Input!Track /\ r.track \in Nat \ {0}
BY MediaAssumption DEF Input!NoTrack, Input!Track, Reader

\* A participant is set: the tracks there are of it are read.
LEMMA InputSets ==
    ASSUME InputInv, NEW p \in Users \cup {NoOne}, Input!SetParticipant(p)
    PROVE  InputInv'
<1>1. /\ inputPhase = "open" /\ inputPhase' = "open" /\ listens' = p
      /\ tracks' = tracks /\ published' = published /\ data' = data /\ playback' = playback
      /\ Input!ListenTo(p)
  BY DEF Input!SetParticipant, Input!trackVars
<1>2. late' = late
  BY Zenon DEF Input!SetParticipant
<1>3. InputTypes /\ TracksInv /\ ReadsInv /\ AloneInv /\ DataInv /\ Input!FramesInOrder
  BY DEF InputInv
<1>4. late' \in BOOLEAN /\ (late => late')
  BY <1>2, Zenon DEF InputInv
<1>5. CASE p # NoOne /\ tracks[p] # {}
  <2>1. PICK order \in Input!SetToSeqs(tracks[p]) :
           publication' = Input!Last(order) /\ readers' = Input!ReadAll(readers, order)
    BY <1>1, <1>5 DEF Input!ListenTo
  <2>2. p \in Users
    BY <1>5
  <2>3. /\ order \in Seq(Input!Track) /\ Len(order) \in Nat /\ Len(order) # 0
        /\ \A i \in 1 .. Len(order) : order[i] \in tracks[p]
    BY <1>3, <1>5, <2>2, TracksInOrder
  <2>4. tracks[p] \in SUBSET Input!Track
    BY <1>3, <2>2 DEF InputTypes
  <2>5. /\ TasksGrow(tracks[p]) /\ readers' # <<>>
        /\ readers'[Len(readers')].track = order[Len(order)]
        /\ readers'[Len(readers')].open
    BY <1>3, <2>1, <2>3, <2>4, TasksRead
  <2>6. /\ publication' = readers'[Len(readers')].track
        /\ publication' \in tracks[p] /\ publication' \in 1 .. published
    <3>1. publication' = order[Len(order)]
      BY <2>1 DEF Input!Last
    <3>2. publication' \in tracks[p] /\ publication' <= published
      BY <1>3, <2>2, <2>3, <3>1 DEF TracksInv
    <3>3. QED
      BY <1>3, <2>4, <2>5, <3>1, <3>2, NobodyIsNoUser DEF InputTypes, Input!Track
  <2>7. InputTypes'
    BY <1>1, <1>3, <2>5, <2>6, NobodyIsNoUser DEF InputTypes, TasksGrow
  <2>8. TracksInv'
    <3>1. \A i \in 1 .. Len(readers') : readers'[i].track <= published
      <4>1. Len(readers) \in Nat /\ Len(readers') \in Nat
        BY <1>3, <2>7 DEF InputTypes
      <4>2. \A i \in 1 .. Len(readers') :
               i \in 1 .. Len(readers) \/ i \in Len(readers) + 1 .. Len(readers')
        BY <4>1
      <4>3. \A t \in tracks[p] : t <= published
        BY <1>3, <2>2 DEF TracksInv
      <4>4. QED
        BY <1>3, <2>5, <4>2, <4>3 DEF TasksGrow, TracksInv
    <3>2. QED
      BY <1>1, <1>3, <2>2, <2>6, <3>1 DEF TracksInv
  <2>9. ReadsInv'
    BY <1>1, <1>5, <2>5, <2>6, <2>7 DEF ReadsInv, TasksGrow
  <2>10. AloneInv'
    BY <1>1, <1>3, <1>4, <2>5, TasksStayAlone
  <2>11. DataInv' /\ Input!FramesInOrder'
    BY <1>1, <1>3, <1>4, <2>5, TasksInPlaceGoOn, FramesStay
  <2>12. QED
    BY <1>4, <2>7, <2>8, <2>9, <2>10, <2>11 DEF InputInv
<1>6. CASE ~(p # NoOne /\ tracks[p] # {})
  <2>1. publication' = 0 /\ readers' = Input!Closed(readers)
    BY <1>1, <1>6, NobodyIsNoUser DEF Input!ListenTo
  <2>2. TasksStay /\ InPlace /\ \A i \in 1 .. Len(readers) : ~readers'[i].open
    BY <1>3, <2>1, TasksClose
  <2>3. InputTypes'
    BY <1>1, <1>3, <2>1, <2>2 DEF InputTypes, TasksStay
  <2>4. TracksInv'
    BY <1>1, <1>3, <2>1, <2>2, NobodyIsNoUser DEF TracksInv, TasksStay, InputTypes
  <2>5. ReadsInv'
    BY <1>1, <1>6, <2>2 DEF ReadsInv, TasksStay
  <2>6. AloneInv'
    BY <1>1, <1>3, <1>4, <2>2, TasksStayAlone
  <2>7. DataInv' /\ Input!FramesInOrder'
    BY <1>1, <1>3, <1>4, <2>2, TasksInPlaceGoOn, FramesStay
  <2>8. QED
    BY <1>4, <2>3, <2>4, <2>5, <2>6, <2>7 DEF InputInv
<1>7. QED
  BY <1>5, <1>6

\* A track is subscribed to: it is read if it is of the participant that is set.
LEMMA InputSubscribes ==
    ASSUME InputInv, NEW p \in Users, Input!TrackSubscribed(p)
    PROVE  InputInv'
<1> DEFINE t == published + 1
<1>1. /\ published < MaxTracks /\ published' = t
      /\ tracks' = [tracks EXCEPT ![p] = @ \cup {t}]
      /\ inputPhase' = inputPhase /\ listens' = listens /\ data' = data
      /\ p = listens => publication' = t /\ readers' = Input!Read(readers, t)
      /\ p # listens => publication' = publication /\ readers' = readers
  BY DEF Input!TrackSubscribed, Input!OfParticipant
<1>2. PICK b \in {"none", "sent"} : playback' = [playback EXCEPT ![t] = b]
  BY DEF Input!TrackSubscribed
<1>3. late' = (late \/ inputPhase # "open")
  BY Zenon DEF Input!TrackSubscribed
<1>4. InputTypes /\ TracksInv /\ ReadsInv /\ AloneInv /\ DataInv /\ Input!FramesInOrder
  BY DEF InputInv
<1>5. late' \in BOOLEAN
  BY <1>3
<1>6. late => late'
  BY <1>3, Zenon
<1>7. ~late' => inputPhase = "open"
  BY <1>3, Zenon
<1>8. published \in Nat /\ t \in Input!Track /\ t \in Nat /\ t > published
  BY <1>1, <1>4, NobodyIsNoUser DEF InputTypes, Input!Track
<1> HIDE DEF t
<1>9. /\ tracks' \in [Users -> SUBSET Input!Track] /\ tracks'[p] = tracks[p] \cup {t}
      /\ \A q \in Users \ {p} : tracks'[q] = tracks[q]
  BY <1>1, <1>4, <1>8 DEF InputTypes
<1>10. /\ playback' \in [Input!Track -> {"none", "sent", "taken"}]
       /\ \A u \in 1 .. published : playback[u] = "taken" => playback'[u] = "taken"
  BY <1>2, <1>4, <1>8 DEF InputTypes
<1>11. CASE p = listens
  <2>1. /\ TasksGrow({t}) /\ readers' # <<>> /\ Len(readers') = Len(readers) + 1
        /\ readers'[Len(readers')].track = t /\ readers'[Len(readers')].open
    BY <1>1, <1>4, <1>8, <1>11, TaskReads
  <2>2. InputTypes'
    <3>1. published' \in 0 .. MaxTracks /\ publication' \in 0 .. published'
      BY <1>1, <1>8, <1>11, NobodyIsNoUser DEF t
    <3>2. readers' \in Seq(Reader)
      BY <2>1 DEF TasksGrow
    <3>3. QED
      BY <1>1, <1>4, <1>9, <1>10, <3>1, <3>2 DEF InputTypes
  <2>3. TracksInv'
    <3>1. \A i \in 1 .. Len(readers') : readers'[i].track <= t
      <4>1. Len(readers) \in Nat
        BY <1>4 DEF InputTypes
      <4>2. \A i \in 1 .. Len(readers') : i \in 1 .. Len(readers) \/ i = Len(readers')
        BY <4>1, <2>1
      <4>3. \A i \in 1 .. Len(readers) : readers[i].track <= t
        BY <1>4, <1>8, NobodyIsNoUser DEF TracksInv, InputTypes
      <4>4. QED
        BY <1>8, <2>1, <4>2, <4>3 DEF TasksGrow
    <3>2. \A q \in Users : \A u \in tracks'[q] : u <= t
      <4>1. \A q \in Users : \A u \in tracks[q] : u <= published /\ u \in Nat
        BY <1>4 DEF TracksInv, InputTypes, Input!Track
      <4>2. QED
        BY <1>8, <1>9, <4>1
    <3>3. \A q \in Users : t \notin tracks[q]
      BY <1>4, <1>8 DEF TracksInv
    <3>4. QED
      BY <1>1, <1>4, <1>9, <1>11, <3>1, <3>2, <3>3 DEF TracksInv
  <2>4. ReadsInv'
    <3>1. listens' = p /\ p # NoOne /\ t \in tracks'[p] /\ publication' = t
      BY <1>1, <1>9, <1>11, NobodyIsNoUser
    <3>2. \A i \in 1 .. Len(readers') : readers'[i].open => i = Len(readers')
      BY <2>1 DEF TasksGrow
    <3>3. QED
      BY <2>1, <3>1, <3>2 DEF ReadsInv
  <2>5. AloneInv'
    <3>1. CASE late'
      BY <3>1 DEF AloneInv
    <3>2. CASE ~late'
      BY <1>1, <1>4, <1>6, <1>7, <2>1, <3>2, TasksStayAlone
    <3>3. QED
      BY <3>1, <3>2, Zenon
  <2>6. DataInv' /\ Input!FramesInOrder'
    BY <1>1, <1>4, <1>6, <1>10, <2>1, TasksInPlaceGoOn, FramesStay
  <2>7. QED
    BY <1>5, <2>2, <2>3, <2>4, <2>5, <2>6 DEF InputInv
<1>12. CASE p # listens
  <2>1. publication' = publication /\ readers' = readers
    BY <1>1, <1>12
  <2>2. InputTypes'
    <3>1. published' \in 0 .. MaxTracks /\ publication' \in 0 .. published'
      BY <1>1, <1>4, <1>8, <2>1, NobodyIsNoUser DEF InputTypes, t
    <3>2. QED
      BY <1>1, <1>4, <1>9, <1>10, <2>1, <3>1 DEF InputTypes
  <2>3. TracksInv'
    <3>1. \A i \in 1 .. Len(readers') : readers'[i].track <= t
      BY <1>4, <1>8, <2>1, NobodyIsNoUser DEF TracksInv, InputTypes
    <3>2. \A q \in Users : \A u \in tracks'[q] : u <= t
      <4>1. \A q \in Users : \A u \in tracks[q] : u <= published /\ u \in Nat
        BY <1>4 DEF TracksInv, InputTypes, Input!Track
      <4>2. QED
        BY <1>8, <1>9, <4>1
    <3>3. publication' # t /\ \A q \in Users : t \notin tracks[q]
      BY <1>4, <1>8, <2>1 DEF TracksInv, InputTypes
    <3>4. QED
      BY <1>1, <1>4, <1>9, <2>1, <3>1, <3>2, <3>3 DEF TracksInv
  <2>4. ReadsInv'
    <3>1. listens # NoOne => tracks'[listens] = tracks[listens]
      BY <1>4, <1>9, <1>12 DEF InputTypes
    <3>2. QED
      BY <1>1, <1>4, <2>1, <3>1 DEF ReadsInv
  <2>5. AloneInv'
    BY <1>1, <1>4, <1>6, <2>1 DEF AloneInv, Began, Input!Ended
  <2>6. TasksGoOn
    BY <1>4, <2>1 DEF TasksGoOn, Input!Ended
  <2>7. DataInv' /\ Input!FramesInOrder'
    BY <1>1, <1>4, <1>6, <1>10, <2>6, FramesStay
  <2>8. QED
    BY <1>5, <2>2, <2>3, <2>4, <2>5, <2>7 DEF InputInv
<1>13. QED
  BY <1>11, <1>12

\* A track that was read is unpublished: another one of the participant is read.
LEMMA InputUnpublishes ==
    ASSUME InputInv, NEW p \in Users, NEW t \in Input!Track, Input!TrackUnpublished(p, t)
    PROVE  InputInv'
<1> DEFINE left == tracks[p] \ {t}
<1>1. /\ t \in tracks[p] /\ tracks' = [tracks EXCEPT ![p] = @ \ {t}]
      /\ published' = published /\ listens' = listens /\ data' = data
      /\ playback' = playback /\ inputPhase' = inputPhase
      /\ publication # t => publication' = publication /\ readers' = readers
      /\ publication = t /\ left = {} =>
            publication' = 0 /\ readers' = Input!Closed(readers)
      /\ publication = t /\ left # {} =>
            \E u \in left : publication' = u /\ readers' = Input!Read(readers, u)
  BY NobodyIsNoUser DEF Input!TrackUnpublished
<1>2. late' = late
  BY Zenon DEF Input!TrackUnpublished
<1>3. InputTypes /\ TracksInv /\ ReadsInv /\ AloneInv /\ DataInv /\ Input!FramesInOrder
  BY DEF InputInv
<1>4. late' \in BOOLEAN /\ (late => late')
  BY <1>2, Zenon DEF InputInv
<1>5. /\ tracks' \in [Users -> SUBSET Input!Track] /\ tracks'[p] = left
      /\ \A q \in Users \ {p} : tracks'[q] = tracks[q]
      /\ \A q \in Users : tracks'[q] \subseteq tracks[q]
  BY <1>1, <1>3 DEF InputTypes
<1>6. t # 0
  BY NobodyIsNoUser
<1>7. CASE publication # t
  <2>1. publication' = publication /\ readers' = readers
    BY <1>1, <1>7
  <2>2. InputTypes'
    BY <1>1, <1>3, <1>5, <2>1 DEF InputTypes
  <2>3. TracksInv'
    BY <1>1, <1>3, <1>5, <2>1 DEF TracksInv
  <2>4. ReadsInv'
    <3>1. \A i \in 1 .. Len(readers) : readers[i].open /\ inputPhase = "open" =>
             readers[i].track # t
      BY <1>3, <1>7 DEF ReadsInv
    <3>2. QED
      BY <1>1, <1>3, <1>5, <1>7, <2>1, <3>1 DEF ReadsInv, InputTypes
  <2>5. AloneInv'
    BY <1>1, <1>2, <1>3, <2>1 DEF AloneInv, Began, Input!Ended
  <2>6. TasksGoOn
    BY <1>3, <2>1 DEF TasksGoOn, Input!Ended
  <2>7. DataInv' /\ Input!FramesInOrder'
    BY <1>1, <1>3, <1>4, <2>6, FramesStay
  <2>8. QED
    BY <1>4, <2>2, <2>3, <2>4, <2>5, <2>7 DEF InputInv
<1>8. CASE publication = t
  <2>1. p = listens
    BY <1>1, <1>3, <1>8 DEF TracksInv
  <2>2. ~late => inputPhase \in {"open", "stream"}
    BY <1>3, <1>6, <1>8, NobodyIsNoUser DEF AloneInv, InputTypes
  <2>3. CASE left = {}
    <3>1. publication' = 0 /\ readers' = Input!Closed(readers)
      BY <1>1, <1>8, <2>3
    <3>2. TasksStay /\ InPlace /\ \A i \in 1 .. Len(readers) : ~readers'[i].open
      BY <1>3, <3>1, TasksClose
    <3>3. InputTypes'
      BY <1>1, <1>3, <1>5, <3>1, <3>2 DEF InputTypes, TasksStay
    <3>4. TracksInv'
      <4>1. \A q \in Users : 0 \notin tracks'[q]
        BY <1>5, NobodyIsNoUser
      <4>2. QED
        BY <1>1, <1>3, <1>5, <3>1, <3>2, <4>1 DEF TracksInv, TasksStay
    <3>5. ReadsInv'
      <4>1. tracks'[listens'] = {}
        BY <1>1, <1>5, <2>1, <2>3
      <4>2. QED
        BY <3>2, <4>1 DEF ReadsInv, TasksStay
    <3>6. AloneInv'
      <4>1. CASE late'
        BY <4>1 DEF AloneInv
      <4>2. CASE ~late'
        BY <1>1, <1>3, <1>4, <2>2, <3>2, <4>2, TasksStayAlone
      <4>3. QED
        BY <4>1, <4>2, Zenon
    <3>7. DataInv' /\ Input!FramesInOrder'
      BY <1>1, <1>3, <1>4, <3>2, TasksInPlaceGoOn, FramesStay
    <3>8. QED
      BY <1>4, <3>3, <3>4, <3>5, <3>6, <3>7 DEF InputInv
  <2>4. CASE left # {}
    <3>1. PICK u \in left : publication' = u /\ readers' = Input!Read(readers, u)
      BY <1>1, <1>8, <2>4
    <3>2. u \in tracks[p] /\ u \in Input!Track /\ u <= published /\ u \in Nat /\ u > 0
      BY <1>3, <3>1 DEF TracksInv, InputTypes, Input!Track
    <3>3. /\ TasksGrow({u}) /\ readers' # <<>> /\ Len(readers') = Len(readers) + 1
          /\ readers'[Len(readers')].track = u /\ readers'[Len(readers')].open
      BY <1>3, <3>1, <3>2, TaskReads
    <3>4. InputTypes'
      <4>1. publication' \in 0 .. published' /\ readers' \in Seq(Reader)
        BY <1>1, <1>3, <3>1, <3>2, <3>3 DEF InputTypes, TasksGrow
      <4>2. QED
        BY <1>1, <1>3, <1>5, <4>1 DEF InputTypes
    <3>5. TracksInv'
      <4>1. \A i \in 1 .. Len(readers') : readers'[i].track <= published
        <5>1. Len(readers) \in Nat
          BY <1>3 DEF InputTypes
        <5>2. \A i \in 1 .. Len(readers') : i \in 1 .. Len(readers) \/ i = Len(readers')
          BY <5>1, <3>3
        <5>3. QED
          BY <1>3, <3>2, <3>3, <5>2 DEF TasksGrow, TracksInv
      <4>2. \A q \in Users : u \in tracks'[q] => q = p
        BY <1>3, <1>5, <3>2 DEF TracksInv
      <4>3. QED
        BY <1>1, <1>3, <1>5, <2>1, <3>1, <4>1, <4>2 DEF TracksInv
    <3>6. ReadsInv'
      <4>1. listens' = p /\ p # NoOne /\ u \in tracks'[p] /\ publication' = u
        BY <1>1, <1>5, <2>1, <3>1, NobodyIsNoUser
      <4>2. \A i \in 1 .. Len(readers') : readers'[i].open => i = Len(readers')
        BY <3>3 DEF TasksGrow
      <4>3. QED
        BY <3>3, <4>1, <4>2 DEF ReadsInv
    <3>7. AloneInv'
      <4>1. CASE late'
        BY <4>1 DEF AloneInv
      <4>2. CASE ~late'
        BY <1>1, <1>3, <1>4, <2>2, <3>3, <4>2, TasksStayAlone
      <4>3. QED
        BY <4>1, <4>2, Zenon
    <3>8. DataInv' /\ Input!FramesInOrder'
      BY <1>1, <1>3, <1>4, <3>3, TasksInPlaceGoOn, FramesStay
    <3>9. QED
      BY <1>4, <3>4, <3>5, <3>6, <3>7, <3>8 DEF InputInv
  <2>5. QED
    BY <2>3, <2>4
<1>9. QED
  BY <1>7, <1>8

\* A participant leaves: the stream of its track ends.
LEMMA InputLoses ==
    ASSUME InputInv, NEW p \in Users, Input!TracksLost(p)
    PROVE  InputInv'
<1>1. /\ tracks' = [tracks EXCEPT ![p] = {}]
      /\ published' = published /\ listens' = listens /\ publication' = publication
      /\ data' = data /\ playback' = playback /\ inputPhase' = inputPhase
      /\ readers' = IF publication \in tracks[p] THEN Input!Closed(readers) ELSE readers
      /\ tracks[p] # {}
  BY DEF Input!TracksLost
<1>2. late' = late
  BY Zenon DEF Input!TracksLost
<1>3. InputTypes /\ TracksInv /\ ReadsInv /\ AloneInv /\ DataInv /\ Input!FramesInOrder
  BY DEF InputInv
<1>4. late' \in BOOLEAN /\ (late => late')
  BY <1>2, Zenon DEF InputInv
<1>5. /\ tracks' \in [Users -> SUBSET Input!Track] /\ tracks'[p] = {}
      /\ \A q \in Users \ {p} : tracks'[q] = tracks[q]
      /\ \A q \in Users : tracks'[q] \subseteq tracks[q]
  BY <1>1, <1>3 DEF InputTypes
<1>6. TasksStay /\ InPlace
  <2>1. CASE publication \in tracks[p]
    BY <1>1, <1>3, <2>1, TasksClose
  <2>2. CASE publication \notin tracks[p]
    BY <1>1, <1>3, <2>2 DEF TasksStay, InPlace, InputTypes, Input!Ended
  <2>3. QED
    BY <2>1, <2>2
<1>7. InputTypes'
  BY <1>1, <1>3, <1>5, <1>6 DEF InputTypes, TasksStay
<1>8. TracksInv'
  BY <1>1, <1>3, <1>5, <1>6 DEF TracksInv, TasksStay
<1>9. ReadsInv'
  <2>1. CASE publication \in tracks[p]
    <3>1. \A i \in 1 .. Len(readers') : ~readers'[i].open
      BY <1>1, <1>3, <2>1, TasksClose DEF TasksStay
    <3>2. listens' = p
      BY <1>1, <1>3, <2>1 DEF TracksInv
    <3>3. QED
      BY <1>5, <3>1, <3>2 DEF ReadsInv
  <2>2. CASE publication \notin tracks[p]
    <3>1. readers' = readers
      BY <1>1, <2>2
    <3>2. inputPhase = "open" /\ listens # NoOne => tracks'[listens] = tracks[listens]
      BY <1>1, <1>3, <1>5, <2>2 DEF ReadsInv, InputTypes
    <3>3. QED
      BY <1>1, <1>3, <3>1, <3>2 DEF ReadsInv
  <2>3. QED
    BY <2>1, <2>2
<1>10. AloneInv'
  <2>1. \A i \in 1 .. Len(readers) :
           /\ readers'[i].at = readers[i].at /\ (readers'[i].open => readers[i].open)
           /\ Began(i)' => Began(i) /\ (Input!Ended(i) <=> Input!Ended(i)')
    BY <1>1, <1>6 DEF TasksStay, InPlace, Began, Input!Ended
  <2>2. Len(readers) \in Nat /\ Len(readers') = Len(readers)
    BY <1>3, <1>6 DEF InputTypes, TasksStay
  <2>3. \A i \in 1 .. Len(readers) : \A j \in 1 .. i - 1 : j \in 1 .. Len(readers)
    BY <2>2
  <2>4. QED
    BY <1>1, <1>2, <1>3, <2>1, <2>2, <2>3 DEF AloneInv, Input!Ended
<1>11. DataInv' /\ Input!FramesInOrder'
  BY <1>1, <1>3, <1>4, <1>6, TasksInPlaceGoOn, FramesStay
<1>12. QED
  BY <1>4, <1>7, <1>8, <1>9, <1>10, <1>11 DEF InputInv

\* What a step of the tasks themselves leaves alone.
RoomStays ==
    /\ tracks' = tracks /\ published' = published /\ listens' = listens
    /\ publication' = publication /\ inputPhase' = inputPhase

\* The tasks read what they read, from streams that are as open as they were.
TasksKeep ==
    /\ readers' \in Seq(Reader) /\ Len(readers') = Len(readers)
    /\ \A i \in 1 .. Len(readers) :
          readers'[i].track = readers[i].track /\ (readers'[i].open <=> readers[i].open)

\* What is read does not change with a step of the tasks.
LEMMA TracksStay ==
    ASSUME InputTypes, TracksInv, ReadsInv, RoomStays, TasksKeep
    PROVE  TracksInv' /\ ReadsInv'
<1>1. TracksInv'
  BY DEF TracksInv, RoomStays, TasksKeep
<1>2. readers # <<>> => Len(readers) \in 1 .. Len(readers) /\ readers' # <<>>
  <2>1. ASSUME readers # <<>> PROVE Len(readers) \in Nat /\ Len(readers) # 0
    BY <2>1 DEF InputTypes
  <2>2. QED
    BY <2>1 DEF TasksKeep
<1>3. ReadsInv'
  BY <1>2 DEF ReadsInv, RoomStays, TasksKeep
<1>4. QED
  BY <1>1, <1>3

\* A task begins: it cancels the one before, which is the only one that has begun.
LEMMA InputBegins ==
    ASSUME InputInv, NEW i \in 1 .. Len(readers), Input!BeginForward(i)
    PROVE  InputInv'
<1>1. /\ readers[i].at = "new" /\ \A j \in 1 .. i - 1 : readers[j].at # "new"
      /\ readers' = Input!CancelOld(i) /\ RoomStays /\ data' = data /\ playback' = playback
  BY DEF Input!BeginForward, Input!trackVars, RoomStays
<1>2. late' = late
  BY Zenon DEF Input!BeginForward
<1>3. InputTypes /\ TracksInv /\ ReadsInv /\ AloneInv /\ DataInv /\ Input!FramesInOrder
  BY DEF InputInv
<1>4. late' \in BOOLEAN /\ (late => late')
  BY <1>2, Zenon DEF InputInv
<1> DEFINE wait(j) == [readers[j] EXCEPT !.at = "waiting"]
           stop(j) == [readers[j] EXCEPT !.at = "cancelled"]
<1>5. Len(readers) \in Nat /\ \A j \in 1 .. Len(readers) : readers[j] \in Reader
  BY <1>3 DEF InputTypes
<1>6. \A j \in 1 .. Len(readers) :
         /\ wait(j) \in Reader /\ wait(j).track = readers[j].track
         /\ wait(j).open = readers[j].open /\ wait(j).at = "waiting"
  BY <1>5 DEF Reader
<1>7. \A j \in 1 .. Len(readers) :
         /\ stop(j) \in Reader /\ stop(j).track = readers[j].track
         /\ stop(j).open = readers[j].open /\ stop(j).at = "cancelled"
  BY <1>5 DEF Reader
<1>8. readers' = [j \in 1 .. Len(readers) |->
                    CASE j = i -> wait(j)
                      [] j = i - 1 /\ ~Input!Ended(j) -> stop(j)
                      [] OTHER -> readers[j]]
  BY <1>1 DEF Input!CancelOld
<1> HIDE DEF wait, stop
<1>9. \A j \in 1 .. Len(readers) :
         /\ j = i => readers'[j] = wait(j)
         /\ j = i - 1 /\ ~Input!Ended(j) => readers'[j] = stop(j)
         /\ j # i /\ ~(j = i - 1 /\ ~Input!Ended(j)) => readers'[j] = readers[j]
         /\ readers'[j] \in {wait(j), stop(j), readers[j]}
  BY <1>5, <1>8
<1>10. readers' \in Seq(Reader) /\ Len(readers') = Len(readers)
  <2>1. \A j \in 1 .. Len(readers) : readers'[j] \in Reader
    BY <1>5, <1>6, <1>7, <1>9
  <2>2. DOMAIN readers' = 1 .. Len(readers)
    BY <1>8
  <2>3. QED
    BY <1>5, <1>8, <2>1, <2>2
<1>11. TasksKeep
  BY <1>6, <1>7, <1>9, <1>10 DEF TasksKeep
<1>12. \A j \in 1 .. Len(readers) : j # i =>
          /\ readers'[j].at # readers[j].at =>
                j = i - 1 /\ ~Input!Ended(j) /\ readers'[j].at = "cancelled"
          /\ Input!Ended(j) => readers'[j].at = readers[j].at
  BY <1>7, <1>9
<1>13. readers'[i].at = "waiting"
  BY <1>6, <1>9
<1>14. InputTypes'
  BY <1>1, <1>3, <1>10 DEF InputTypes, RoomStays
<1>15. TracksInv' /\ ReadsInv'
  BY <1>1, <1>3, <1>11, TracksStay
<1>16. TasksGoOn
  BY <1>1, <1>10, <1>11, <1>12, <1>13 DEF TasksGoOn, TasksKeep, Input!Ended
<1>17. AloneInv'
  <2> SUFFICES ASSUME ~late' PROVE AloneInv'
    BY DEF AloneInv
  <2>1. ~late
    BY <1>2
  <2>2. \A j \in 1 .. i - 1 : j \in 1 .. Len(readers) /\ j < Len(readers)
    BY <1>5
  <2>3. \A j \in 1 .. i - 1 : Began(j)
    BY <1>1, <2>2 DEF Began
  <2>4. \A j \in 1 .. i - 1 : \A k \in 1 .. j - 1 : Input!Ended(k)
    BY <1>3, <2>1, <2>2, <2>3 DEF AloneInv
  <2>5. \A j \in 1 .. i - 1 : Input!Ended(j)'
    <3> SUFFICES ASSUME NEW j \in 1 .. i - 1 PROVE Input!Ended(j)'
      OBVIOUS
    <3>1. CASE j = i - 1
      BY <1>7, <1>9, <2>2, <3>1 DEF Input!Ended
    <3>2. CASE j # i - 1
      <4>1. i - 1 \in 1 .. i - 1 /\ j \in 1 .. i - 2 /\ j # i
        BY <3>2
      <4>2. Input!Ended(j)
        BY <2>4, <4>1
      <4>3. QED
        BY <1>12, <2>2, <4>1, <4>2 DEF Input!Ended
    <3>3. QED
      BY <3>1, <3>2
  <2>6. \A j \in 1 .. Len(readers') : Began(j)' => \A k \in 1 .. j - 1 : Input!Ended(k)'
    <3> SUFFICES ASSUME NEW j \in 1 .. Len(readers), Began(j)', NEW k \in 1 .. j - 1
                 PROVE  Input!Ended(k)'
      BY <1>10
    <3>1. CASE j <= i
      BY <1>5, <2>5, <3>1
    <3>2. CASE j > i
      <4>1. Began(j) /\ i \in 1 .. j - 1
        BY <1>1, <1>5, <1>10, <1>12, <3>2 DEF Began, RoomStays
      <4>2. Input!Ended(i)
        BY <1>3, <2>1, <4>1 DEF AloneInv
      <4>3. QED
        BY <1>1, <4>2 DEF Input!Ended
    <3>3. QED
      BY <1>5, <3>1, <3>2
  <2>7. \A j \in 1 .. Len(readers) : Input!Ended(j) => Input!Ended(j)'
    BY <1>1, <1>12 DEF Input!Ended
  <2>8. QED
    BY <1>1, <1>3, <1>10, <1>11, <2>1, <2>6, <2>7 DEF AloneInv, RoomStays, TasksKeep
<1>18. DataInv' /\ Input!FramesInOrder'
  BY <1>1, <1>3, <1>4, <1>16, FramesStay
<1>19. QED
  BY <1>4, <1>14, <1>15, <1>17, <1>18 DEF InputInv

\* One task that has begun, and has not ended, goes on to another place.
LEMMA TaskGoesOn ==
    ASSUME InputInv, NEW i \in 1 .. Len(readers), NEW to \in {"buffer", "reading", "ended"},
           readers[i].at \in {"waiting", "buffer", "reading"},
           readers[i].at = "reading" => to = "ended",
           readers' = [readers EXCEPT ![i].at = to], RoomStays, late' = late
    PROVE  /\ readers' \in Seq(Reader) /\ TracksInv' /\ ReadsInv' /\ AloneInv' /\ TasksGoOn
           /\ TasksKeep /\ readers'[i].at = to
           /\ ~late => \A j \in 1 .. i - 1 : Input!Ended(j)'
<1> DEFINE after == [readers[i] EXCEPT !.at = to]
<1>1. InputTypes /\ TracksInv /\ ReadsInv /\ AloneInv
  BY DEF InputInv
<1>2. Len(readers) \in Nat /\ \A j \in 1 .. Len(readers) : readers[j] \in Reader
  BY <1>1 DEF InputTypes
<1>3. /\ after \in Reader /\ after.track = readers[i].track
      /\ after.open = readers[i].open /\ after.at = to
  BY <1>2 DEF Reader
<1>4. readers' = [readers EXCEPT ![i] = after] /\ readers \in Seq(Reader)
  BY <1>1 DEF InputTypes
<1> HIDE DEF after
<1>5. /\ readers' \in Seq(Reader) /\ Len(readers') = Len(readers) /\ readers'[i] = after
      /\ \A j \in 1 .. Len(readers) : j # i => readers'[j] = readers[j]
  BY <1>3, <1>4
<1>6. TasksKeep
  BY <1>3, <1>5 DEF TasksKeep
<1>7. TracksInv' /\ ReadsInv'
  BY <1>1, <1>6, TracksStay
<1>8. TasksGoOn
  BY <1>3, <1>5 DEF TasksGoOn, Input!Ended
<1>9. Began(i) /\ ~Input!Ended(i)
  BY DEF Began, Input!Ended
<1>10. ~late => \A j \in 1 .. i - 1 : j \in 1 .. Len(readers) /\ Input!Ended(j)
  BY <1>1, <1>2, <1>9 DEF AloneInv
<1>11. \A j \in 1 .. Len(readers) : Input!Ended(j) => Input!Ended(j)'
  BY <1>8 DEF TasksGoOn, Input!Ended
<1>12. \A j \in 1 .. Len(readers') : Began(j)' => Began(j)
  BY <1>5, <1>9 DEF Began, RoomStays
<1>13. AloneInv'
  <2> SUFFICES ASSUME ~late' PROVE AloneInv'
    BY DEF AloneInv
  <2>1. ~late
    BY Zenon
  <2>2. \A j \in 1 .. Len(readers') : Began(j)' => \A k \in 1 .. j - 1 : Input!Ended(k)'
    <3> SUFFICES ASSUME NEW j \in 1 .. Len(readers), Began(j), NEW k \in 1 .. j - 1
                 PROVE  Input!Ended(k)'
      BY <1>5, <1>12
    <3>1. k \in 1 .. Len(readers) /\ Input!Ended(k)
      BY <1>1, <1>2, <2>1 DEF AloneInv
    <3>2. QED
      BY <1>11, <3>1
  <2>3. QED
    BY <1>1, <1>5, <1>6, <1>11, <2>1, <2>2 DEF AloneInv, RoomStays, TasksKeep
<1>14. QED
  BY <1>3, <1>5, <1>6, <1>7, <1>8, <1>10, <1>11, <1>13

\* The task before has ended: a task goes on to what was said before, or to its stream.
LEMMA InputGoesOn ==
    ASSUME InputInv, NEW i \in 1 .. Len(readers), Input!GoesOn(i)
    PROVE  InputInv'
<1>1. PICK to \in {"buffer", "reading"} : readers' = [readers EXCEPT ![i].at = to]
  BY DEF Input!GoesOn, Input!Set
<1>2. readers[i].at = "waiting" /\ RoomStays /\ data' = data /\ playback' = playback
  BY DEF Input!GoesOn, Input!trackVars, RoomStays
<1>3. late' = late
  BY Zenon DEF Input!GoesOn
<1>4. late' \in BOOLEAN /\ (late => late')
  BY <1>3, Zenon DEF InputInv
<1>5. InputTypes /\ TracksInv /\ DataInv /\ Input!FramesInOrder
  BY DEF InputInv
<1>6. readers' \in Seq(Reader) /\ TracksInv' /\ ReadsInv' /\ AloneInv' /\ TasksGoOn
  BY <1>1, <1>2, <1>3, TaskGoesOn
<1>7. InputTypes'
  BY <1>2, <1>5, <1>6 DEF InputTypes, RoomStays
<1>8. DataInv' /\ Input!FramesInOrder'
  BY <1>2, <1>4, <1>5, <1>6, FramesStay
<1>9. QED
  BY <1>4, <1>6, <1>7, <1>8 DEF InputInv

\* The stream of a track ends, and its task with it.
LEMMA InputForwardEnds ==
    ASSUME InputInv, NEW i \in 1 .. Len(readers), Input!ForwardEnds(i)
    PROVE  InputInv'
<1>1. /\ readers' = [readers EXCEPT ![i].at = "ended"] /\ readers[i].at = "reading"
      /\ RoomStays /\ data' = data /\ playback' = playback
  BY DEF Input!ForwardEnds, Input!Set, Input!trackVars, RoomStays
<1>2. late' = late
  BY Zenon DEF Input!ForwardEnds
<1>3. late' \in BOOLEAN /\ (late => late')
  BY <1>2, Zenon DEF InputInv
<1>4. InputTypes /\ TracksInv /\ DataInv /\ Input!FramesInOrder
  BY DEF InputInv
<1>5. readers' \in Seq(Reader) /\ TracksInv' /\ ReadsInv' /\ AloneInv' /\ TasksGoOn
  BY <1>1, <1>2, TaskGoesOn
<1>6. InputTypes'
  BY <1>1, <1>4, <1>5 DEF InputTypes, RoomStays
<1>7. DataInv' /\ Input!FramesInOrder'
  BY <1>1, <1>3, <1>4, <1>5, FramesStay
<1>8. QED
  BY <1>3, <1>5, <1>6, <1>7 DEF InputInv


\* A frame comes last: it is of a task that is alone, and what was said before the
\* connection is the first of its track.
LEMMA FrameComes ==
    ASSUME InputTypes, DataInv, Input!FramesInOrder, TasksGoOn,
           NEW i \in 1 .. Len(readers), NEW what \in {"before", "now"},
           data' = Append(data, [by |-> i, what |-> what]), late' = late,
           ~Input!Ended(i), readers'[i].at \notin {"new", "waiting", "buffer"},
           ~late => \A j \in 1 .. i - 1 : Input!Ended(j)',
           \A t \in Input!Track : playback[t] = "taken" => playback'[t] = "taken",
           what = "before" => /\ readers[i].at = "buffer"
                              /\ playback[readers[i].track] # "taken"
                              /\ playback'[readers[i].track] = "taken"
    PROVE  data' \in Seq(Frame) /\ DataInv' /\ Input!FramesInOrder'
<1> DEFINE f == [by |-> i, what |-> what]
           m == Len(data) + 1
<1>1. f \in Frame /\ f.by = i /\ f.what = what /\ Len(readers) \in Nat
  BY DEF Frame, InputTypes
<1>2. data \in Seq(Frame) /\ data' = Append(data, f) /\ Len(data) \in Nat
  BY DEF InputTypes
<1> HIDE DEF f
<1>3. /\ data' \in Seq(Frame) /\ Len(data') = m /\ data'[m] = f
      /\ \A n \in 1 .. Len(data) : data'[n] = data[n]
  BY <1>1, <1>2
<1>4. \A n \in 1 .. Len(data') : n \in 1 .. Len(data) \/ n = m
  BY <1>2, <1>3
<1>5. \A n \in 1 .. Len(data') :
         /\ data'[n].by \in 1 .. Len(readers) /\ data'[n].by \in 1 .. Len(readers')
         /\ readers'[data'[n].by].track = readers[data'[n].by].track
         /\ readers'[data'[n].by].at \notin {"new", "waiting", "buffer"}
  BY <1>1, <1>3, <1>4 DEF DataInv, TasksGoOn
<1>6. \A k \in 1 .. Len(readers) : readers[k].track \in Input!Track
  BY NobodyIsNoUser DEF InputTypes
<1>7. \A n \in 1 .. Len(data') : data'[n].what = "before" =>
         playback'[readers'[data'[n].by].track] = "taken"
  <2>1. \A n \in 1 .. Len(data) : data[n].by \in 1 .. Len(readers) /\ (data[n].what = "before" =>
           playback'[readers[data[n].by].track] = "taken")
    BY <1>6 DEF DataInv
  <2>2. SUFFICES ASSUME NEW n \in 1 .. Len(data'), data'[n].what = "before"
                 PROVE  playback'[readers[data'[n].by].track] = "taken"
    BY <1>5
  <2>3. CASE n = m
    BY <1>1, <1>3, <2>2, <2>3
  <2>4. CASE n \in 1 .. Len(data)
    BY <1>3, <2>1, <2>2, <2>4
  <2>5. QED
    BY <1>4, <2>3, <2>4
<1>8. ~late => \A n \in 1 .. Len(data') : \A j \in 1 .. data'[n].by - 1 : Input!Ended(j)'
  <2> SUFFICES ASSUME ~late, NEW n \in 1 .. Len(data'), NEW j \in 1 .. data'[n].by - 1
               PROVE  Input!Ended(j)'
    OBVIOUS
  <2>1. CASE n = m
    BY <1>1, <1>3, <2>1
  <2>2. CASE n \in 1 .. Len(data)
    <3>1. j \in 1 .. data[n].by - 1 /\ j \in 1 .. Len(readers)
      BY <1>1, <1>3, <1>5, <2>2
    <3>2. Input!Ended(j)
      BY <2>2, <3>1 DEF DataInv
    <3>3. QED
      BY <3>1, <3>2 DEF TasksGoOn, Input!Ended
  <2>3. QED
    BY <1>4, <2>1, <2>2
<1>9. late' <=> late
  BY Zenon
<1>10. DataInv'
  BY <1>5, <1>7, <1>8, <1>9 DEF DataInv
<1>11. Input!FramesInOrder'
  <2> SUFFICES ASSUME ~late, NEW n \in 1 .. Len(data'), NEW k \in 1 .. Len(data'), n < k
               PROVE  /\ data'[n].by <= data'[k].by
                      /\ data'[n].by = data'[k].by => data'[k].what = "now"
                      /\ data'[n].what = "before" /\ data'[k].what = "before" =>
                            readers'[data'[n].by].track # readers'[data'[k].by].track
    BY <1>9 DEF Input!FramesInOrder
  <2>1. n \in 1 .. Len(data) /\ data'[n] = data[n] /\ data[n].by \in 1 .. Len(readers)
    BY <1>2, <1>3, <1>5
  <2>2. CASE k \in 1 .. Len(data)
    <3>1. data'[k] = data[k]
      BY <1>3, <2>2
    <3>2. QED
      BY <1>5, <2>1, <2>2, <3>1 DEF Input!FramesInOrder
  <2>3. CASE k = m
    <3>1. data'[k].by = i /\ data'[k].what = what
      BY <1>1, <1>3, <2>3
    <3>2. ~(data[n].by > i)
      <4> SUFFICES ASSUME data[n].by > i PROVE FALSE
        BY <2>1
      <4>1. i \in 1 .. data[n].by - 1
        BY <2>1
      <4>2. QED
        BY <2>1, <4>1 DEF DataInv
    <3>3. readers[data[n].by].at \notin {"new", "waiting", "buffer"}
      BY <2>1 DEF DataInv
    <3>4. data[n].what = "before" => playback[readers[data[n].by].track] = "taken"
      BY <2>1 DEF DataInv
    <3>5. readers'[data[n].by].track = readers[data[n].by].track
          /\ readers'[i].track = readers[i].track
      BY <2>1 DEF TasksGoOn
    <3>6. data[n].by = i => what # "before"
      BY <3>3
    <3>7. data'[n].by <= i
      BY <2>1, <3>2
    <3>8. data[n].what = "before" /\ what = "before" =>
             readers'[data[n].by].track # readers'[i].track
      BY <3>4, <3>5
    <3>9. data'[n].by = i => what = "now"
      BY <2>1, <3>6
    <3>10. QED
      BY <2>1, <3>1, <3>7, <3>8, <3>9
  <2>4. QED
    BY <1>4, <2>2, <2>3
<1>12. QED
  BY <1>3, <1>10, <1>11

\* The audio of before the connection is taken, and forwarded if it came in time.
LEMMA InputTakesBuffer ==
    ASSUME InputInv, NEW i \in 1 .. Len(readers), Input!TakeBuffer(i)
    PROVE  InputInv'
<1> DEFINE t == readers[i].track
<1>1. /\ readers[i].at = "buffer" /\ readers' = [readers EXCEPT ![i].at = "reading"]
      /\ playback' = [playback EXCEPT ![t] = "taken"] /\ RoomStays
      /\ data' = data
         \/ (playback[t] = "sent" /\ data' = Append(data, [by |-> i, what |-> "before"]))
  BY DEF Input!TakeBuffer, Input!Pop, Input!Set, Input!trackVars, RoomStays
<1>2. late' = late
  BY Zenon DEF Input!TakeBuffer
<1>3. late' \in BOOLEAN /\ (late => late')
  BY <1>2, Zenon DEF InputInv
<1>4. InputTypes /\ TracksInv /\ DataInv /\ Input!FramesInOrder
  BY DEF InputInv
<1>5. /\ readers' \in Seq(Reader) /\ TracksInv' /\ ReadsInv' /\ AloneInv' /\ TasksGoOn
      /\ readers'[i].at = "reading" /\ (~late => \A j \in 1 .. i - 1 : Input!Ended(j)')
  BY <1>1, <1>2, TaskGoesOn
<1>6. t \in Input!Track
  BY <1>4, NobodyIsNoUser DEF InputTypes
<1> HIDE DEF t
<1>7. /\ playback' \in [Input!Track -> {"none", "sent", "taken"}] /\ playback'[t] = "taken"
      /\ \A u \in Input!Track : playback[u] = "taken" => playback'[u] = "taken"
  BY <1>1, <1>4, <1>6 DEF InputTypes
<1>8. data' \in Seq(Frame) /\ DataInv' /\ Input!FramesInOrder'
  <2>1. CASE data' = data
    <3>1. \A u \in 1 .. published : u \in Input!Track
      BY <1>4, NobodyIsNoUser DEF InputTypes, Input!Track
    <3>2. DataInv' /\ Input!FramesInOrder'
      BY <1>3, <1>4, <1>5, <1>7, <2>1, <3>1, FramesStay
    <3>3. QED
      BY <1>4, <2>1, <3>2 DEF InputTypes
  <2>2. CASE playback[t] = "sent" /\ data' = Append(data, [by |-> i, what |-> "before"])
    <3>1. ~Input!Ended(i)
      BY <1>1 DEF Input!Ended
    <3>2. QED
      BY <1>1, <1>2, <1>4, <1>5, <1>7, <2>2, <3>1, FrameComes DEF t
  <2>3. QED
    BY <1>1, <2>1, <2>2
<1>9. InputTypes'
  BY <1>1, <1>4, <1>5, <1>7, <1>8 DEF InputTypes, RoomStays
<1>10. QED
  BY <1>3, <1>5, <1>8, <1>9 DEF InputInv

\* A frame of the track that is read is forwarded.
LEMMA InputForwards ==
    ASSUME InputInv, NEW i \in 1 .. Len(readers), Input!Forward(i)
    PROVE  InputInv'
<1>1. /\ readers[i].at = "reading" /\ readers' = readers /\ playback' = playback
      /\ data' = Append(data, [by |-> i, what |-> "now"]) /\ RoomStays
  BY DEF Input!Forward, Input!trackVars, Input!inputVars, RoomStays
<1>2. late' = late
  BY Zenon DEF Input!Forward
<1>3. late' \in BOOLEAN
  BY <1>2, Zenon DEF InputInv
<1>4. InputTypes /\ TracksInv /\ ReadsInv /\ AloneInv /\ DataInv /\ Input!FramesInOrder
  BY DEF InputInv
<1>5. Len(readers) \in Nat
  BY <1>4 DEF InputTypes
<1>6. TasksGoOn
  BY <1>1 DEF TasksGoOn, Input!Ended
<1>7. Began(i) /\ ~Input!Ended(i)
  BY <1>1 DEF Began, Input!Ended
<1>8. ~late => \A j \in 1 .. i - 1 : Input!Ended(j)'
  BY <1>1, <1>4, <1>7 DEF AloneInv, Input!Ended
<1>9. data' \in Seq(Frame) /\ DataInv' /\ Input!FramesInOrder'
  BY <1>1, <1>2, <1>4, <1>6, <1>7, <1>8, FrameComes
<1>10. InputTypes'
  BY <1>1, <1>4, <1>9 DEF InputTypes, RoomStays
<1>11. TracksInv' /\ ReadsInv'
  BY <1>1, <1>4 DEF TracksInv, ReadsInv, RoomStays
<1>12. AloneInv'
  BY <1>1, <1>2, <1>4 DEF AloneInv, Began, Input!Ended, RoomStays
<1>13. QED
  BY <1>3, <1>9, <1>10, <1>11, <1>12 DEF InputInv

\* aclose() closes the stream first.
LEMMA InputBeginsClose ==
    ASSUME InputInv, Input!BeginClose
    PROVE  InputInv'
<1>1. /\ inputPhase = "open" /\ inputPhase' = "stream" /\ readers' = Input!Closed(readers)
      /\ tracks' = tracks /\ published' = published /\ listens' = listens
      /\ publication' = publication /\ data' = data /\ playback' = playback
  BY DEF Input!BeginClose, Input!trackVars
<1>2. late' = late
  BY Zenon DEF Input!BeginClose
<1>3. late' \in BOOLEAN /\ (late => late')
  BY <1>2, Zenon DEF InputInv
<1>4. InputTypes /\ TracksInv /\ ReadsInv /\ AloneInv /\ DataInv /\ Input!FramesInOrder
  BY DEF InputInv
<1>5. TasksStay /\ InPlace /\ \A i \in 1 .. Len(readers) : ~readers'[i].open
  BY <1>1, <1>4, TasksClose
<1>6. InputTypes'
  BY <1>1, <1>4, <1>5 DEF InputTypes, TasksStay
<1>7. TracksInv' /\ ReadsInv'
  BY <1>1, <1>4, <1>5 DEF TracksInv, ReadsInv, TasksStay
<1>8. AloneInv'
  BY <1>1, <1>3, <1>4, <1>5, TasksStayAlone
<1>9. DataInv' /\ Input!FramesInOrder'
  BY <1>1, <1>3, <1>4, <1>5, TasksInPlaceGoOn, FramesStay
<1>10. QED
  BY <1>3, <1>6, <1>7, <1>8, <1>9 DEF InputInv

\* aclose() cancels the last task then, and the streams of the others are closed.
LEMMA InputClosesForward ==
    ASSUME InputInv, Input!CloseForward
    PROVE  InputInv'
<1>1. /\ inputPhase = "stream" /\ inputPhase' = "forward" /\ publication' = 0
      /\ readers' = Input!CancelLast /\ data' = data /\ playback' = playback
      /\ tracks' = tracks /\ published' = published /\ listens' = listens
  BY NobodyIsNoUser DEF Input!CloseForward, Input!trackVars
<1>2. late' = late
  BY Zenon DEF Input!CloseForward
<1>3. late' \in BOOLEAN /\ (late => late')
  BY <1>2, Zenon DEF InputInv
<1>4. InputTypes /\ TracksInv /\ ReadsInv /\ AloneInv /\ DataInv /\ Input!FramesInOrder
  BY DEF InputInv
<1> DEFINE stop(i) == [readers[i] EXCEPT !.at = "cancelled"]
<1>5. Len(readers) \in Nat /\ \A i \in 1 .. Len(readers) : readers[i] \in Reader
  BY <1>4 DEF InputTypes
<1>6. \A i \in 1 .. Len(readers) :
         /\ stop(i) \in Reader /\ stop(i).track = readers[i].track
         /\ stop(i).open = readers[i].open /\ stop(i).at = "cancelled"
  BY <1>5 DEF Reader
<1>7. readers' = [i \in 1 .. Len(readers) |->
                    IF i = Len(readers) /\ ~Input!Ended(i) THEN stop(i) ELSE readers[i]]
  BY <1>1 DEF Input!CancelLast
<1> HIDE DEF stop
<1>8. \A i \in 1 .. Len(readers) :
         /\ i = Len(readers) /\ ~Input!Ended(i) => readers'[i] = stop(i)
         /\ i < Len(readers) \/ Input!Ended(i) => readers'[i] = readers[i]
         /\ readers'[i] \in {stop(i), readers[i]}
  BY <1>5, <1>7
<1>9. readers' \in Seq(Reader) /\ Len(readers') = Len(readers)
  <2>1. \A i \in 1 .. Len(readers) : readers'[i] \in Reader
    BY <1>5, <1>6, <1>8
  <2>2. QED
    BY <1>5, <1>7, <2>1
<1>10. \A i \in 1 .. Len(readers) :
          readers'[i].track = readers[i].track /\ (readers'[i].open <=> readers[i].open)
  BY <1>6, <1>8
<1>11. InputTypes'
  BY <1>1, <1>4, <1>9 DEF InputTypes
<1>12. TracksInv'
  <2>1. \A p \in Users : 0 \notin tracks[p]
    BY <1>4, NobodyIsNoUser DEF InputTypes
  <2>2. QED
    BY <1>1, <1>4, <1>9, <1>10, <2>1 DEF TracksInv
<1>13. ReadsInv'
  BY <1>1, <1>4, <1>9, <1>10 DEF ReadsInv
<1>14. TasksGoOn
  BY <1>6, <1>8, <1>9, <1>10 DEF TasksGoOn, Input!Ended
<1>15. AloneInv'
  <2> SUFFICES ASSUME ~late' PROVE AloneInv'
    BY DEF AloneInv
  <2>1. ~late
    BY <1>2
  <2>2. \A i \in 1 .. Len(readers) : Began(i)' => Began(i)
    <3> SUFFICES ASSUME NEW i \in 1 .. Len(readers), Began(i)' PROVE Began(i)
      OBVIOUS
    <3>1. readers'[i] = readers[i]
      <4>1. CASE readers'[i] = stop(i)
        BY <1>1, <1>5, <1>6, <1>8, <1>9, <4>1 DEF Began
      <4>2. QED
        BY <1>8, <4>1
    <3>2. QED
      BY <1>1, <3>1 DEF Began
  <2>3. \A i \in 1 .. Len(readers') : Began(i)' => \A j \in 1 .. i - 1 : Input!Ended(j)'
    <3> SUFFICES ASSUME NEW i \in 1 .. Len(readers), Began(i), NEW j \in 1 .. i - 1
                 PROVE  Input!Ended(j)'
      BY <1>9, <2>2
    <3>1. j \in 1 .. Len(readers) /\ Input!Ended(j)
      BY <1>4, <1>5, <2>1 DEF AloneInv
    <3>2. QED
      BY <1>14, <3>1 DEF TasksGoOn, Input!Ended
  <2>4. \A i \in 1 .. Len(readers') : Input!Ended(i)' \/ ~readers'[i].open
    <3> SUFFICES ASSUME NEW i \in 1 .. Len(readers), readers[i].open PROVE Input!Ended(i)'
      BY <1>9, <1>10
    <3>1. i = Len(readers)
      BY <1>4 DEF ReadsInv
    <3>2. QED
      BY <1>6, <1>8, <3>1 DEF Input!Ended
  <2>5. QED
    BY <1>1, <2>3, <2>4, NobodyIsNoUser DEF AloneInv
<1>16. DataInv' /\ Input!FramesInOrder'
  BY <1>1, <1>3, <1>4, <1>14, FramesStay
<1>17. QED
  BY <1>3, <1>11, <1>12, <1>13, <1>15, <1>16 DEF InputInv

\* The channel is closed last.
LEMMA InputCloses ==
    ASSUME InputInv, Input!CloseEnds
    PROVE  InputInv'
<1>1. /\ inputPhase = "forward" /\ inputPhase' = "closed" /\ readers' = readers
      /\ tracks' = tracks /\ published' = published /\ listens' = listens
      /\ publication' = publication /\ data' = data /\ playback' = playback
  BY DEF Input!CloseEnds, Input!trackVars, Input!inputVars
<1>2. late' = late
  BY Zenon DEF Input!CloseEnds
<1>3. late' \in BOOLEAN
  BY <1>2, Zenon DEF InputInv
<1>4. InputTypes /\ TracksInv /\ ReadsInv /\ AloneInv /\ DataInv /\ Input!FramesInOrder
  BY DEF InputInv
<1>5. InputTypes' /\ TracksInv' /\ ReadsInv'
  BY <1>1, <1>4 DEF InputTypes, TracksInv, ReadsInv
<1>6. AloneInv'
  BY <1>1, <1>2, <1>4 DEF AloneInv, Began, Input!Ended
<1>7. DataInv' /\ Input!FramesInOrder'
  BY <1>1, <1>2, <1>4 DEF DataInv, Input!FramesInOrder, Input!Ended
<1>8. QED
  BY <1>3, <1>5, <1>6, <1>7 DEF InputInv

\* Every step of the input, and of the others, which leave it alone.
LEMMA InputStep == InputInv /\ (Input!Next \/ UNCHANGED inputVars) => InputInv'
<1> SUFFICES ASSUME InputInv, Input!Next \/ UNCHANGED inputVars PROVE InputInv'
  OBVIOUS
<1>1. ASSUME NEW p \in Users, Input!TrackSubscribed(p) PROVE InputInv'
  BY <1>1, InputSubscribes
<1>2. ASSUME NEW p \in Users, Input!TracksLost(p) PROVE InputInv'
  BY <1>2, InputLoses
<1>3. ASSUME NEW p \in Users, NEW t \in Input!Track, Input!TrackUnpublished(p, t)
      PROVE  InputInv'
  BY <1>3, InputUnpublishes
<1>4. ASSUME NEW p \in Users \cup {NoOne}, Input!SetParticipant(p) PROVE InputInv'
  BY <1>4, InputSets
<1>5. ASSUME NEW i \in 1 .. Len(readers), Input!BeginForward(i) PROVE InputInv'
  BY <1>5, InputBegins
<1>6. ASSUME NEW i \in 1 .. Len(readers), Input!GoesOn(i) PROVE InputInv'
  BY <1>6, InputGoesOn
<1>7. ASSUME NEW i \in 1 .. Len(readers), Input!TakeBuffer(i) PROVE InputInv'
  BY <1>7, InputTakesBuffer
<1>8. ASSUME NEW i \in 1 .. Len(readers), Input!Forward(i) PROVE InputInv'
  BY <1>8, InputForwards
<1>9. ASSUME NEW i \in 1 .. Len(readers), Input!ForwardEnds(i) PROVE InputInv'
  BY <1>9, InputForwardEnds
<1>10. ASSUME UNCHANGED inputVars PROVE InputInv'
  <2>1. InputTypes' /\ TracksInv' /\ ReadsInv' /\ DataInv' /\ Input!FramesInOrder'
        /\ AloneInv'
    BY <1>10 DEF inputVars, InputInv, InputTypes, TracksInv, ReadsInv, DataInv, AloneInv,
                 Began, Input!FramesInOrder, Input!Ended
  <2>2. late' \in BOOLEAN
    BY <1>10, Zenon DEF inputVars, InputInv
  <2>3. QED
    BY <2>1, <2>2 DEF InputInv
<1>11. QED
  BY <1>1, <1>2, <1>3, <1>4, <1>5, <1>6, <1>7, <1>8, <1>9, <1>10, InputBeginsClose,
     InputClosesForward, InputCloses DEF Input!Next

\* What is promised of the input follows.
LEMMA InputPromises ==
    InputInv => /\ Input!TypeOK /\ Input!ListensToParticipant /\ Input!FramesInOrder
                /\ Input!ClosedLeavesNothing
<1> SUFFICES ASSUME InputInv
             PROVE  /\ Input!TypeOK /\ Input!ListensToParticipant /\ Input!FramesInOrder
                    /\ Input!ClosedLeavesNothing
  OBVIOUS
<1>1. InputTypes /\ TracksInv /\ ReadsInv /\ AloneInv /\ Input!FramesInOrder
  BY DEF InputInv
<1>2. Input!TypeOK
  <2>1. \A r \in Reader :
           /\ r.track \in Input!Track /\ r.open \in BOOLEAN
           /\ r.at \in {"new", "waiting", "buffer", "reading", "cancelled", "ended"}
    BY DEF Reader
  <2>2. publication \in Input!Track \cup {Input!NoTrack}
    BY <1>1, NobodyIsNoUser DEF InputTypes, Input!Track
  <2>3. QED
    BY <1>1, <2>1, <2>2 DEF InputTypes, Input!TypeOK
<1>3. Input!ListensToParticipant
  BY <1>1 DEF ReadsInv, Input!ListensToParticipant
<1>4. Input!ClosedLeavesNothing
  BY <1>1 DEF AloneInv, Input!ClosedLeavesNothing
<1>5. QED
  BY <1>1, <1>2, <1>3, <1>4

-----------------------------------------------------------------------------
(* What a job knows of the participants of its room *)

Work == [who : Users, entry : Entries, visit : Nat \ {0}]
Call == [for : Users \cup {"anyone", NoOne}, found : Users \cup {NoOne}]

ContextTypes ==
    /\ room \subseteq Context!Participants /\ visits \in 0 .. MaxVisits
    /\ visit \in [Context!Participants -> 0 .. visits]
    /\ entries \subseteq Entries /\ tasks \subseteq served /\ tasks \subseteq Work
    /\ known \in [Context!Keys -> 0 .. MaxVisits] /\ rejoined \subseteq Context!Keys
    /\ waiting \in [Waits -> Call]

\* Nobody waits, and nobody is there, before the room is connected.
ContextInv ==
    /\ connected \in BOOLEAN /\ missing \in BOOLEAN /\ ContextTypes
    /\ ~connected => \A w \in Waits : waiting[w] = Context!NoWait
    /\ Context!VisitsAreServed /\ Context!TasksAreKnown /\ Context!WaitsAreAnswered

\* No participant is waited for or served at first.
LEMMA ContextStart == Context!Init => ContextInv
<1> SUFFICES ASSUME Context!Init PROVE ContextInv
  OBVIOUS
<1>1. connected \in BOOLEAN /\ missing \in BOOLEAN /\ ~missing
  BY Zenon DEF Context!Init
<1>2. waiting \in [Waits -> Call] /\ \A w \in Waits : waiting[w] = Context!NoWait
  BY DEF Context!Init, Context!NoWait, Call
<1>3. ContextTypes
  BY <1>2, MediaAssumption DEF Context!Init, ContextTypes
<1>4. Context!VisitsAreServed /\ Context!TasksAreKnown
  BY <1>1 DEF Context!Init, Context!VisitsAreServed, Context!TasksAreKnown
<1>5. Context!WaitsAreAnswered
  BY <1>2 DEF Context!WaitsAreAnswered, Context!NoWait
<1>6. QED
  BY <1>1, <1>2, <1>3, <1>4, <1>5 DEF ContextInv

\* Tasks are started for those who come: each is known, and takes the place of the one of an
\* earlier visit that has not ended.
LEMMA TasksStart ==
    ASSUME ContextTypes, Context!VisitsAreServed, Context!TasksAreKnown,
           NEW there \in SUBSET Context!Participants, Context!Available(there, visit'),
           \A p \in there : visit'[p] \in 1 .. MaxVisits, missing' = missing
    PROVE  /\ tasks' \subseteq served' /\ tasks' \subseteq Work
           /\ known' \in [Context!Keys -> 0 .. MaxVisits] /\ rejoined' \subseteq Context!Keys
           /\ Context!VisitsAreServed' /\ Context!TasksAreKnown'
<1> DEFINE new == Context!Started(there, visit')
           key(t) == <<t.who, t.entry>>
<1>1. /\ tasks' = tasks \cup new /\ served' = served \cup new /\ owed' = owed \cup new
      /\ known' = [k \in Context!Keys |->
            IF Context!Task(k[1], k[2], visit'[k[1]]) \in new THEN visit'[k[1]] ELSE known[k]]
      /\ rejoined' = rejoined \cup {key(t) : t \in {u \in new : known[key(u)] # 0}}
  BY DEF Context!Available, Context!Started
<1>2. new = {Context!Task(p, e, visit'[p]) : p \in there \cap Users, e \in entries}
  BY DEF Context!Started
<1>3. entries \subseteq Entries /\ MaxVisits \in Nat
  BY MediaAssumption DEF ContextTypes
<1>4. \A t \in new : /\ t \in Work /\ t.who \in there \cap Users /\ t.visit = visit'[t.who]
                     /\ t.visit \in 1 .. MaxVisits
  BY <1>2, <1>3 DEF Context!Task, Work
<1>5. \A t \in Work : /\ key(t) \in Context!Keys /\ key(t)[1] = t.who /\ key(t)[2] = t.entry
                      /\ t = Context!Task(key(t)[1], key(t)[2], t.visit)
                      /\ t.visit # 0
  BY DEF Work, Context!Keys, Context!Task
<1>6. \A k \in Context!Keys : \A n \in Nat : key(Context!Task(k[1], k[2], n)) = k
  BY DEF Context!Keys, Context!Task
<1> HIDE DEF new, key
<1>7. tasks' \subseteq served' /\ tasks' \subseteq Work
  BY <1>1, <1>4 DEF ContextTypes
<1>8. \A k \in Context!Keys : Context!Task(k[1], k[2], visit'[k[1]]) \in new =>
         visit'[k[1]] \in 1 .. MaxVisits
  BY <1>4 DEF Context!Task
<1>9. known' \in [Context!Keys -> 0 .. MaxVisits]
  <2>1. \A k \in Context!Keys : known[k] \in 0 .. MaxVisits
    BY DEF ContextTypes
  <2>2. QED
    BY <1>1, <1>3, <1>8, <2>1
<1>10. rejoined' \subseteq Context!Keys
  BY <1>1, <1>4, <1>5 DEF ContextTypes
<1>11. Context!VisitsAreServed'
  BY <1>1 DEF Context!VisitsAreServed
<1>12. \A t \in tasks' : key(t) \notin rejoined' => known'[key(t)] = t.visit
  <2> SUFFICES ASSUME NEW t \in tasks', key(t) \notin rejoined'
               PROVE  known'[key(t)] = t.visit
    OBVIOUS
  <2>1. t \in Work /\ key(t) \in Context!Keys
    BY <1>5, <1>7
  <2>2. CASE t \in new
    BY <1>1, <1>4, <1>5, <2>1, <2>2
  <2>3. CASE t \in tasks
    <3>1. known[key(t)] = t.visit /\ known[key(t)] # 0
      BY <1>1, <1>5, <2>1, <2>3 DEF Context!TasksAreKnown, key
    <3>2. Context!Task(key(t)[1], key(t)[2], visit'[key(t)[1]]) \notin new
      <4> DEFINE u == Context!Task(key(t)[1], key(t)[2], visit'[key(t)[1]])
      <4>1. SUFFICES ASSUME u \in new PROVE FALSE
        OBVIOUS
      <4>2. key(u) = key(t)
        BY DEF key, Context!Task
      <4>3. key(u) \in rejoined'
        BY <1>1, <3>1, <4>1, <4>2
      <4>4. QED
        BY <4>2, <4>3
    <3>3. QED
      BY <1>1, <2>1, <3>1, <3>2
  <2>4. QED
    BY <1>1, <2>2, <2>3
<1>13. \A k \in Context!Keys \ rejoined' : known'[k] # 0 =>
          Context!Task(k[1], k[2], known'[k]) \in tasks'
  BY <1>1 DEF Context!TasksAreKnown
<1>14. missing' => rejoined' # {}
  <2>1. missing => rejoined # {}
    BY DEF Context!TasksAreKnown
  <2>2. rejoined \subseteq rejoined'
    BY <1>1
  <2>3. QED
    BY <2>1, <2>2, Zenon
<1>15. Context!TasksAreKnown'
  BY <1>12, <1>13, <1>14 DEF Context!TasksAreKnown, key
<1>16. QED
  BY <1>7, <1>9, <1>10, <1>11, <1>15

\* A task ends: it is taken off, unless its participant has come again.
LEMMA ContextTaskEnds ==
    ASSUME ContextInv, NEW t \in tasks, Context!TaskEnds(t)
    PROVE  ContextInv'
<1> DEFINE key(u) == <<u.who, u.entry>>
<1>1. /\ tasks' = tasks \ {t} /\ known' = [known EXCEPT ![key(t)] = 0]
      /\ room' = room /\ visits' = visits /\ visit' = visit /\ entries' = entries
      /\ served' = served /\ owed' = owed /\ rejoined' = rejoined /\ waiting' = waiting
  BY DEF Context!TaskEnds, Context!Popped, Context!roomVars
<1>2. connected' = connected
  BY Zenon DEF Context!TaskEnds, Context!roomVars
<1>3. missing' = (missing \/ known[key(t)] = 0)
  BY Zenon DEF Context!TaskEnds
<1>4. /\ ContextTypes /\ (~connected => \A w \in Waits : waiting[w] = Context!NoWait)
      /\ Context!VisitsAreServed /\ Context!TasksAreKnown /\ Context!WaitsAreAnswered
  BY DEF ContextInv
<1>5. \A u \in Work : /\ key(u) \in Context!Keys /\ key(u)[1] = u.who /\ key(u)[2] = u.entry
                      /\ u = Context!Task(key(u)[1], key(u)[2], u.visit) /\ u.visit # 0
  BY DEF Work, Context!Keys, Context!Task
<1>6. \A k \in Context!Keys : \A n : key(Context!Task(k[1], k[2], n)) = k
  BY DEF Context!Keys, Context!Task
<1>7. tasks \subseteq Work /\ known \in [Context!Keys -> 0 .. MaxVisits]
  BY <1>4 DEF ContextTypes
<1>8. \A u \in tasks : key(u) \notin rejoined => known[key(u)] = u.visit
  BY <1>4 DEF Context!TasksAreKnown
<1> HIDE DEF key
<1>9. known' \in [Context!Keys -> 0 .. MaxVisits]
  BY <1>1, <1>5, <1>7, MediaAssumption
<1>10. ContextTypes'
  BY <1>1, <1>4, <1>9 DEF ContextTypes
<1>11. connected' \in BOOLEAN /\ missing' \in BOOLEAN
  BY <1>2, <1>3, Zenon DEF ContextInv
<1>12. ~connected' => \A w \in Waits : waiting'[w] = Context!NoWait
  BY <1>1, <1>2, <1>4
<1>13. \A u \in tasks' : key(u) \notin rejoined' => known'[key(u)] = u.visit
  <2> SUFFICES ASSUME NEW u \in tasks, u # t, key(u) \notin rejoined
               PROVE  known'[key(u)] = u.visit
    BY <1>1
  <2>1. key(u) # key(t)
    BY <1>5, <1>7, <1>8
  <2>2. QED
    BY <1>1, <1>5, <1>7, <1>8, <2>1
<1>14. \A k \in Context!Keys \ rejoined' : known'[k] # 0 =>
          Context!Task(k[1], k[2], known'[k]) \in tasks'
  <2> SUFFICES ASSUME NEW k \in Context!Keys \ rejoined, known'[k] # 0
               PROVE  Context!Task(k[1], k[2], known'[k]) \in tasks'
    BY <1>1
  <2>1. k # key(t) /\ known'[k] = known[k]
    BY <1>1, <1>5, <1>7
  <2>2. Context!Task(k[1], k[2], known[k]) \in tasks
    BY <1>4, <2>1 DEF Context!TasksAreKnown
  <2>3. Context!Task(k[1], k[2], known[k]) # t
    BY <1>6, <2>1
  <2>4. QED
    BY <1>1, <2>1, <2>2, <2>3
<1>15. missing' => rejoined' # {}
  <2>1. CASE missing
    BY <1>1, <1>4, <2>1 DEF Context!TasksAreKnown
  <2>2. CASE known[key(t)] = 0
    BY <1>1, <1>5, <1>7, <1>8, <2>2
  <2>3. QED
    BY <1>3, <2>1, <2>2, Zenon
<1>16. Context!TasksAreKnown'
  BY <1>13, <1>14, <1>15 DEF Context!TasksAreKnown, key
<1>17. Context!VisitsAreServed' /\ Context!WaitsAreAnswered'
  BY <1>1, <1>4 DEF Context!VisitsAreServed, Context!WaitsAreAnswered, Context!Matches
<1>18. QED
  BY <1>10, <1>11, <1>12, <1>16, <1>17 DEF ContextInv

\* A participant is waited for: one who is there is found at once.
LEMMA ContextWaits ==
    ASSUME ContextInv, NEW w \in Waits, NEW p \in Users \cup {"anyone"},
           Context!WaitForParticipant(w, p)
    PROVE  ContextInv'
<1> DEFINE call == [for |-> p, found |-> NoOne]
<1>1. /\ tasks' = tasks /\ known' = known /\ room' = room /\ visits' = visits
      /\ visit' = visit /\ entries' = entries /\ served' = served /\ owed' = owed
      /\ rejoined' = rejoined
  BY DEF Context!WaitForParticipant, Context!roomVars, Context!entryVars
<1>2. connected /\ connected' /\ missing' = missing
  BY Zenon DEF Context!WaitForParticipant, Context!roomVars, Context!entryVars
<1>3. PICK found \in IF Context!Present(call) = {} THEN {NoOne} ELSE Context!Present(call) :
         waiting' = [waiting EXCEPT ![w] = [call EXCEPT !.found = found]]
  BY DEF Context!WaitForParticipant, Context!Anyone
<1>4. /\ ContextTypes /\ Context!VisitsAreServed /\ Context!TasksAreKnown
      /\ Context!WaitsAreAnswered
  BY DEF ContextInv
<1>5. \A q : q \in Context!Present(call) <=>
                q \in room /\ q \in Users /\ p \in {"anyone", q}
  BY DEF Context!Present, Context!Matches, Context!Anyone
<1> DEFINE answer == [call EXCEPT !.found = found]
<1>6. answer \in Call /\ answer.for = p /\ answer.found = found
  BY <1>3, <1>5 DEF Call
<1>7. found = NoOne => \A q \in room : q \in Users => p \notin {"anyone", q}
  BY <1>3, <1>5, NobodyIsNoUser
<1>8. found # NoOne => found \in Users /\ p \in {"anyone", found}
  BY <1>3, <1>5
<1>9. waiting \in [Waits -> Call] /\ waiting' = [waiting EXCEPT ![w] = answer]
  BY <1>3, <1>4 DEF ContextTypes
<1> HIDE DEF answer, call
<1>10. /\ waiting' \in [Waits -> Call] /\ waiting'[w] = answer
       /\ \A x \in Waits \ {w} : waiting'[x] = waiting[x]
  BY <1>6, <1>9
<1>11. ContextTypes'
  BY <1>1, <1>4, <1>10 DEF ContextTypes
<1>12. Context!VisitsAreServed'
  BY <1>1, <1>4 DEF Context!VisitsAreServed
<1>13. Context!TasksAreKnown'
  <2>1. missing' => rejoined' # {}
    BY <1>1, <1>2, <1>4, Zenon DEF Context!TasksAreKnown
  <2>2. QED
    BY <1>1, <1>4, <2>1 DEF Context!TasksAreKnown
<1>14. Context!WaitsAreAnswered'
  <2> SUFFICES ASSUME NEW x \in Waits
               PROVE  /\ waiting'[x].for # NoOne /\ waiting'[x].found = NoOne =>
                            ~\E q \in room' : Context!Matches(waiting'[x], q)
                      /\ waiting'[x].found # NoOne =>
                            Context!Matches(waiting'[x], waiting'[x].found)
    BY DEF Context!WaitsAreAnswered, Context!Matches
  <2>1. CASE x = w
    BY <1>1, <1>6, <1>7, <1>8, <1>10, <2>1 DEF Context!Matches, Context!Anyone
  <2>2. CASE x # w
    BY <1>1, <1>4, <1>10, <2>2 DEF Context!WaitsAreAnswered
  <2>3. QED
    BY <2>1, <2>2
<1>15. connected' \in BOOLEAN /\ missing' \in BOOLEAN
  BY <1>2, Zenon DEF ContextInv
<1>16. QED
  BY <1>2, <1>11, <1>12, <1>13, <1>14, <1>15 DEF ContextInv

\* connect(): those who are there are served.
LEMMA ContextConnects ==
    ASSUME ContextInv, NEW there \in SUBSET Context!Participants, Context!Connect(there)
    PROVE  ContextInv'
<1>1. /\ Context!Cardinality(there) <= MaxVisits
      /\ room' = there /\ visits' = Context!Cardinality(there)
      /\ visit' = [q \in Context!Participants |-> IF q \in there THEN 1 ELSE 0]
      /\ Context!Available(there, visit') /\ entries' = entries /\ waiting' = waiting
  BY DEF Context!Connect
<1>2. ~connected /\ connected' /\ missing' = missing
  BY Zenon DEF Context!Connect
<1>3. /\ ContextTypes /\ Context!VisitsAreServed /\ Context!TasksAreKnown
      /\ \A w \in Waits : waiting[w] = Context!NoWait
  BY <1>2 DEF ContextInv
<1>4. IsFiniteSet(there)
  <2>1. IsFiniteSet(Context!Participants)
    BY MediaAssumption DEF Context!Participants
  <2>2. QED
    BY <2>1, FS_Subset
<1>5. visits' \in Nat /\ visits' \in 0 .. MaxVisits /\ (visits' = 0 => there = {})
  <2>1. Cardinality(there) \in Nat /\ (Cardinality(there) = 0 => there = {})
    BY <1>4, FS_CardinalityType, FS_EmptySet
  <2>2. QED
    BY <1>1, <2>1, OneCardinality, MediaAssumption
<1>6. \A q \in there : q \in Context!Participants /\ visit'[q] = 1 /\ 1 \in 1 .. MaxVisits
  BY <1>1, <1>5, MediaAssumption
<1>7. visit' \in [Context!Participants -> 0 .. visits']
  BY <1>1, <1>5
<1>8. /\ tasks' \subseteq served' /\ tasks' \subseteq Work
      /\ known' \in [Context!Keys -> 0 .. MaxVisits] /\ rejoined' \subseteq Context!Keys
      /\ Context!VisitsAreServed' /\ Context!TasksAreKnown'
  BY <1>1, <1>2, <1>3, <1>6, TasksStart
<1>9. ContextTypes'
  BY <1>1, <1>3, <1>5, <1>7, <1>8 DEF ContextTypes
<1>10. Context!WaitsAreAnswered'
  BY <1>1, <1>3 DEF Context!WaitsAreAnswered, Context!NoWait
<1>11. connected' \in BOOLEAN /\ missing' \in BOOLEAN
  BY <1>2, Zenon DEF ContextInv
<1>12. QED
  BY <1>2, <1>8, <1>9, <1>10, <1>11 DEF ContextInv

\* A participant comes: it is served, and those who wait for it have found it.
LEMMA ContextJoins ==
    ASSUME ContextInv, NEW p \in Context!Participants, Context!ParticipantConnected(p)
    PROVE  ContextInv'
<1>1. /\ visits < MaxVisits /\ visits' = visits + 1 /\ room' = room \cup {p}
      /\ visit' = [visit EXCEPT ![p] = @ + 1] /\ entries' = entries
      /\ Context!Available({p}, visit') /\ waiting' = Context!Found(p)
  BY DEF Context!ParticipantConnected
<1>2. connected /\ connected' /\ missing' = missing
  BY Zenon DEF Context!ParticipantConnected
<1>3. /\ ContextTypes /\ Context!VisitsAreServed /\ Context!TasksAreKnown
      /\ Context!WaitsAreAnswered
  BY DEF ContextInv
<1>4. /\ visits \in Nat /\ visit \in [Context!Participants -> 0 .. visits]
      /\ visits' \in 0 .. MaxVisits /\ MaxVisits \in Nat
  <2>1. MaxVisits \in Nat
    BY MediaAssumption
  <2>2. visits \in 0 .. MaxVisits /\ visit \in [Context!Participants -> 0 .. visits]
    BY <1>3 DEF ContextTypes
  <2>3. QED
    BY <1>1, <2>1, <2>2
<1>5. visit' \in [Context!Participants -> 0 .. visits'] /\ visit'[p] \in 1 .. MaxVisits
  <2>1. visit[p] \in 0 .. visits /\ visit[p] + 1 \in 1 .. visits'
    BY <1>1, <1>4
  <2>2. \A q \in Context!Participants : visit[q] \in 0 .. visits'
    BY <1>1, <1>4
  <2>3. visit[p] + 1 \in 0 .. visits' /\ visit[p] + 1 \in 1 .. MaxVisits
    BY <1>1, <1>4, <2>1
  <2>4. QED
    BY <1>1, <1>4, <2>2, <2>3
<1>6. /\ tasks' \subseteq served' /\ tasks' \subseteq Work
      /\ known' \in [Context!Keys -> 0 .. MaxVisits] /\ rejoined' \subseteq Context!Keys
      /\ Context!VisitsAreServed' /\ Context!TasksAreKnown'
  <2>1. {p} \in SUBSET Context!Participants
    OBVIOUS
  <2>2. \A q \in {p} : visit'[q] \in 1 .. MaxVisits
    BY <1>5
  <2>3. Context!Available({p}, visit')
    BY <1>1
  <2>4. QED
    BY <1>2, <1>3, <2>1, <2>2, <2>3, TasksStart
<1> DEFINE answer(w) == [waiting[w] EXCEPT !.found = p]
<1>7. waiting \in [Waits -> Call]
  BY <1>3 DEF ContextTypes
<1>8. \A w \in Waits : Context!Matches(waiting[w], p) =>
         answer(w) \in Call /\ answer(w).for = waiting[w].for /\ answer(w).found = p
  BY <1>7 DEF Call, Context!Matches
<1>9. waiting' = [w \in Waits |->
                    IF waiting[w].found = NoOne /\ Context!Matches(waiting[w], p)
                    THEN answer(w) ELSE waiting[w]]
  BY <1>1 DEF Context!Found
<1> HIDE DEF answer
<1>10. waiting' \in [Waits -> Call]
  BY <1>7, <1>8, <1>9
<1>11. ContextTypes'
  BY <1>1, <1>3, <1>4, <1>5, <1>6, <1>10 DEF ContextTypes
<1>12. Context!WaitsAreAnswered'
  <2> SUFFICES ASSUME NEW w \in Waits
               PROVE  /\ waiting'[w].for # NoOne /\ waiting'[w].found = NoOne =>
                            ~\E q \in room' : Context!Matches(waiting'[w], q)
                      /\ waiting'[w].found # NoOne =>
                            Context!Matches(waiting'[w], waiting'[w].found)
    BY DEF Context!WaitsAreAnswered, Context!Matches
  <2>1. CASE waiting[w].found = NoOne /\ Context!Matches(waiting[w], p)
    <3>1. waiting'[w] = answer(w)
      BY <1>9, <2>1
    <3>2. p # NoOne
      BY <2>1, NobodyIsNoUser DEF Context!Matches
    <3>3. QED
      BY <1>8, <2>1, <3>1, <3>2 DEF Context!Matches
  <2>2. CASE ~(waiting[w].found = NoOne /\ Context!Matches(waiting[w], p))
    <3>1. waiting'[w] = waiting[w]
      BY <1>9, <2>2
    <3>2. QED
      BY <1>1, <1>3, <2>2, <3>1 DEF Context!WaitsAreAnswered
  <2>3. QED
    BY <2>1, <2>2
<1>13. connected' \in BOOLEAN /\ missing' \in BOOLEAN
  BY <1>2, Zenon DEF ContextInv
<1>14. QED
  BY <1>2, <1>6, <1>11, <1>12, <1>13 DEF ContextInv

\* Steps that leave the tasks and the waits alone.
LEMMA ContextStays ==
    ASSUME ContextInv, visits' = visits, visit' = visit, entries' \subseteq Entries,
           room' \subseteq room, tasks' = tasks, known' = known, served' = served,
           owed' = owed, rejoined' = rejoined, waiting' = waiting,
           connected' = connected, missing' = missing
    PROVE  ContextInv'
<1>1. /\ ContextTypes /\ (~connected => \A w \in Waits : waiting[w] = Context!NoWait)
      /\ Context!VisitsAreServed /\ Context!TasksAreKnown /\ Context!WaitsAreAnswered
  BY DEF ContextInv
<1>2. ContextTypes'
  BY <1>1 DEF ContextTypes
<1>3. ~connected' => \A w \in Waits : waiting'[w] = Context!NoWait
  BY <1>1
<1>4. Context!VisitsAreServed'
  BY <1>1 DEF Context!VisitsAreServed
<1>5. Context!TasksAreKnown'
  <2>1. missing' => rejoined' # {}
    BY <1>1, Zenon DEF Context!TasksAreKnown
  <2>2. QED
    BY <1>1, <2>1 DEF Context!TasksAreKnown
<1>6. Context!WaitsAreAnswered'
  BY <1>1 DEF Context!WaitsAreAnswered, Context!Matches
<1>7. connected' \in BOOLEAN /\ missing' \in BOOLEAN
  BY Zenon DEF ContextInv
<1>8. QED
  BY <1>2, <1>3, <1>4, <1>5, <1>6, <1>7 DEF ContextInv

\* Every step of a job's context, and of the others, which leave it alone.
LEMMA ContextStep == ContextInv /\ (Context!Next \/ UNCHANGED jobVars) => ContextInv'
<1> SUFFICES ASSUME ContextInv, Context!Next \/ UNCHANGED jobVars PROVE ContextInv'
  OBVIOUS
<1>1. room \subseteq room /\ entries \subseteq Entries
  BY DEF ContextInv, ContextTypes
<1>2. ASSUME NEW e \in Entries, Context!AddEntrypoint(e) PROVE ContextInv'
  <2>1. /\ entries' = entries \cup {e} /\ room' = room /\ visits' = visits /\ visit' = visit
        /\ tasks' = tasks /\ known' = known /\ served' = served /\ owed' = owed
        /\ rejoined' = rejoined /\ waiting' = waiting
    BY <1>2 DEF Context!AddEntrypoint, Context!roomVars
  <2>2. connected' = connected /\ missing' = missing
    BY <1>2, Zenon DEF Context!AddEntrypoint, Context!roomVars
  <2>3. entries' \subseteq Entries /\ room' \subseteq room
    BY <1>1, <2>1
  <2>4. QED
    BY <2>1, <2>2, <2>3, ContextStays, Zenon
<1>3. ASSUME NEW p, Context!ParticipantDisconnected(p) PROVE ContextInv'
  <2>1. /\ entries' = entries /\ room' = room \ {p} /\ visits' = visits /\ visit' = visit
        /\ tasks' = tasks /\ known' = known /\ served' = served /\ owed' = owed
        /\ rejoined' = rejoined /\ waiting' = waiting
    BY <1>3 DEF Context!ParticipantDisconnected, Context!entryVars
  <2>2. connected' = connected /\ missing' = missing
    BY <1>3, Zenon DEF Context!ParticipantDisconnected, Context!entryVars
  <2>3. entries' \subseteq Entries /\ room' \subseteq room
    BY <1>1, <2>1
  <2>4. QED
    BY <2>1, <2>2, <2>3, ContextStays, Zenon
<1>4. ASSUME UNCHANGED jobVars PROVE ContextInv'
  <2>1. /\ entries' = entries /\ room' = room /\ visits' = visits /\ visit' = visit
        /\ tasks' = tasks /\ known' = known /\ served' = served /\ owed' = owed
        /\ rejoined' = rejoined /\ waiting' = waiting
    BY <1>4 DEF jobVars
  <2>2. connected' = connected /\ missing' = missing
    BY <1>4, Zenon DEF jobVars
  <2>3. entries' \subseteq Entries /\ room' \subseteq room
    BY <1>1, <2>1
  <2>4. QED
    BY <2>1, <2>2, <2>3, ContextStays, Zenon
<1>5. ASSUME NEW t \in tasks, Context!TaskEnds(t) PROVE ContextInv'
  BY <1>5, ContextTaskEnds
<1>6. ASSUME NEW w \in Waits, NEW p \in Users \cup {"anyone"}, Context!WaitForParticipant(w, p)
      PROVE  ContextInv'
  BY <1>6, ContextWaits
<1>7. ASSUME NEW there \in SUBSET Context!Participants, Context!Connect(there)
      PROVE  ContextInv'
  BY <1>7, ContextConnects
<1>8. ASSUME NEW p \in Context!Participants, Context!ParticipantConnected(p) PROVE ContextInv'
  BY <1>8, ContextJoins
<1>9. QED
  BY <1>2, <1>3, <1>4, <1>5, <1>6, <1>7, <1>8 DEF Context!Next, Context!Anyone

\* What is promised of the context of a job follows.
LEMMA ContextPromises ==
    ContextInv => /\ Context!TypeOK /\ Context!VisitsAreServed /\ Context!TasksAreKnown
                  /\ Context!WaitsAreAnswered
<1>1. \A c \in Call : c.for \in Users \cup {"anyone", NoOne}
  BY DEF Call
<1>2. ContextTypes => Context!TypeOK
  BY <1>1 DEF ContextTypes, Context!TypeOK, Context!Anyone
<1>3. QED
  BY <1>2 DEF ContextInv

-----------------------------------------------------------------------------
\* The input listens to the participant that is set, whatever comes and goes, in order and
\* until it is closed; and each visit of a participant to the room of a job is served once by
\* each entrypoint, and each wait for a participant answered.
THEOREM ParticipantsKeepServed == MediaSpec => []ParticipantsAreServed
<1>1. MediaInit => InputInv /\ ContextInv
  BY InputStart, ContextStart DEF MediaInit
<1>2. InputInv /\ ContextInv /\ [MediaNext]_mediaVars => InputInv' /\ ContextInv'
  <2> SUFFICES ASSUME InputInv, ContextInv, [MediaNext]_mediaVars
               PROVE  InputInv' /\ ContextInv'
    OBVIOUS
  <2>1. Input!Next \/ UNCHANGED inputVars
    BY DEF MediaNext, mediaVars
  <2>2. Context!Next \/ UNCHANGED jobVars
    BY DEF MediaNext, mediaVars
  <2>3. QED
    BY <2>1, <2>2, InputStep, ContextStep
<1>3. InputInv /\ ContextInv => ParticipantsAreServed
  BY InputPromises, ContextPromises DEF ParticipantsAreServed
<1>4. QED
  BY <1>1, <1>2, <1>3, PTL DEF MediaSpec

-----------------------------------------------------------------------------
(* The detection of speech, and what is recognized of it *)

Event == [type : {"START", "END", "FINAL"}, frames : Seq(Nat), at : Nat, first : Nat,
          ignored : Nat]

VadTypes ==
    /\ window \in 0 .. MaxWindows /\ voice \in 0 .. window /\ silence \in 0 .. window
    /\ first \in 0 .. window /\ ignored \in 0 .. window
    /\ size \in {b + Prefix : b \in Buffered} /\ index \in Nat /\ buffer \in Seq(Nat)
    /\ Len(buffer) = Vad!Least(index, size)
    /\ vad \in {"runs", "ended", "died"} /\ updates \in 0 .. MaxUpdates
    /\ recognizer \in {"reads", "recognizes", "ended", "failed"}
    /\ inbox \in Seq(Event) /\ events \in Seq(Event)

\* The first window of the speech that is on, or of the voice that may become one.
SpeechStart == IF speaking THEN first ELSE window + 1 - voice

\* Where the audio of a speech begins: its padding comes before it.
From(f) == IF f > Prefix THEN f - Prefix ELSE 1

\* The audio of an event is of its speech, if it had space.
IsSpeech(e) == e.ignored < From(e.first) =>
    e.frames = [k \in 1 .. e.at - From(e.first) + 1 |-> From(e.first) + k - 1]

\* Speeches come one after the other.
SpeechInv ==
    /\ speaking => first >= 1
    /\ ~speaking => first < window + 1 - voice

\* The buffer holds the windows up to now, from the padding of the speech on, and those that
\* there was no space for break it off.
BufferInv ==
    ~cut =>
        /\ index = Len(buffer) /\ Len(buffer) <= window
        /\ ignored < SpeechStart => Len(buffer) = window + 1 - From(SpeechStart)
        /\ ignored >= SpeechStart => Len(buffer) >= Prefix
        /\ \A k \in 1 .. Len(buffer) :
              window - (Len(buffer) - k) > ignored => buffer[k] = window - (Len(buffer) - k)

AudioInv ==
    ~cut => /\ \A i \in 1 .. Len(inbox) : IsSpeech(inbox[i])
            /\ \A i \in 1 .. Len(events) : IsSpeech(events[i])

\* What may come after an event.
Follows(a, b) ==
    \/ a.type = "START" /\ b.type = "END" /\ b.first = a.first
    \/ a.type = "END" /\ b.type = "FINAL" /\ b.first = a.first /\ b.frames = a.frames
    \/ a.type # "START" /\ b.type = "START" /\ b.first > a.first

\* The last event tells whether there is speech now.
IsLast(e) == e.first = first /\ (e.type = "START" <=> speaking)

\* The events that were read are followed by those that were not.
EventsInv ==
    /\ \A i \in 1 .. Len(inbox) : inbox[i].type # "FINAL"
    /\ \A i \in 1 .. Len(inbox) - 1 : Follows(inbox[i], inbox[i + 1])
    /\ \A i \in 1 .. Len(events) - 1 : Follows(events[i], events[i + 1])
    /\ inbox # <<>> /\ events # <<>> => Follows(events[Len(events)], inbox[1])
    /\ inbox # <<>> => IsLast(inbox[Len(inbox)])
    /\ inbox = <<>> /\ events # <<>> => IsLast(events[Len(events)])

EndInv ==
    /\ vad = "died" => cut
    /\ recognizer = "ended" => inbox = <<>> /\ vad = "ended"
    /\ recognizer = "recognizes" => events # <<>> /\ events[Len(events)].type = "END"

VadInv ==
    /\ speaking \in BOOLEAN /\ cut \in BOOLEAN
    /\ VadTypes /\ SpeechInv /\ BufferInv /\ AudioInv /\ EventsInv /\ EndInv

\* Numbers that the proofs below compute with.
LEMMA VadNumbers ==
    ASSUME VadTypes
    PROVE  /\ window \in Nat /\ voice \in Nat /\ voice <= window /\ first \in Nat
           /\ first <= window /\ ignored \in Nat /\ ignored <= window /\ silence \in Nat
           /\ silence <= window /\ index \in Nat /\ Prefix \in Nat /\ size \in Nat
           /\ size >= Prefix /\ MaxWindows \in Nat /\ Len(buffer) \in Nat
           /\ (index < size => Len(buffer) = index) /\ (index >= size => Len(buffer) = size)
<1>1. MaxWindows \in Nat /\ Prefix \in Nat /\ Buffered \subseteq Nat
  BY MediaAssumption
<1>2. size \in Nat /\ size >= Prefix
  <2>1. \A b \in Buffered : b + Prefix \in Nat /\ b + Prefix >= Prefix
    BY <1>1
  <2>2. QED
    BY <2>1 DEF VadTypes
<1>3. window \in Nat
  BY <1>1 DEF VadTypes
<1>4. Len(buffer) \in Nat
  BY DEF VadTypes
<1>5. (index < size => Len(buffer) = index) /\ (index >= size => Len(buffer) = size)
  BY <1>2 DEF VadTypes, Vad!Least
<1>6. QED
  BY <1>1, <1>2, <1>3, <1>4, <1>5 DEF VadTypes

\* Nothing was heard at first.
LEMMA VadStart == Vad!Init => VadInv
<1> SUFFICES ASSUME Vad!Init PROVE VadInv
  OBVIOUS
<1>1. speaking \in BOOLEAN /\ cut \in BOOLEAN /\ ~speaking
  BY Zenon DEF Vad!Init
<1>2. PICK b \in Buffered : size = b + Prefix
  BY DEF Vad!Init
<1>3. b \in Nat /\ Prefix \in Nat /\ MaxWindows \in Nat /\ MaxUpdates \in Nat
  BY MediaAssumption
<1>4. /\ window = 0 /\ voice = 0 /\ silence = 0 /\ first = 0 /\ ignored = 0
      /\ buffer = <<>> /\ index = 0 /\ vad = "runs" /\ updates = 0
      /\ inbox = <<>> /\ recognizer = "reads" /\ events = <<>>
  BY DEF Vad!Init
<1>5. VadTypes
  <2>1. size \in {c + Prefix : c \in Buffered} /\ Vad!Least(index, size) = 0
    BY <1>2, <1>3, <1>4 DEF Vad!Least
  <2>2. Len(buffer) = 0 /\ 0 \in 0 .. MaxWindows /\ 0 \in 0 .. 0 /\ 0 \in 0 .. MaxUpdates
    BY <1>3, <1>4
  <2>3. buffer \in Seq(Nat) /\ inbox \in Seq(Event) /\ events \in Seq(Event)
    BY <1>4
  <2>4. QED
    BY ONLY <1>4, <2>1, <2>2, <2>3 DEF VadTypes
<1>6. SpeechInv
  BY <1>1, <1>4 DEF SpeechInv
<1>7. BufferInv
  BY <1>1, <1>3, <1>4 DEF BufferInv, SpeechStart, From
<1>8. AudioInv /\ EventsInv /\ EndInv
  BY <1>4 DEF AudioInv, EventsInv, EndInv
<1>9. QED
  BY <1>1, <1>5, <1>6, <1>7, <1>8 DEF VadInv

\* The window goes to the end of the buffer, or is ignored when that is full.
LEMMA WindowWritten ==
    ASSUME VadTypes
    PROVE  /\ Vad!Written \in Seq(Nat) /\ Len(Vad!Written) \in Nat
           /\ index < size =>
                 /\ Len(Vad!Written) = Len(buffer) + 1 /\ Vad!Ignored = ignored
                 /\ Vad!Written[Len(buffer) + 1] = window + 1
                 /\ \A k \in 1 .. Len(buffer) : Vad!Written[k] = buffer[k]
           /\ index >= size => Vad!Written = buffer /\ Vad!Ignored = window + 1
<1>1. window + 1 \in Nat /\ index \in Nat /\ size \in Nat /\ Len(buffer) \in Nat
  BY VadNumbers
<1>2. buffer \in Seq(Nat)
  BY DEF VadTypes
<1>3. CASE index < size
  <2>1. Vad!Written = Append(buffer, window + 1) /\ Vad!Ignored = ignored
    BY <1>3 DEF Vad!Written, Vad!Ignored
  <2>2. QED
    BY <1>1, <1>2, <1>3, <2>1
<1>4. CASE index >= size
  BY <1>1, <1>2, <1>4 DEF Vad!Written, Vad!Ignored
<1>5. QED
  BY <1>1, <1>3, <1>4

\* What the buffer holds with the window, as BufferInv says of what it held.
LEMMA WrittenHolds ==
    ASSUME VadTypes, SpeechInv, BufferInv, ~cut
    PROVE  /\ Vad!Written \in Seq(Nat) /\ Len(Vad!Written) \in Nat
           /\ Len(Vad!Written) <= window + 1 /\ Len(Vad!Written) <= size
           /\ Vad!Ignored \in Nat /\ Vad!Ignored <= window + 1
           /\ Vad!Ignored < SpeechStart =>
                 Len(Vad!Written) = window + 2 - From(SpeechStart)
           /\ Vad!Ignored >= SpeechStart => Len(Vad!Written) >= Prefix
           /\ \A k \in 1 .. Len(Vad!Written) :
                 window + 1 - (Len(Vad!Written) - k) > Vad!Ignored =>
                     Vad!Written[k] = window + 1 - (Len(Vad!Written) - k)
<1> DEFINE W == Vad!Written
           g == Vad!Ignored
           st == SpeechStart
           fr == From(SpeechStart)
           L == Len(buffer)
<1>1. /\ window \in Nat /\ ignored \in Nat /\ ignored <= window /\ index \in Nat
      /\ size \in Nat /\ size >= Prefix /\ Prefix \in Nat /\ L \in Nat
      /\ (index < size => L = index) /\ (index >= size => L = size)
  BY VadNumbers
<1>2. /\ W \in Seq(Nat) /\ Len(W) \in Nat
      /\ index < size => /\ Len(W) = L + 1 /\ g = ignored /\ W[L + 1] = window + 1
                         /\ \A k \in 1 .. L : W[k] = buffer[k]
      /\ index >= size => W = buffer /\ g = window + 1
  BY WindowWritten
<1>3. /\ index = L /\ L <= window /\ (ignored < st => L = window + 1 - fr)
      /\ ignored >= st => L >= Prefix
      /\ \A k \in 1 .. L : window - (L - k) > ignored => buffer[k] = window - (L - k)
  BY DEF BufferInv
<1>4. st \in Nat /\ st <= window + 1 /\ fr \in Nat
  <2>1. st \in Nat /\ st <= window + 1
    <3>1. window \in Nat /\ voice \in Nat /\ voice <= window /\ first \in Nat /\ first <= window
      BY VadNumbers
    <3>2. QED
      BY <3>1 DEF SpeechStart
  <2>2. fr \in Nat
    BY <1>1, <2>1 DEF From
  <2>3. QED
    BY <2>1, <2>2
<1> HIDE DEF W, g, st, fr, L
<1>5. CASE index < size
  <2>. Len(W) = L + 1 /\ L \in Nat /\ window \in Nat
    BY <1>1, <1>2, <1>5
  <2>1. \A k \in 1 .. Len(W) : k \in 1 .. L \/ k = L + 1
    OBVIOUS
  <2>2. \A k \in 1 .. L : window + 1 - (Len(W) - k) = window - (L - k)
    OBVIOUS
  <2>3. window + 1 - (Len(W) - (L + 1)) = window + 1
    OBVIOUS
  <2>4. \A k \in 1 .. Len(W) : window + 1 - (Len(W) - k) > g =>
                                  W[k] = window + 1 - (Len(W) - k)
    BY <1>2, <1>3, <1>5, <2>1, <2>2, <2>3
  <2>5. /\ Len(W) <= window + 1 /\ Len(W) <= size /\ g \in Nat /\ g <= window + 1
        /\ (g < st => Len(W) = window + 2 - fr) /\ (g >= st => Len(W) >= Prefix)
    BY <1>1, <1>2, <1>3, <1>4, <1>5
  <2>6. QED
    BY <1>2, <2>4, <2>5 DEF W, g, st, fr
<1>6. CASE index >= size
  <2>1. W = buffer /\ g = window + 1 /\ Len(W) = L
    BY <1>2, <1>6 DEF L
  <2>2. \A k \in 1 .. Len(W) : ~(window + 1 - (Len(W) - k) > g)
    BY <1>1, <2>1
  <2>3. /\ Len(W) <= window + 1 /\ Len(W) <= size /\ g \in Nat /\ g <= window + 1
        /\ ~(g < st) /\ Len(W) >= Prefix
    BY <1>1, <1>3, <1>4, <1>6, <2>1
  <2>4. QED
    BY <1>2, <2>2, <2>3 DEF W, g, st, fr
<1>7. QED
  BY <1>1, <1>5, <1>6

\* A sequence is known by its length and its elements.
LEMMA Consecutive ==
    ASSUME NEW s \in Seq(Nat), NEW f, NEW n, Len(s) = n,
           \A k \in 1 .. Len(s) : s[k] = f + k - 1
    PROVE  s = [k \in 1 .. n |-> f + k - 1]
OBVIOUS

\* What the buffer holds then is the speech, from its padding to the window.
LEMMA WrittenIsSpeech ==
    ASSUME VadTypes, SpeechInv, BufferInv, ~cut, NEW type
    PROVE  IsSpeech([type |-> type, frames |-> Vad!Written, at |-> window + 1,
                     first |-> SpeechStart, ignored |-> Vad!Ignored])
<1> DEFINE W == Vad!Written
           g == Vad!Ignored
           fr == From(SpeechStart)
           e == [type |-> type, frames |-> W, at |-> window + 1, first |-> SpeechStart,
                 ignored |-> g]
<1>1. /\ window \in Nat /\ Prefix \in Nat /\ SpeechStart \in Nat /\ SpeechStart <= window + 1
      /\ SpeechStart >= 1
  BY VadNumbers DEF SpeechStart, SpeechInv
<1>2. fr \in Nat /\ fr >= 1 /\ fr <= SpeechStart
  BY <1>1 DEF From
<1>3. /\ W \in Seq(Nat) /\ Len(W) \in Nat /\ g \in Nat
      /\ g < SpeechStart => Len(W) = window + 2 - fr
      /\ \A k \in 1 .. Len(W) :
            window + 1 - (Len(W) - k) > g => W[k] = window + 1 - (Len(W) - k)
  BY WrittenHolds
<1>4. /\ e.frames = W /\ e.at = window + 1 /\ e.first = SpeechStart /\ e.ignored = g
      /\ From(e.first) = fr
  OBVIOUS
<1> HIDE DEF W, g, fr, e
<1>5. ASSUME e.ignored < From(e.first)
      PROVE  e.frames = [k \in 1 .. e.at - From(e.first) + 1 |-> From(e.first) + k - 1]
  <2>1. Len(W) = window + 1 - fr + 1
    BY <1>1, <1>2, <1>3, <1>4, <1>5
  <2>2. \A k \in 1 .. Len(W) : window + 1 - (Len(W) - k) = fr + k - 1 /\ fr + k - 1 > g
    BY <1>1, <1>2, <1>3, <1>4, <1>5, <2>1
  <2>3. \A k \in 1 .. Len(W) : W[k] = fr + k - 1
    BY <1>3, <2>2
  <2>4. e.frames \in Seq(Nat) /\ Len(e.frames) = e.at - From(e.first) + 1
    <3>1. e.frames \in Seq(Nat)
      BY <1>3, <1>4
    <3>2. Len(e.frames) = window + 1 - fr + 1
      BY <1>4, <2>1
    <3>3. e.at - From(e.first) + 1 = window + 1 - fr + 1
      BY ONLY <1>1, <1>2, <1>4
    <3>4. QED
      BY ONLY <3>1, <3>2, <3>3
  <2>5. \A k \in 1 .. Len(e.frames) : e.frames[k] = From(e.first) + k - 1
    BY <1>4, <2>3
  <2>6. QED
    BY <2>4, <2>5, Consecutive
<1>6. IsSpeech(e)
  BY <1>5 DEF IsSpeech
<1>7. QED
  BY <1>6 DEF e, W, g

\* Where the speech and its audio start.
LEMMA StartNumbers ==
    ASSUME VadTypes, SpeechInv
    PROVE  /\ SpeechStart \in Nat /\ SpeechStart >= 1 /\ SpeechStart <= window + 1
           /\ From(SpeechStart) \in Nat /\ From(SpeechStart) >= 1
           /\ From(SpeechStart) <= SpeechStart
           /\ SpeechStart > Prefix => From(SpeechStart) = SpeechStart - Prefix
           /\ SpeechStart <= Prefix => From(SpeechStart) = 1
<1>1. window \in Nat /\ voice \in Nat /\ voice <= window /\ first \in Nat /\ first <= window
      /\ Prefix \in Nat
  BY VadNumbers
<1>2. SpeechStart \in Nat /\ SpeechStart >= 1 /\ SpeechStart <= window + 1
  BY <1>1 DEF SpeechStart, SpeechInv
<1>3. QED
  BY <1>1, <1>2 DEF From

\* The padding is kept.
LEMMA PaddingKept ==
    ASSUME VadTypes, NEW b \in Seq(Nat)
    PROVE  /\ Vad!Reset(b) \in Seq(Nat) /\ Len(Vad!Reset(b)) \in Nat /\ Len(b) \in Nat
           /\ Len(b) <= Prefix => Vad!Reset(b) = b
           /\ Len(b) > Prefix =>
                 /\ Len(Vad!Reset(b)) = Prefix
                 /\ \A k \in 1 .. Prefix : Vad!Reset(b)[k] = b[Len(b) - Prefix + k]
<1>1. Prefix \in Nat /\ Len(b) \in Nat
  BY VadNumbers
<1>2. CASE Len(b) <= Prefix
  BY <1>1, <1>2 DEF Vad!Reset
<1>3. CASE Len(b) > Prefix
  <2>1. Vad!Reset(b) = SubSeq(b, Len(b) - Prefix + 1, Len(b))
    BY <1>1, <1>3 DEF Vad!Reset
  <2>2. Len(b) - Prefix + 1 \in 1 .. Len(b) + 1 /\ Len(b) \in 1 .. Len(b)
    BY <1>1, <1>3
  <2>3. /\ SubSeq(b, Len(b) - Prefix + 1, Len(b)) \in Seq(Nat)
        /\ Len(SubSeq(b, Len(b) - Prefix + 1, Len(b))) = Prefix
    BY <1>1, <2>2
  <2>4. \A k \in 1 .. Prefix :
           SubSeq(b, Len(b) - Prefix + 1, Len(b))[k] = b[Len(b) - Prefix + k]
    BY <1>1, <2>2
  <2>5. QED
    BY <1>1, <1>3, <2>1, <2>3, <2>4
<1>4. QED
  BY <1>1, <1>2, <1>3

\* The buffer holds what it should with one more window of the same speech.
LEMMA BufferGrows ==
    ASSUME VadTypes, SpeechInv, BufferInv, window' = window + 1, buffer' = Vad!Written,
           ignored' = Vad!Ignored, cut' = cut, SpeechStart' = SpeechStart,
           ~cut => index' = Len(buffer')
    PROVE  BufferInv'
<1> SUFFICES ASSUME ~cut' PROVE BufferInv'
  BY DEF BufferInv
<1>1. ~cut
  BY Zenon
<1>2. window \in Nat /\ window' \in Nat
  BY VadNumbers
<1>3. SpeechStart \in Nat /\ From(SpeechStart) \in Nat
  BY StartNumbers
<1>4. /\ Len(buffer') <= window' /\ index' = Len(buffer') /\ Len(buffer') \in Nat
      /\ ignored' < SpeechStart' => Len(buffer') = window' + 1 - From(SpeechStart')
      /\ ignored' >= SpeechStart' => Len(buffer') >= Prefix
  <2>1. Len(Vad!Written) = window + 2 - From(SpeechStart) =>
           Len(Vad!Written) = window' + 1 - From(SpeechStart)
    BY <1>2, <1>3
  <2>2. QED
    BY <1>1, <1>2, <2>1, WrittenHolds
<1>5. \A k \in 1 .. Len(buffer') : window' - (Len(buffer') - k) > ignored' =>
          buffer'[k] = window' - (Len(buffer') - k)
  BY <1>1, <1>2, WrittenHolds
<1>6. From(SpeechStart)' = From(SpeechStart')
  BY DEF From
<1>7. QED
  BY <1>4, <1>5, <1>6 DEF BufferInv

\* No speech is on: the buffer holds the padding of the next.
LEMMA BufferResets ==
    ASSUME VadTypes, SpeechInv, BufferInv, window' = window + 1,
           buffer' = Vad!Reset(Vad!Written), ignored' = Vad!Ignored, cut' = cut,
           SpeechStart' = window + 2, ~cut => index' = Len(buffer')
    PROVE  BufferInv'
<1> SUFFICES ASSUME ~cut' PROVE BufferInv'
  BY DEF BufferInv
<1> DEFINE W == Vad!Written
           st == SpeechStart
           fr == From(SpeechStart)
<1>1. ~cut
  BY Zenon
<1>2. window \in Nat /\ Prefix \in Nat /\ index \in Nat /\ size \in Nat /\ size >= Prefix
  BY VadNumbers
<1>3. /\ st \in Nat /\ st <= window + 1 /\ fr \in Nat
      /\ (st > Prefix => fr = st - Prefix) /\ (st <= Prefix => fr = 1)
  BY StartNumbers
<1>4. /\ W \in Seq(Nat) /\ Len(W) \in Nat /\ Len(W) <= window + 1
      /\ Vad!Ignored \in Nat /\ Vad!Ignored <= window + 1
      /\ Vad!Ignored < st => Len(W) = window + 2 - fr
      /\ Vad!Ignored >= st => Len(W) >= Prefix
      /\ \A k \in 1 .. Len(W) :
            window + 1 - (Len(W) - k) > Vad!Ignored => W[k] = window + 1 - (Len(W) - k)
  BY <1>1, WrittenHolds
<1>5. /\ Vad!Reset(W) \in Seq(Nat) /\ Len(Vad!Reset(W)) \in Nat
      /\ Len(W) <= Prefix => Vad!Reset(W) = W
      /\ Len(W) > Prefix =>
            /\ Len(Vad!Reset(W)) = Prefix
            /\ \A k \in 1 .. Prefix : Vad!Reset(W)[k] = W[Len(W) - Prefix + k]
  BY <1>4, PaddingKept
<1>6. buffer' = Vad!Reset(W) /\ window' = window + 1 /\ ignored' = Vad!Ignored
  OBVIOUS
<1> HIDE DEF W, st, fr
<1>7. Len(buffer') = IF window + 1 > Prefix THEN Prefix ELSE window + 1
  <2>1. CASE Len(W) <= Prefix
    BY <1>2, <1>3, <1>4, <1>5, <1>6, <2>1
  <2>2. CASE Len(W) > Prefix
    BY <1>2, <1>4, <1>5, <1>6, <2>2
  <2>3. QED
    BY <1>2, <1>4, <2>1, <2>2
<1>8. From(window + 2) = IF window + 2 > Prefix THEN window + 2 - Prefix ELSE 1
  BY <1>2 DEF From
<1>9. Len(buffer') = window' + 1 - From(window + 2) /\ Len(buffer') <= window'
  BY <1>2, <1>7, <1>8
<1>10. ignored' < SpeechStart'
  BY <1>2, <1>4
<1>11. \A k \in 1 .. Len(buffer') : window' - (Len(buffer') - k) > ignored' =>
           buffer'[k] = window' - (Len(buffer') - k)
  <2>1. CASE Len(W) <= Prefix
    <3>1. buffer' = W
      BY <1>5, <1>6, <2>1
    <3>2. SUFFICES ASSUME NEW k \in 1 .. Len(buffer'), window' - (Len(buffer') - k) > ignored'
                   PROVE  buffer'[k] = window' - (Len(buffer') - k)
      OBVIOUS
    <3>3. k \in 1 .. Len(W) /\ window + 1 - (Len(W) - k) > Vad!Ignored
      BY <1>2, <1>4, <1>6, <3>1, <3>2
    <3>4. W[k] = window + 1 - (Len(W) - k)
      BY <1>4, <3>3
    <3>5. QED
      BY <1>2, <1>4, <1>6, <3>1, <3>4
  <2>2. CASE Len(W) > Prefix
    <3>1. \A k \in 1 .. Prefix :
             /\ Len(W) - Prefix + k \in 1 .. Len(W)
             /\ window + 1 - (Len(W) - (Len(W) - Prefix + k)) = window' - (Prefix - k)
      BY <1>2, <1>4, <2>2
    <3>2. QED
      BY <1>4, <1>5, <1>6, <2>2, <3>1
  <2>3. Len(W) <= Prefix \/ Len(W) > Prefix
    BY <1>2, <1>4
  <2>4. QED
    BY <2>1, <2>2, <2>3, Zenon
<1>12. From(SpeechStart)' = From(window + 2)
  BY DEF From
<1>13. index' = Len(buffer') /\ ~(ignored' >= SpeechStart')
  BY <1>1, <1>2, <1>4
<1>14. QED
  BY <1>9, <1>11, <1>12, <1>13 DEF BufferInv

\* An event is told: it follows the last one.
LEMMA EventTold ==
    ASSUME VadTypes, EventsInv, AudioInv, NEW e \in Event, inbox' = Append(inbox, e),
           events' = events, first' = e.first, cut' = cut,
           \/ e.type = "START" /\ ~speaking /\ speaking' /\ e.first > first
           \/ e.type = "END" /\ speaking /\ ~speaking' /\ e.first = first,
           ~cut => IsSpeech(e)
    PROVE  inbox' \in Seq(Event) /\ EventsInv' /\ AudioInv'
<1> DEFINE n == Len(inbox)
<1>1. n \in Nat /\ inbox \in Seq(Event) /\ events \in Seq(Event) /\ Len(events) \in Nat
  BY DEF VadTypes
<1>2. /\ inbox' \in Seq(Event) /\ Len(inbox') = n + 1 /\ inbox'[n + 1] = e /\ inbox' # <<>>
      /\ \A i \in 1 .. n : inbox'[i] = inbox[i]
  BY <1>1
<1> HIDE DEF n
<1>3. \A i \in 1 .. n + 1 : i \in 1 .. n \/ i = n + 1
  BY <1>1
<1>4. \A x : IsLast(x) => Follows(x, e)
  BY DEF IsLast, Follows
<1>5. IsLast(e)'
  BY DEF IsLast
<1>6. \A i \in 1 .. Len(inbox') : inbox'[i].type # "FINAL"
  BY <1>2, <1>3 DEF EventsInv, n
<1>7. \A i \in 1 .. Len(inbox') - 1 : Follows(inbox'[i], inbox'[i + 1])
  <2> SUFFICES ASSUME NEW i \in 1 .. n PROVE Follows(inbox'[i], inbox'[i + 1])
    BY <1>1, <1>2
  <2>1. CASE i = n
    <3>1. n > 0 /\ inbox # <<>> /\ IsLast(inbox[n])
      BY <1>1, <2>1 DEF EventsInv, n
    <3>2. QED
      BY <1>2, <1>4, <2>1, <3>1
  <2>2. CASE i # n
    <3>1. i \in 1 .. n - 1 /\ i + 1 \in 1 .. n
      BY <1>1, <2>2
    <3>2. QED
      BY <1>2, <3>1 DEF EventsInv, n
  <2>3. QED
    BY <2>1, <2>2
<1>8. events # <<>> => Follows(events[Len(events)], inbox'[1])
  <2>1. CASE inbox = <<>>
    BY <1>2, <1>4, <2>1 DEF EventsInv, n
  <2>2. CASE inbox # <<>>
    BY <1>1, <1>2, <2>2 DEF EventsInv, n
  <2>3. QED
    BY <2>1, <2>2
<1>9. EventsInv'
  BY <1>2, <1>5, <1>6, <1>7, <1>8 DEF EventsInv
<1>10. AudioInv'
  <2>1. \A i \in 1 .. Len(inbox') : cut \/ IsSpeech(inbox'[i])
    BY <1>2, <1>3 DEF AudioInv, n
  <2>2. QED
    BY <2>1 DEF AudioInv
<1>11. QED
  BY <1>2, <1>9, <1>10

\* Neither the events nor the speech they tell of change.
LEMMA EventsStay ==
    ASSUME EventsInv, AudioInv, EndInv, inbox' = inbox, events' = events, first' = first,
           speaking' = speaking, recognizer' = recognizer, cut => cut',
           vad' = vad \/ vad = "runs", vad' = "died" => cut'
    PROVE  EventsInv' /\ AudioInv' /\ EndInv'
<1>1. \A x : IsLast(x)' <=> IsLast(x)
  BY Zenon DEF IsLast
<1>2. EventsInv'
  BY <1>1 DEF EventsInv, IsLast
<1>3. AudioInv'
  BY DEF AudioInv
<1>4. EndInv'
  BY DEF EndInv
<1>5. QED
  BY <1>2, <1>3, <1>4

\* The task ends with an exception: only when the buffer was cut.
LEMMA VadDies ==
    ASSUME VadInv, Vad!Die, Vad!Torn, vad = "runs", size' = size, updates' = updates,
           cut' = cut, recognizer' = recognizer, events' = events
    PROVE  VadInv'
<1>1. /\ vad' = "died" /\ window' = window /\ voice' = voice /\ silence' = silence
      /\ first' = first /\ ignored' = ignored /\ buffer' = buffer /\ index' = index
      /\ inbox' = inbox
  BY DEF Vad!Die, Vad!speechVars
<1>2. speaking' = speaking
  BY Zenon DEF Vad!Die, Vad!speechVars
<1>3. speaking' \in BOOLEAN /\ cut' \in BOOLEAN /\ (cut => cut')
  BY <1>2, Zenon DEF VadInv
<1>4. VadTypes /\ SpeechInv /\ BufferInv /\ AudioInv /\ EventsInv /\ EndInv
  BY DEF VadInv
<1>5. cut'
  <2>1. index \in Nat /\ Len(buffer) \in Nat
    BY <1>4, VadNumbers
  <2>2. cut
    BY <1>4, <2>1 DEF Vad!Torn, BufferInv
  <2>3. QED
    BY <2>2, Zenon
<1>6. VadTypes'
  BY <1>1, <1>4 DEF VadTypes, Vad!Least
<1>7. SpeechInv'
  BY <1>1, <1>2, <1>4 DEF SpeechInv
<1>8. BufferInv'
  BY <1>5 DEF BufferInv
<1>9. EventsInv' /\ AudioInv' /\ EndInv'
  BY <1>1, <1>2, <1>3, <1>4, <1>5, EventsStay
<1>10. QED
  BY <1>3, <1>6, <1>7, <1>8, <1>9 DEF VadInv

\* What a window leaves alone, and what it does to the buffer.
WindowHeard ==
    /\ window < MaxWindows /\ window' = window + 1 /\ ignored' = Vad!Ignored
    /\ size' = size /\ updates' = updates /\ vad = "runs" /\ vad' = vad
    /\ recognizer' = recognizer /\ events' = events

\* The types of what a window changes.
LEMMA WindowTypes ==
    ASSUME VadTypes, WindowHeard, voice' \in 0 .. window', silence' \in 0 .. window',
           first' \in 0 .. window', index' \in Nat, buffer' \in Seq(Nat),
           Len(buffer') = Vad!Least(index', size), inbox' \in Seq(Event)
    PROVE  VadTypes'
<1>1. window' \in 0 .. MaxWindows
  BY VadNumbers DEF WindowHeard
<1>2. ignored' \in 0 .. window'
  <2>1. Vad!Ignored = ignored \/ Vad!Ignored = window + 1
    BY DEF Vad!Ignored
  <2>2. QED
    BY <2>1, VadNumbers DEF WindowHeard
<1>3. size' = size /\ Len(buffer') = Vad!Least(index', size')
  BY DEF WindowHeard
<1>4. QED
  BY <1>1, <1>2, <1>3 DEF VadTypes, WindowHeard

\* The record of an event.
LEMMA EventTypes ==
    ASSUME VadTypes, NEW type \in {"START", "END"}, NEW since \in Nat, NEW e,
           e = [type |-> type, frames |-> Vad!Written, at |-> window + 1, first |-> since,
                ignored |-> Vad!Ignored]
    PROVE  e \in Event /\ e.first = since /\ e.type = type
<1>1. Vad!Written \in Seq(Nat)
  BY WindowWritten
<1>2. window + 1 \in Nat /\ Vad!Ignored \in Nat
  BY VadNumbers DEF Vad!Ignored
<1>3. QED
  BY <1>1, <1>2 DEF Event

\* A window with voice.
LEMMA VadVoice ==
    ASSUME VadInv, Vad!Voice
    PROVE  VadInv'
<1> DEFINE starts == ~speaking /\ voice + 1 >= MinSpeech
           since == window + 1 - voice
           e == [type |-> "START", frames |-> Vad!Written, at |-> window + 1,
                 first |-> since, ignored |-> Vad!Ignored]
<1>1. VadTypes /\ SpeechInv /\ BufferInv /\ AudioInv /\ EventsInv /\ EndInv
  BY DEF VadInv
<1>2. cut' = cut
  BY Zenon DEF Vad!Voice
<1>3. CASE Vad!Torn /\ starts
  <2>1. Vad!Die /\ vad = "runs" /\ size' = size /\ updates' = updates
        /\ recognizer' = recognizer /\ events' = events
    BY <1>3 DEF Vad!Voice, Vad!adapterVars
  <2>2. QED
    BY <1>2, <1>3, <2>1, VadDies
<1>4. CASE ~(Vad!Torn /\ starts)
  <2>1. /\ WindowHeard /\ voice' = voice + 1 /\ silence' = 0 /\ buffer' = Vad!Written
        /\ index' = IF index < size THEN index + 1 ELSE index
    BY <1>4 DEF Vad!Voice, Vad!adapterVars, WindowHeard
  <2>2. /\ window \in Nat /\ window' = window + 1 /\ voice \in Nat /\ voice <= window
        /\ index \in Nat /\ size \in Nat /\ first \in Nat /\ first <= window
        /\ Len(buffer) \in Nat
        /\ (index < size => Len(buffer) = index) /\ (index >= size => Len(buffer) = size)
    BY <1>1, <2>1, VadNumbers DEF WindowHeard
  <2>3. /\ Vad!Written \in Seq(Nat)
        /\ index < size => Len(Vad!Written) = Len(buffer) + 1
        /\ index >= size => Vad!Written = buffer
    BY <1>1, WindowWritten
  <2>4. index' \in Nat /\ buffer' \in Seq(Nat) /\ Len(buffer') = Vad!Least(index', size)
    BY <2>1, <2>2, <2>3 DEF Vad!Least
  <2>5. ~cut => index' = Len(buffer')
    <3>1. ~cut => index = Len(buffer)
      BY <1>1 DEF BufferInv
    <3>2. QED
      BY <2>1, <2>2, <2>3, <3>1
  <2>6. CASE starts
    <3>1. first' = since /\ inbox' = Append(inbox, e)
      BY <1>4, <2>6 DEF Vad!Voice, Vad!Tell
    <3>2. ~speaking /\ speaking'
      BY <1>4, <2>6, Zenon DEF Vad!Voice
    <3>3. since \in Nat /\ since >= 1 /\ since <= window' /\ since = SpeechStart
      BY <2>2, <3>2 DEF SpeechStart
    <3>4. e \in Event /\ e.first = since /\ e.type = "START"
      BY <1>1, <3>3, EventTypes
    <3>5. ~cut => IsSpeech(e)
      BY <1>1, <3>3, WrittenIsSpeech
    <3>6. since > first
      BY <1>1, <3>2 DEF SpeechInv
    <3> HIDE DEF e, since
    <3>7. inbox' \in Seq(Event) /\ EventsInv' /\ AudioInv'
      BY <1>1, <1>2, <2>1, <3>1, <3>2, <3>4, <3>5, <3>6, EventTold DEF WindowHeard
    <3>8. VadTypes'
      BY <1>1, <2>1, <2>2, <2>4, <3>1, <3>3, <3>7, WindowTypes
    <3>9. SpeechInv'
      BY <3>1, <3>2, <3>3 DEF SpeechInv
    <3>10. SpeechStart' = SpeechStart
      BY <3>1, <3>2, <3>3 DEF SpeechStart
    <3>11. BufferInv'
      BY <1>1, <1>2, <2>1, <2>2, <2>5, <3>10, BufferGrows DEF WindowHeard
    <3>12. EndInv'
      BY <1>1, <1>2, <2>1 DEF EndInv, WindowHeard
    <3>13. speaking' \in BOOLEAN /\ cut' \in BOOLEAN
      BY <1>2, <3>2, Zenon DEF VadInv
    <3>14. QED
      BY <3>7, <3>8, <3>9, <3>11, <3>12, <3>13 DEF VadInv
  <2>7. CASE ~starts
    <3>1. first' = first /\ inbox' = inbox
      BY <1>4, <2>7 DEF Vad!Voice
    <3>2. speaking' = speaking
      BY <1>4, <2>7, Zenon DEF Vad!Voice
    <3>3. VadTypes'
      BY <1>1, <2>1, <2>2, <2>4, <3>1, WindowTypes DEF VadTypes
    <3>4. SpeechInv'
      BY <1>1, <2>1, <2>2, <3>1, <3>2 DEF SpeechInv
    <3>5. SpeechStart' = SpeechStart
      BY <2>1, <2>2, <3>1, <3>2 DEF SpeechStart
    <3>6. BufferInv'
      BY <1>1, <1>2, <2>1, <2>2, <2>5, <3>5, BufferGrows DEF WindowHeard
    <3>7. EventsInv' /\ AudioInv' /\ EndInv'
      BY <1>1, <1>2, <2>1, <3>1, <3>2, EventsStay DEF WindowHeard
    <3>8. speaking' \in BOOLEAN /\ cut' \in BOOLEAN
      BY <1>2, <3>2, Zenon DEF VadInv
    <3>9. QED
      BY <3>3, <3>4, <3>6, <3>7, <3>8 DEF VadInv
  <2>8. QED
    BY <2>6, <2>7
<1>5. QED
  BY <1>3, <1>4

\* A window without voice.
LEMMA VadSilence ==
    ASSUME VadInv, Vad!Silence
    PROVE  VadInv'
<1> DEFINE long == silence + 1 >= MinSilence
           e == [type |-> "END", frames |-> Vad!Written, at |-> window + 1,
                 first |-> first, ignored |-> Vad!Ignored]
<1>1. VadTypes /\ SpeechInv /\ BufferInv /\ AudioInv /\ EventsInv /\ EndInv
  BY DEF VadInv
<1>2. cut' = cut
  BY Zenon DEF Vad!Silence
<1>3. CASE Vad!Torn /\ (~speaking \/ long)
  <2>1. Vad!Die /\ vad = "runs" /\ size' = size /\ updates' = updates
        /\ recognizer' = recognizer /\ events' = events
    BY <1>3 DEF Vad!Silence, Vad!adapterVars
  <2>2. QED
    BY <1>2, <1>3, <2>1, VadDies
<1>4. CASE ~(Vad!Torn /\ (~speaking \/ long))
  <2>1. /\ WindowHeard /\ voice' = 0 /\ silence' = silence + 1 /\ first' = first
        /\ buffer' = Vad!AfterSilence(Vad!Written)
        /\ index' = IF Vad!Torn THEN index ELSE Len(Vad!AfterSilence(Vad!Written))
    BY <1>4 DEF Vad!Silence, Vad!adapterVars, WindowHeard
  <2>2. /\ window \in Nat /\ window' = window + 1 /\ voice \in Nat /\ voice <= window
        /\ index \in Nat /\ size \in Nat /\ first \in Nat /\ first <= window
        /\ silence \in Nat /\ silence <= window /\ Len(buffer) \in Nat
        /\ (index < size => Len(buffer) = index) /\ (index >= size => Len(buffer) = size)
        /\ Prefix \in Nat
    BY <1>1, <2>1, VadNumbers DEF WindowHeard
  <2>3. /\ Vad!Written \in Seq(Nat) /\ Len(Vad!Written) \in Nat
        /\ index < size => Len(Vad!Written) = Len(buffer) + 1
        /\ index >= size => Vad!Written = buffer
    BY <1>1, WindowWritten
  <2>4. Len(Vad!Written) <= size
    BY <2>2, <2>3
  <2>5. ~cut => ~Vad!Torn
    BY <1>1, <2>2 DEF BufferInv, Vad!Torn
  <2>6. /\ Vad!Reset(Vad!Written) \in Seq(Nat) /\ Len(Vad!Reset(Vad!Written)) \in Nat
        /\ Len(Vad!Reset(Vad!Written)) <= Len(Vad!Written)
    <3>1. /\ Vad!Reset(Vad!Written) \in Seq(Nat) /\ Len(Vad!Reset(Vad!Written)) \in Nat
          /\ Len(Vad!Written) <= Prefix => Vad!Reset(Vad!Written) = Vad!Written
          /\ Len(Vad!Written) > Prefix => Len(Vad!Reset(Vad!Written)) = Prefix
      BY <1>1, <2>3, PaddingKept
    <3>2. QED
      BY <2>2, <2>3, <3>1
  <2>7. ~cut => index' = Len(buffer')
    BY <2>1, <2>5
  <2>8. CASE speaking /\ ~long
    <3>1. buffer' = Vad!Written
      BY <2>1, <2>8 DEF Vad!AfterSilence
    <3>2. inbox' = inbox
      BY <1>4, <2>8 DEF Vad!Silence
    <3>3. speaking' = speaking
      BY <1>4, <2>8, Zenon DEF Vad!Silence
    <3>4. index' \in Nat /\ buffer' \in Seq(Nat) /\ Len(buffer') = Vad!Least(index', size)
      <4>1. CASE Vad!Torn
        <5>1. index >= size /\ Vad!Written = buffer /\ index' = index
          BY <2>1, <2>2, <2>3, <4>1 DEF Vad!Torn
        <5>2. QED
          BY <2>2, <2>3, <3>1, <5>1 DEF Vad!Least
      <4>2. CASE ~Vad!Torn
        <5>1. index' = Len(Vad!Written)
          BY <2>1, <3>1, <4>2
        <5>2. QED
          BY <2>2, <2>3, <2>4, <3>1, <5>1 DEF Vad!Least
      <4>3. QED
        BY <4>1, <4>2
    <3>5. VadTypes'
      BY <1>1, <2>1, <2>2, <3>2, <3>4, WindowTypes DEF VadTypes
    <3>6. SpeechInv'
      BY <1>1, <2>1, <2>8, <3>3 DEF SpeechInv
    <3>7. SpeechStart' = SpeechStart
      BY <2>1, <2>8, <3>3 DEF SpeechStart
    <3>8. BufferInv'
      BY <1>1, <1>2, <2>1, <2>2, <2>7, <3>1, <3>7, BufferGrows DEF WindowHeard
    <3>9. EventsInv' /\ AudioInv' /\ EndInv'
      BY <1>1, <1>2, <2>1, <3>2, <3>3, EventsStay DEF WindowHeard
    <3>10. speaking' \in BOOLEAN /\ cut' \in BOOLEAN
      BY <1>2, <3>3, Zenon DEF VadInv
    <3>11. QED
      BY <3>5, <3>6, <3>8, <3>9, <3>10 DEF VadInv
  <2>9. CASE ~speaking \/ long
    <3>1. buffer' = Vad!Reset(Vad!Written) /\ ~Vad!Torn
      BY <1>4, <2>1, <2>9 DEF Vad!AfterSilence
    <3>2. index' \in Nat /\ buffer' \in Seq(Nat) /\ Len(buffer') = Vad!Least(index', size)
      <4>1. index' = Len(buffer') /\ Len(buffer') \in Nat /\ Len(buffer') <= size
        BY <2>1, <2>2, <2>3, <2>4, <2>6, <3>1
      <4>2. QED
        BY <2>2, <2>6, <3>1, <4>1 DEF Vad!Least
    <3>3. ~speaking'
      <4>1. CASE speaking
        BY <1>4, <2>9, <4>1, Zenon DEF Vad!Silence
      <4>2. CASE ~speaking
        <5>1. speaking' = speaking
          BY <1>4, <4>2, Zenon DEF Vad!Silence
        <5>2. QED
          BY <4>2, <5>1, Zenon
      <4>3. QED
        BY <4>1, <4>2
    <3>4. SpeechStart' = window + 2
      BY <2>1, <2>2, <3>3 DEF SpeechStart
    <3>5. BufferInv'
      BY <1>1, <1>2, <2>1, <2>2, <2>7, <3>1, <3>4, BufferResets DEF WindowHeard
    <3>6. SpeechInv'
      BY <2>1, <2>2, <3>3 DEF SpeechInv
    <3>7. speaking' \in BOOLEAN /\ cut' \in BOOLEAN
      <4>1. CASE speaking
        BY <1>2, <1>4, <2>9, <4>1, Zenon DEF Vad!Silence, VadInv
      <4>2. CASE ~speaking
        <5>1. speaking' = speaking
          BY <1>4, <4>2, Zenon DEF Vad!Silence
        <5>2. QED
          BY <1>2, <5>1, Zenon DEF VadInv
      <4>3. QED
        BY <4>1, <4>2
    <3>8. CASE speaking
      <4>1. inbox' = Append(inbox, e)
        BY <1>4, <2>9, <3>8 DEF Vad!Silence, Vad!Tell
      <4>2. e \in Event /\ e.first = first /\ e.type = "END"
        BY <1>1, <2>2, EventTypes
      <4>3. ~cut => IsSpeech(e)
        <5>1. SpeechStart = first
          BY <3>8 DEF SpeechStart
        <5>2. QED
          BY <1>1, <5>1, WrittenIsSpeech
      <4> HIDE DEF e
      <4>4. inbox' \in Seq(Event) /\ EventsInv' /\ AudioInv'
        BY <1>1, <1>2, <2>1, <3>3, <3>8, <4>1, <4>2, <4>3, EventTold DEF WindowHeard
      <4>5. VadTypes'
        BY <1>1, <2>1, <2>2, <3>2, <4>4, WindowTypes
      <4>6. EndInv'
        BY <1>1, <1>2, <2>1 DEF EndInv, WindowHeard
      <4>7. QED
        BY <3>5, <3>6, <3>7, <4>4, <4>5, <4>6 DEF VadInv
    <3>9. CASE ~speaking
      <4>1. inbox' = inbox
        BY <1>4, <3>9 DEF Vad!Silence
      <4>2. speaking' = speaking
        BY <1>4, <3>9, Zenon DEF Vad!Silence
      <4>3. VadTypes'
        BY <1>1, <2>1, <2>2, <3>2, <4>1, WindowTypes DEF VadTypes
      <4>4. EventsInv' /\ AudioInv' /\ EndInv'
        BY <1>1, <1>2, <2>1, <4>1, <4>2, EventsStay DEF WindowHeard
      <4>5. QED
        BY <3>5, <3>6, <3>7, <4>3, <4>4 DEF VadInv
    <3>10. QED
      BY <3>8, <3>9
  <2>10. QED
    BY <2>8, <2>9
<1>5. QED
  BY <1>3, <1>4

\* What a step that hears no window leaves alone.
NoWindow ==
    /\ window' = window /\ voice' = voice /\ silence' = silence /\ first' = first
    /\ ignored' = ignored /\ speaking' = speaking

BufferStays == buffer' = buffer /\ index' = index /\ size' = size /\ cut' = cut

\* The speech and the buffer stay as they are.
LEMMA SpeechStays ==
    ASSUME SpeechInv, BufferInv, NoWindow, BufferStays
    PROVE  SpeechInv' /\ BufferInv'
<1>1. speaking' = speaking
  BY Zenon DEF NoWindow
<1>2. SpeechInv'
  BY <1>1 DEF SpeechInv, NoWindow
<1>3. SpeechStart' = SpeechStart
  BY <1>1 DEF SpeechStart, NoWindow
<1>4. From(SpeechStart)' = From(SpeechStart)
  BY <1>3 DEF From
<1>5. cut' = cut
  BY Zenon DEF BufferStays
<1>6. BufferInv'
  BY <1>3, <1>4, <1>5 DEF BufferInv, NoWindow, BufferStays
<1>7. QED
  BY <1>2, <1>6

\* The input ends.
LEMMA VadEnds ==
    ASSUME VadInv, Vad!EndInput
    PROVE  VadInv'
<1>1. /\ vad = "runs" /\ vad' = "ended" /\ updates' = updates /\ inbox' = inbox
      /\ events' = events /\ recognizer' = recognizer
  BY DEF Vad!EndInput, Vad!adapterVars
<1>2. NoWindow /\ BufferStays
  BY Zenon DEF Vad!EndInput, Vad!speechVars, Vad!bufferVars, NoWindow, BufferStays
<1>3. VadTypes /\ SpeechInv /\ BufferInv /\ AudioInv /\ EventsInv /\ EndInv
  BY DEF VadInv
<1>4. speaking' = speaking /\ cut' = cut /\ first' = first
  BY <1>2, Zenon DEF NoWindow, BufferStays
<1>5. VadTypes'
  BY <1>1, <1>2, <1>3 DEF VadTypes, NoWindow, BufferStays, Vad!Least
<1>6. SpeechInv' /\ BufferInv'
  BY <1>2, <1>3, SpeechStays
<1>7. EventsInv' /\ AudioInv' /\ EndInv'
  BY <1>1, <1>3, <1>4, EventsStay
<1>8. speaking' \in BOOLEAN /\ cut' \in BOOLEAN
  BY <1>4, Zenon DEF VadInv
<1>9. QED
  BY <1>5, <1>6, <1>7, <1>8 DEF VadInv

\* As many zeros as are asked for.
LEMMA ZerosAre ==
    ASSUME NEW n \in Nat
    PROVE  Vad!Zeros(n) \in Seq(Nat) /\ Len(Vad!Zeros(n)) = n
  BY DEF Vad!Zeros

\* The buffer is resized: what it held is kept, as far as there is space.
LEMMA BufferResized ==
    ASSUME VadTypes, NEW m \in Nat, NEW kept, NEW zeros,
           kept = SubSeq(buffer, 1, Vad!Least(Len(buffer), m)),
           zeros = Vad!Zeros(Vad!Least(index, m) - Len(kept))
    PROVE  /\ kept \o zeros \in Seq(Nat) /\ Len(kept \o zeros) = Vad!Least(index, m)
           /\ index = Len(buffer) /\ index <= m => kept \o zeros = buffer
<1> DEFINE k == Vad!Least(Len(buffer), m)
           z == Vad!Least(index, m) - Len(kept)
<1>1. index \in Nat /\ size \in Nat /\ Len(buffer) \in Nat /\ Len(buffer) <= index
  BY VadNumbers
<1>2. buffer \in Seq(Nat)
  BY DEF VadTypes
<1>3. k \in Nat /\ k <= Len(buffer)
  BY <1>1 DEF Vad!Least
<1>4. /\ Vad!Least(index, m) \in Nat /\ k <= Vad!Least(index, m)
      /\ index = Len(buffer) /\ index <= m => k = Len(buffer) /\ Vad!Least(index, m) = k
  BY <1>1 DEF Vad!Least
<1>5. kept = SubSeq(buffer, 1, k) /\ zeros = Vad!Zeros(z)
  OBVIOUS
<1> HIDE DEF k
<1>6. kept \in Seq(Nat) /\ Len(kept) = k
  <2>1. \A i \in 1 .. k : buffer[i] \in Nat
    BY <1>1, <1>2, <1>3
  <2>2. /\ SubSeq(buffer, 1, k) \in Seq(Nat)
        /\ Len(SubSeq(buffer, 1, k)) = IF 1 <= k THEN k - 1 + 1 ELSE 0
    BY ONLY <1>3, <2>1, SubSeqProperties
  <2>3. (IF 1 <= k THEN k - 1 + 1 ELSE 0) = k
    BY <1>3
  <2>4. QED
    BY ONLY <1>5, <2>2, <2>3
<1>7. z \in Nat /\ z = Vad!Least(index, m) - k
  BY <1>3, <1>4, <1>6
<1> HIDE DEF z
<1>8. zeros \in Seq(Nat) /\ Len(zeros) = z
  BY <1>5, <1>7, ZerosAre
<1>9. kept \o zeros \in Seq(Nat) /\ Len(kept \o zeros) = k + z
  BY <1>6, <1>8, ConcatProperties
<1>10. k + z = Vad!Least(index, m)
  BY <1>3, <1>4, <1>7
<1>11. ASSUME index = Len(buffer), index <= m
       PROVE  kept \o zeros = buffer
  <2>1. kept = buffer
    BY <1>2, <1>4, <1>5, <1>11, SubSeqFull
  <2>2. zeros = <<>>
    <3>1. z = 0
      BY <1>3, <1>4, <1>7, <1>11
    <3>2. QED
      BY <1>8, <3>1, EmptySeq
  <2>3. QED
    BY <1>2, <2>1, <2>2, ConcatEmptySeq
<1>12. QED
  BY <1>9, <1>10, <1>11

\* The options are updated, and the buffer is resized.
LEMMA VadUpdates ==
    ASSUME VadInv, NEW b \in Buffered, Vad!UpdateOptions(b)
    PROVE  VadInv'
<1> DEFINE m == b + Prefix
<1>1. /\ vad = "runs" /\ vad' = vad /\ updates < MaxUpdates /\ updates' = updates + 1
      /\ size' = m /\ index' = index /\ inbox' = inbox /\ events' = events
      /\ recognizer' = recognizer
  BY DEF Vad!UpdateOptions, Vad!adapterVars
<1>2. NoWindow
  BY Zenon DEF Vad!UpdateOptions, Vad!speechVars, NoWindow
<1>3. VadTypes /\ SpeechInv /\ BufferInv /\ AudioInv /\ EventsInv /\ EndInv
  BY DEF VadInv
<1>4. b \in Nat /\ Prefix \in Nat /\ m \in Nat /\ MaxUpdates \in Nat
  BY MediaAssumption
<1>5. index \in Nat /\ Len(buffer) \in Nat
  BY <1>3, VadNumbers
<1>6. cut' = (cut \/ m < index)
  BY Zenon DEF Vad!UpdateOptions
<1>7. /\ buffer' \in Seq(Nat) /\ Len(buffer') = Vad!Least(index, m)
      /\ index = Len(buffer) /\ index <= m => buffer' = buffer
  <2> DEFINE kept == SubSeq(buffer, 1, Vad!Least(Len(buffer), m))
             zeros == Vad!Zeros(Vad!Least(index, m) - Len(kept))
  <2>1. buffer' = kept \o zeros
    BY DEF Vad!UpdateOptions
  <2> HIDE DEF kept, zeros, m
  <2>2. /\ kept \o zeros \in Seq(Nat) /\ Len(kept \o zeros) = Vad!Least(index, m)
        /\ index = Len(buffer) /\ index <= m => kept \o zeros = buffer
    BY <1>3, <1>4, BufferResized DEF kept, zeros
  <2>3. QED
    BY <2>1, <2>2
<1>8. speaking' = speaking /\ first' = first
  BY <1>2, Zenon DEF NoWindow
<1>9. speaking' \in BOOLEAN /\ cut' \in BOOLEAN /\ (cut => cut')
  BY <1>6, <1>8, Zenon DEF VadInv
<1>10. VadTypes'
  <2>1. size' \in {c + Prefix : c \in Buffered}
    BY <1>1
  <2>2. updates' \in 0 .. MaxUpdates
    BY <1>1, <1>3, <1>4 DEF VadTypes
  <2>3. Len(buffer') = Vad!Least(index', size')
    BY <1>1, <1>7 DEF Vad!Least
  <2>4. QED
    BY <1>1, <1>2, <1>3, <1>7, <2>1, <2>2, <2>3 DEF VadTypes, NoWindow
<1>11. SpeechInv'
  BY <1>2, <1>3, <1>8 DEF SpeechInv, NoWindow
<1>12. BufferInv'
  <2>1. ASSUME ~cut' PROVE BufferInv'
    <3>1. ~cut /\ ~(m < index)
      BY <1>6, <2>1, Zenon
    <3>2. index = Len(buffer) /\ index <= m
      BY <1>3, <1>4, <1>5, <3>1 DEF BufferInv
    <3>3. buffer' = buffer
      BY <1>7, <3>2
    <3>4. SpeechStart' = SpeechStart
      BY <1>2, <1>8 DEF SpeechStart, NoWindow
    <3>5. From(SpeechStart)' = From(SpeechStart)
      BY <3>4 DEF From
    <3>6. QED
      BY <1>1, <1>2, <1>3, <3>1, <3>3, <3>4, <3>5 DEF BufferInv, NoWindow
  <2>2. QED
    BY <2>1 DEF BufferInv
<1>13. EventsInv' /\ AudioInv' /\ EndInv'
  <2>1. vad' = "died" => cut'
    BY <1>1
  <2>2. QED
    BY <1>1, <1>3, <1>8, <1>9, <2>1, EventsStay
<1>14. QED
  BY <1>9, <1>10, <1>11, <1>12, <1>13 DEF VadInv

\* An event is read: it follows those that were read before.
LEMMA EventRead ==
    ASSUME VadTypes, EventsInv, AudioInv, inbox # <<>>, inbox' = Tail(inbox),
           events' = Append(events, Head(inbox)), first' = first, cut' = cut,
           speaking' = speaking
    PROVE  /\ inbox' \in Seq(Event) /\ events' \in Seq(Event)
           /\ events' # <<>> /\ events'[Len(events')] = Head(inbox)
           /\ EventsInv' /\ AudioInv'
<1> DEFINE n == Len(inbox)
           m == Len(events)
<1>1. inbox \in Seq(Event) /\ events \in Seq(Event) /\ n \in Nat /\ n > 0 /\ m \in Nat
  <2>1. inbox \in Seq(Event) /\ events \in Seq(Event)
    BY DEF VadTypes
  <2>2. QED
    BY <2>1, EmptySeq, LenProperties
<1>2. /\ inbox' \in Seq(Event) /\ Len(inbox') = n - 1
      /\ \A i \in 1 .. n - 1 : inbox'[i] = inbox[i + 1]
      /\ Head(inbox) = inbox[1] /\ Head(inbox) \in Event
  BY <1>1
<1>3. /\ events' \in Seq(Event) /\ Len(events') = m + 1 /\ events'[m + 1] = inbox[1]
      /\ \A i \in 1 .. m : events'[i] = events[i]
  BY <1>1, <1>2
<1> HIDE DEF n, m
<1>4. /\ inbox' # <<>> <=> n > 1
      /\ events' # <<>> /\ (events # <<>> <=> m > 0)
  BY <1>1, <1>2, <1>3 DEF m
<1>5. \A x : IsLast(x)' <=> IsLast(x)
  BY Zenon DEF IsLast
<1>6. \A i \in 1 .. Len(inbox') : inbox'[i].type # "FINAL"
  <2>1. \A i \in 1 .. n - 1 : i + 1 \in 1 .. n
    BY <1>1
  <2>2. QED
    BY <1>1, <1>2, <2>1 DEF EventsInv, n
<1>7. \A i \in 1 .. Len(inbox') - 1 : Follows(inbox'[i], inbox'[i + 1])
  <2> SUFFICES ASSUME NEW i \in 1 .. n - 2 PROVE Follows(inbox'[i], inbox'[i + 1])
    BY <1>1, <1>2
  <2>1. i \in 1 .. n - 1 /\ i + 1 \in 1 .. n - 1 /\ i \in Nat
    BY <1>1
  <2>2. inbox'[i] = inbox[i + 1] /\ inbox'[i + 1] = inbox[(i + 1) + 1]
    BY <1>2, <2>1
  <2>3. Follows(inbox[i + 1], inbox[(i + 1) + 1])
    BY <2>1 DEF EventsInv, n
  <2>4. QED
    BY <2>2, <2>3
<1>8. \A i \in 1 .. Len(events') - 1 : Follows(events'[i], events'[i + 1])
  <2> SUFFICES ASSUME NEW i \in 1 .. m PROVE Follows(events'[i], events'[i + 1])
    BY <1>1, <1>3
  <2>1. CASE i = m
    BY <1>1, <1>3, <1>4, <2>1 DEF EventsInv, m
  <2>2. CASE i # m
    <3>1. i \in 1 .. m - 1 /\ i + 1 \in 1 .. m
      BY <1>1, <2>2
    <3>2. QED
      BY <1>3, <3>1 DEF EventsInv, m
  <2>3. QED
    BY <2>1, <2>2
<1>9. inbox' # <<>> => /\ Follows(events'[Len(events')], inbox'[1])
                       /\ IsLast(inbox'[Len(inbox')])
  <2> SUFFICES ASSUME n > 1
               PROVE  Follows(events'[m + 1], inbox'[1]) /\ IsLast(inbox'[n - 1])
    BY <1>2, <1>3, <1>4
  <2>1. 1 \in 1 .. n - 1 /\ n - 1 \in 1 .. n - 1 /\ (n - 1) + 1 = n
    BY <1>1
  <2>2. inbox'[1] = inbox[1 + 1] /\ inbox'[n - 1] = inbox[n]
    BY <1>2, <2>1
  <2>3. Follows(inbox[1], inbox[1 + 1])
    BY <2>1 DEF EventsInv, n
  <2>4. IsLast(inbox[n])
    BY <1>4 DEF EventsInv, n
  <2>5. QED
    BY <1>3, <2>2, <2>3, <2>4
<1>10. inbox' = <<>> => IsLast(events'[Len(events')])
  <2> SUFFICES ASSUME n = 1 PROVE IsLast(inbox[1])
    BY <1>1, <1>2, <1>3, <1>4
  <2>1. QED
    BY <1>1 DEF EventsInv, n
<1>11. EventsInv'
  BY <1>5, <1>6, <1>7, <1>8, <1>9, <1>10 DEF EventsInv
<1>12. AudioInv'
  <2>1. cut' = cut
    BY Zenon
  <2>2. ASSUME ~cut, NEW i \in 1 .. n - 1 PROVE IsSpeech(inbox'[i])
    <3>1. i + 1 \in 1 .. n
      BY <1>1, <2>2
    <3>2. QED
      BY <1>2, <2>2, <3>1 DEF AudioInv, n
  <2>3. ASSUME ~cut, NEW i \in 1 .. m + 1 PROVE IsSpeech(events'[i])
    <3>1. CASE i = m + 1
      <4>1. 1 \in 1 .. n
        BY <1>1
      <4>2. QED
        BY <1>3, <2>3, <3>1, <4>1 DEF AudioInv, n
    <3>2. CASE i # m + 1
      <4>1. i \in 1 .. m
        BY <1>1, <3>2
      <4>2. QED
        BY <1>3, <2>3, <4>1 DEF AudioInv, m
    <3>3. QED
      BY <3>1, <3>2
  <2>4. QED
    BY <1>2, <1>3, <2>1, <2>2, <2>3 DEF AudioInv
<1>13. QED
  BY <1>2, <1>3, <1>4, <1>11, <1>12

\* The result of a recognition is told, or there is none.
LEMMA EventRecognized ==
    ASSUME VadTypes, EventsInv, AudioInv, events # <<>>, events[Len(events)].type = "END",
           events' \in {events, Append(events, [events[Len(events)] EXCEPT !.type = "FINAL"])},
           inbox' = inbox, first' = first, cut' = cut, speaking' = speaking
    PROVE  events' \in Seq(Event) /\ EventsInv' /\ AudioInv'
<1> DEFINE m == Len(events)
           e == [events[m] EXCEPT !.type = "FINAL"]
<1>1. inbox \in Seq(Event) /\ events \in Seq(Event) /\ m \in Nat /\ m > 0
  <2>1. inbox \in Seq(Event) /\ events \in Seq(Event)
    BY DEF VadTypes
  <2>2. QED
    BY <2>1, EmptySeq, LenProperties
<1>2. \A x : IsLast(x)' <=> IsLast(x)
  BY Zenon DEF IsLast
<1>3. CASE events' = events
  <2>1. EventsInv'
    BY <1>2, <1>3 DEF EventsInv
  <2>2. AudioInv'
    BY <1>3 DEF AudioInv
  <2>3. QED
    BY <1>1, <1>3, <2>1, <2>2
<1>4. CASE events' = Append(events, e)
  <2>1. events[m] \in Event
    BY <1>1
  <2>2. /\ e \in Event /\ e.type = "FINAL" /\ e.first = events[m].first
        /\ e.frames = events[m].frames /\ e.at = events[m].at
        /\ e.ignored = events[m].ignored
    BY <2>1 DEF Event
  <2> HIDE DEF e
  <2>3. /\ events' \in Seq(Event) /\ Len(events') = m + 1 /\ events'[m + 1] = e
        /\ events' # <<>> /\ \A i \in 1 .. m : events'[i] = events[i]
    BY <1>1, <1>4, <2>2
  <2>4. events[m].type = "END"
    OBVIOUS
  <2> HIDE DEF m
  <2>5. Follows(events[m], e)
    BY <2>2, <2>4 DEF Follows
  <2>6. \A x : Follows(events[m], x) /\ x.type # "FINAL" => Follows(e, x)
    BY <2>2, <2>4 DEF Follows
  <2>7. IsLast(events[m]) => IsLast(e)
    BY <2>2, <2>4 DEF IsLast
  <2>8. \A i \in 1 .. Len(events') - 1 : Follows(events'[i], events'[i + 1])
    <3> SUFFICES ASSUME NEW i \in 1 .. m PROVE Follows(events'[i], events'[i + 1])
      BY <1>1, <2>3
    <3>1. CASE i = m
      BY <1>1, <2>3, <2>5, <3>1
    <3>2. CASE i # m
      <4>1. i \in 1 .. m - 1 /\ i + 1 \in 1 .. m
        BY <1>1, <3>2
      <4>2. QED
        BY <2>3, <4>1 DEF EventsInv, m
    <3>3. QED
      BY <3>1, <3>2
  <2>9. inbox # <<>> => Follows(e, inbox[1])
    <3> SUFFICES ASSUME inbox # <<>> PROVE Follows(e, inbox[1])
      OBVIOUS
    <3>1. 1 \in 1 .. Len(inbox)
      BY <1>1, EmptySeq
    <3>2. inbox[1].type # "FINAL" /\ Follows(events[m], inbox[1])
      BY <3>1 DEF EventsInv, m
    <3>3. QED
      BY <2>6, <3>2
  <2>10. inbox = <<>> => IsLast(e)
    BY <2>7 DEF EventsInv, m
  <2>11. EventsInv'
    BY <1>2, <2>3, <2>8, <2>9, <2>10 DEF EventsInv
  <2>12. AudioInv'
    <3>1. ASSUME ~cut, NEW i \in 1 .. m + 1 PROVE IsSpeech(events'[i])
      <4>1. CASE i = m + 1
        <5>1. m \in 1 .. m
          BY <1>1
        <5>2. IsSpeech(events[m])
          BY <3>1, <5>1 DEF AudioInv, m
        <5>3. QED
          BY <2>2, <2>3, <4>1, <5>2 DEF IsSpeech
      <4>2. CASE i # m + 1
        <5>1. i \in 1 .. m
          BY <1>1, <4>2
        <5>2. QED
          BY <2>3, <3>1, <5>1 DEF AudioInv, m
      <4>3. QED
        BY <4>1, <4>2
    <3>2. QED
      BY <2>3, <3>1 DEF AudioInv
  <2>13. QED
    BY <2>3, <2>11, <2>12
<1>5. QED
  BY <1>3, <1>4

\* What a step of the adapter leaves alone.
AdapterMoves ==
    /\ NoWindow /\ BufferStays /\ vad' = vad /\ updates' = updates
    /\ recognizer' \in {"reads", "recognizes", "ended", "failed"}

\* A step of the adapter keeps what it does not read.
LEMMA AdapterKeeps ==
    ASSUME VadInv, AdapterMoves, inbox' \in Seq(Event), events' \in Seq(Event)
    PROVE  /\ speaking' \in BOOLEAN /\ cut' \in BOOLEAN /\ speaking' = speaking /\ cut' = cut
           /\ first' = first /\ VadTypes' /\ SpeechInv' /\ BufferInv'
<1>1. NoWindow /\ BufferStays
  BY DEF AdapterMoves
<1>2. speaking' = speaking /\ cut' = cut /\ first' = first
  BY <1>1, Zenon DEF NoWindow, BufferStays
<1>3. speaking' \in BOOLEAN /\ cut' \in BOOLEAN
  BY <1>2, Zenon DEF VadInv
<1>4. VadTypes /\ SpeechInv /\ BufferInv
  BY DEF VadInv
<1>5. VadTypes'
  BY <1>1, <1>4 DEF VadTypes, NoWindow, BufferStays, AdapterMoves, Vad!Least
<1>6. SpeechInv' /\ BufferInv'
  BY <1>1, <1>4, SpeechStays
<1>7. QED
  BY <1>2, <1>3, <1>5, <1>6

\* An event of the detection is read.
LEMMA VadReads ==
    ASSUME VadInv, Vad!ReadStart \/ Vad!ReadEnd
    PROVE  VadInv'
<1>1. /\ recognizer = "reads" /\ inbox # <<>> /\ inbox' = Tail(inbox)
      /\ events' = Append(events, Head(inbox)) /\ vad' = vad /\ updates' = updates
      /\ recognizer' \in {"reads", "recognizes"}
      /\ recognizer' = "recognizes" => Head(inbox).type = "END"
  BY DEF Vad!ReadStart, Vad!ReadEnd, Vad!Reads
<1>2. NoWindow /\ BufferStays
  <2>1. UNCHANGED <<Vad!speechVars, Vad!bufferVars, cut>>
    BY Zenon DEF Vad!ReadStart, Vad!ReadEnd
  <2>2. QED
    BY <2>1, Zenon DEF Vad!speechVars, Vad!bufferVars, NoWindow, BufferStays
<1>3. VadTypes /\ EventsInv /\ AudioInv /\ EndInv
  BY DEF VadInv
<1>4. AdapterMoves
  BY <1>1, <1>2 DEF AdapterMoves
<1>5. speaking' = speaking /\ cut' = cut /\ first' = first
  BY <1>2, Zenon DEF NoWindow, BufferStays
<1>6. /\ inbox' \in Seq(Event) /\ events' \in Seq(Event)
      /\ events' # <<>> /\ events'[Len(events')] = Head(inbox)
      /\ EventsInv' /\ AudioInv'
  BY <1>1, <1>3, <1>5, EventRead
<1>7. EndInv'
  <2>1. vad' = "died" => cut'
    BY <1>1, <1>3, <1>5 DEF EndInv
  <2>2. QED
    BY <1>1, <1>6, <2>1 DEF EndInv
<1>8. QED
  BY <1>4, <1>6, <1>7, AdapterKeeps DEF VadInv

\* The last end of speech is the one that is recognized.
LEMMA LastEndIsLast ==
    ASSUME VadTypes, EndInv, recognizer = "recognizes"
    PROVE  Vad!LastEnd = Len(events)
<1>1. events \in Seq(Event) /\ events # <<>> /\ events[Len(events)].type = "END"
  BY DEF VadTypes, EndInv
<1>2. Len(events) \in Nat \ {0}
  BY <1>1, EmptySeq
<1> DEFINE Is(i) == events[i].type = "END"
                    /\ \A j \in i + 1 .. Len(events) : events[j].type # "END"
<1>3. Len(events) \in 1 .. Len(events) /\ Is(Len(events))
  BY <1>1, <1>2
<1>4. \A i \in 1 .. Len(events) : Is(i) => i = Len(events)
  <2> SUFFICES ASSUME NEW i \in 1 .. Len(events), Is(i), i # Len(events) PROVE FALSE
    OBVIOUS
  <2>1. Len(events) \in i + 1 .. Len(events)
    BY <1>2
  <2>2. QED
    BY <1>1, <2>1
<1>5. Vad!LastEnd = CHOOSE i \in 1 .. Len(events) : Is(i)
  BY DEF Vad!LastEnd
<1> HIDE DEF Is
<1>6. QED
  BY <1>3, <1>4, <1>5

\* recognize() returns.
LEMMA VadRecognizes ==
    ASSUME VadInv, Vad!Recognized
    PROVE  VadInv'
<1>1. /\ recognizer = "recognizes" /\ recognizer' = "reads" /\ inbox' = inbox
      /\ vad' = vad /\ updates' = updates
  BY DEF Vad!Recognized
<1>2. NoWindow /\ BufferStays
  <2>1. UNCHANGED <<Vad!speechVars, Vad!bufferVars, cut>>
    BY Zenon DEF Vad!Recognized
  <2>2. QED
    BY <2>1, Zenon DEF Vad!speechVars, Vad!bufferVars, NoWindow, BufferStays
<1>3. VadTypes /\ EventsInv /\ AudioInv /\ EndInv
  BY DEF VadInv
<1>4. AdapterMoves
  BY <1>1, <1>2 DEF AdapterMoves
<1>5. speaking' = speaking /\ cut' = cut /\ first' = first
  BY <1>2, Zenon DEF NoWindow, BufferStays
<1>6. events # <<>> /\ events[Len(events)].type = "END" /\ Vad!LastEnd = Len(events)
  BY <1>1, <1>3, LastEndIsLast DEF EndInv
<1>7. events' \in {events, Append(events, [events[Len(events)] EXCEPT !.type = "FINAL"])}
  BY <1>6 DEF Vad!Recognized
<1>8. events' \in Seq(Event) /\ EventsInv' /\ AudioInv'
  BY <1>1, <1>3, <1>5, <1>6, <1>7, EventRecognized
<1>9. inbox' \in Seq(Event)
  BY <1>1, <1>3 DEF VadTypes
<1>10. EndInv'
  <2>1. vad' = "died" => cut'
    BY <1>1, <1>3, <1>5 DEF EndInv
  <2>2. QED
    BY <1>1, <2>1 DEF EndInv
<1>11. QED
  BY <1>4, <1>8, <1>9, <1>10, AdapterKeeps DEF VadInv

\* The adapter ends, with an exception or since the detection did.
LEMMA AdapterIsOver ==
    ASSUME VadInv, Vad!RecognizeFails \/ Vad!AdapterEnds
    PROVE  VadInv'
<1>1. /\ recognizer' \in {"ended", "failed"} /\ inbox' = inbox /\ events' = events
      /\ vad' = vad /\ updates' = updates
      /\ recognizer' = "ended" => inbox = <<>> /\ vad = "ended"
  BY DEF Vad!RecognizeFails, Vad!AdapterEnds
<1>2. NoWindow /\ BufferStays
  <2>1. UNCHANGED <<Vad!speechVars, Vad!bufferVars, cut>>
    BY Zenon DEF Vad!RecognizeFails, Vad!AdapterEnds
  <2>2. QED
    BY <2>1, Zenon DEF Vad!speechVars, Vad!bufferVars, NoWindow, BufferStays
<1>3. VadTypes /\ EventsInv /\ AudioInv /\ EndInv
  BY DEF VadInv
<1>4. AdapterMoves
  BY <1>1, <1>2 DEF AdapterMoves
<1>5. speaking' = speaking /\ cut' = cut /\ first' = first
  BY <1>2, Zenon DEF NoWindow, BufferStays
<1>6. inbox' \in Seq(Event) /\ events' \in Seq(Event)
  BY <1>1, <1>3 DEF VadTypes
<1>7. EventsInv' /\ AudioInv'
  <2>1. \A x : IsLast(x)' <=> IsLast(x)
    BY <1>5, Zenon DEF IsLast
  <2>2. EventsInv'
    BY <1>1, <1>3, <2>1 DEF EventsInv
  <2>3. AudioInv'
    BY <1>1, <1>3, <1>5 DEF AudioInv
  <2>4. QED
    BY <2>2, <2>3
<1>8. EndInv'
  <2>1. vad' = "died" => cut'
    BY <1>1, <1>3, <1>5 DEF EndInv
  <2>2. QED
    BY <1>1, <2>1 DEF EndInv
<1>9. QED
  BY <1>4, <1>6, <1>7, <1>8, AdapterKeeps DEF VadInv

\* Another component runs.
LEMMA VadRests ==
    ASSUME VadInv, UNCHANGED vadVars
    PROVE  VadInv'
<1>1. /\ recognizer' = recognizer /\ inbox' = inbox /\ events' = events
      /\ vad' = vad /\ updates' = updates
  BY DEF vadVars
<1>2. NoWindow /\ BufferStays
  BY Zenon DEF vadVars, NoWindow, BufferStays
<1>3. VadTypes /\ EventsInv /\ AudioInv /\ EndInv
  BY DEF VadInv
<1>4. AdapterMoves
  BY <1>1, <1>2, <1>3 DEF AdapterMoves, VadTypes
<1>5. speaking' = speaking /\ cut' = cut /\ first' = first
  BY <1>2, Zenon DEF NoWindow, BufferStays
<1>6. inbox' \in Seq(Event) /\ events' \in Seq(Event)
  BY <1>1, <1>3 DEF VadTypes
<1>7. vad' = "died" => cut'
  BY <1>1, <1>3, <1>5 DEF EndInv
<1>8. EventsInv' /\ AudioInv' /\ EndInv'
  BY <1>1, <1>3, <1>5, <1>7, EventsStay
<1>9. QED
  BY <1>4, <1>6, <1>8, AdapterKeeps DEF VadInv

\* Every step keeps what was shown of each.
LEMMA VadStep == VadInv /\ (Vad!Next \/ UNCHANGED vadVars) => VadInv'
<1> SUFFICES ASSUME VadInv, Vad!Next \/ UNCHANGED vadVars PROVE VadInv'
  OBVIOUS
<1>1. CASE Vad!Voice
  BY <1>1, VadVoice
<1>2. CASE Vad!Silence
  BY <1>2, VadSilence
<1>3. CASE Vad!EndInput
  BY <1>3, VadEnds
<1>4. CASE \E b \in Buffered : Vad!UpdateOptions(b)
  BY <1>4, VadUpdates
<1>5. CASE Vad!ReadStart \/ Vad!ReadEnd
  BY <1>5, VadReads
<1>6. CASE Vad!Recognized
  BY <1>6, VadRecognizes
<1>7. CASE Vad!RecognizeFails \/ Vad!AdapterEnds
  BY <1>7, AdapterIsOver
<1>8. CASE UNCHANGED vadVars
  BY <1>8, VadRests
<1>9. QED
  BY <1>1, <1>2, <1>3, <1>4, <1>5, <1>6, <1>7, <1>8 DEF Vad!Next

\* A speech that started is followed by its end, when there is no speech now and nothing is
\* left to read.
LEMMA StartsEnd ==
    ASSUME VadTypes, EventsInv, inbox = <<>>, ~speaking,
           NEW i \in 1 .. Len(events), events[i].type = "START"
    PROVE  \E j \in i + 1 .. Len(events) :
              events[j].type = "END" /\ events[j].first = events[i].first
<1>1. events \in Seq(Event) /\ Len(events) \in Nat
  BY DEF VadTypes
<1>2. events # <<>>
  BY <1>1
<1>3. i # Len(events)
  BY <1>2 DEF EventsInv, IsLast
<1>4. i \in 1 .. Len(events) - 1 /\ i + 1 \in i + 1 .. Len(events)
  BY <1>1, <1>3
<1>5. Follows(events[i], events[i + 1])
  BY <1>4 DEF EventsInv
<1>6. events[i + 1].type = "END" /\ events[i + 1].first = events[i].first
  BY <1>5 DEF Follows
<1>7. QED
  BY <1>4, <1>6

\* The invariant is what the run checks, and more.
LEMMA VadPromises ==
    VadInv => /\ Vad!TypeOK /\ Vad!AudioIsOfSpeech /\ Vad!SpeechInOrder
              /\ Vad!DetectionGoesOn /\ Vad!SpeechEnds
<1> SUFFICES ASSUME VadInv
             PROVE  /\ Vad!TypeOK /\ Vad!AudioIsOfSpeech /\ Vad!SpeechInOrder
                    /\ Vad!DetectionGoesOn /\ Vad!SpeechEnds
  OBVIOUS
<1>1. VadTypes /\ AudioInv /\ EventsInv /\ EndInv
  BY DEF VadInv
<1>2. events \in Seq(Event) /\ \A i \in 1 .. Len(events) : events[i] \in Event
  BY <1>1 DEF VadTypes
<1>3. Vad!TypeOK
  <2>1. speaking \in BOOLEAN
    BY Zenon DEF VadInv
  <2>2. Len(buffer) <= size
    BY <1>1, VadNumbers
  <2>3. \A i \in 1 .. Len(events) : events[i].type \in {"START", "END", "FINAL"}
    BY <1>2 DEF Event
  <2>4. QED
    BY <1>1, <2>1, <2>2, <2>3 DEF Vad!TypeOK, VadTypes
<1>4. Vad!AudioIsOfSpeech
  <2>1. \A i \in 1 .. Len(events) : cut \/ IsSpeech(events[i])
    BY <1>1 DEF AudioInv
  <2>2. QED
    BY <2>1 DEF Vad!AudioIsOfSpeech, IsSpeech, From
<1>5. Vad!SpeechInOrder
  <2> SUFFICES ASSUME NEW i \in 1 .. Len(events) - 1, NEW a, NEW b,
                      a = events[i], b = events[i + 1]
               PROVE  CASE a.type = "START" -> b.type = "END" /\ b.first = a.first
                        [] a.type = "END" ->
                             b.type # "END" /\ (b.type = "FINAL" => b.frames = a.frames)
                        [] a.type = "FINAL" -> b.type = "START" /\ b.first > a.first
    BY DEF Vad!SpeechInOrder
  <2>1. Follows(a, b)
    BY <1>1 DEF EventsInv
  <2>2. a.type \in {"START", "END", "FINAL"}
    <3>1. i \in 1 .. Len(events)
      BY <1>2
    <3>2. QED
      BY <1>2, <3>1 DEF Event
  <2>3. QED
    BY <2>1, <2>2 DEF Follows
<1>6. Vad!DetectionGoesOn
  BY <1>1 DEF EndInv, Vad!DetectionGoesOn
<1>7. Vad!SpeechEnds
  BY <1>1, StartsEnd DEF EndInv, Vad!SpeechEnds
<1>8. QED
  BY <1>3, <1>4, <1>5, <1>6, <1>7

-----------------------------------------------------------------------------
\* What is recognized is the speech that was detected, without a gap and speech by speech,
\* whatever time the recognition takes and however the buffer is resized meanwhile; unless
\* the buffer was full, or made smaller than what it held.
THEOREM SpeechStaysDetected == MediaSpec => []SpeechIsDetected
<1>1. MediaInit => VadInv
  BY VadStart DEF MediaInit
<1>2. VadInv /\ [MediaNext]_mediaVars => VadInv'
  <2> SUFFICES ASSUME VadInv, [MediaNext]_mediaVars
               PROVE  VadInv'
    OBVIOUS
  <2>1. Vad!Next \/ UNCHANGED vadVars
    BY DEF MediaNext, mediaVars
  <2>2. QED
    BY <2>1, VadStep
<1>3. VadInv => SpeechIsDetected
  BY VadPromises DEF SpeechIsDetected
<1>4. QED
  BY <1>1, <1>2, <1>3, PTL DEF MediaSpec

-----------------------------------------------------------------------------
(* The options of the speech-to-text plugins *)

\* The options that a plugin does not withhold from its streams are those that it stores and
\* passes on; what a session is asked for are options of the stream or, of the recognizer,
\* options whose change is told to all streams.
Passes ==
    /\ Stt!P.opens.language # "none" => \A o \in Stt!P.update.stores \ Stt!Withheld :
          /\ o \in Stt!P.update.passes /\ o \in Stt!P.streamUpdate
          /\ Stt!P.update.calls \in {"always", "passed"}
    /\ Stt!P.opens.language \in {"stream", "both", "ignored", "none"}
    /\ Stt!P.opens.language = "ignored" =>
          "language" \notin Stt!P.keeps \/ "language" \in Stt!Withheld
    /\ Stt!P.opens.language = "both" => sttPlugin = "openai"
    /\ Stt!P.recognizes = "recognizer" =>
          sttPlugin \in {"openai", "fal", "clova", "elevenlabs"}

Asks ==
    /\ sttPlugin = "openai" =>
          "rate" \notin Stt!P.asks.stream /\ Stt!P.keeps \subseteq Stt!Withheld
    /\ sttPlugin # "openai" => \A o \in Stt!P.asks.recognizer :
          o # "language" /\ (o \in Stt!P.update.stores => Stt!P.update.calls = "always")
    /\ Stt!P.asks.stream \subseteq Stt!P.keeps
    /\ "rate" \notin Stt!P.asks.recognizer /\ "rate" \notin Stt!Withheld

\* It holds of each plugin.
LEMMA PluginsPass ==
    ASSUME sttPlugin \in SttPlugins
    PROVE  Passes /\ Asks
<1>1. sttPlugin \in {"deepgram", "gladia", "assemblyai", "azure", "google", "openai",
                   "speechmatics", "aws", "fal", "clova", "elevenlabs"}
  BY MediaAssumption DEF Stt!Profile
<1>2. CASE sttPlugin = "deepgram"
  <2>1. Stt!P =
             [keeps |-> Stt!DeepgramKeeps, update |-> Stt!DeepgramUpdate,
              streamUpdate |-> Stt!DeepgramStreamUpdate, opens |-> Stt!DeepgramSanitize,
              asks |-> Stt!DeepgramAsks, recognizes |-> Stt!DeepgramRecognizes]
    BY <1>2 DEF Stt!P, Stt!Profile
  <2>2. QED
    BY <1>2, <2>1 DEF Passes, Asks, Stt!Withheld, Stt!Everything,
       Stt!DeepgramKeeps, Stt!DeepgramUpdate, Stt!DeepgramStreamUpdate, Stt!DeepgramSanitize,
       Stt!DeepgramAsks, Stt!DeepgramRecognizes
<1>3. CASE sttPlugin = "gladia"
  <2>1. Stt!P =
             [keeps |-> Stt!GladiaKeeps, update |-> Stt!GladiaUpdate,
              streamUpdate |-> Stt!GladiaStreamUpdate, opens |-> Stt!GladiaSanitize,
              asks |-> Stt!GladiaAsks, recognizes |-> Stt!GladiaRecognizes]
    BY <1>3 DEF Stt!P, Stt!Profile
  <2>2. QED
    BY <1>3, <2>1 DEF Passes, Asks, Stt!Withheld, Stt!Everything,
       Stt!GladiaKeeps, Stt!GladiaUpdate, Stt!GladiaStreamUpdate, Stt!GladiaSanitize,
       Stt!GladiaAsks, Stt!GladiaRecognizes
<1>4. CASE sttPlugin = "assemblyai"
  <2>1. Stt!P =
             [keeps |-> Stt!AssemblyaiKeeps, update |-> Stt!AssemblyaiUpdate,
              streamUpdate |-> Stt!AssemblyaiStreamUpdate, opens |-> Stt!AssemblyaiOpens,
              asks |-> Stt!AssemblyaiAsks, recognizes |-> "never"]
    BY <1>4 DEF Stt!P, Stt!Profile
  <2>2. QED
    BY <1>4, <2>1 DEF Passes, Asks, Stt!Withheld, Stt!Everything,
       Stt!AssemblyaiKeeps, Stt!AssemblyaiUpdate, Stt!AssemblyaiStreamUpdate,
       Stt!AssemblyaiOpens, Stt!AssemblyaiAsks
<1>5. CASE sttPlugin = "azure"
  <2>1. Stt!P =
             [keeps |-> Stt!AzureKeeps, update |-> Stt!AzureUpdate,
              streamUpdate |-> Stt!AzureStreamUpdate, opens |-> Stt!AzureOpens,
              asks |-> Stt!AzureAsks, recognizes |-> "never"]
    BY <1>5 DEF Stt!P, Stt!Profile
  <2>2. QED
    BY <1>5, <2>1 DEF Passes, Asks, Stt!Withheld, Stt!Everything,
       Stt!AzureKeeps, Stt!AzureUpdate, Stt!AzureStreamUpdate, Stt!AzureOpens, Stt!AzureAsks
<1>6. CASE sttPlugin = "google"
  <2>1. Stt!P =
             [keeps |-> Stt!GoogleKeeps, update |-> Stt!GoogleUpdate,
              streamUpdate |-> Stt!GoogleStreamUpdate, opens |-> Stt!GoogleSanitize,
              asks |-> Stt!GoogleAsks, recognizes |-> Stt!GoogleRecognizes]
    BY <1>6 DEF Stt!P, Stt!Profile
  <2>2. QED
    BY <1>6, <2>1 DEF Passes, Asks, Stt!Withheld, Stt!Everything,
       Stt!GoogleKeeps, Stt!GoogleUpdate, Stt!GoogleStreamUpdate, Stt!GoogleSanitize,
       Stt!GoogleAsks, Stt!GoogleRecognizes
<1>7. CASE sttPlugin = "openai"
  <2>1. Stt!P =
             [keeps |-> Stt!OpenaiKeeps, update |-> Stt!OpenaiUpdate,
              streamUpdate |-> Stt!OpenaiStreamUpdate, opens |-> Stt!OpenaiOpens,
              asks |-> Stt!OpenaiAsks, recognizes |-> Stt!OpenaiRecognizes]
    BY <1>7 DEF Stt!P, Stt!Profile
  <2>2. QED
    BY <1>7, <2>1 DEF Passes, Asks, Stt!Withheld, Stt!Everything,
       Stt!OpenaiKeeps, Stt!OpenaiUpdate, Stt!OpenaiStreamUpdate, Stt!OpenaiOpens,
       Stt!OpenaiAsks, Stt!OpenaiRecognizes
<1>8. CASE sttPlugin = "speechmatics"
  <2>1. Stt!P =
             [keeps |-> Stt!SpeechmaticsKeeps, update |-> Stt!Nothing,
              streamUpdate |-> {}, opens |-> Stt!SpeechmaticsOpens,
              asks |-> Stt!SpeechmaticsAsks, recognizes |-> "never"]
    BY <1>8 DEF Stt!P, Stt!Profile
  <2>2. QED
    BY <1>8, <2>1 DEF Passes, Asks, Stt!Withheld, Stt!Everything,
       Stt!SpeechmaticsKeeps, Stt!Nothing, Stt!SpeechmaticsOpens, Stt!SpeechmaticsAsks
<1>9. CASE sttPlugin = "aws"
  <2>1. Stt!P =
             [keeps |-> Stt!AwsKeeps, update |-> Stt!Nothing,
              streamUpdate |-> {}, opens |-> Stt!AwsOpens,
              asks |-> Stt!AwsAsks, recognizes |-> "never"]
    BY <1>9 DEF Stt!P, Stt!Profile
  <2>2. QED
    BY <1>9, <2>1 DEF Passes, Asks, Stt!Withheld, Stt!Everything,
       Stt!AwsKeeps, Stt!Nothing, Stt!AwsOpens, Stt!AwsAsks
<1>10. CASE sttPlugin = "fal"
  <2>1. Stt!P =
             [keeps |-> {"language"}, update |-> Stt!FalUpdate,
              streamUpdate |-> {}, opens |-> Stt!NoStream,
              asks |-> Stt!AsksNone, recognizes |-> Stt!FalRecognizes]
    BY <1>10 DEF Stt!P, Stt!Profile
  <2>2. QED
    BY <1>10, <2>1 DEF Passes, Asks, Stt!Withheld, Stt!Everything,
       Stt!FalUpdate, Stt!NoStream, Stt!AsksNone, Stt!FalRecognizes
<1>11. CASE sttPlugin = "clova"
  <2>1. Stt!P =
             [keeps |-> {"language"}, update |-> Stt!ClovaUpdate,
              streamUpdate |-> {}, opens |-> Stt!NoStream,
              asks |-> Stt!AsksNone, recognizes |-> Stt!ClovaRecognizes]
    BY <1>11 DEF Stt!P, Stt!Profile
  <2>2. QED
    BY <1>11, <2>1 DEF Passes, Asks, Stt!Withheld, Stt!Everything,
       Stt!ClovaUpdate, Stt!NoStream, Stt!AsksNone, Stt!ClovaRecognizes
<1>12. CASE sttPlugin = "elevenlabs"
  <2>1. Stt!P =
             [keeps |-> Stt!ElevenlabsKeeps, update |-> Stt!Nothing,
              streamUpdate |-> {}, opens |-> Stt!NoStream,
              asks |-> Stt!AsksNone, recognizes |-> Stt!ElevenlabsRecognizes]
    BY <1>12 DEF Stt!P, Stt!Profile
  <2>2. QED
    BY <1>12, <2>1 DEF Passes, Asks, Stt!Withheld, Stt!Everything,
       Stt!ElevenlabsKeeps, Stt!Nothing, Stt!NoStream, Stt!AsksNone, Stt!ElevenlabsRecognizes
<1>13. QED
  BY <1>1, <1>2, <1>3, <1>4, <1>5, <1>6, <1>7, <1>8, <1>9, <1>10, <1>11, <1>12

\* What the options of a recognizer and of a stream may be.
Options == [Stt!P.keeps -> 0 .. MaxCalls]

SttTypes ==
    /\ sttPlugin \in SttPlugins /\ calls \in 0 .. MaxCalls /\ faults \in 0 .. MaxFaults
    /\ sttOpts \in Options /\ sttGiven \in Options
    /\ phase \in [Stt!Stream -> {"none", "idle", "connecting", "open", "over"}]
    /\ own \in [Stt!Stream -> Options \cup {Stt!NoOptions}]
    /\ due \in [Stt!Stream -> Options \cup {Stt!NoOptions}]
    /\ rate \in [Stt!Stream -> 0 .. MaxCalls] /\ wake \in [Stt!Stream -> BOOLEAN]
    /\ asked = [s \in Stt!Stream |-> asked[s]]

\* What has reached a stream.
StreamsInv ==
    \A s \in Stt!Stream : Stt!Live(s) =>
        /\ own[s] \in Options /\ due[s] \in Options /\ Stt!P.opens.language # "none"
        /\ \A o \in Stt!P.keeps \ Stt!Withheld : own[s][o] = due[s][o]

\* What a session was asked for, from the request on.
SessionsInv ==
    \A s \in Stt!Stream : phase[s] \in {"connecting", "open"} =>
        /\ DOMAIN asked[s] = Stt!P.asks.stream \cup Stt!P.asks.recognizer
        /\ sttPlugin # "openai" /\ ~wake[s] => asked[s] = Stt!Asked(s)

SttInv == SttTypes /\ Stt!OptionsStand /\ StreamsInv /\ SessionsInv

\* An option is given a value, if the recognizer has it.
LEMMA PutIs ==
    ASSUME NEW r \in Options, NEW o, NEW v \in 0 .. MaxCalls
    PROVE  /\ Stt!Put(r, o, v) \in Options
           /\ \A x \in Stt!P.keeps : Stt!Put(r, o, v)[x] = IF x = o THEN v ELSE r[x]
  BY DEF Stt!Put, Options

LEMMA GivesIs ==
    ASSUME NEW r \in Options, NEW o, NEW v \in 0 .. MaxCalls
    PROVE  /\ Stt!Gives(r, o, v) \in Options
           /\ \A x \in Stt!P.keeps : Stt!Gives(r, o, v)[x] =
                 IF x = o \/ (sttPlugin = "openai" /\ o = "detect" /\ x = "language")
                 THEN v ELSE r[x]
<1>1. CASE sttPlugin = "openai" /\ o = "detect"
  <2> DEFINE p == Stt!Put(r, o, v)
  <2>1. p \in Options /\ \A x \in Stt!P.keeps : p[x] = IF x = o THEN v ELSE r[x]
    BY PutIs
  <2> HIDE DEF p
  <2>2. /\ Stt!Put(p, "language", v) \in Options
        /\ \A x \in Stt!P.keeps :
              Stt!Put(p, "language", v)[x] = IF x = "language" THEN v ELSE p[x]
    BY <2>1, PutIs
  <2>3. Stt!Gives(r, o, v) = Stt!Put(p, "language", v)
    BY <1>1 DEF Stt!Gives, p
  <2>4. QED
    BY <1>1, <2>1, <2>2, <2>3
<1>2. CASE ~(sttPlugin = "openai" /\ o = "detect")
  <2>1. Stt!Gives(r, o, v) = Stt!Put(r, o, v)
    BY <1>2 DEF Stt!Gives
  <2>2. /\ Stt!Put(r, o, v) \in Options
        /\ \A x \in Stt!P.keeps : Stt!Put(r, o, v)[x] = IF x = o THEN v ELSE r[x]
    BY PutIs
  <2>3. QED
    BY <1>2, <2>1, <2>2
<1>3. QED
  BY <1>1, <1>2

\* A recognizer starts without streams.
LEMMA SttStart == Stt!Init => SttInv
<1> SUFFICES ASSUME Stt!Init PROVE SttInv
  OBVIOUS
<1>1. MaxCalls \in Nat /\ MaxFaults \in Nat /\ 0 \in 0 .. MaxCalls
  BY MediaAssumption
<1>2. /\ sttPlugin \in SttPlugins /\ sttOpts = [o \in Stt!P.keeps |-> 0] /\ sttGiven = sttOpts
      /\ phase = [s \in Stt!Stream |-> "none"] /\ own = [s \in Stt!Stream |-> Stt!NoOptions]
      /\ due = own /\ asked = own /\ rate = [s \in Stt!Stream |-> 0]
      /\ wake = [s \in Stt!Stream |-> FALSE] /\ calls = 0 /\ faults = 0
  BY DEF Stt!Init, Stt!P
<1>3. sttOpts \in Options
  BY <1>1, <1>2 DEF Options
<1>4. SttTypes
  BY <1>1, <1>2, <1>3 DEF SttTypes
<1>5. Stt!OptionsStand
  BY <1>2 DEF Stt!OptionsStand
<1>6. StreamsInv /\ SessionsInv
  BY <1>2 DEF StreamsInv, SessionsInv, Stt!Live
<1>7. QED
  BY <1>4, <1>5, <1>6 DEF SttInv

\* Which plugin the recognizer is of does not change.
LEMMA PluginStays ==
    ASSUME sttPlugin' = sttPlugin
    PROVE  /\ Stt!P' = Stt!P /\ Options' = Options /\ Stt!Withheld' = Stt!Withheld
  BY DEF Stt!P, Options, Stt!Withheld

\* What a session is asked for does not change with the options that it is not asked for.
LEMMA AskedStays ==
    ASSUME sttPlugin' = sttPlugin, NEW s, own'[s] = own[s],
           \A o \in Stt!P.asks.recognizer : sttOpts'[o] = sttOpts[o]
    PROVE  Stt!Asked(s)' = Stt!Asked(s)
  BY PluginStays DEF Stt!Asked

\* update_options of the recognizer: what it stores and does not withhold, it passes on.
LEMMA SttUpdates ==
    ASSUME SttInv, NEW o \in DOMAIN sttOpts, Stt!UpdateOptions(o)
    PROVE  SttInv'
<1> DEFINE v == calls + 1
           told == {s \in Stt!Stream : Stt!Live(s) /\ (Stt!P.update.calls = "always"
                       \/ (Stt!P.update.calls = "passed" /\ o \in Stt!P.update.passes))}
<1>1. SttTypes /\ Stt!OptionsStand /\ StreamsInv /\ SessionsInv
  BY DEF SttInv
<1>2. Passes /\ Asks
  BY <1>1, PluginsPass DEF SttTypes
<1>3. /\ calls < MaxCalls /\ o \in Stt!P.update.stores /\ calls' = v
      /\ sttOpts' = Stt!Gives(sttOpts, o, v) /\ sttGiven' = Stt!Gives(sttGiven, o, v)
      /\ own' = [s \in Stt!Stream |->
                    IF s \in told /\ o \in Stt!P.update.passes \cap Stt!P.streamUpdate
                    THEN Stt!Put(own[s], o, v) ELSE own[s]]
      /\ due' = [s \in Stt!Stream |->
                    IF Stt!Live(s) THEN Stt!Gives(due[s], o, v) ELSE due[s]]
      /\ sttPlugin' = sttPlugin /\ phase' = phase /\ rate' = rate /\ asked' = asked
      /\ faults' = faults
  BY DEF Stt!UpdateOptions
<1>4. wake' = [s \in Stt!Stream |-> wake[s] \/ s \in told]
  BY Zenon DEF Stt!UpdateOptions
<1>5. Stt!P' = Stt!P /\ Options' = Options /\ Stt!Withheld' = Stt!Withheld
  BY <1>3, PluginStays
<1>6. v \in 0 .. MaxCalls /\ o \in Stt!P.keeps
  BY <1>1, <1>3, MediaAssumption DEF SttTypes, Options
<1>7. ASSUME NEW r \in Options
      PROVE  /\ Stt!Gives(r, o, v) \in Options
             /\ \A x \in Stt!P.keeps : Stt!Gives(r, o, v)[x] =
                   IF x = o \/ (sttPlugin = "openai" /\ o = "detect" /\ x = "language")
                   THEN v ELSE r[x]
  BY <1>6, <1>7, GivesIs
<1>8. ASSUME NEW r \in Options
      PROVE  /\ Stt!Put(r, o, v) \in Options
             /\ \A x \in Stt!P.keeps : Stt!Put(r, o, v)[x] = IF x = o THEN v ELSE r[x]
  BY <1>6, <1>8, PutIs
<1>9. \A s \in Stt!Stream : Stt!Live(s)' <=> Stt!Live(s)
  BY <1>3 DEF Stt!Live
<1> HIDE DEF v, told
<1>10. \A s \in Stt!Stream : Stt!Live(s) => own[s] \in Options /\ due[s] \in Options
  BY <1>1 DEF StreamsInv
<1>11. \A s \in told : s \in Stt!Stream /\ Stt!Live(s)
  BY DEF told
<1>12. SttTypes'
  <2>1. sttOpts' \in Options /\ sttGiven' \in Options
    BY <1>1, <1>3, <1>7 DEF SttTypes
  <2>2. own' \in [Stt!Stream -> Options \cup {Stt!NoOptions}]
    BY <1>1, <1>3, <1>8, <1>10, <1>11 DEF SttTypes
  <2>3. due' \in [Stt!Stream -> Options \cup {Stt!NoOptions}]
    BY <1>1, <1>3, <1>7, <1>10 DEF SttTypes
  <2>4. wake' \in [Stt!Stream -> BOOLEAN]
    BY <1>4
  <2>5. QED
    BY <1>1, <1>3, <1>5, <1>6, <2>1, <2>2, <2>3, <2>4 DEF SttTypes
<1>13. Stt!OptionsStand'
  <2>1. DOMAIN sttOpts = Stt!P.keeps /\ DOMAIN sttOpts' = Stt!P.keeps
    BY <1>1, <1>3, <1>7 DEF SttTypes, Options
  <2>2. \A x \in Stt!P.keeps : sttOpts[x] = sttGiven[x] => sttOpts'[x] = sttGiven'[x]
    BY <1>1, <1>3, <1>7 DEF SttTypes
  <2>3. QED
    BY <1>1, <1>3, <2>1, <2>2 DEF Stt!OptionsStand
<1>14. StreamsInv'
  <2> SUFFICES ASSUME NEW s \in Stt!Stream, Stt!Live(s)
               PROVE  /\ own'[s] \in Options /\ due'[s] \in Options
                      /\ Stt!P.opens.language # "none"
                      /\ \A x \in Stt!P.keeps \ Stt!Withheld : own'[s][x] = due'[s][x]
    BY <1>5, <1>9 DEF StreamsInv
  <2>1. due'[s] = Stt!Gives(due[s], o, v) /\ due'[s] \in Options
    BY <1>3, <1>7, <1>10
  <2>2. own'[s] \in Options
    BY <1>3, <1>8, <1>10
  <2>3. Stt!P.opens.language # "none"
        /\ \A x \in Stt!P.keeps \ Stt!Withheld : own[s][x] = due[s][x]
    BY <1>1 DEF StreamsInv
  <2>4. ASSUME NEW x \in Stt!P.keeps \ Stt!Withheld
        PROVE  own'[s][x] = due'[s][x]
    <3>1. sttPlugin # "openai"
      BY <1>2, <2>4 DEF Asks
    <3>2. due'[s][x] = IF x = o THEN v ELSE due[s][x]
      BY <1>7, <1>10, <2>1, <3>1
    <3>3. CASE x = o
      <4>1. s \in told /\ o \in Stt!P.update.passes \cap Stt!P.streamUpdate
        BY <1>2, <1>3, <2>3, <2>4, <3>3 DEF Passes, told
      <4>2. own'[s] = Stt!Put(own[s], o, v)
        BY <1>3, <4>1
      <4>3. QED
        BY <1>8, <1>10, <2>4, <3>2, <3>3, <4>2
    <3>4. CASE x # o
      <4>1. own'[s][x] = own[s][x]
        BY <1>3, <1>8, <1>10, <3>4, <2>4
      <4>2. QED
        BY <2>3, <2>4, <3>2, <3>4, <4>1
    <3>5. QED
      BY <3>3, <3>4
  <2>5. QED
    BY <2>1, <2>2, <2>3, <2>4
<1>15. SessionsInv'
  <2> SUFFICES ASSUME NEW s \in Stt!Stream, phase[s] \in {"connecting", "open"}
               PROVE  /\ DOMAIN asked[s] = Stt!P.asks.stream \cup Stt!P.asks.recognizer
                      /\ sttPlugin # "openai" /\ ~wake'[s] => asked[s] = Stt!Asked(s)'
    BY <1>3, <1>5 DEF SessionsInv
  <2>1. DOMAIN asked[s] = Stt!P.asks.stream \cup Stt!P.asks.recognizer
    BY <1>1 DEF SessionsInv
  <2>2. ASSUME sttPlugin # "openai", ~wake'[s]
        PROVE  asked[s] = Stt!Asked(s)'
    <3>1. ~wake[s] /\ s \notin told
      BY <1>4, <2>2, Zenon
    <3>2. asked[s] = Stt!Asked(s)
      BY <1>1, <2>2, <3>1 DEF SessionsInv
    <3>3. own'[s] = own[s]
      BY <1>3, <3>1
    <3>4. Stt!P.update.calls # "always"
      BY <3>1 DEF told, Stt!Live
    <3>5. \A x \in Stt!P.asks.recognizer : x # o
      BY <1>2, <1>3, <2>2, <3>4 DEF Asks
    <3>6. sttOpts' = Stt!Put(sttOpts, o, v)
      BY <1>3, <2>2 DEF Stt!Gives
    <3>7. \A x \in Stt!P.asks.recognizer : sttOpts'[x] = sttOpts[x]
      BY <1>1, <3>5, <3>6 DEF Stt!Put, SttTypes, Options
    <3>8. QED
      BY <1>3, <3>2, <3>3, <3>7, AskedStays
  <2>3. QED
    BY <2>1, <2>2
<1>16. QED
  BY <1>12, <1>13, <1>14, <1>15 DEF SttInv

\* update_options of one stream.
LEMMA SttUpdatesStream ==
    ASSUME SttInv, NEW s \in Stt!Stream, NEW o \in DOMAIN sttOpts, Stt!UpdateStream(s, o)
    PROVE  SttInv'
<1> DEFINE v == calls + 1
<1>1. SttTypes /\ Stt!OptionsStand /\ StreamsInv /\ SessionsInv
  BY DEF SttInv
<1>2. /\ calls < MaxCalls /\ Stt!Live(s) /\ calls' = v
      /\ own' = [own EXCEPT ![s] = Stt!Put(own[s], o, v)]
      /\ due' = [due EXCEPT ![s] = Stt!Put(due[s], o, v)]
      /\ wake' = [wake EXCEPT ![s] = TRUE]
      /\ sttPlugin' = sttPlugin /\ sttOpts' = sttOpts /\ sttGiven' = sttGiven
      /\ phase' = phase /\ rate' = rate /\ asked' = asked /\ faults' = faults
  BY DEF Stt!UpdateStream
<1>3. Stt!P' = Stt!P /\ Options' = Options /\ Stt!Withheld' = Stt!Withheld
  BY <1>2, PluginStays
<1>4. v \in 0 .. MaxCalls
  BY <1>1, <1>2, MediaAssumption DEF SttTypes
<1>5. own[s] \in Options /\ due[s] \in Options
  BY <1>1, <1>2 DEF StreamsInv
<1> HIDE DEF v
<1>6. /\ Stt!Put(own[s], o, v) \in Options /\ Stt!Put(due[s], o, v) \in Options
      /\ \A x \in Stt!P.keeps :
            /\ Stt!Put(own[s], o, v)[x] = IF x = o THEN v ELSE own[s][x]
            /\ Stt!Put(due[s], o, v)[x] = IF x = o THEN v ELSE due[s][x]
  BY <1>4, <1>5, PutIs
<1>7. \A t \in Stt!Stream : Stt!Live(t)' <=> Stt!Live(t)
  BY <1>2 DEF Stt!Live
<1>8. /\ own'[s] = Stt!Put(own[s], o, v) /\ due'[s] = Stt!Put(due[s], o, v)
      /\ \A t \in Stt!Stream : t # s => own'[t] = own[t] /\ due'[t] = due[t]
  BY <1>1, <1>2 DEF SttTypes
<1>9. wake'[s] /\ \A t \in Stt!Stream : t # s => wake'[t] = wake[t]
  BY <1>1, <1>2 DEF SttTypes
<1>10. SttTypes'
  BY <1>1, <1>2, <1>3, <1>4, <1>6 DEF SttTypes
<1>11. Stt!OptionsStand'
  BY <1>1, <1>2 DEF Stt!OptionsStand
<1>12. StreamsInv'
  <2> SUFFICES ASSUME NEW t \in Stt!Stream, Stt!Live(t)
               PROVE  /\ own'[t] \in Options /\ due'[t] \in Options
                      /\ Stt!P.opens.language # "none"
                      /\ \A x \in Stt!P.keeps \ Stt!Withheld : own'[t][x] = due'[t][x]
    BY <1>3, <1>7 DEF StreamsInv
  <2>1. CASE t = s
    BY <1>1, <1>6, <1>8, <2>1 DEF StreamsInv
  <2>2. CASE t # s
    BY <1>1, <1>8, <2>2 DEF StreamsInv
  <2>3. QED
    BY <2>1, <2>2
<1>13. SessionsInv'
  <2> SUFFICES ASSUME NEW t \in Stt!Stream, phase[t] \in {"connecting", "open"}
               PROVE  /\ DOMAIN asked[t] = Stt!P.asks.stream \cup Stt!P.asks.recognizer
                      /\ sttPlugin # "openai" /\ ~wake'[t] => asked[t] = Stt!Asked(t)'
    BY <1>2, <1>3 DEF SessionsInv
  <2>1. CASE t = s
    BY <1>1, <1>9, <2>1 DEF SessionsInv
  <2>2. CASE t # s
    <3>1. Stt!Asked(t)' = Stt!Asked(t)
      BY <1>2, <1>8, <2>2, AskedStays
    <3>2. QED
      BY <1>1, <1>9, <2>2, <3>1 DEF SessionsInv
  <2>3. QED
    BY <2>1, <2>2
<1>14. QED
  BY <1>10, <1>11, <1>12, <1>13 DEF SttInv

\* stream(): it takes the options of the recognizer, and the language it is given.
LEMMA SttOpens ==
    ASSUME SttInv, NEW s \in Stt!Stream, NEW language \in BOOLEAN,
           Stt!OpenStream(s, language)
    PROVE  SttInv'
<1> DEFINE v == calls + 1
           spoken == Stt!Put(sttOpts, "language", v)
           mine == IF language /\ Stt!P.opens.language \in {"stream", "both"}
                   THEN spoken ELSE sttOpts
<1>1. SttTypes /\ Stt!OptionsStand /\ StreamsInv /\ SessionsInv
  BY DEF SttInv
<1>2. Passes /\ Asks
  BY <1>1, PluginsPass DEF SttTypes
<1>3. /\ phase[s] = "none" /\ Stt!P.opens.language # "none"
      /\ language => calls < MaxCalls /\ calls' = v
      /\ ~language => calls' = calls
      /\ own' = [own EXCEPT ![s] = mine]
      /\ due' = [due EXCEPT ![s] = IF language THEN spoken ELSE sttOpts]
      /\ sttOpts' = IF Stt!P.opens.language = "both" THEN mine ELSE sttOpts
      /\ rate' = [rate EXCEPT ![s] =
                     IF "rate" \in DOMAIN sttOpts THEN sttOpts["rate"] ELSE 0]
      /\ phase' = [phase EXCEPT ![s] = "idle"]
      /\ sttPlugin' = sttPlugin /\ sttGiven' = sttGiven /\ asked' = asked
      /\ faults' = faults
  BY DEF Stt!OpenStream
<1>4. wake' = wake
  BY DEF Stt!OpenStream
<1>5. Stt!P' = Stt!P /\ Options' = Options /\ Stt!Withheld' = Stt!Withheld
  BY <1>3, PluginStays
<1>6. calls' \in 0 .. MaxCalls /\ (language => v \in 0 .. MaxCalls)
  BY <1>1, <1>3, MediaAssumption DEF SttTypes
<1> HIDE DEF v
<1>7. language => /\ spoken \in Options
                  /\ \A x \in Stt!P.keeps :
                        spoken[x] = IF x = "language" THEN v ELSE sttOpts[x]
  BY <1>1, <1>6, PutIs DEF SttTypes
<1>8. sttOpts \in Options /\ mine \in Options
  BY <1>1, <1>7 DEF SttTypes
<1> HIDE DEF spoken
<1>9. /\ own'[s] = mine /\ due'[s] = (IF language THEN spoken ELSE sttOpts)
      /\ phase'[s] = "idle"
      /\ \A t \in Stt!Stream : t # s => /\ own'[t] = own[t] /\ due'[t] = due[t]
                                        /\ phase'[t] = phase[t]
  BY <1>1, <1>3 DEF SttTypes
<1>10. SttTypes'
  <2>1. sttOpts' \in Options
    BY <1>3, <1>8
  <2>2. (IF language THEN spoken ELSE sttOpts) \in Options
    BY <1>7, <1>8
  <2>3. (IF "rate" \in DOMAIN sttOpts THEN sttOpts["rate"] ELSE 0) \in 0 .. MaxCalls
    BY <1>8, MediaAssumption DEF Options
  <2> HIDE DEF mine
  <2>4. QED
    BY <1>1, <1>3, <1>4, <1>5, <1>6, <1>8, <2>1, <2>2, <2>3 DEF SttTypes
<1>11. Stt!OptionsStand'
  <2>1. CASE Stt!P.opens.language = "both"
    <3>1. sttPlugin = "openai" /\ DOMAIN sttOpts' = Stt!P.keeps /\ sttOpts' = mine
      BY <1>2, <1>3, <1>8, <2>1 DEF Passes, Options
    <3>2. \A x \in Stt!P.keeps : x # "language" => mine[x] = sttOpts[x]
      BY <1>7
    <3>3. DOMAIN sttOpts = Stt!P.keeps
      BY <1>8 DEF Options
    <3> HIDE DEF mine
    <3>4. QED
      BY <1>1, <1>3, <3>1, <3>2, <3>3 DEF Stt!OptionsStand
  <2>2. CASE Stt!P.opens.language # "both"
    BY <1>1, <1>3, <2>2 DEF Stt!OptionsStand
  <2>3. QED
    BY <2>1, <2>2
<1>12. StreamsInv'
  <2> SUFFICES ASSUME NEW t \in Stt!Stream, Stt!Live(t)'
               PROVE  /\ own'[t] \in Options /\ due'[t] \in Options
                      /\ Stt!P.opens.language # "none"
                      /\ \A x \in Stt!P.keeps \ Stt!Withheld : own'[t][x] = due'[t][x]
    BY <1>5 DEF StreamsInv
  <2>1. CASE t = s
    <3>1. own'[s] \in Options /\ due'[s] \in Options
      BY <1>7, <1>8, <1>9
    <3>2. ASSUME NEW x \in Stt!P.keeps \ Stt!Withheld
          PROVE  own'[s][x] = due'[s][x]
      <4>1. CASE ~language
        BY <1>9, <4>1
      <4>2. CASE language /\ Stt!P.opens.language \in {"stream", "both"}
        BY <1>9, <4>2
      <4>3. CASE language /\ Stt!P.opens.language = "ignored"
        <5>1. x # "language"
          BY <1>2, <3>2, <4>3 DEF Passes
        <5>2. QED
          BY <1>7, <1>9, <4>3, <5>1
      <4>4. QED
        BY <1>2, <1>3, <4>1, <4>2, <4>3 DEF Passes
    <3>3. QED
      BY <1>3, <2>1, <3>1, <3>2
  <2>2. CASE t # s
    <3>1. Stt!Live(t) /\ own'[t] = own[t] /\ due'[t] = due[t]
      BY <1>9, <2>2 DEF Stt!Live
    <3>2. QED
      BY <1>1, <3>1 DEF StreamsInv
  <2>3. QED
    BY <2>1, <2>2
<1>13. SessionsInv'
  <2> SUFFICES ASSUME NEW t \in Stt!Stream, phase'[t] \in {"connecting", "open"}
               PROVE  /\ DOMAIN asked[t] = Stt!P.asks.stream \cup Stt!P.asks.recognizer
                      /\ sttPlugin # "openai" /\ ~wake[t] => asked[t] = Stt!Asked(t)'
    BY <1>3, <1>4, <1>5 DEF SessionsInv
  <2>1. t # s
    BY <1>9
  <2>2. phase[t] \in {"connecting", "open"} /\ own'[t] = own[t]
    BY <1>9, <2>1
  <2>3. sttPlugin # "openai" => Stt!Asked(t)' = Stt!Asked(t)
    <3>1. sttPlugin # "openai" => sttOpts' = sttOpts
      BY <1>2, <1>3 DEF Passes
    <3>2. QED
      BY <1>3, <2>2, <3>1, AskedStays
  <2>4. QED
    BY <1>1, <2>2, <2>3 DEF SessionsInv
<1>14. QED
  BY <1>10, <1>11, <1>12, <1>13 DEF SttInv

\* recognize(): the language it is given may become the recognizer's.
LEMMA SttRecognizes ==
    ASSUME SttInv, Stt!Recognize
    PROVE  SttInv'
<1> DEFINE v == calls + 1
           spoken == Stt!Put(sttOpts, "language", v)
<1>1. SttTypes /\ Stt!OptionsStand /\ StreamsInv /\ SessionsInv
  BY DEF SttInv
<1>2. Passes /\ Asks
  BY <1>1, PluginsPass DEF SttTypes
<1>3. /\ calls < MaxCalls /\ calls' = v
      /\ sttOpts' = IF Stt!P.recognizes = "recognizer" THEN spoken ELSE sttOpts
      /\ sttPlugin' = sttPlugin /\ sttGiven' = sttGiven /\ faults' = faults
      /\ phase' = phase /\ own' = own /\ due' = due /\ rate' = rate /\ asked' = asked
  BY DEF Stt!Recognize, Stt!streamVars
<1>4. wake' = wake
  BY DEF Stt!Recognize, Stt!streamVars
<1>5. Stt!P' = Stt!P /\ Options' = Options /\ Stt!Withheld' = Stt!Withheld
  BY <1>3, PluginStays
<1>6. v \in 0 .. MaxCalls
  BY <1>1, <1>3, MediaAssumption DEF SttTypes
<1> HIDE DEF v
<1>7. /\ spoken \in Options
      /\ \A x \in Stt!P.keeps : spoken[x] = IF x = "language" THEN v ELSE sttOpts[x]
  BY <1>1, <1>6, PutIs DEF SttTypes
<1>8. sttOpts \in Options /\ sttOpts' \in Options
  BY <1>1, <1>3, <1>7 DEF SttTypes
<1>9. SttTypes'
  BY <1>1, <1>3, <1>4, <1>5, <1>6, <1>8 DEF SttTypes
<1>10. Stt!OptionsStand'
  <2>1. CASE Stt!P.recognizes = "recognizer"
    <3>1. /\ sttPlugin \in {"openai", "fal", "clova", "elevenlabs"}
          /\ DOMAIN sttOpts = Stt!P.keeps /\ DOMAIN sttOpts' = Stt!P.keeps
      BY <1>2, <1>8, <2>1 DEF Passes, Options
    <3>2. \A x \in Stt!P.keeps : x # "language" => sttOpts'[x] = sttOpts[x]
      BY <1>3, <1>7
    <3>3. QED
      BY <1>1, <1>3, <3>1, <3>2 DEF Stt!OptionsStand
  <2>2. CASE Stt!P.recognizes # "recognizer"
    BY <1>1, <1>3, <2>2 DEF Stt!OptionsStand
  <2>3. QED
    BY <2>1, <2>2
<1>11. StreamsInv'
  BY <1>1, <1>3, <1>5 DEF StreamsInv, Stt!Live
<1>12. SessionsInv'
  <2> SUFFICES ASSUME NEW t \in Stt!Stream, phase[t] \in {"connecting", "open"}
               PROVE  /\ DOMAIN asked[t] = Stt!P.asks.stream \cup Stt!P.asks.recognizer
                      /\ sttPlugin # "openai" /\ ~wake[t] => asked[t] = Stt!Asked(t)'
    BY <1>3, <1>4, <1>5 DEF SessionsInv
  <2>1. sttPlugin # "openai" => \A o \in Stt!P.asks.recognizer : sttOpts'[o] = sttOpts[o]
    <3>1. ASSUME sttPlugin # "openai", NEW o \in Stt!P.asks.recognizer
          PROVE  sttOpts'[o] = sttOpts[o]
      <4>1. o # "language"
        BY <1>2, <3>1 DEF Asks
      <4>2. QED
        BY <1>3, <1>8, <4>1 DEF Stt!Put, Options
    <3>2. QED
      BY <3>1
  <2>2. sttPlugin # "openai" => Stt!Asked(t)' = Stt!Asked(t)
    BY <1>3, <2>1, AskedStays
  <2>3. QED
    BY <1>1, <2>2 DEF SessionsInv
<1>13. QED
  BY <1>9, <1>10, <1>11, <1>12 DEF SttInv

\* The options stay as they are, and so do the streams but one, which is over, has no session
\* or has the one that it asked for.
LEMMA StreamMoves ==
    ASSUME SttInv, NEW s \in Stt!Stream, Stt!Live(s),
           sttPlugin' = sttPlugin, sttOpts' = sttOpts, sttGiven' = sttGiven, calls' = calls,
           faults' \in 0 .. MaxFaults,
           NEW p \in {"idle", "connecting", "open", "over"},
           phase' = [phase EXCEPT ![s] = p],
           NEW a, asked' = [asked EXCEPT ![s] = a],
           NEW w \in BOOLEAN, wake' = [wake EXCEPT ![s] = w],
           rate' \in [Stt!Stream -> 0 .. MaxCalls],
           \/ p # "over" /\ own' = own /\ due' = due
           \/ /\ p = "over" /\ own' = [own EXCEPT ![s] = Stt!NoOptions]
              /\ due' = [due EXCEPT ![s] = Stt!NoOptions],
           p \in {"connecting", "open"} =>
               /\ DOMAIN a = Stt!P.asks.stream \cup Stt!P.asks.recognizer
               /\ sttPlugin # "openai" /\ ~w => a = Stt!Asked(s)
    PROVE  SttInv'
<1>1. SttTypes /\ Stt!OptionsStand /\ StreamsInv /\ SessionsInv
  BY DEF SttInv
<1>2. Stt!P' = Stt!P /\ Options' = Options /\ Stt!Withheld' = Stt!Withheld
  BY PluginStays
<1>3. /\ phase'[s] = p /\ asked'[s] = a /\ (p # "over" => own'[s] = own[s])
      /\ \A t \in Stt!Stream : t # s => /\ phase'[t] = phase[t] /\ asked'[t] = asked[t]
                                        /\ own'[t] = own[t] /\ due'[t] = due[t]
  BY <1>1 DEF SttTypes
<1>4. wake'[s] = w /\ \A t \in Stt!Stream : t # s => wake'[t] = wake[t]
  BY <1>1 DEF SttTypes
<1>5. SttTypes'
  <2>1. phase' \in [Stt!Stream -> {"none", "idle", "connecting", "open", "over"}]
    BY <1>1 DEF SttTypes
  <2>2. wake' \in [Stt!Stream -> BOOLEAN]
    BY <1>1 DEF SttTypes
  <2>3. asked' = [t \in Stt!Stream |-> asked'[t]]
    BY <1>1 DEF SttTypes
  <2>4. /\ own' \in [Stt!Stream -> Options \cup {Stt!NoOptions}]
        /\ due' \in [Stt!Stream -> Options \cup {Stt!NoOptions}]
    BY <1>1 DEF SttTypes
  <2>5. QED
    BY <1>1, <1>2, <2>1, <2>2, <2>3, <2>4 DEF SttTypes
<1>6. Stt!OptionsStand'
  BY <1>1 DEF Stt!OptionsStand
<1>7. StreamsInv'
  <2> SUFFICES ASSUME NEW t \in Stt!Stream, Stt!Live(t)'
               PROVE  /\ own'[t] \in Options /\ due'[t] \in Options
                      /\ Stt!P.opens.language # "none"
                      /\ \A x \in Stt!P.keeps \ Stt!Withheld : own'[t][x] = due'[t][x]
    BY <1>2 DEF StreamsInv
  <2>1. CASE t = s
    <3>1. p # "over"
      BY <1>3, <2>1 DEF Stt!Live
    <3>2. QED
      BY <1>1, <2>1, <3>1 DEF StreamsInv
  <2>2. CASE t # s
    <3>1. Stt!Live(t) /\ own'[t] = own[t] /\ due'[t] = due[t]
      BY <1>3, <2>2 DEF Stt!Live
    <3>2. QED
      BY <1>1, <3>1 DEF StreamsInv
  <2>3. QED
    BY <2>1, <2>2
<1>8. SessionsInv'
  <2> SUFFICES ASSUME NEW t \in Stt!Stream, phase'[t] \in {"connecting", "open"}
               PROVE  /\ DOMAIN asked'[t] = Stt!P.asks.stream \cup Stt!P.asks.recognizer
                      /\ sttPlugin # "openai" /\ ~wake'[t] => asked'[t] = Stt!Asked(t)'
    BY <1>2 DEF SessionsInv
  <2>1. own'[t] = own[t]
    BY <1>3
  <2>2. Stt!Asked(t)' = Stt!Asked(t)
    BY <2>1, AskedStays
  <2>3. CASE t = s
    BY <1>3, <1>4, <2>2, <2>3
  <2>4. CASE t # s
    BY <1>1, <1>3, <1>4, <2>2, <2>4 DEF SessionsInv
  <2>5. QED
    BY <2>3, <2>4
<1>9. QED
  BY <1>5, <1>6, <1>7, <1>8 DEF SttInv

\* The streams that the application or _run makes an end to.
LEMMA StreamLeaves ==
    ASSUME SttInv, NEW s \in Stt!Stream, Stt!Live(s), Stt!Leave(s),
           UNCHANGED <<sttPlugin, sttOpts, sttGiven, calls, faults>>
    PROVE  SttInv'
<1>1. SttTypes
  BY DEF SttInv
<1>2. /\ phase' = [phase EXCEPT ![s] = "over"] /\ own' = [own EXCEPT ![s] = Stt!NoOptions]
      /\ due' = [due EXCEPT ![s] = Stt!NoOptions] /\ rate' = [rate EXCEPT ![s] = 0]
      /\ asked' = [asked EXCEPT ![s] = Stt!NoOptions]
      /\ wake' = [wake EXCEPT ![s] = FALSE]
  BY DEF Stt!Leave
<1>3. rate' \in [Stt!Stream -> 0 .. MaxCalls] /\ faults' \in 0 .. MaxFaults
  <2>1. 0 \in 0 .. MaxCalls
    BY MediaAssumption
  <2>2. QED
    BY <1>1, <1>2, <2>1 DEF SttTypes
<1>4. "over" \in {"idle", "connecting", "open", "over"} /\ FALSE \in BOOLEAN
  OBVIOUS
<1>5. QED
  BY <1>2, <1>3, <1>4, StreamMoves

\* A session is asked for.
LEMMA SttConnects ==
    ASSUME SttInv, NEW s \in Stt!Stream, Stt!Connect(s)
    PROVE  SttInv'
<1>1. SttTypes
  BY DEF SttInv
<1>2. /\ Stt!Live(s) /\ phase' = [phase EXCEPT ![s] = "connecting"]
      /\ asked' = [asked EXCEPT ![s] = Stt!Asked(s)]
      /\ sttPlugin' = sttPlugin /\ sttOpts' = sttOpts /\ sttGiven' = sttGiven
      /\ calls' = calls /\ faults' = faults /\ own' = own /\ due' = due /\ rate' = rate
      /\ wake' = wake
  BY DEF Stt!Connect, Stt!Live
<1>3. wake[s] \in BOOLEAN /\ wake' = [wake EXCEPT ![s] = wake[s]]
  BY <1>1, <1>2 DEF SttTypes
<1>4. rate' \in [Stt!Stream -> 0 .. MaxCalls] /\ faults' \in 0 .. MaxFaults
  BY <1>1, <1>2 DEF SttTypes
<1>5. DOMAIN Stt!Asked(s) = Stt!P.asks.stream \cup Stt!P.asks.recognizer
  BY DEF Stt!Asked
<1>6. "connecting" \in {"idle", "connecting", "open", "over"}
  OBVIOUS
<1>7. QED
  BY <1>2, <1>3, <1>4, <1>5, <1>6, StreamMoves

\* The session is there; the event is not cleared.
LEMMA SttConnected ==
    ASSUME SttInv, NEW s \in Stt!Stream, Stt!Connected(s)
    PROVE  SttInv'
<1>1. SttTypes /\ SessionsInv
  BY DEF SttInv
<1>2. /\ Stt!Live(s) /\ phase[s] = "connecting" /\ phase' = [phase EXCEPT ![s] = "open"]
      /\ sttPlugin' = sttPlugin /\ sttOpts' = sttOpts /\ sttGiven' = sttGiven
      /\ calls' = calls /\ faults' = faults /\ own' = own /\ due' = due /\ rate' = rate
      /\ wake' = wake /\ asked' = asked
  BY DEF Stt!Connected, Stt!Live, Stt!WakeOf
<1>3. wake[s] \in BOOLEAN /\ wake' = [wake EXCEPT ![s] = wake[s]]
  BY <1>1, <1>2 DEF SttTypes
<1>4. asked' = [asked EXCEPT ![s] = asked[s]]
  BY <1>1, <1>2 DEF SttTypes
<1>5. rate' \in [Stt!Stream -> 0 .. MaxCalls] /\ faults' \in 0 .. MaxFaults
  BY <1>1, <1>2 DEF SttTypes
<1>6. /\ DOMAIN asked[s] = Stt!P.asks.stream \cup Stt!P.asks.recognizer
      /\ sttPlugin # "openai" /\ ~wake[s] => asked[s] = Stt!Asked(s)
  BY <1>1, <1>2 DEF SessionsInv
<1>7. "open" \in {"idle", "connecting", "open", "over"}
  OBVIOUS
<1>8. QED
  BY <1>2, <1>3, <1>4, <1>5, <1>6, <1>7, StreamMoves

\* The loop sees the event: it asks for another session, or ends.
LEMMA SttReconnects ==
    ASSUME SttInv, NEW s \in Stt!Stream, Stt!Reconnect(s)
    PROVE  SttInv'
<1>1. SttTypes
  BY DEF SttInv
<1>2. Stt!Live(s) /\ UNCHANGED <<sttPlugin, sttOpts, sttGiven, calls, faults>>
  BY DEF Stt!Reconnect, Stt!Live
<1>3. CASE sttPlugin \in {"deepgram", "openai"}
  BY <1>2, <1>3, StreamLeaves DEF Stt!Reconnect
<1>4. CASE sttPlugin \notin {"deepgram", "openai"}
  <2>1. /\ phase' = [phase EXCEPT ![s] = "idle"] /\ wake' = [wake EXCEPT ![s] = FALSE]
        /\ asked' = [asked EXCEPT ![s] = Stt!NoOptions]
        /\ own' = own /\ due' = due /\ rate' = rate
    BY <1>4 DEF Stt!Reconnect
  <2>2. rate' \in [Stt!Stream -> 0 .. MaxCalls] /\ faults' \in 0 .. MaxFaults
    BY <1>1, <1>2, <2>1 DEF SttTypes
  <2>3. "idle" \in {"idle", "connecting", "open", "over"} /\ FALSE \in BOOLEAN
    OBVIOUS
  <2>4. QED
    BY <1>2, <2>1, <2>2, <2>3, StreamMoves
<1>5. QED
  BY <1>3, <1>4

\* The service ends the session.
LEMMA SttLoses ==
    ASSUME SttInv, NEW s \in Stt!Stream, Stt!SessionLost(s)
    PROVE  SttInv'
<1>1. SttTypes
  BY DEF SttInv
<1>2. /\ Stt!Live(s) /\ phase' = [phase EXCEPT ![s] = "idle"]
      /\ asked' = [asked EXCEPT ![s] = Stt!NoOptions] /\ wake' = wake
      /\ sttPlugin' = sttPlugin /\ sttOpts' = sttOpts /\ sttGiven' = sttGiven
      /\ calls' = calls /\ faults < MaxFaults /\ faults' = faults + 1
      /\ own' = own /\ due' = due /\ rate' = rate
  BY DEF Stt!SessionLost, Stt!Live
<1>3. wake[s] \in BOOLEAN /\ wake' = [wake EXCEPT ![s] = wake[s]]
  BY <1>1, <1>2 DEF SttTypes
<1>4. rate' \in [Stt!Stream -> 0 .. MaxCalls]
  BY <1>1, <1>2 DEF SttTypes
<1>5. faults' \in 0 .. MaxFaults
  BY <1>1, <1>2, MediaAssumption DEF SttTypes
<1>6. "idle" \in {"idle", "connecting", "open", "over"}
  OBVIOUS
<1>7. QED
  BY <1>2, <1>3, <1>4, <1>5, <1>6, StreamMoves

\* Every step keeps what was shown of each.
LEMMA SttStep == SttInv /\ (Stt!Next \/ UNCHANGED sttVars) => SttInv'
<1> SUFFICES ASSUME SttInv, Stt!Next \/ UNCHANGED sttVars PROVE SttInv'
  OBVIOUS
<1>1. CASE \E o \in DOMAIN sttOpts : Stt!UpdateOptions(o)
  BY <1>1, SttUpdates
<1>2. CASE \E s \in Stt!Stream, o \in DOMAIN sttOpts : Stt!UpdateStream(s, o)
  BY <1>2, SttUpdatesStream
<1>3. CASE \E s \in Stt!Stream, language \in BOOLEAN : Stt!OpenStream(s, language)
  BY <1>3, SttOpens
<1>4. CASE Stt!Recognize
  BY <1>4, SttRecognizes
<1>5. ASSUME NEW s \in Stt!Stream, Stt!CloseStream(s) PROVE SttInv'
  BY <1>5, StreamLeaves DEF Stt!CloseStream
<1>6. CASE \E s \in Stt!Stream : Stt!Connect(s) \/ Stt!Connected(s) \/ Stt!Reconnect(s)
                                 \/ Stt!SessionLost(s)
  BY <1>6, SttConnects, SttConnected, SttReconnects, SttLoses
<1>7. CASE UNCHANGED sttVars
  <2>1. /\ sttPlugin' = sttPlugin /\ sttOpts' = sttOpts /\ sttGiven' = sttGiven
        /\ phase' = phase /\ own' = own /\ due' = due /\ rate' = rate /\ asked' = asked
        /\ wake' = wake /\ calls' = calls /\ faults' = faults
    BY <1>7 DEF sttVars
  <2>2. Stt!P' = Stt!P /\ Options' = Options /\ Stt!Withheld' = Stt!Withheld
    BY <2>1, PluginStays
  <2>3. \A s \in Stt!Stream : Stt!Asked(s)' = Stt!Asked(s)
    BY <2>1, AskedStays
  <2>4. QED
    BY <2>1, <2>2, <2>3
       DEF SttInv, SttTypes, Stt!OptionsStand, StreamsInv, SessionsInv, Stt!Live
<1>8. QED
  BY <1>1, <1>2, <1>3, <1>4, <1>5, <1>6, <1>7 DEF Stt!Next

\* The invariant is what the run checks, and more.
LEMMA SttPromises ==
    SttInv => Stt!TypeOK /\ Stt!OptionsStand /\ Stt!StreamsFollow /\ Stt!SessionsFollow
<1> SUFFICES ASSUME SttInv
             PROVE  Stt!TypeOK /\ Stt!OptionsStand /\ Stt!StreamsFollow /\ Stt!SessionsFollow
  OBVIOUS
<1>1. SttTypes /\ Stt!OptionsStand /\ StreamsInv /\ SessionsInv
  BY DEF SttInv
<1>2. Stt!TypeOK
  BY <1>1 DEF Stt!TypeOK, SttTypes, Options
<1>3. Stt!StreamsFollow
  BY <1>1 DEF Stt!StreamsFollow, StreamsInv, Options
<1>4. ASSUME NEW s \in Stt!Stream, phase[s] = "open", ~wake[s],
             "rate" \in DOMAIN asked[s], due[s]["rate"] = rate[s]
      PROVE  asked[s]["rate"] = rate[s]
  <2>1. Asks
    BY <1>1, PluginsPass DEF SttTypes
  <2>2. "rate" \in Stt!P.asks.stream
    BY <1>1, <1>4, <2>1 DEF SessionsInv, Asks
  <2>3. "rate" \in Stt!P.keeps \ Stt!Withheld /\ sttPlugin # "openai"
    BY <2>1, <2>2 DEF Asks
  <2>4. asked[s] = Stt!Asked(s)
    BY <1>1, <1>4, <2>3 DEF SessionsInv
  <2>5. Stt!Asked(s)["rate"] = own[s]["rate"]
    BY <2>2 DEF Stt!Asked
  <2>6. own[s]["rate"] = due[s]["rate"]
    BY <1>1, <1>4, <2>3 DEF StreamsInv, Stt!Live
  <2>7. QED
    BY <1>4, <2>4, <2>5, <2>6
<1>5. Stt!SessionsFollow
  BY <1>1, <1>4 DEF Stt!SessionsFollow, SessionsInv
<1>6. QED
  BY <1>1, <1>2, <1>3, <1>5

-----------------------------------------------------------------------------
\* What a recognizer is given reaches its streams and the sessions of these, whichever plugin
\* it is of and whatever is opened, updated, lost or asked for again meanwhile; unless the
\* plugin withholds it.
THEOREM OptionsStayFollowed == MediaSpec => []OptionsAreFollowed
<1>1. MediaInit => SttInv
  BY SttStart DEF MediaInit
<1>2. SttInv /\ [MediaNext]_mediaVars => SttInv'
  <2> SUFFICES ASSUME SttInv, [MediaNext]_mediaVars
               PROVE  SttInv'
    OBVIOUS
  <2>1. Stt!Next \/ UNCHANGED sttVars
    BY DEF MediaNext, mediaVars
  <2>2. QED
    BY <2>1, SttStep
<1>3. SttInv => OptionsAreFollowed
  BY SttPromises DEF OptionsAreFollowed
<1>4. QED
  BY <1>1, <1>2, <1>3, PTL DEF MediaSpec

-----------------------------------------------------------------------------
(* The options of the text-to-speech plugins *)

\* What the proofs use of the plugins: who asks with options of the connection, who changes
\* the rate, and who lists its streams.
Speaks ==
    /\ Tts!P.keeps # {} /\ "rate" \notin Tts!P.update.together
    /\ Tts!P.asks.connection # {} =>
          /\ ttsPlugin = "deepgram" /\ Tts!P.asks.connection = {"model", "rate"}
          /\ "rate" \in Tts!P.keeps /\ Tts!P.streams.over = "pool"
    /\ Tts!P.asks.message \cap Tts!P.asks.connection = {}
    /\ "rate" \in Tts!P.update.stores => ttsPlugin \in {"lmnt", "neuphonic"}
    /\ Tts!P.streams.over # "none" => Tts!P.streams.listed \/ ttsPlugin = "cartesia"

\* It holds of each plugin.
LEMMA PluginsSpeak ==
    ASSUME ttsPlugin \in TtsPlugins
    PROVE  Speaks
<1>1. ttsPlugin \in {"cartesia", "deepgram", "elevenlabs", "resemble", "google", "azure",
                     "neuphonic", "playai", "lmnt", "hume", "openai", "groq", "speechify",
                     "rime", "aws"}
  BY MediaAssumption DEF Tts!Profile
<1>2. CASE ttsPlugin = "cartesia"
  <2>1. Tts!P = [keeps |-> Tts!CartesiaKeeps, update |-> Tts!CartesiaUpdate,
                 asks |-> Tts!CartesiaAsks, streams |-> Tts!CartesiaStreams]
    BY <1>2 DEF Tts!P, Tts!Profile
  <2>2. QED
    BY <1>2, <2>1 DEF Speaks, Tts!NotListed, Tts!CartesiaKeeps, Tts!CartesiaUpdate,
       Tts!CartesiaAsks, Tts!CartesiaStreams
<1>3. CASE ttsPlugin = "deepgram"
  <2>1. Tts!P = [keeps |-> Tts!DeepgramKeeps, update |-> Tts!DeepgramUpdate,
                 asks |-> Tts!DeepgramAsks, streams |-> Tts!DeepgramStreams]
    BY <1>3 DEF Tts!P, Tts!Profile
  <2>2. QED
    BY <1>3, <2>1 DEF Speaks, Tts!NotListed, Tts!DeepgramKeeps, Tts!DeepgramUpdate,
       Tts!DeepgramAsks, Tts!DeepgramStreams
<1>4. CASE ttsPlugin = "elevenlabs"
  <2>1. Tts!P = [keeps |-> Tts!ElevenlabsKeeps, update |-> Tts!ElevenlabsUpdate,
                 asks |-> Tts!ElevenlabsAsks, streams |-> Tts!ElevenlabsStreams]
    BY <1>4 DEF Tts!P, Tts!Profile
  <2>2. QED
    BY <1>4, <2>1 DEF Speaks, Tts!NotListed, Tts!ElevenlabsKeeps, Tts!ElevenlabsUpdate,
       Tts!ElevenlabsAsks, Tts!ElevenlabsStreams
<1>5. CASE ttsPlugin = "resemble"
  <2>1. Tts!P = [keeps |-> Tts!ResembleKeeps, update |-> Tts!ResembleUpdate,
                 asks |-> Tts!ResembleAsks, streams |-> Tts!ResembleStreams]
    BY <1>5 DEF Tts!P, Tts!Profile
  <2>2. QED
    BY <1>5, <2>1 DEF Speaks, Tts!NotListed, Tts!ResembleKeeps, Tts!ResembleUpdate,
       Tts!ResembleAsks, Tts!ResembleStreams
<1>6. CASE ttsPlugin = "google"
  <2>1. Tts!P = [keeps |-> Tts!GoogleKeeps, update |-> Tts!GoogleUpdate,
                 asks |-> Tts!GoogleAsks, streams |-> Tts!GoogleStreams]
    BY <1>6 DEF Tts!P, Tts!Profile
  <2>2. QED
    BY <1>6, <2>1 DEF Speaks, Tts!NotListed, Tts!GoogleKeeps, Tts!GoogleUpdate,
       Tts!GoogleAsks, Tts!GoogleStreams
<1>7. CASE ttsPlugin = "azure"
  <2>1. Tts!P = Tts!Chunked(Tts!AzureKeeps, Tts!AzureUpdate)
    BY <1>7 DEF Tts!P, Tts!Profile
  <2>2. QED
    BY <1>7, <2>1 DEF Speaks, Tts!Chunked, Tts!AzureKeeps, Tts!AzureUpdate
<1>8. CASE ttsPlugin = "neuphonic"
  <2>1. Tts!P = Tts!Chunked(Tts!NeuphonicKeeps, Tts!NeuphonicUpdate)
    BY <1>8 DEF Tts!P, Tts!Profile
  <2>2. QED
    BY <1>8, <2>1 DEF Speaks, Tts!Chunked, Tts!NeuphonicKeeps, Tts!NeuphonicUpdate
<1>9. CASE ttsPlugin = "playai"
  <2>1. Tts!P = Tts!Chunked(Tts!PlayaiKeeps, Tts!PlayaiUpdate)
    BY <1>9 DEF Tts!P, Tts!Profile
  <2>2. QED
    BY <1>9, <2>1 DEF Speaks, Tts!Chunked, Tts!PlayaiKeeps, Tts!PlayaiUpdate
<1>10. CASE ttsPlugin = "lmnt"
  <2>1. Tts!P = Tts!Chunked(Tts!LmntKeeps, Tts!LmntUpdate)
    BY <1>10 DEF Tts!P, Tts!Profile
  <2>2. QED
    BY <1>10, <2>1 DEF Speaks, Tts!Chunked, Tts!LmntKeeps, Tts!LmntUpdate
<1>11. CASE ttsPlugin = "hume"
  <2>1. Tts!P = Tts!Chunked(Tts!HumeKeeps, Tts!HumeUpdate)
    BY <1>11 DEF Tts!P, Tts!Profile
  <2>2. QED
    BY <1>11, <2>1 DEF Speaks, Tts!Chunked, Tts!HumeKeeps, Tts!HumeUpdate
<1>12. CASE ttsPlugin = "openai"
  <2>1. Tts!P = Tts!Chunked(Tts!OpenaiKeeps, Tts!OpenaiUpdate)
    BY <1>12 DEF Tts!P, Tts!Profile
  <2>2. QED
    BY <1>12, <2>1 DEF Speaks, Tts!Chunked, Tts!OpenaiKeeps, Tts!OpenaiUpdate
<1>13. CASE ttsPlugin = "groq"
  <2>1. Tts!P = Tts!Chunked(Tts!GroqKeeps, Tts!GroqUpdate)
    BY <1>13 DEF Tts!P, Tts!Profile
  <2>2. QED
    BY <1>13, <2>1 DEF Speaks, Tts!Chunked, Tts!GroqKeeps, Tts!GroqUpdate
<1>14. CASE ttsPlugin = "speechify"
  <2>1. Tts!P = Tts!Chunked(Tts!SpeechifyKeeps, Tts!SpeechifyUpdate)
    BY <1>14 DEF Tts!P, Tts!Profile
  <2>2. QED
    BY <1>14, <2>1 DEF Speaks, Tts!Chunked, Tts!SpeechifyKeeps, Tts!SpeechifyUpdate
<1>15. CASE ttsPlugin = "rime"
  <2>1. Tts!P = Tts!Chunked(Tts!RimeKeeps, Tts!RimeUpdate)
    BY <1>15 DEF Tts!P, Tts!Profile
  <2>2. QED
    BY <1>15, <2>1 DEF Speaks, Tts!Chunked, Tts!RimeKeeps, Tts!RimeUpdate
<1>16. CASE ttsPlugin = "aws"
  <2>1. Tts!P = Tts!Chunked(Tts!AwsKeeps, Tts!AwsUpdate)
    BY <1>16 DEF Tts!P, Tts!Profile
  <2>2. QED
    BY <1>16, <2>1 DEF Speaks, Tts!Chunked, Tts!AwsKeeps, Tts!AwsUpdate
<1>17. QED
  BY <1>1, <1>2, <1>3, <1>4, <1>5, <1>6, <1>7, <1>8, <1>9, <1>10, <1>11, <1>12, <1>13,
     <1>14, <1>15, <1>16

\* What a TTS may keep, a request copy and a connection be opened with: there is a rate if the
\* constructor takes one, and it stays unless update_options changes it.
IsOptions(x) ==
    /\ DOMAIN x \subseteq Tts!P.keeps /\ DOMAIN x # {}
    /\ \A o \in DOMAIN x : x[o] \in 0 .. MaxCalls
    /\ "rate" \in Tts!P.keeps => "rate" \in DOMAIN x
    /\ "rate" \in DOMAIN x /\ "rate" \notin Tts!P.update.stores => x["rate"] = 0

Agrees(x, y) == \A o \in DOMAIN x : x[o] = y[o]

TtsTypes ==
    /\ ttsPlugin \in TtsPlugins /\ ttsRate = 0
    /\ ttsCalls \in 0 .. MaxCalls /\ ttsFaults \in 0 .. MaxFaults
    /\ kind \in [Tts!Request -> {"none", "chunk", "stream"}]
    /\ requestPhase \in [Tts!Request -> {"none", "waiting", "speaking", "over"}]
    /\ copied = [r \in Tts!Request |-> copied[r]] /\ wanted = [r \in Tts!Request |-> wanted[r]]
    /\ said = [r \in Tts!Request |-> said[r]] /\ emitted \in [Tts!Request -> 0 .. MaxCalls]
    /\ conn \in [Tts!Request -> Tts!Conn \cup {Tts!NoConn}]
    /\ openedWith = [c \in Tts!Conn |-> openedWith[c]] /\ idle \subseteq Tts!Conn
    /\ closing \in {"no", "streams", "closed"}
    /\ before \subseteq Tts!Request /\ streamsToClose \subseteq before

\* What the TTS has is what it was given, as far as it was not dropped.
GivenInv ==
    ttsGiven \in [Tts!P.keeps -> 0 .. MaxCalls] /\ IsOptions(ttsOpts) /\ Agrees(ttsOpts, ttsGiven)

\* So has a request, of when it was made.
RequestsInv ==
    \A r \in Tts!Request : requestPhase[r] \in {"waiting", "speaking"} =>
        IsOptions(copied[r]) /\ Agrees(copied[r], wanted[r]) /\ kind[r] \in {"chunk", "stream"}

\* What the service was asked with, and the rate the audio is taken at.
IsAsked(r, request, rated, want) ==
    /\ \A o \in DOMAIN request :
          request[o] = want[o] \/ (ttsPlugin = "deepgram" /\ kind[r] = "stream" /\ o = "model")
    /\ "rate" \in DOMAIN request => rated = request["rate"]

SaidInv ==
    \A r \in Tts!Request : requestPhase[r] = "speaking" =>
        IsAsked(r, said[r], emitted[r], wanted[r])

\* What a connection was opened with, until the pool forgets it.
OpenedInv == \A c \in Tts!Conn : openedWith[c] = Tts!NoOptions \/ IsOptions(openedWith[c])

\* A connection is used by one request; until it is idle, it is its own request's.
PoolInv ==
    /\ \A c \in idle : /\ openedWith[c] # Tts!NoOptions
                       /\ c # Tts!Warm => requestPhase[c] = "over"
    /\ \A r \in Tts!Request : conn[r] # Tts!NoConn =>
          /\ requestPhase[r] = "speaking" /\ conn[r] \notin idle
          /\ conn[r] \in {r, Tts!Warm} \/ requestPhase[conn[r]] = "over"
          /\ closing # "closed" => openedWith[conn[r]] # Tts!NoOptions
          /\ \A q \in Tts!Request : q # r => conn[q] # conn[r]

\* The streams that ran when aclose() was called are over, or still to be closed.
CloseInv ==
    /\ closing # "no" => \A r \in before :
          requestPhase[r] = "over" \/ ttsPlugin = "cartesia" \/ r \in streamsToClose
    /\ closing = "closed" => streamsToClose = {}
    /\ closing = "no" => before = {}

TtsInv ==
    /\ TtsTypes /\ GivenInv /\ RequestsInv /\ SaidInv /\ OpenedInv /\ PoolInv /\ CloseInv

\* A TTS starts without requests.
LEMMA TtsStart == Tts!Init => TtsInv
<1> SUFFICES ASSUME Tts!Init PROVE TtsInv
  OBVIOUS
<1>1. MaxCalls \in Nat /\ MaxFaults \in Nat /\ 0 \in 0 .. MaxCalls /\ 0 \in 0 .. MaxFaults
  BY MediaAssumption
<1>2. /\ ttsPlugin \in TtsPlugins /\ ttsOpts = [o \in Tts!P.keeps |-> 0] /\ ttsGiven = ttsOpts
      /\ ttsRate = 0
      /\ kind = [r \in Tts!Request |-> "none"] /\ requestPhase = kind
      /\ copied = [r \in Tts!Request |-> Tts!NoOptions] /\ wanted = copied /\ said = copied
      /\ emitted = [r \in Tts!Request |-> 0] /\ conn = [r \in Tts!Request |-> Tts!NoConn]
      /\ openedWith = [c \in Tts!Conn |-> Tts!NoOptions] /\ idle = {}
      /\ closing = "no" /\ streamsToClose = {} /\ before = {}
      /\ ttsCalls = 0 /\ ttsFaults = 0
  BY DEF Tts!Init, Tts!P
<1>3. Speaks
  BY <1>2, PluginsSpeak
<1>4. GivenInv
  BY <1>1, <1>2, <1>3 DEF GivenInv, IsOptions, Agrees, Speaks
<1>5. TtsTypes
  BY <1>1, <1>2 DEF TtsTypes
<1>6. RequestsInv /\ SaidInv
  BY <1>2 DEF RequestsInv, SaidInv
<1>7. OpenedInv /\ PoolInv
  BY <1>2 DEF OpenedInv, PoolInv
<1>8. CloseInv
  BY <1>2 DEF CloseInv
<1>9. QED
  BY <1>4, <1>5, <1>6, <1>7, <1>8 DEF TtsInv

\* Which plugin the TTS is of does not change.
LEMMA TtsStays ==
    ASSUME ttsPlugin' = ttsPlugin
    PROVE  /\ Tts!P' = Tts!P /\ \A x : IsOptions(x)' <=> IsOptions(x)
<1>1. Tts!P' = Tts!P
  BY DEF Tts!P
<1>2. QED
  BY <1>1 DEF IsOptions

\* There are connections, and one that is none.
LEMMA Connections ==
    /\ Tts!Request \subseteq Nat \ {0} /\ Tts!Warm \notin Tts!Request
    /\ Tts!Conn = Tts!Request \cup {Tts!Warm} /\ Tts!NoConn \notin Tts!Conn
<1>1. MaxRequests \in Nat
  BY MediaAssumption
<1>2. QED
  BY <1>1 DEF Tts!Request, Tts!Conn, Tts!Warm, Tts!NoConn

\* Options are never none.
LEMMA SomeOptions ==
    ASSUME NEW x, IsOptions(x)
    PROVE  x # Tts!NoOptions
  BY DEF IsOptions, Tts!NoOptions

\* A request asks the service as it was wanted, over a connection that was opened with base.
LEMMA RequestAsks ==
    ASSUME TtsTypes, NEW r \in Tts!Request, kind[r] \in {"chunk", "stream"},
           IsOptions(copied[r]), Agrees(copied[r], wanted[r]), NEW base, IsOptions(base)
    PROVE  /\ IsAsked(r, Tts!Asked(r, base), Tts!EmitterRate(r), wanted[r])
           /\ Tts!EmitterRate(r) \in 0 .. MaxCalls
<1> DEFINE x == copied[r]
           byMessage == IF kind[r] = "chunk" THEN Tts!P.keeps ELSE Tts!P.asks.message
           mine == byMessage \cap DOMAIN x
           theirs == IF kind[r] = "chunk" THEN {} ELSE Tts!P.asks.connection
           request == Tts!Asked(r, base)
<1>1. Speaks
  BY PluginsSpeak DEF TtsTypes
<1>2. request = [o \in mine \cup theirs |-> IF o \in mine THEN x[o] ELSE base[o]]
  BY DEF Tts!Asked, Tts!Copy
<1>3. 0 \in 0 .. MaxCalls /\ Tts!Rate(x) \in 0 .. MaxCalls
  BY MediaAssumption DEF IsOptions, Tts!Rate
<1>4. Tts!EmitterRate(r) = IF ttsPlugin = "rime" THEN ttsRate ELSE Tts!Rate(x)
  BY DEF Tts!EmitterRate
<1>5. "rate" \in DOMAIN x => Tts!EmitterRate(r) = x["rate"]
  BY <1>1, <1>4 DEF TtsTypes, IsOptions, Tts!Rate, Speaks
<1>6. theirs # {} => /\ ttsPlugin = "deepgram" /\ kind[r] = "stream"
                     /\ theirs = {"model", "rate"} /\ "rate" \in Tts!P.keeps
                     /\ "rate" \notin Tts!P.update.stores
  BY <1>1 DEF Speaks
<1>7. ASSUME "rate" \in theirs
      PROVE  base["rate"] = 0 /\ "rate" \in DOMAIN x /\ x["rate"] = 0
  BY <1>6, <1>7 DEF IsOptions
<1> HIDE DEF x, byMessage, mine, theirs, request
<1>8. mine \subseteq DOMAIN x /\ Agrees(x, wanted[r])
  BY DEF mine, x
<1>9. ASSUME NEW o \in DOMAIN request
      PROVE  \/ request[o] = wanted[r][o]
             \/ ttsPlugin = "deepgram" /\ kind[r] = "stream" /\ o = "model"
  <2>1. CASE o \in mine
    BY <1>2, <1>8, <2>1 DEF Agrees
  <2>2. CASE o \notin mine
    <3>1. o \in theirs /\ request[o] = base[o]
      BY <1>2, <1>9, <2>2
    <3>2. CASE o = "rate"
      BY <1>7, <1>8, <3>1, <3>2 DEF Agrees
    <3>3. CASE o # "rate"
      BY <1>6, <3>1, <3>3
    <3>4. QED
      BY <3>2, <3>3
  <2>3. QED
    BY <2>1, <2>2
<1>10. "rate" \in DOMAIN request => Tts!EmitterRate(r) = request["rate"]
  <2>1. CASE "rate" \in mine
    BY <1>2, <1>5, <1>8, <2>1
  <2>2. CASE "rate" \notin mine
    BY <1>2, <1>5, <1>7, <2>2
  <2>3. QED
    BY <2>1, <2>2
<1>11. IsAsked(r, request, Tts!EmitterRate(r), wanted[r])
  BY <1>9, <1>10 DEF IsAsked
<1>12. Tts!EmitterRate(r) \in 0 .. MaxCalls
  BY <1>3, <1>4 DEF TtsTypes
<1>13. QED
  BY <1>11, <1>12 DEF request

\* The invariant of the next state, for a TTS that is of the plugin that it was.
LEMMA TtsNext ==
    ASSUME ttsPlugin' = ttsPlugin
    PROVE  /\ /\ ttsGiven' \in [Tts!P.keeps -> 0 .. MaxCalls] /\ IsOptions(ttsOpts')
              /\ Agrees(ttsOpts', ttsGiven')
              => GivenInv'
           /\ (\A r \in Tts!Request : requestPhase'[r] \in {"waiting", "speaking"} =>
                  /\ IsOptions(copied'[r]) /\ Agrees(copied'[r], wanted'[r])
                  /\ kind'[r] \in {"chunk", "stream"})
              => RequestsInv'
           /\ (\A r \in Tts!Request : requestPhase'[r] = "speaking" =>
                  kind'[r] = kind[r] /\ IsAsked(r, said'[r], emitted'[r], wanted'[r]))
              => SaidInv'
           /\ (\A c \in Tts!Conn :
                  openedWith'[c] = Tts!NoOptions \/ IsOptions(openedWith'[c]))
              => OpenedInv'
<1>1. Tts!P' = Tts!P
  BY DEF Tts!P
<1>2. /\ ttsGiven' \in [Tts!P.keeps -> 0 .. MaxCalls] /\ IsOptions(ttsOpts')
      /\ Agrees(ttsOpts', ttsGiven')
      => GivenInv'
  BY <1>1 DEF GivenInv, IsOptions, Agrees
<1>3. ASSUME \A r \in Tts!Request : requestPhase'[r] \in {"waiting", "speaking"} =>
                /\ IsOptions(copied'[r]) /\ Agrees(copied'[r], wanted'[r])
                /\ kind'[r] \in {"chunk", "stream"}
      PROVE  RequestsInv'
  BY <1>1, <1>3 DEF RequestsInv, IsOptions, Agrees
<1>4. ASSUME \A r \in Tts!Request : requestPhase'[r] = "speaking" =>
                kind'[r] = kind[r] /\ IsAsked(r, said'[r], emitted'[r], wanted'[r])
      PROVE  SaidInv'
  BY <1>4 DEF SaidInv, IsAsked
<1>5. ASSUME \A c \in Tts!Conn :
                openedWith'[c] = Tts!NoOptions \/ IsOptions(openedWith'[c])
      PROVE  OpenedInv'
  BY <1>1, <1>5 DEF OpenedInv, IsOptions
<1>6. QED
  BY <1>2, <1>3, <1>4, <1>5

\* The options are updated, and those that share an object with one that is given dropped.
LEMMA TtsUpdates ==
    ASSUME TtsInv, NEW o \in Tts!P.keeps, Tts!UpdateOptions(o)
    PROVE  TtsInv'
<1> DEFINE v == ttsCalls + 1
           dropped == IF o \in Tts!P.update.together THEN Tts!P.update.together \ {o} ELSE {}
           names == (DOMAIN ttsOpts \ dropped) \cup {o}
<1>1. /\ TtsTypes /\ GivenInv /\ RequestsInv /\ SaidInv /\ OpenedInv /\ PoolInv /\ CloseInv
  BY DEF TtsInv
<1>2. Speaks
  BY <1>1, PluginsSpeak DEF TtsTypes
<1>3. /\ ttsCalls < MaxCalls /\ ttsCalls' = v /\ o \in Tts!P.update.stores
      /\ ttsOpts' = [p \in names |-> IF p = o THEN v ELSE ttsOpts[p]]
      /\ ttsGiven' = [ttsGiven EXCEPT ![o] = v]
      /\ ttsPlugin' = ttsPlugin /\ ttsRate' = ttsRate /\ ttsFaults' = ttsFaults
      /\ kind' = kind /\ requestPhase' = requestPhase /\ copied' = copied
      /\ wanted' = wanted /\ said' = said /\ emitted' = emitted /\ conn' = conn
      /\ openedWith' = openedWith /\ idle' = idle /\ closing' = closing
      /\ streamsToClose' = streamsToClose /\ before' = before
  BY DEF Tts!UpdateOptions, Tts!requestVars, Tts!poolVars, Tts!closeVars
<1>4. v \in 0 .. MaxCalls
  BY <1>1, <1>3, MediaAssumption DEF TtsTypes
<1>5. "rate" \notin dropped
  BY <1>2 DEF Speaks
<1> HIDE DEF v, dropped
<1>6. /\ ttsGiven \in [Tts!P.keeps -> 0 .. MaxCalls] /\ IsOptions(ttsOpts)
      /\ Agrees(ttsOpts, ttsGiven)
  BY <1>1 DEF GivenInv
<1>7. IsOptions(ttsOpts')
  <2>1. DOMAIN ttsOpts' = names /\ names \subseteq Tts!P.keeps /\ names # {}
    BY <1>3, <1>6 DEF IsOptions
  <2>2. \A p \in names : ttsOpts'[p] \in 0 .. MaxCalls
    BY <1>3, <1>4, <1>6 DEF IsOptions
  <2>3. /\ "rate" \in Tts!P.keeps => "rate" \in names
        /\ "rate" \in names /\ "rate" \notin Tts!P.update.stores => ttsOpts'["rate"] = 0
    BY <1>3, <1>5, <1>6 DEF IsOptions
  <2> HIDE DEF names
  <2>4. QED
    BY <2>1, <2>2, <2>3 DEF IsOptions
<1>8. Agrees(ttsOpts', ttsGiven') /\ ttsGiven' \in [Tts!P.keeps -> 0 .. MaxCalls]
  BY <1>3, <1>4, <1>6 DEF Agrees, IsOptions
<1>9. GivenInv'
  BY <1>3, <1>7, <1>8, TtsNext
<1>10. RequestsInv' /\ SaidInv' /\ OpenedInv'
  BY <1>1, <1>3, TtsNext DEF RequestsInv, SaidInv, OpenedInv
<1>11. TtsTypes'
  BY <1>1, <1>3, <1>4 DEF TtsTypes
<1>12. PoolInv' /\ CloseInv'
  BY <1>1, <1>3 DEF PoolInv, CloseInv
<1>13. QED
  BY <1>9, <1>10, <1>11, <1>12 DEF TtsInv

\* A request copies the options.
LEMMA TtsMakes ==
    ASSUME TtsInv, NEW r \in Tts!Request, NEW k \in {"chunk", "stream"}, Tts!Make(r, k)
    PROVE  TtsInv'
<1>1. /\ TtsTypes /\ GivenInv /\ RequestsInv /\ SaidInv /\ OpenedInv /\ PoolInv /\ CloseInv
  BY DEF TtsInv
<1>2. /\ requestPhase[r] = "none" /\ kind' = [kind EXCEPT ![r] = k]
      /\ requestPhase' = [requestPhase EXCEPT ![r] = "waiting"]
      /\ copied' = [copied EXCEPT ![r] = ttsOpts]
      /\ wanted' = [wanted EXCEPT ![r] = ttsGiven]
      /\ ttsPlugin' = ttsPlugin /\ ttsOpts' = ttsOpts /\ ttsGiven' = ttsGiven
      /\ ttsRate' = ttsRate /\ ttsCalls' = ttsCalls /\ ttsFaults' = ttsFaults
      /\ said' = said /\ emitted' = emitted /\ conn' = conn
      /\ openedWith' = openedWith /\ idle' = idle /\ closing' = closing
      /\ streamsToClose' = streamsToClose /\ before' = before
  BY DEF Tts!Make, Tts!poolVars, Tts!closeVars
<1>3. /\ kind'[r] = k /\ requestPhase'[r] = "waiting" /\ copied'[r] = ttsOpts
      /\ wanted'[r] = ttsGiven
      /\ \A q \in Tts!Request : q # r =>
            /\ kind'[q] = kind[q] /\ requestPhase'[q] = requestPhase[q]
            /\ copied'[q] = copied[q] /\ wanted'[q] = wanted[q]
  BY <1>1, <1>2 DEF TtsTypes
<1>4. /\ ttsGiven \in [Tts!P.keeps -> 0 .. MaxCalls] /\ IsOptions(ttsOpts)
      /\ Agrees(ttsOpts, ttsGiven)
  BY <1>1 DEF GivenInv
<1>5. GivenInv'
  BY <1>2, <1>4, TtsNext
<1>6. RequestsInv'
  <2>1. ASSUME NEW q \in Tts!Request, requestPhase'[q] \in {"waiting", "speaking"}
        PROVE  /\ IsOptions(copied'[q]) /\ Agrees(copied'[q], wanted'[q])
               /\ kind'[q] \in {"chunk", "stream"}
    <3>1. CASE q = r
      BY <1>3, <1>4, <3>1
    <3>2. CASE q # r
      BY <1>1, <1>3, <2>1, <3>2 DEF RequestsInv
    <3>3. QED
      BY <3>1, <3>2
  <2>2. QED
    BY <1>2, <2>1, TtsNext
<1>7. SaidInv'
  <2>1. ASSUME NEW q \in Tts!Request, requestPhase'[q] = "speaking"
        PROVE  kind'[q] = kind[q] /\ IsAsked(q, said'[q], emitted'[q], wanted'[q])
    <3>1. q # r
      BY <1>3, <2>1
    <3>2. QED
      BY <1>1, <1>2, <1>3, <2>1, <3>1 DEF SaidInv
  <2>2. QED
    BY <1>2, <2>1, TtsNext
<1>8. OpenedInv'
  BY <1>1, <1>2, TtsNext DEF OpenedInv
<1>9. \A c \in Tts!Conn : c # Tts!Warm => c \in Tts!Request
  BY Connections
<1>10. PoolInv'
  <2>1. \A c \in idle' : /\ openedWith'[c] # Tts!NoOptions
                         /\ c # Tts!Warm => requestPhase'[c] = "over"
    BY <1>1, <1>2, <1>3, <1>9 DEF PoolInv, TtsTypes
  <2>2. ASSUME NEW q \in Tts!Request, conn'[q] # Tts!NoConn
        PROVE  /\ requestPhase'[q] = "speaking" /\ conn'[q] \notin idle'
               /\ conn'[q] \in {q, Tts!Warm} \/ requestPhase'[conn'[q]] = "over"
               /\ closing' # "closed" => openedWith'[conn'[q]] # Tts!NoOptions
               /\ \A t \in Tts!Request : t # q => conn'[t] # conn'[q]
    <3>1. /\ requestPhase[q] = "speaking" /\ conn[q] \notin idle
          /\ conn[q] \in {q, Tts!Warm} \/ requestPhase[conn[q]] = "over"
          /\ closing # "closed" => openedWith[conn[q]] # Tts!NoOptions
          /\ \A t \in Tts!Request : t # q => conn[t] # conn[q]
      BY <1>1, <1>2, <2>2 DEF PoolInv
    <3>2. q # r
      BY <1>2, <3>1
    <3>3. conn[q] \in {q, Tts!Warm} \/ requestPhase'[conn[q]] = "over"
      <4>1. conn[q] \in Tts!Conn
        BY <1>1, <1>2, <2>2 DEF TtsTypes
      <4>2. QED
        BY <1>2, <1>3, <1>9, <3>1, <4>1
    <3>4. QED
      BY <1>2, <1>3, <3>1, <3>2, <3>3
  <2>3. QED
    BY <2>1, <2>2 DEF PoolInv
<1>11. CloseInv'
  <2>1. \A q \in before : requestPhase[q] = "over" => requestPhase'[q] = "over"
    BY <1>1, <1>2, <1>3 DEF TtsTypes
  <2>2. QED
    BY <1>1, <1>2, <2>1 DEF CloseInv
<1>12. TtsTypes'
  BY <1>1, <1>2 DEF TtsTypes
<1>13. QED
  BY <1>5, <1>6, <1>7, <1>8, <1>10, <1>11, <1>12 DEF TtsInv

\* The pool opens a connection ahead of the first request.
LEMMA TtsPrewarms ==
    ASSUME TtsInv, Tts!Prewarm
    PROVE  TtsInv'
<1>1. /\ TtsTypes /\ GivenInv /\ RequestsInv /\ SaidInv /\ OpenedInv /\ PoolInv /\ CloseInv
  BY DEF TtsInv
<1>2. /\ openedWith[Tts!Warm] = Tts!NoOptions /\ closing = "no"
      /\ openedWith' = [openedWith EXCEPT ![Tts!Warm] = ttsOpts]
      /\ idle' = idle \cup {Tts!Warm}
      /\ ttsPlugin' = ttsPlugin /\ ttsOpts' = ttsOpts /\ ttsGiven' = ttsGiven
      /\ ttsRate' = ttsRate /\ ttsCalls' = ttsCalls /\ ttsFaults' = ttsFaults
      /\ kind' = kind /\ requestPhase' = requestPhase /\ copied' = copied
      /\ wanted' = wanted /\ said' = said /\ emitted' = emitted /\ conn' = conn
      /\ closing' = closing /\ streamsToClose' = streamsToClose /\ before' = before
  BY DEF Tts!Prewarm, Tts!requestVars, Tts!closeVars
<1>3. /\ ttsGiven \in [Tts!P.keeps -> 0 .. MaxCalls] /\ IsOptions(ttsOpts)
      /\ Agrees(ttsOpts, ttsGiven) /\ ttsOpts # Tts!NoOptions
  BY <1>1, SomeOptions DEF GivenInv
<1>4. Tts!Warm \in Tts!Conn
  BY Connections
<1>5. /\ openedWith'[Tts!Warm] = ttsOpts
      /\ \A c \in Tts!Conn : c # Tts!Warm => openedWith'[c] = openedWith[c]
  BY <1>1, <1>2, <1>4 DEF TtsTypes
<1>6. GivenInv' /\ RequestsInv' /\ SaidInv'
  BY <1>1, <1>2, <1>3, TtsNext DEF RequestsInv, SaidInv
<1>7. OpenedInv'
  <2>1. \A c \in Tts!Conn : openedWith'[c] = Tts!NoOptions \/ IsOptions(openedWith'[c])
    BY <1>1, <1>3, <1>5 DEF OpenedInv
  <2>2. QED
    BY <1>2, <2>1, TtsNext
<1>8. PoolInv'
  <2>1. \A c \in idle' : /\ openedWith'[c] # Tts!NoOptions
                         /\ c # Tts!Warm => requestPhase'[c] = "over"
    BY <1>1, <1>2, <1>3, <1>5 DEF PoolInv, TtsTypes
  <2>2. ASSUME NEW q \in Tts!Request, conn'[q] # Tts!NoConn
        PROVE  /\ requestPhase'[q] = "speaking" /\ conn'[q] \notin idle'
               /\ conn'[q] \in {q, Tts!Warm} \/ requestPhase'[conn'[q]] = "over"
               /\ closing' # "closed" => openedWith'[conn'[q]] # Tts!NoOptions
               /\ \A t \in Tts!Request : t # q => conn'[t] # conn'[q]
    <3>1. /\ requestPhase[q] = "speaking" /\ conn[q] \notin idle
          /\ conn[q] \in {q, Tts!Warm} \/ requestPhase[conn[q]] = "over"
          /\ closing # "closed" => openedWith[conn[q]] # Tts!NoOptions
          /\ \A t \in Tts!Request : t # q => conn[t] # conn[q]
      BY <1>1, <1>2, <2>2 DEF PoolInv
    <3>2. conn[q] # Tts!Warm /\ conn[q] \in Tts!Conn
      BY <1>1, <1>2, <2>2, <3>1 DEF TtsTypes
    <3>3. QED
      BY <1>2, <1>5, <3>1, <3>2
  <2>3. QED
    BY <2>1, <2>2 DEF PoolInv
<1>9. TtsTypes' /\ CloseInv'
  BY <1>1, <1>2, <1>4 DEF TtsTypes, CloseInv
<1>10. QED
  BY <1>6, <1>7, <1>8, <1>9 DEF TtsInv

\* The service is asked for a request.
LEMMA RequestSpeaks ==
    ASSUME TtsInv, NEW r \in Tts!Request, requestPhase[r] = "waiting",
           NEW base, IsOptions(base), Tts!Speak(r, base),
           ttsPlugin' = ttsPlugin, kind' = kind, copied' = copied, wanted' = wanted
    PROVE  /\ RequestsInv' /\ SaidInv'
           /\ requestPhase' \in [Tts!Request -> {"none", "waiting", "speaking", "over"}]
           /\ said' = [q \in Tts!Request |-> said'[q]]
           /\ emitted' \in [Tts!Request -> 0 .. MaxCalls]
           /\ requestPhase'[r] = "speaking"
           /\ \A q \in Tts!Request : q # r => requestPhase'[q] = requestPhase[q]
<1>1. TtsTypes /\ RequestsInv /\ SaidInv
  BY DEF TtsInv
<1>2. /\ requestPhase' = [requestPhase EXCEPT ![r] = "speaking"]
      /\ said' = [said EXCEPT ![r] = Tts!Asked(r, base)]
      /\ emitted' = [emitted EXCEPT ![r] = Tts!EmitterRate(r)]
  BY DEF Tts!Speak
<1>3. /\ IsOptions(copied[r]) /\ Agrees(copied[r], wanted[r])
      /\ kind[r] \in {"chunk", "stream"}
  BY <1>1 DEF RequestsInv
<1>4. /\ IsAsked(r, Tts!Asked(r, base), Tts!EmitterRate(r), wanted[r])
      /\ Tts!EmitterRate(r) \in 0 .. MaxCalls
  BY <1>1, <1>3, RequestAsks
<1>5. /\ requestPhase'[r] = "speaking" /\ said'[r] = Tts!Asked(r, base)
      /\ emitted'[r] = Tts!EmitterRate(r)
      /\ \A q \in Tts!Request : q # r =>
            /\ requestPhase'[q] = requestPhase[q] /\ said'[q] = said[q]
            /\ emitted'[q] = emitted[q]
  BY <1>1, <1>2 DEF TtsTypes
<1>6. /\ requestPhase' \in [Tts!Request -> {"none", "waiting", "speaking", "over"}]
      /\ said' = [q \in Tts!Request |-> said'[q]]
      /\ emitted' \in [Tts!Request -> 0 .. MaxCalls]
  BY <1>1, <1>2, <1>4 DEF TtsTypes
<1>7. RequestsInv'
  <2>1. ASSUME NEW q \in Tts!Request, requestPhase'[q] \in {"waiting", "speaking"}
        PROVE  /\ IsOptions(copied'[q]) /\ Agrees(copied'[q], wanted'[q])
               /\ kind'[q] \in {"chunk", "stream"}
    <3>1. CASE q = r
      BY <1>3, <3>1
    <3>2. CASE q # r
      BY <1>1, <1>5, <2>1, <3>2 DEF RequestsInv
    <3>3. QED
      BY <3>1, <3>2
  <2>2. QED
    BY <2>1, TtsNext
<1>8. SaidInv'
  <2>1. ASSUME NEW q \in Tts!Request, requestPhase'[q] = "speaking"
        PROVE  kind'[q] = kind[q] /\ IsAsked(q, said'[q], emitted'[q], wanted'[q])
    <3>1. CASE q = r
      BY <1>4, <1>5, <3>1
    <3>2. CASE q # r
      BY <1>1, <1>5, <2>1, <3>2 DEF SaidInv
    <3>3. QED
      BY <3>1, <3>2
  <2>2. QED
    BY <2>1, TtsNext
<1>9. QED
  BY <1>5, <1>6, <1>7, <1>8

\* A stream takes a connection that is idle, or opens one.
LEMMA TtsTakes ==
    ASSUME TtsInv, NEW r \in Tts!Request, Tts!TakeConnection(r)
    PROVE  TtsInv'
<1>1. /\ TtsTypes /\ GivenInv /\ RequestsInv /\ SaidInv /\ OpenedInv /\ PoolInv /\ CloseInv
  BY DEF TtsInv
<1>2. /\ requestPhase[r] = "waiting"
      /\ ttsPlugin' = ttsPlugin /\ ttsOpts' = ttsOpts /\ ttsGiven' = ttsGiven
      /\ ttsRate' = ttsRate /\ ttsCalls' = ttsCalls /\ ttsFaults' = ttsFaults
      /\ kind' = kind /\ copied' = copied /\ wanted' = wanted
      /\ closing' = closing /\ streamsToClose' = streamsToClose /\ before' = before
  BY DEF Tts!TakeConnection, Tts!closeVars
<1>3. PICK c \in Tts!Conn :
        /\ \E base : IsOptions(base) /\ Tts!Speak(r, base)
        /\ conn' = [conn EXCEPT ![r] = c]
        /\ \/ c \in idle /\ idle' = idle \ {c} /\ openedWith' = openedWith
           \/ c = r /\ idle' = idle /\ openedWith' = [openedWith EXCEPT ![r] = ttsOpts]
  <2>1. CASE idle # {}
    <3>1. PICK c \in idle : /\ conn' = [conn EXCEPT ![r] = c] /\ idle' = idle \ {c}
                            /\ Tts!Speak(r, openedWith[c]) /\ openedWith' = openedWith
      BY <2>1 DEF Tts!TakeConnection
    <3>2. c \in Tts!Conn /\ IsOptions(openedWith[c])
      BY <1>1, <3>1 DEF TtsTypes, OpenedInv, PoolInv
    <3>3. QED
      BY <3>1, <3>2
  <2>2. CASE idle = {}
    <3>1. /\ conn' = [conn EXCEPT ![r] = r]
          /\ openedWith' = [openedWith EXCEPT ![r] = ttsOpts]
          /\ Tts!Speak(r, ttsOpts) /\ idle' = idle
      BY <2>2 DEF Tts!TakeConnection
    <3>2. r \in Tts!Conn /\ IsOptions(ttsOpts)
      BY <1>1, Connections DEF GivenInv
    <3>3. QED
      BY <3>1, <3>2
  <2>3. QED
    BY <2>1, <2>2
<1>4. /\ RequestsInv' /\ SaidInv'
      /\ requestPhase' \in [Tts!Request -> {"none", "waiting", "speaking", "over"}]
      /\ said' = [q \in Tts!Request |-> said'[q]]
      /\ emitted' \in [Tts!Request -> 0 .. MaxCalls]
      /\ requestPhase'[r] = "speaking"
      /\ \A q \in Tts!Request : q # r => requestPhase'[q] = requestPhase[q]
  <2>1. PICK base : IsOptions(base) /\ Tts!Speak(r, base)
    BY <1>3
  <2>2. QED
    BY <1>2, <2>1, RequestSpeaks
<1>5. IsOptions(ttsOpts) /\ ttsOpts # Tts!NoOptions
  BY <1>1, SomeOptions DEF GivenInv
<1>6. GivenInv'
  BY <1>1, <1>2, TtsNext DEF GivenInv
<1>7. /\ r \in Tts!Conn /\ Tts!NoConn \notin Tts!Conn /\ r # Tts!Warm
      /\ \A d \in Tts!Conn : d # Tts!Warm => d \in Tts!Request
  BY Connections
<1>8. /\ openedWith'[c] # Tts!NoOptions
      /\ \A d \in Tts!Conn :
            /\ openedWith'[d] = openedWith[d] \/ (d = r /\ openedWith'[d] = ttsOpts)
            /\ openedWith[d] # Tts!NoOptions => openedWith'[d] # Tts!NoOptions
  BY <1>1, <1>3, <1>5, <1>7 DEF TtsTypes, PoolInv
<1>9. OpenedInv'
  <2>1. \A d \in Tts!Conn : openedWith'[d] = Tts!NoOptions \/ IsOptions(openedWith'[d])
    BY <1>1, <1>5, <1>8 DEF OpenedInv
  <2>2. QED
    BY <1>2, <2>1, TtsNext
<1>10. conn'[r] = c /\ \A q \in Tts!Request : q # r => conn'[q] = conn[q]
  BY <1>1, <1>3 DEF TtsTypes
<1>11. c = r \/ c = Tts!Warm \/ (c \in Tts!Request /\ requestPhase'[c] = "over")
  BY <1>1, <1>2, <1>3, <1>4, <1>7 DEF PoolInv
<1>12. idle' \subseteq idle /\ c \notin idle'
  BY <1>1, <1>2, <1>3, <1>7 DEF PoolInv
<1>13. PoolInv'
  <2>1. ASSUME NEW d \in idle'
        PROVE  /\ openedWith'[d] # Tts!NoOptions
               /\ d # Tts!Warm => requestPhase'[d] = "over"
    <3>1. /\ d \in Tts!Conn /\ openedWith[d] # Tts!NoOptions
          /\ d # Tts!Warm => d \in Tts!Request /\ requestPhase[d] = "over"
      BY <1>1, <1>7, <1>12 DEF PoolInv, TtsTypes
    <3>2. QED
      BY <1>2, <1>4, <1>8, <3>1
  <2>2. ASSUME NEW q \in Tts!Request, q # r, conn[q] # Tts!NoConn
        PROVE  /\ requestPhase'[q] = "speaking" /\ conn[q] \notin idle'
               /\ conn[q] \in {q, Tts!Warm} \/ requestPhase'[conn[q]] = "over"
               /\ closing' # "closed" => openedWith'[conn[q]] # Tts!NoOptions
               /\ \A t \in Tts!Request : t # q => conn[t] # conn[q]
               /\ conn[q] # c
    <3>1. /\ requestPhase[q] = "speaking" /\ conn[q] \notin idle
          /\ conn[q] \in {q, Tts!Warm} \/ requestPhase[conn[q]] = "over"
          /\ closing # "closed" => openedWith[conn[q]] # Tts!NoOptions
          /\ \A t \in Tts!Request : t # q => conn[t] # conn[q]
      BY <1>1, <2>2 DEF PoolInv
    <3>2. conn[q] \in Tts!Conn
      BY <1>1, <2>2 DEF TtsTypes
    <3>3. conn[q] # r
      BY <1>2, <1>7, <2>2, <3>1
    <3>4. conn[q] \in {q, Tts!Warm} \/ requestPhase'[conn[q]] = "over"
      BY <1>4, <1>7, <3>1, <3>2, <3>3
    <3>5. conn[q] # c
      BY <1>3, <3>1, <3>3
    <3>6. QED
      BY <1>2, <1>4, <1>8, <1>12, <2>2, <3>1, <3>2, <3>4, <3>5
  <2>3. ASSUME NEW q \in Tts!Request, conn'[q] # Tts!NoConn
        PROVE  /\ requestPhase'[q] = "speaking" /\ conn'[q] \notin idle'
               /\ conn'[q] \in {q, Tts!Warm} \/ requestPhase'[conn'[q]] = "over"
               /\ closing' # "closed" => openedWith'[conn'[q]] # Tts!NoOptions
               /\ \A t \in Tts!Request : t # q => conn'[t] # conn'[q]
    <3>1. CASE q = r
      <4>1. \A t \in Tts!Request : t # r => conn'[t] # c
        BY <1>7, <1>10, <2>2
      <4>2. QED
        BY <1>4, <1>8, <1>10, <1>11, <1>12, <3>1, <4>1
    <3>2. CASE q # r
      <4>1. \A t \in Tts!Request : t # q => conn'[t] # conn[q]
        BY <1>10, <2>2, <2>3, <3>2
      <4>2. QED
        BY <1>10, <2>2, <2>3, <3>2, <4>1
    <3>3. QED
      BY <3>1, <3>2
  <2>4. QED
    BY <2>1, <2>3 DEF PoolInv
<1>14. CloseInv'
  <2>1. \A q \in before : requestPhase[q] = "over" => requestPhase'[q] = "over"
    BY <1>1, <1>2, <1>4 DEF TtsTypes
  <2>2. QED
    BY <1>1, <1>2, <2>1 DEF CloseInv
<1>15. TtsTypes'
  <2>1. /\ conn' \in [Tts!Request -> Tts!Conn \cup {Tts!NoConn}] /\ idle' \subseteq Tts!Conn
        /\ openedWith' = [d \in Tts!Conn |-> openedWith'[d]]
    BY <1>1, <1>3 DEF TtsTypes
  <2>2. QED
    BY <1>1, <1>2, <1>4, <2>1 DEF TtsTypes
<1>16. QED
  BY <1>4, <1>6, <1>9, <1>13, <1>14, <1>15 DEF TtsInv

\* Other requests have a connection to themselves.
LEMMA TtsAsks ==
    ASSUME TtsInv, NEW r \in Tts!Request, Tts!Ask(r)
    PROVE  TtsInv'
<1>1. /\ TtsTypes /\ GivenInv /\ RequestsInv /\ SaidInv /\ OpenedInv /\ PoolInv /\ CloseInv
  BY DEF TtsInv
<1>2. /\ requestPhase[r] = "waiting" /\ Tts!Speak(r, copied[r])
      /\ ttsPlugin' = ttsPlugin /\ ttsOpts' = ttsOpts /\ ttsGiven' = ttsGiven
      /\ ttsRate' = ttsRate /\ ttsCalls' = ttsCalls /\ ttsFaults' = ttsFaults
      /\ kind' = kind /\ copied' = copied /\ wanted' = wanted /\ conn' = conn
      /\ openedWith' = openedWith /\ idle' = idle
      /\ closing' = closing /\ streamsToClose' = streamsToClose /\ before' = before
  BY DEF Tts!Ask, Tts!poolVars, Tts!closeVars
<1>3. IsOptions(copied[r])
  BY <1>1, <1>2 DEF RequestsInv
<1>4. /\ RequestsInv' /\ SaidInv'
      /\ requestPhase' \in [Tts!Request -> {"none", "waiting", "speaking", "over"}]
      /\ said' = [q \in Tts!Request |-> said'[q]]
      /\ emitted' \in [Tts!Request -> 0 .. MaxCalls]
      /\ requestPhase'[r] = "speaking"
      /\ \A q \in Tts!Request : q # r => requestPhase'[q] = requestPhase[q]
  BY <1>2, <1>3, RequestSpeaks
<1>5. GivenInv' /\ OpenedInv'
  BY <1>1, <1>2, TtsNext DEF GivenInv, OpenedInv
<1>6. \A q \in Tts!Request : /\ requestPhase[q] = "over" => requestPhase'[q] = "over"
                             /\ requestPhase[q] = "speaking" => requestPhase'[q] = "speaking"
  BY <1>2, <1>4
<1>7. /\ idle \subseteq Tts!Request \cup {Tts!Warm} /\ before \subseteq Tts!Request
      /\ \A q \in Tts!Request :
            conn[q] # Tts!NoConn => conn[q] \in Tts!Request \cup {Tts!Warm}
  BY <1>1, Connections DEF TtsTypes
<1>8. PoolInv' /\ CloseInv'
  BY <1>1, <1>2, <1>6, <1>7 DEF PoolInv, CloseInv
<1>9. TtsTypes'
  BY <1>1, <1>2, <1>4 DEF TtsTypes
<1>10. QED
  BY <1>4, <1>5, <1>8, <1>9 DEF TtsInv

\* A request is over, and its connection idle, unchanged or forgotten.
LEMMA RequestLeaves ==
    ASSUME TtsInv, NEW r \in Tts!Request, Tts!Leave(r), ttsPlugin' = ttsPlugin,
           ttsOpts' = ttsOpts, ttsGiven' = ttsGiven, ttsRate' = ttsRate,
           ttsCalls' = ttsCalls, ttsFaults' = ttsFaults, closing' = closing,
           before' = before,
           \/ /\ conn[r] # Tts!NoConn /\ openedWith[conn[r]] # Tts!NoOptions
              /\ idle' = idle \cup {conn[r]} /\ openedWith' = openedWith
           \/ idle' = idle /\ openedWith' = openedWith
           \/ /\ conn[r] # Tts!NoConn /\ idle' = idle
              /\ openedWith' = [openedWith EXCEPT ![conn[r]] = Tts!NoOptions]
    PROVE  TtsInv'
<1>1. /\ TtsTypes /\ GivenInv /\ RequestsInv /\ SaidInv /\ OpenedInv /\ PoolInv /\ CloseInv
  BY DEF TtsInv
<1>2. /\ requestPhase' = [requestPhase EXCEPT ![r] = "over"]
      /\ copied' = [copied EXCEPT ![r] = Tts!NoOptions]
      /\ wanted' = [wanted EXCEPT ![r] = Tts!NoOptions]
      /\ said' = [said EXCEPT ![r] = Tts!NoOptions] /\ emitted' = [emitted EXCEPT ![r] = 0]
      /\ conn' = [conn EXCEPT ![r] = Tts!NoConn]
      /\ streamsToClose' = streamsToClose \ {r} /\ kind' = kind
  BY DEF Tts!Leave
<1>3. /\ requestPhase'[r] = "over" /\ conn'[r] = Tts!NoConn
      /\ \A q \in Tts!Request : q # r =>
            /\ requestPhase'[q] = requestPhase[q] /\ copied'[q] = copied[q]
            /\ wanted'[q] = wanted[q] /\ said'[q] = said[q] /\ emitted'[q] = emitted[q]
            /\ conn'[q] = conn[q]
  BY <1>1, <1>2 DEF TtsTypes
<1>4. /\ Tts!NoConn \notin Tts!Conn
      /\ \A c \in Tts!Conn : c # Tts!Warm => c \in Tts!Request
      /\ \A q \in Tts!Request : conn[q] # Tts!NoConn => conn[q] \in Tts!Conn
  BY <1>1, Connections DEF TtsTypes
<1>5. /\ \A c \in Tts!Conn :
            /\ openedWith'[c] = openedWith[c] \/ openedWith'[c] = Tts!NoOptions
            /\ c # conn[r] => openedWith'[c] = openedWith[c]
      /\ idle' = idle \/ (conn[r] # Tts!NoConn /\ idle' = idle \cup {conn[r]})
      /\ conn[r] \in idle' \/ idle' = idle
      /\ conn[r] # Tts!NoConn /\ conn[r] \in idle' =>
            openedWith'[conn[r]] # Tts!NoOptions
  <2>1. openedWith = [c \in Tts!Conn |-> openedWith[c]]
    BY <1>1 DEF TtsTypes
  <2>2. conn[r] # Tts!NoConn => conn[r] \notin idle /\ conn[r] \in Tts!Conn
    BY <1>1, <1>4 DEF PoolInv
  <2>3. QED
    BY <2>1, <2>2
<1>6. GivenInv' /\ OpenedInv'
  <2>1. \A c \in Tts!Conn : openedWith'[c] = Tts!NoOptions \/ IsOptions(openedWith'[c])
    BY <1>1, <1>5 DEF OpenedInv
  <2>2. QED
    BY <1>1, <2>1, TtsNext DEF GivenInv
<1>7. RequestsInv' /\ SaidInv'
  <2>1. ASSUME NEW q \in Tts!Request, requestPhase'[q] \in {"waiting", "speaking"}
        PROVE  /\ IsOptions(copied'[q]) /\ Agrees(copied'[q], wanted'[q])
               /\ kind'[q] \in {"chunk", "stream"}
    BY <1>1, <1>2, <1>3, <2>1 DEF RequestsInv
  <2>2. ASSUME NEW q \in Tts!Request, requestPhase'[q] = "speaking"
        PROVE  kind'[q] = kind[q] /\ IsAsked(q, said'[q], emitted'[q], wanted'[q])
    BY <1>1, <1>2, <1>3, <2>2 DEF SaidInv
  <2>3. QED
    BY <2>1, <2>2, TtsNext
<1>8. PoolInv'
  <2>1. ASSUME NEW c \in idle'
        PROVE  /\ openedWith'[c] # Tts!NoOptions
               /\ c # Tts!Warm => requestPhase'[c] = "over"
    <3>1. CASE conn[r] # Tts!NoConn /\ c = conn[r]
      <4>1. openedWith'[c] # Tts!NoOptions
        BY <1>5, <2>1, <3>1
      <4>2. c = r \/ c = Tts!Warm \/ (c \in Tts!Request /\ requestPhase[c] = "over")
        BY <1>1, <1>4, <3>1 DEF PoolInv
      <4>3. QED
        BY <1>3, <4>1, <4>2
    <3>2. CASE ~(conn[r] # Tts!NoConn /\ c = conn[r])
      <4>1. c \in idle /\ c \in Tts!Conn /\ c # conn[r]
        BY <1>1, <1>4, <1>5, <2>1, <3>2 DEF TtsTypes
      <4>2. openedWith[c] # Tts!NoOptions /\ (c # Tts!Warm => requestPhase[c] = "over")
        BY <1>1, <4>1 DEF PoolInv
      <4>3. QED
        BY <1>3, <1>4, <1>5, <4>1, <4>2
    <3>3. QED
      BY <3>1, <3>2
  <2>2. ASSUME NEW q \in Tts!Request, conn'[q] # Tts!NoConn
        PROVE  /\ requestPhase'[q] = "speaking" /\ conn'[q] \notin idle'
               /\ conn'[q] \in {q, Tts!Warm} \/ requestPhase'[conn'[q]] = "over"
               /\ closing' # "closed" => openedWith'[conn'[q]] # Tts!NoOptions
               /\ \A t \in Tts!Request : t # q => conn'[t] # conn'[q]
    <3>1. q # r /\ conn'[q] = conn[q] /\ conn[q] # Tts!NoConn
      BY <1>3, <2>2
    <3>2. /\ requestPhase[q] = "speaking" /\ conn[q] \notin idle
          /\ conn[q] \in {q, Tts!Warm} \/ requestPhase[conn[q]] = "over"
          /\ closing # "closed" => openedWith[conn[q]] # Tts!NoOptions
          /\ \A t \in Tts!Request : t # q => conn[t] # conn[q]
      BY <1>1, <3>1 DEF PoolInv
    <3>3. conn[q] \in Tts!Conn /\ conn[q] # conn[r]
      BY <1>4, <3>1, <3>2
    <3>4. conn[q] \notin idle' /\ openedWith'[conn[q]] = openedWith[conn[q]]
      BY <1>5, <3>2, <3>3
    <3>5. conn[q] \in {q, Tts!Warm} \/ requestPhase'[conn[q]] = "over"
      BY <1>3, <1>4, <3>2, <3>3
    <3>6. \A t \in Tts!Request : t # q => conn'[t] # conn[q]
      BY <1>3, <3>1, <3>2
    <3>7. QED
      BY <1>3, <3>1, <3>2, <3>4, <3>5, <3>6
  <2>3. QED
    BY <2>1, <2>2 DEF PoolInv
<1>9. CloseInv'
  <2>1. \A q \in before : requestPhase[q] = "over" \/ q = r => requestPhase'[q] = "over"
    BY <1>1, <1>3 DEF TtsTypes
  <2>2. QED
    BY <1>1, <1>2, <2>1 DEF CloseInv
<1>10. TtsTypes'
  <2>1. 0 \in 0 .. MaxCalls
    BY MediaAssumption
  <2>2. /\ idle' \subseteq Tts!Conn /\ openedWith' = [c \in Tts!Conn |-> openedWith'[c]]
    BY <1>1, <1>4 DEF TtsTypes
  <2>3. QED
    BY <1>1, <1>2, <2>1, <2>2 DEF TtsTypes
<1>11. QED
  BY <1>6, <1>7, <1>8, <1>9, <1>10 DEF TtsInv

\* A request ends, is refused or is closed.
LEMMA TtsLeaves ==
    ASSUME TtsInv, NEW r \in Tts!Request,
           Tts!Finish(r) \/ Tts!Refuse(r) \/ Tts!CloseStream(r)
    PROVE  TtsInv'
<1>1. /\ Tts!Leave(r) /\ ttsPlugin' = ttsPlugin /\ ttsOpts' = ttsOpts
      /\ ttsGiven' = ttsGiven /\ ttsRate' = ttsRate /\ ttsCalls' = ttsCalls
      /\ ttsFaults' = ttsFaults /\ closing' = closing /\ before' = before
  BY DEF Tts!Finish, Tts!Refuse, Tts!CloseStream
<1>2. CASE Tts!Finish(r)
  BY <1>1, <1>2, RequestLeaves DEF Tts!Finish
<1>3. CASE Tts!Refuse(r)
  BY <1>1, <1>3, RequestLeaves DEF Tts!Refuse, Tts!poolVars
<1>4. CASE Tts!CloseStream(r)
  BY <1>1, <1>4, RequestLeaves DEF Tts!CloseStream, Tts!Forgets
<1>5. QED
  BY <1>2, <1>3, <1>4

\* An attempt fails, and its connection is forgotten.
LEMMA TtsFails ==
    ASSUME TtsInv, NEW r \in Tts!Request, Tts!Fails(r)
    PROVE  TtsInv'
<1>1. /\ TtsTypes /\ GivenInv /\ RequestsInv /\ SaidInv /\ OpenedInv /\ PoolInv /\ CloseInv
  BY DEF TtsInv
<1>2. /\ requestPhase[r] = "speaking" /\ ttsFaults < MaxFaults /\ ttsFaults' = ttsFaults + 1
      /\ requestPhase' = [requestPhase EXCEPT ![r] = "waiting"]
      /\ said' = [said EXCEPT ![r] = Tts!NoOptions]
      /\ conn' = [conn EXCEPT ![r] = Tts!NoConn]
      /\ openedWith' = IF conn[r] # Tts!NoConn
                       THEN [openedWith EXCEPT ![conn[r]] = Tts!NoOptions] ELSE openedWith
      /\ ttsPlugin' = ttsPlugin /\ ttsOpts' = ttsOpts /\ ttsGiven' = ttsGiven
      /\ ttsRate' = ttsRate /\ ttsCalls' = ttsCalls
      /\ kind' = kind /\ copied' = copied /\ wanted' = wanted /\ emitted' = emitted
      /\ idle' = idle /\ closing' = closing /\ streamsToClose' = streamsToClose
      /\ before' = before
  BY DEF Tts!Fails, Tts!Forgets, Tts!closeVars
<1>3. /\ requestPhase'[r] = "waiting" /\ conn'[r] = Tts!NoConn
      /\ \A q \in Tts!Request : q # r =>
            /\ requestPhase'[q] = requestPhase[q] /\ said'[q] = said[q]
            /\ conn'[q] = conn[q]
  BY <1>1, <1>2 DEF TtsTypes
<1>4. /\ \A c \in Tts!Conn : c # Tts!Warm => c \in Tts!Request
      /\ \A q \in Tts!Request : conn[q] # Tts!NoConn => conn[q] \in Tts!Conn
  BY <1>1, Connections DEF TtsTypes
<1>5. \A c \in Tts!Conn :
         /\ openedWith'[c] = openedWith[c] \/ openedWith'[c] = Tts!NoOptions
         /\ c # conn[r] => openedWith'[c] = openedWith[c]
  <2>1. openedWith = [c \in Tts!Conn |-> openedWith[c]]
    BY <1>1 DEF TtsTypes
  <2>2. QED
    BY <1>2, <1>4, <2>1
<1>6. GivenInv' /\ OpenedInv'
  <2>1. \A c \in Tts!Conn : openedWith'[c] = Tts!NoOptions \/ IsOptions(openedWith'[c])
    BY <1>1, <1>5 DEF OpenedInv
  <2>2. QED
    BY <1>1, <1>2, <2>1, TtsNext DEF GivenInv
<1>7. RequestsInv' /\ SaidInv'
  <2>1. ASSUME NEW q \in Tts!Request, requestPhase'[q] \in {"waiting", "speaking"}
        PROVE  /\ IsOptions(copied'[q]) /\ Agrees(copied'[q], wanted'[q])
               /\ kind'[q] \in {"chunk", "stream"}
    BY <1>1, <1>2, <1>3, <2>1 DEF RequestsInv
  <2>2. ASSUME NEW q \in Tts!Request, requestPhase'[q] = "speaking"
        PROVE  kind'[q] = kind[q] /\ IsAsked(q, said'[q], emitted'[q], wanted'[q])
    BY <1>1, <1>2, <1>3, <2>2 DEF SaidInv
  <2>3. QED
    BY <1>2, <2>1, <2>2, TtsNext
<1>8. \A q \in Tts!Request : requestPhase[q] = "over" => requestPhase'[q] = "over"
  BY <1>2, <1>3
<1>9. PoolInv'
  <2>1. ASSUME NEW c \in idle'
        PROVE  /\ openedWith'[c] # Tts!NoOptions
               /\ c # Tts!Warm => requestPhase'[c] = "over"
    <3>1. /\ c \in Tts!Conn /\ openedWith[c] # Tts!NoOptions
          /\ c # Tts!Warm => requestPhase[c] = "over"
      BY <1>1, <1>2 DEF PoolInv, TtsTypes
    <3>2. c # conn[r]
      <4>1. conn[r] = Tts!NoConn => conn[r] \notin Tts!Conn
        BY Connections
      <4>2. QED
        BY <1>1, <1>2, <3>1, <4>1 DEF PoolInv
    <3>3. QED
      BY <1>4, <1>5, <1>8, <3>1, <3>2
  <2>2. ASSUME NEW q \in Tts!Request, conn'[q] # Tts!NoConn
        PROVE  /\ requestPhase'[q] = "speaking" /\ conn'[q] \notin idle'
               /\ conn'[q] \in {q, Tts!Warm} \/ requestPhase'[conn'[q]] = "over"
               /\ closing' # "closed" => openedWith'[conn'[q]] # Tts!NoOptions
               /\ \A t \in Tts!Request : t # q => conn'[t] # conn'[q]
    <3>1. q # r /\ conn'[q] = conn[q] /\ conn[q] # Tts!NoConn
      BY <1>3, <2>2
    <3>2. /\ requestPhase[q] = "speaking" /\ conn[q] \notin idle
          /\ conn[q] \in {q, Tts!Warm} \/ requestPhase[conn[q]] = "over"
          /\ closing # "closed" => openedWith[conn[q]] # Tts!NoOptions
          /\ \A t \in Tts!Request : t # q => conn[t] # conn[q]
      BY <1>1, <3>1 DEF PoolInv
    <3>3. conn[q] \in Tts!Conn /\ conn[q] # conn[r]
      BY <1>4, <3>1, <3>2
    <3>4. openedWith'[conn[q]] = openedWith[conn[q]]
      BY <1>5, <3>3
    <3>5. conn[q] \in {q, Tts!Warm} \/ requestPhase'[conn[q]] = "over"
      BY <1>4, <1>8, <3>2, <3>3
    <3>6. \A t \in Tts!Request : t # q => conn'[t] # conn[q]
      BY <1>3, <3>1, <3>2
    <3>7. QED
      BY <1>2, <1>3, <3>1, <3>2, <3>4, <3>5, <3>6
  <2>3. QED
    BY <2>1, <2>2 DEF PoolInv
<1>10. CloseInv'
  BY <1>1, <1>2, <1>8 DEF CloseInv, TtsTypes
<1>11. TtsTypes'
  <2>1. ttsFaults' \in 0 .. MaxFaults
    BY <1>1, <1>2, MediaAssumption DEF TtsTypes
  <2>2. openedWith' = [c \in Tts!Conn |-> openedWith'[c]]
    BY <1>1, <1>2 DEF TtsTypes
  <2>3. QED
    BY <1>1, <1>2, <2>1, <2>2 DEF TtsTypes
<1>12. QED
  BY <1>6, <1>7, <1>9, <1>10, <1>11 DEF TtsInv

\* aclose() is called, and returns.
LEMMA TtsCloses ==
    ASSUME TtsInv, Tts!Close \/ Tts!CloseEnds
    PROVE  TtsInv'
<1>1. /\ TtsTypes /\ GivenInv /\ RequestsInv /\ SaidInv /\ OpenedInv /\ PoolInv /\ CloseInv
  BY DEF TtsInv
<1>2. /\ ttsPlugin' = ttsPlugin /\ ttsOpts' = ttsOpts /\ ttsGiven' = ttsGiven
      /\ ttsRate' = ttsRate /\ ttsCalls' = ttsCalls /\ ttsFaults' = ttsFaults
      /\ kind' = kind /\ requestPhase' = requestPhase /\ copied' = copied
      /\ wanted' = wanted /\ said' = said /\ emitted' = emitted /\ conn' = conn
  BY DEF Tts!Close, Tts!CloseEnds, Tts!requestVars
<1>3. GivenInv' /\ RequestsInv' /\ SaidInv'
  BY <1>1, <1>2, TtsNext DEF GivenInv, RequestsInv, SaidInv
<1>4. CASE Tts!Close
  <2>1. /\ Tts!P.streams.over # "none" /\ closing = "no" /\ closing' = "streams"
        /\ streamsToClose' = IF Tts!P.streams.listed THEN Tts!Running ELSE {}
        /\ before' = Tts!Running /\ openedWith' = openedWith /\ idle' = idle
    BY <1>4 DEF Tts!Close, Tts!poolVars
  <2>2. Tts!P.streams.listed \/ ttsPlugin = "cartesia"
    BY <1>1, <2>1, PluginsSpeak DEF Speaks, TtsTypes
  <2>3. Tts!Running \subseteq Tts!Request
    BY DEF Tts!Running
  <2>4. CloseInv'
    BY <1>2, <2>1, <2>2 DEF CloseInv
  <2>5. TtsTypes'
    BY <1>1, <1>2, <2>1, <2>3 DEF TtsTypes
  <2>6. OpenedInv'
    BY <1>1, <1>2, <2>1, TtsNext DEF OpenedInv
  <2>7. PoolInv'
    BY <1>1, <1>2, <2>1 DEF PoolInv
  <2>8. QED
    BY <1>3, <2>4, <2>5, <2>6, <2>7 DEF TtsInv
<1>5. CASE Tts!CloseEnds
  <2>1. /\ closing = "streams" /\ streamsToClose = {} /\ closing' = "closed" /\ idle' = {}
        /\ openedWith' = [c \in Tts!Conn |-> Tts!NoOptions]
        /\ streamsToClose' = streamsToClose /\ before' = before
    BY <1>5 DEF Tts!CloseEnds
  <2>2. CloseInv'
    BY <1>1, <1>2, <2>1 DEF CloseInv
  <2>3. TtsTypes'
    BY <1>1, <1>2, <2>1 DEF TtsTypes
  <2>4. OpenedInv'
    BY <1>2, <2>1, TtsNext
  <2>5. PoolInv'
    BY <1>1, <1>2, <2>1 DEF PoolInv
  <2>6. QED
    BY <1>3, <2>2, <2>3, <2>4, <2>5 DEF TtsInv
<1>6. QED
  BY <1>4, <1>5

\* Every step keeps what was shown of each.
LEMMA TtsStep == TtsInv /\ (Tts!Next \/ UNCHANGED ttsVars) => TtsInv'
<1> SUFFICES ASSUME TtsInv, Tts!Next \/ UNCHANGED ttsVars PROVE TtsInv'
  OBVIOUS
<1>1. CASE \E o \in Tts!P.keeps : Tts!UpdateOptions(o)
  BY <1>1, TtsUpdates
<1>2. CASE \E r \in Tts!Request, k \in {"chunk", "stream"} : Tts!Make(r, k)
  BY <1>2, TtsMakes
<1>3. CASE Tts!Prewarm
  BY <1>3, TtsPrewarms
<1>4. CASE \E r \in Tts!Request :
              Tts!TakeConnection(r) \/ Tts!Ask(r) \/ Tts!Finish(r) \/ Tts!Refuse(r)
              \/ Tts!Fails(r) \/ Tts!CloseStream(r)
  BY <1>4, TtsTakes, TtsAsks, TtsLeaves, TtsFails
<1>5. CASE Tts!Close \/ Tts!CloseEnds
  BY <1>5, TtsCloses
<1>6. CASE UNCHANGED ttsVars
  <2>1. /\ ttsPlugin' = ttsPlugin /\ ttsOpts' = ttsOpts /\ ttsGiven' = ttsGiven
        /\ ttsRate' = ttsRate /\ ttsCalls' = ttsCalls /\ ttsFaults' = ttsFaults
        /\ kind' = kind /\ requestPhase' = requestPhase /\ copied' = copied
        /\ wanted' = wanted /\ said' = said /\ emitted' = emitted /\ conn' = conn
        /\ openedWith' = openedWith /\ idle' = idle /\ closing' = closing
        /\ streamsToClose' = streamsToClose /\ before' = before
    BY <1>6 DEF ttsVars
  <2>2. GivenInv' /\ RequestsInv' /\ SaidInv' /\ OpenedInv'
    BY <2>1, TtsNext DEF TtsInv, GivenInv, RequestsInv, SaidInv, OpenedInv
  <2>3. TtsTypes' /\ PoolInv' /\ CloseInv'
    BY <2>1 DEF TtsInv, TtsTypes, PoolInv, CloseInv
  <2>4. QED
    BY <2>2, <2>3 DEF TtsInv
<1>7. QED
  BY <1>1, <1>2, <1>3, <1>4, <1>5, <1>6 DEF Tts!Next

\* The invariant is what the run checks, and more.
LEMMA TtsPromises == TtsInv => SpokenAsAsked
<1> SUFFICES ASSUME TtsInv PROVE SpokenAsAsked
  OBVIOUS
<1>1. /\ TtsTypes /\ GivenInv /\ RequestsInv /\ SaidInv /\ OpenedInv /\ PoolInv /\ CloseInv
  BY DEF TtsInv
<1>2. Tts!TypeOK
  <2>1. 0 \in 0 .. MaxCalls /\ DOMAIN ttsOpts \subseteq Tts!P.keeps
    BY <1>1, MediaAssumption DEF GivenInv, IsOptions
  <2>2. QED
    BY <1>1, <2>1 DEF Tts!TypeOK, TtsTypes
<1>3. Tts!SpokenAsAsked /\ Tts!RateIsAsked
  BY <1>1 DEF SaidInv, IsAsked, Tts!SpokenAsAsked, Tts!RateIsAsked
<1>4. Tts!RateIsKnown
  <2>1. "rate" \in Tts!P.update.stores => ttsPlugin \in {"lmnt", "neuphonic"}
    BY <1>1, PluginsSpeak DEF Speaks, TtsTypes
  <2>2. QED
    BY <1>1, <2>1 DEF Tts!RateIsKnown, Tts!Rate, TtsTypes, GivenInv, IsOptions
<1>5. Tts!ClosedIsOver
  BY <1>1 DEF CloseInv, Tts!ClosedIsOver
<1>6. QED
  BY <1>2, <1>3, <1>4, <1>5 DEF SpokenAsAsked

-----------------------------------------------------------------------------
\* A text is spoken as was asked when its request was made, at the rate that its listeners are
\* told, over whichever connection and however often it is tried, and a TTS that is closed
\* leaves no stream; unless the plugin is one that makes an exception of itself.
THEOREM SpeechStaysAsAsked == MediaSpec => []SpokenAsAsked
<1>1. MediaInit => TtsInv
  BY TtsStart DEF MediaInit
<1>2. TtsInv /\ [MediaNext]_mediaVars => TtsInv'
  <2> SUFFICES ASSUME TtsInv, [MediaNext]_mediaVars
               PROVE  TtsInv'
    OBVIOUS
  <2>1. Tts!Next \/ UNCHANGED ttsVars
    BY DEF MediaNext, mediaVars
  <2>2. QED
    BY <2>1, TtsStep
<1>3. TtsInv => SpokenAsAsked
  BY TtsPromises
<1>4. QED
  BY <1>1, <1>2, <1>3, PTL DEF MediaSpec

-----------------------------------------------------------------------------
(* The text outputs: the segments that are shown *)

Participants == Users \cup {NoOne}

\* What a message names, and a text that it holds.
Heads == [id : Nat, who : Participants, track : Participants]
Texts == SUBSET (1 .. MaxTextCalls)

\* What a flush task is given, the tasks, a capture under way, and the messages.
Givens == IF legacy THEN [id : Nat, text : Texts] ELSE Heads \cup {Output!NoWriter}
FlushTasks == [at : {"new"}, given : Givens, n : Nat]
                  \cup [at : {"send"}, given : Givens, head : Heads, n : Nat]
Captures == [at : {"waits"}, part : 1 .. MaxTextCalls, flush : Nat]
                \cup [at : {"create", "send"}, head : Heads, text : Texts]
Messages == [head : Heads, id : Nat, text : Texts, segment : Nat, final : BOOLEAN]

TextTypes ==
    /\ legacy \in BOOLEAN /\ delta \in BOOLEAN /\ capturing \in BOOLEAN
    /\ changed \in BOOLEAN /\ switched \in BOOLEAN /\ lost \in BOOLEAN
    /\ mics \subseteq Users /\ who \in Participants /\ track \in Participants
    /\ id \in Nat \ {0} /\ segment \in Nat /\ parts \in Nat /\ changes \in Nat
    /\ parts + changes <= MaxTextCalls /\ text \in Texts
    /\ writer \in Heads \cup {Output!NoWriter} /\ capture \in Captures \cup {Output!Idle}
    /\ flushes \in Seq(FlushTasks) /\ shown \in Seq(Messages)

\* A message names the track of its participant, or none.
IsOwn(h) == h.track \in {NoOne, h.who}

TrackInv == ~switched =>
    /\ who = NoOne \/ track \in {NoOne, who}
    /\ writer # Output!NoWriter => IsOwn(writer)
    /\ capture.at \in {"create", "send"} => IsOwn(capture.head)
    /\ \A i \in 1 .. Len(flushes) :
          /\ flushes[i].at = "send" => IsOwn(flushes[i].head)
          /\ ~legacy /\ flushes[i].given # Output!NoWriter => IsOwn(flushes[i].given)
    /\ \A i \in 1 .. Len(shown) : IsOwn(shown[i].head)

\* The segment that a flush task ends.
FlushId(f) == IF legacy \/ delta THEN f.given.id ELSE id

\* One flush runs at a time, and a segment is captured when it is over, for a participant
\* that can be shown it; the capture is of the segment of now.  (This and what follows holds
\* until the participant is set while a segment is open.)
Calls ==
    /\ Len(flushes) <= 1 /\ (capturing => flushes = <<>>)
    /\ capture # Output!Idle \/ capturing \/ flushes # <<>> => ~Output!Mute(who, track)
    /\ capture.at = "waits" =>
          ~capturing /\ \A i \in 1 .. Len(flushes) : flushes[i].n = capture.flush
    /\ capture.at \in {"create", "send"} =>
          capturing /\ capture.head.id = id /\ capture.text = text
    /\ writer # Output!NoWriter => ~legacy /\ delta /\ capturing /\ writer.id = id
    /\ capture.at = "create" => ~legacy /\ writer = Output!NoWriter
    /\ capture.at = "send" /\ ~legacy /\ delta => writer # Output!NoWriter
    /\ \A i \in 1 .. Len(flushes) :
          /\ FlushId(flushes[i]) <= id
          /\ \/ FlushId(flushes[i]) >= 1
             \/ ~legacy /\ delta /\ flushes[i].given = Output!NoWriter
          /\ flushes[i].at = "send" => /\ FlushId(flushes[i]) >= 1
                                      /\ flushes[i].head.id = FlushId(flushes[i])

\* What is shown of a segment that is being captured, and nothing else, is of the segment
\* that the caller is in.
Segments ==
    /\ \A i \in 1 .. Len(shown) : shown[i].id >= 1 /\ shown[i].id <= id
    /\ \A i \in 1 .. Len(shown) : ~shown[i].final =>
          /\ shown[i].segment <= segment
          /\ capturing /\ shown[i].id = id => shown[i].segment = segment
          /\ shown[i].segment = segment => capturing /\ shown[i].id = id
    /\ Output!SegmentsApart

\* The segment x was shown to its end; the messages of it that were shown before.
Ended(x) == \E i \in 1 .. Len(shown) : shown[i].id = x /\ shown[i].final
Parts(x) == {i \in 1 .. Len(shown) : shown[i].id = x /\ ~shown[i].final}

\* t is the text of segment x, by what was shown of it.
IsWhole(x, t) ==
    IF delta THEN legacy => \A i \in Parts(x) : shown[i].text \subseteq t
    ELSE \A i \in Parts(x) : (\A k \in Parts(x) : k <= i) => t = shown[i].text

FlushText(f) == IF legacy THEN f.given.text ELSE IF delta THEN {} ELSE text

\* A segment that is shown was ended, or is captured, or a flush will end it; none is shown
\* after its end; and its end will be whole.
Ends ==
    /\ capturing => ~Ended(id)
    /\ \A i \in 1 .. Len(flushes) :
          ~Ended(FlushId(flushes[i])) /\ IsWhole(FlushId(flushes[i]), FlushText(flushes[i]))
    /\ ~legacy /\ delta /\ capturing /\ writer = Output!NoWriter => Parts(id) = {}
    /\ capturing /\ (delta \/ capture = Output!Idle) => IsWhole(id, text)
    /\ \A i \in 1 .. Len(shown) :
          \/ Ended(shown[i].id) \/ (capturing /\ shown[i].id = id)
          \/ \E k \in 1 .. Len(flushes) : FlushId(flushes[k]) = shown[i].id
    /\ Output!FinalIsWhole

TextInv ==
    TextTypes /\ TrackInv /\ (~changed => Calls /\ Segments /\ (~lost => Ends))

\* The outputs start with nothing shown.
LEMMA TextStart == MediaInit => TextInv
<1> SUFFICES ASSUME MediaInit PROVE TextInv
  OBVIOUS
<1>1. /\ legacy \in BOOLEAN /\ delta \in BOOLEAN /\ mics \subseteq Users /\ who \in Participants
      /\ track = (IF who \in mics THEN who ELSE NoOne) /\ id = 1 /\ capturing = FALSE
      /\ text = {} /\ writer = Output!NoWriter /\ parts = 0 /\ segment = 1
      /\ capture = Output!Idle /\ flushes = <<>> /\ shown = <<>> /\ changes = 0
      /\ changed = FALSE /\ switched = FALSE /\ lost = FALSE
  BY DEF MediaInit, Output!Init, Participants
<1>2. TextTypes
  <2>1. <<>> \in Seq(FlushTasks) /\ <<>> \in Seq(Messages)
    OBVIOUS
  <2>2. MaxTextCalls \in Nat /\ {} \in Texts
    BY MediaAssumption DEF Texts
  <2>3. who \in Participants /\ track \in Participants
    BY <1>1 DEF Participants
  <2>4. parts + changes <= MaxTextCalls /\ {parts, changes} \subseteq Nat
    BY <1>1, <2>2
  <2>5. /\ legacy \in BOOLEAN /\ delta \in BOOLEAN /\ capturing \in BOOLEAN
        /\ changed \in BOOLEAN /\ switched \in BOOLEAN /\ lost \in BOOLEAN
    BY <1>1
  <2>6. id \in Nat \ {0} /\ segment \in Nat
    BY <1>1
  <2>7. writer \in Heads \cup {Output!NoWriter} /\ capture \in Captures \cup {Output!Idle}
    BY <1>1
  <2>8. flushes \in Seq(FlushTasks) /\ shown \in Seq(Messages)
    BY <1>1, <2>1
  <2>9. text \in Texts /\ mics \subseteq Users
    BY <1>1, <2>2
  <2>10. QED
    BY <2>3, <2>4, <2>5, <2>6, <2>7, <2>8, <2>9 DEF TextTypes
<1>3. capture.at = "idle"
  BY <1>1 DEF Output!Idle
<1>4. TrackInv /\ Calls
  BY <1>1, <1>3 DEF TrackInv, Calls
<1>5. Segments /\ Ends
  BY <1>1 DEF Segments, Ends, Output!SegmentsApart, Output!FinalIsWhole
<1>6. QED
  BY <1>2, <1>4, <1>5 DEF TextInv

\* What the types say of a capture, of the tasks and of what is shown.
LEMMA TextKnown ==
    ASSUME TextTypes
    PROVE  /\ capture.at \in {"idle", "waits", "create", "send"}
           /\ (capture.at = "idle") = (capture = Output!Idle)
           /\ capture.at = "waits" => capture.part \in 1 .. MaxTextCalls /\ capture.flush \in Nat
           /\ capture.at \in {"create", "send"} =>
                 /\ capture.head \in Heads /\ capture.text \in Texts
                 /\ capture = [at |-> capture.at, head |-> capture.head, text |-> capture.text]
           /\ writer.id \in Nat /\ Output!NoWriter.id = 0
           /\ \A i \in 1 .. Len(flushes) :
                 /\ flushes[i].at \in {"new", "send"} /\ flushes[i].n \in Nat
                 /\ flushes[i].given \in Givens /\ flushes[i].given.id \in Nat
                 /\ legacy => flushes[i].given.text \in Texts
                 /\ flushes[i].at = "send" => flushes[i].head \in Heads
           /\ \A i \in 1 .. Len(shown) : shown[i] \in Messages
           /\ Len(flushes) \in Nat /\ Len(shown) \in Nat /\ Output!LastFlush \in Nat
<1>1. /\ capture.at \in {"idle", "waits", "create", "send"}
      /\ (capture.at = "idle") = (capture = Output!Idle)
      /\ capture.at = "waits" => capture.part \in 1 .. MaxTextCalls /\ capture.flush \in Nat
  BY DEF TextTypes, Captures, Output!Idle
<1>2. capture.at \in {"create", "send"} =>
          /\ capture.head \in Heads /\ capture.text \in Texts
          /\ capture = [at |-> capture.at, head |-> capture.head, text |-> capture.text]
  BY DEF TextTypes, Captures, Output!Idle
<1>3. writer.id \in Nat /\ Output!NoWriter.id = 0
  BY DEF TextTypes, Heads, Output!NoWriter
<1>4. \A f \in FlushTasks :
          /\ f.at \in {"new", "send"} /\ f.n \in Nat /\ f.given \in Givens
          /\ f.at = "send" => f.head \in Heads
  BY DEF FlushTasks
<1>5. \A g \in Givens : g.id \in Nat /\ (legacy => g.text \in Texts)
  BY DEF Givens, Heads, Output!NoWriter
<1>6. /\ \A i \in 1 .. Len(flushes) : flushes[i] \in FlushTasks
      /\ \A i \in 1 .. Len(shown) : shown[i] \in Messages
      /\ Len(flushes) \in Nat /\ Len(shown) \in Nat
  BY DEF TextTypes
<1>7. Output!LastFlush \in Nat
  BY <1>4, <1>6 DEF Output!LastFlush, TextTypes
<1>8. QED
  BY <1>1, <1>2, <1>3, <1>4, <1>5, <1>6, <1>7

\* A flush task that is over leaves the others.
LEMMA FlushLeaves ==
    ASSUME TextTypes, NEW i \in 1 .. Len(flushes)
    PROVE  /\ Output!Without(i) \in Seq(FlushTasks)
           /\ Len(Output!Without(i)) = Len(flushes) - 1
           /\ \A j \in 1 .. Len(flushes) - 1 :
                 Output!Without(i)[j] = IF j < i THEN flushes[j] ELSE flushes[j + 1]
<1> DEFINE f(j) == IF j < i THEN flushes[j] ELSE flushes[j + 1]
           s == [j \in 1 .. Len(flushes) - 1 |-> f(j)]
<1>1. flushes \in Seq(FlushTasks) /\ Len(flushes) \in Nat \ {0}
  BY DEF TextTypes
<1>2. \A j \in 1 .. Len(flushes) - 1 : f(j) \in FlushTasks
  BY <1>1
<1>3. Len(flushes) - 1 \in Nat
  BY <1>1
<1> HIDE DEF f
<1>4. s \in Seq(FlushTasks) /\ Len(s) = Len(flushes) - 1
  BY <1>2, <1>3
<1>5. Output!Without(i) = s
  BY DEF Output!Without, f
<1>6. \A j \in 1 .. Len(flushes) - 1 : s[j] = f(j)
  OBVIOUS
<1>7. QED
  BY <1>4, <1>5, <1>6 DEF f

\* flush() begins one task, if a segment is captured, and may take a new segment.
LEMMA FlushTypes ==
    ASSUME TextTypes, NEW p, NEW t, NEW renewed \in BOOLEAN, Output!DoFlush(p, t, renewed)
    PROVE  /\ flushes' \in Seq(FlushTasks) /\ writer' \in Heads \cup {Output!NoWriter}
           /\ capturing' \in BOOLEAN /\ id' \in Nat \ {0} /\ text' \in Texts
<1>1. /\ id \in Nat \ {0} /\ text \in Texts /\ {} \in Texts /\ Output!LastFlush + 1 \in Nat
      /\ flushes \in Seq(FlushTasks) /\ writer \in Heads \cup {Output!NoWriter}
  BY TextKnown DEF TextTypes, Texts
<1>2. Output!Given \in Givens
  BY <1>1 DEF Output!Given, Givens
<1>3. [at |-> "new", given |-> Output!Given, n |-> Output!LastFlush + 1] \in FlushTasks
  BY <1>1, <1>2 DEF FlushTasks
<1>4. flushes' \in Seq(FlushTasks)
  BY <1>1, <1>3 DEF Output!DoFlush
<1>5. writer' \in Heads \cup {Output!NoWriter} /\ id' \in Nat \ {0} /\ text' \in Texts
  BY <1>1 DEF Output!DoFlush
<1>6. capturing' \in BOOLEAN
  BY DEF Output!DoFlush
<1>7. QED
  BY <1>4, <1>5, <1>6

\* A part begins a segment, or goes on with one.
LEMMA BeginTypes ==
    ASSUME TextTypes, NEW n \in 1 .. MaxTextCalls, Output!Begin(n)
    PROVE  /\ id' \in Nat \ {0} /\ text' \in Texts /\ capturing' \in BOOLEAN
           /\ capture' \in Captures \cup {Output!Idle}
<1>1. /\ id \in Nat \ {0} /\ text \in Texts /\ who \in Participants /\ track \in Participants
      /\ writer \in Heads \cup {Output!NoWriter}
  BY DEF TextTypes
<1>2. id' = Output!NextId /\ capturing' = TRUE /\ text' = Output!NextText(n)
  BY DEF Output!Begin
<1>3. Output!NextId \in Nat \ {0} /\ Output!NextText(n) \in Texts
  BY <1>1 DEF Output!NextId, Output!NextText, Texts
<1>4. Output!Header(Output!NextId, who, track) \in Heads
  BY <1>1, <1>3 DEF Output!Header, Heads
<1>5. PICK h \in Heads : capture' = Output!Idle
        \/ \E place \in {"create", "send"} :
              capture' = [at |-> place, head |-> h, text |-> Output!NextText(n)]
  BY <1>1, <1>4 DEF Output!Begin
<1>6. capture' \in Captures \cup {Output!Idle}
  BY <1>3, <1>5 DEF Captures
<1>7. QED
  BY <1>2, <1>3, <1>6

\* The types are kept.
LEMMA TextTypesStay ==
    ASSUME TextTypes, Output!Next
    PROVE  /\ TextTypes' /\ legacy' = legacy /\ delta' = delta
           /\ (switched => switched') /\ (changed => changed') /\ (lost => lost')
<1>1. /\ legacy \in BOOLEAN /\ delta \in BOOLEAN /\ capturing \in BOOLEAN
      /\ changed \in BOOLEAN /\ switched \in BOOLEAN /\ lost \in BOOLEAN
      /\ mics \subseteq Users /\ who \in Participants /\ track \in Participants
      /\ id \in Nat \ {0} /\ segment \in Nat /\ parts \in Nat /\ changes \in Nat
      /\ parts + changes <= MaxTextCalls /\ text \in Texts
      /\ writer \in Heads \cup {Output!NoWriter} /\ capture \in Captures \cup {Output!Idle}
      /\ flushes \in Seq(FlushTasks) /\ shown \in Seq(Messages) /\ MaxTextCalls \in Nat
  BY MediaAssumption DEF TextTypes
<1>2. ASSUME legacy' = legacy PROVE Givens' = Givens /\ FlushTasks' = FlushTasks
  <2>1. Givens' = Givens
    BY <1>2 DEF Givens
  <2>2. QED
    BY <2>1 DEF FlushTasks
<1>3. CASE Output!Flush
  <2>1. /\ segment' = segment + 1 /\ Output!DoFlush(who, track, FALSE) /\ legacy' = legacy
        /\ delta' = delta /\ mics' = mics /\ who' = who /\ track' = track /\ parts' = parts
        /\ capture' = capture /\ shown' = shown /\ changes' = changes /\ changed' = changed
        /\ switched' = switched /\ lost' = lost
    BY <1>3 DEF Output!Flush, Output!whoVars, Output!spoilVars
  <2>2. /\ flushes' \in Seq(FlushTasks) /\ writer' \in Heads \cup {Output!NoWriter}
        /\ capturing' \in BOOLEAN /\ id' \in Nat \ {0} /\ text' \in Texts
    BY <2>1, FlushTypes
  <2>3. QED
    BY <1>1, <1>2, <2>1, <2>2 DEF TextTypes
<1>4. ASSUME NEW i \in 1 .. Len(flushes), Output!FlushBegins(i)
      PROVE  TextTypes' /\ legacy' = legacy /\ delta' = delta /\ switched' = switched
             /\ changed' = changed /\ lost' = lost
  <2>1. /\ legacy' = legacy /\ delta' = delta /\ mics' = mics /\ who' = who /\ track' = track
        /\ id' = id /\ capturing' = capturing /\ text' = text /\ writer' = writer
        /\ parts' = parts /\ segment' = segment /\ capture' = capture /\ shown' = shown
        /\ changes' = changes /\ changed' = changed /\ switched' = switched /\ lost' = lost
    BY <1>4 DEF Output!FlushBegins, Output!whoVars, Output!outVars, Output!callVars,
                Output!spoilVars
  <2>2. flushes' \in Seq(FlushTasks)
    <3>1. flushes[i].at = "new" /\ flushes[i].given \in Givens /\ flushes[i].n \in Nat
          /\ flushes[i].given.id \in Nat
      BY <1>4, TextKnown DEF Output!FlushBegins
    <3>2. \A j \in Nat : Output!Header(j, who, track) \in Heads
      BY <1>1 DEF Output!Header, Heads
    <3>3. \/ flushes' = Output!Without(i)
          \/ \E h \in Heads : flushes' = [flushes EXCEPT ![i] =
                  [at |-> "send", given |-> flushes[i].given, head |-> h, n |-> flushes[i].n]]
      <4>1. CASE legacy
        BY <1>4, <3>1, <3>2, <4>1 DEF Output!FlushBegins
      <4>2. CASE ~legacy /\ delta
        <5>1. flushes[i].given = Output!NoWriter \/ flushes[i].given \in Heads
          BY <3>1, <4>2 DEF Givens
        <5>2. QED
          BY <1>4, <4>2, <5>1 DEF Output!FlushBegins
      <4>3. CASE ~legacy /\ ~delta
        BY <1>1, <1>4, <3>2, <4>3 DEF Output!FlushBegins
      <4>4. QED
        BY <4>1, <4>2, <4>3
    <3>4. \A h \in Heads : [at |-> "send", given |-> flushes[i].given, head |-> h,
                            n |-> flushes[i].n] \in FlushTasks
      BY <3>1 DEF FlushTasks
    <3>5. \A f \in FlushTasks : [flushes EXCEPT ![i] = f] \in Seq(FlushTasks)
      BY <1>1
    <3>6. QED
      BY <3>3, <3>4, <3>5, FlushLeaves
  <2>3. QED
    BY <1>1, <1>2, <2>1, <2>2 DEF TextTypes
<1>5. ASSUME NEW i \in 1 .. Len(flushes), Output!FlushEnds(i)
      PROVE  TextTypes' /\ legacy' = legacy /\ delta' = delta /\ switched' = switched
             /\ changed' = changed /\ (lost => lost')
  <2>1. /\ legacy' = legacy /\ delta' = delta /\ mics' = mics /\ who' = who /\ track' = track
        /\ id' = id /\ capturing' = capturing /\ text' = text /\ writer' = writer
        /\ parts' = parts /\ segment' = segment /\ capture' = capture
        /\ changes' = changes /\ changed' = changed /\ switched' = switched
        /\ flushes' = Output!Without(i)
    BY <1>5 DEF Output!FlushEnds, Output!whoVars, Output!outVars, Output!callVars,
                Output!spoilVars
  <2>2. shown' \in Seq(Messages) /\ lost' \in BOOLEAN /\ (lost => lost')
    <3>1. flushes[i].head \in Heads /\ flushes[i].head.id \in Nat
          /\ Output!FinalText(i) \in Texts
      BY <1>1, <1>5, TextKnown DEF Output!FlushEnds, Output!FinalText, Heads, Texts
    <3>2. [head |-> flushes[i].head, id |-> flushes[i].head.id, text |-> Output!FinalText(i),
           segment |-> 0, final |-> TRUE] \in Messages
      BY <3>1 DEF Messages
    <3>3. \A m \in Messages : Append(shown, m) \in Seq(Messages)
      BY <1>1
    <3>4. QED
      BY <1>1, <1>5, <3>2, <3>3 DEF Output!FlushEnds
  <2>3. QED
    BY <1>1, <1>2, <2>1, <2>2, FlushLeaves DEF TextTypes
<1>6. CASE Output!CaptureText
  <2>1. /\ parts + changes < MaxTextCalls /\ parts' = parts + 1
        /\ legacy' = legacy /\ delta' = delta /\ mics' = mics /\ who' = who /\ track' = track
        /\ writer' = writer /\ segment' = segment /\ flushes' = flushes /\ shown' = shown
        /\ changes' = changes /\ changed' = changed /\ switched' = switched /\ lost' = lost
    BY <1>6 DEF Output!CaptureText, Output!whoVars, Output!spoilVars
  <2>2. parts + 1 \in 1 .. MaxTextCalls /\ parts' \in Nat /\ parts' + changes' <= MaxTextCalls
    BY <1>1, <2>1
  <2>3. /\ id' \in Nat \ {0} /\ text' \in Texts /\ capturing' \in BOOLEAN
        /\ capture' \in Captures \cup {Output!Idle}
    <3>1. CASE Output!Mute(who, track)
      BY <1>1, <1>6, <3>1 DEF Output!CaptureText
    <3>2. CASE ~Output!Mute(who, track) /\ flushes # <<>>
      <4>1. [at |-> "waits", part |-> parts + 1, flush |-> Output!LastFlush] \in Captures
        BY <2>2, TextKnown DEF Captures
      <4>2. QED
        BY <1>1, <1>6, <3>2, <4>1 DEF Output!CaptureText
    <3>3. CASE ~Output!Mute(who, track) /\ flushes = <<>>
      BY <1>6, <2>2, <3>3, BeginTypes DEF Output!CaptureText
    <3>4. QED
      BY <3>1, <3>2, <3>3
  <2>4. QED
    BY <1>1, <1>2, <2>1, <2>2, <2>3 DEF TextTypes
<1>7. CASE Output!CaptureGoesOn
  <2>1. /\ capture.at = "waits" /\ Output!Begin(capture.part)
        /\ legacy' = legacy /\ delta' = delta /\ mics' = mics /\ who' = who /\ track' = track
        /\ writer' = writer /\ parts' = parts /\ segment' = segment /\ flushes' = flushes
        /\ shown' = shown /\ changes' = changes /\ changed' = changed
        /\ switched' = switched /\ lost' = lost
    BY <1>7 DEF Output!CaptureGoesOn, Output!whoVars, Output!spoilVars
  <2>2. /\ id' \in Nat \ {0} /\ text' \in Texts /\ capturing' \in BOOLEAN
        /\ capture' \in Captures \cup {Output!Idle}
    BY <2>1, TextKnown, BeginTypes
  <2>3. QED
    BY <1>1, <1>2, <2>1, <2>2 DEF TextTypes
<1>8. CASE Output!Created
  <2>1. /\ capture.at = "create" /\ capture' = [capture EXCEPT !.at = "send"]
        /\ writer' = Output!Keeps
        /\ legacy' = legacy /\ delta' = delta /\ mics' = mics /\ who' = who /\ track' = track
        /\ id' = id /\ capturing' = capturing /\ text' = text
        /\ parts' = parts /\ segment' = segment /\ flushes' = flushes /\ shown' = shown
        /\ changes' = changes /\ changed' = changed /\ switched' = switched /\ lost' = lost
    BY <1>8 DEF Output!Created, Output!whoVars, Output!spoilVars
  <2>2. /\ capture' = [at |-> "send", head |-> capture.head, text |-> capture.text]
        /\ capture.head \in Heads /\ capture.text \in Texts
    BY <2>1, TextKnown
  <2>3. capture' \in Captures
    BY <2>2 DEF Captures
  <2>4. writer' \in Heads \cup {Output!NoWriter}
    BY <1>1, <2>1, <2>2 DEF Output!Keeps
  <2>5. QED
    BY <1>1, <1>2, <2>1, <2>3, <2>4 DEF TextTypes
<1>9. CASE Output!Captured
  <2>1. /\ capture.at = "send" /\ capture' = Output!Idle
        /\ legacy' = legacy /\ delta' = delta /\ mics' = mics /\ who' = who /\ track' = track
        /\ id' = id /\ capturing' = capturing /\ text' = text /\ writer' = writer
        /\ parts' = parts /\ segment' = segment /\ flushes' = flushes
        /\ changes' = changes /\ changed' = changed /\ switched' = switched
    BY <1>9 DEF Output!Captured, Output!whoVars, Output!outVars, Output!spoilVars
  <2>2. shown' \in Seq(Messages) /\ lost' \in BOOLEAN /\ (lost => lost')
    <3>1. capture.head \in Heads /\ capture.head.id \in Nat /\ capture.text \in Texts
      BY <2>1, TextKnown DEF Heads
    <3>2. [head |-> capture.head, id |-> capture.head.id, text |-> capture.text,
           segment |-> segment, final |-> FALSE] \in Messages
      BY <1>1, <3>1 DEF Messages
    <3>3. \A m \in Messages : Append(shown, m) \in Seq(Messages)
      BY <1>1
    <3>4. QED
      BY <1>1, <1>9, <3>2, <3>3 DEF Output!Captured
  <2>3. QED
    BY <1>1, <1>2, <2>1, <2>2 DEF TextTypes
<1>10. CASE Output!CancelCapture
  <2>1. /\ capture' = Output!Idle
        /\ legacy' = legacy /\ delta' = delta /\ mics' = mics /\ who' = who /\ track' = track
        /\ id' = id /\ capturing' = capturing /\ text' = text /\ writer' = writer
        /\ parts' = parts /\ segment' = segment /\ shown' = shown
        /\ changes' = changes /\ changed' = changed /\ switched' = switched
    BY <1>10 DEF Output!CancelCapture, Output!whoVars, Output!outVars, Output!spoilVars
  <2>2. flushes' \in Seq(FlushTasks)
    BY <1>1, <1>10, FlushLeaves DEF Output!CancelCapture
  <2>3. lost' \in BOOLEAN /\ (lost => lost')
    BY <1>1, <1>10 DEF Output!CancelCapture
  <2>4. QED
    BY <1>1, <1>2, <2>1, <2>2, <2>3 DEF TextTypes
<1>11. ASSUME NEW p \in Participants, Output!SetParticipant(p)
       PROVE  TextTypes' /\ legacy' = legacy /\ delta' = delta /\ (switched => switched')
              /\ (changed => changed') /\ lost' = lost
  <2>1. /\ parts + changes < MaxTextCalls /\ changes' = changes + 1 /\ who' = p
        /\ legacy' = legacy /\ delta' = delta /\ mics' = mics
        /\ parts' = parts /\ segment' = segment /\ capture' = capture /\ shown' = shown
        /\ lost' = lost
    BY <1>11 DEF Output!SetParticipant, Output!callVars
  <2>2. /\ changed' \in BOOLEAN /\ switched' \in BOOLEAN
        /\ (changed => changed') /\ (switched => switched')
    BY <1>11 DEF Output!SetParticipant
  <2>3. changes' \in Nat /\ parts' + changes' <= MaxTextCalls
    BY <1>1, <2>1
  <2>4. /\ flushes' \in Seq(FlushTasks) /\ writer' \in Heads \cup {Output!NoWriter}
        /\ capturing' \in BOOLEAN /\ id' \in Nat \ {0} /\ text' \in Texts
        /\ track' \in Participants
    <3>1. CASE p = NoOne
      BY <1>1, <1>11, <3>1 DEF Output!SetParticipant, Output!outVars
    <3>2. CASE p # NoOne
      <4>1. /\ track' = Output!TrackOf(p)
            /\ Output!DoFlush(p, Output!TrackOf(p), TRUE)
        BY <1>11, <3>2 DEF Output!SetParticipant
      <4>2. track' \in Participants
        BY <1>1, <1>11, <4>1 DEF Output!TrackOf, Participants
      <4>3. QED
        BY <4>1, <4>2, FlushTypes
    <3>3. QED
      BY <3>1, <3>2
  <2>5. QED
    BY <1>1, <1>2, <1>11, <2>1, <2>2, <2>3, <2>4 DEF TextTypes
<1>12. ASSUME NEW p \in Users, Output!TrackPublished(p)
       PROVE  TextTypes' /\ legacy' = legacy /\ delta' = delta /\ switched' = switched
              /\ changed' = changed /\ lost' = lost
  <2>1. /\ mics' = mics \cup {p} /\ track' = (IF p = who THEN p ELSE track)
        /\ legacy' = legacy /\ delta' = delta /\ who' = who
        /\ id' = id /\ capturing' = capturing /\ text' = text /\ writer' = writer
        /\ parts' = parts /\ segment' = segment /\ capture' = capture
        /\ flushes' = flushes /\ shown' = shown
        /\ changes' = changes /\ changed' = changed /\ switched' = switched /\ lost' = lost
    BY <1>12 DEF Output!TrackPublished, Output!outVars, Output!callVars, Output!spoilVars
  <2>2. mics' \subseteq Users /\ track' \in Participants
    BY <1>1, <2>1
  <2>3. QED
    BY <1>1, <1>2, <2>1, <2>2 DEF TextTypes
<1>13. QED
  BY <1>3, <1>4, <1>5, <1>6, <1>7, <1>8, <1>9, <1>10, <1>11, <1>12 DEF Output!Next, Participants

\* The tasks after a flush: those of before, and one that it began.
LEMMA FlushAdds ==
    ASSUME TextTypes, NEW p, NEW t, NEW renewed, Output!DoFlush(p, t, renewed)
    PROVE  /\ Output!Flushed(p, t) =>
                 /\ Len(flushes') = Len(flushes) + 1 /\ writer' = Output!NoWriter
                 /\ flushes'[Len(flushes) + 1] = [at |-> "new", given |-> Output!Given,
                                                  n |-> Output!LastFlush + 1]
                 /\ \A i \in 1 .. Len(flushes) : flushes'[i] = flushes[i]
           /\ ~Output!Flushed(p, t) => flushes' = flushes /\ writer' = writer
<1>1. flushes \in Seq(FlushTasks)
  BY DEF TextTypes
<1>2. CASE Output!Flushed(p, t)
  BY <1>1, <1>2 DEF Output!DoFlush
<1>3. CASE ~Output!Flushed(p, t)
  BY <1>3 DEF Output!DoFlush
<1>4. QED
  BY <1>2, <1>3

\* A message is shown after the others.
LEMMA MessageShown ==
    ASSUME TextTypes, NEW m, shown' = Append(shown, m)
    PROVE  /\ Len(shown') = Len(shown) + 1 /\ Len(shown) \in Nat /\ shown'[Len(shown) + 1] = m
           /\ \A i \in 1 .. Len(shown) : shown'[i] = shown[i]
           /\ \A i \in 1 .. Len(shown') : i \in 1 .. Len(shown) \/ i = Len(shown) + 1
<1>1. shown \in Seq(Messages)
  BY DEF TextTypes
<1>2. Len(shown') = Len(shown) + 1 /\ Len(shown) \in Nat /\ shown'[Len(shown) + 1] = m
  BY <1>1
<1>3. \A i \in 1 .. Len(shown) : shown'[i] = shown[i]
  BY <1>1
<1>4. \A i \in 1 .. Len(shown') : i \in 1 .. Len(shown) \/ i = Len(shown) + 1
  BY <1>2
<1>5. QED
  BY <1>2, <1>3, <1>4

\* What flush() gives its task names the track that the writer names.
LEMMA FlushIsOwn ==
    ASSUME TextTypes, NEW p, NEW t, NEW renewed, Output!DoFlush(p, t, renewed),
           legacy' = legacy, ~switched, TrackInv
    PROVE  /\ writer' # Output!NoWriter => IsOwn(writer')
           /\ \A i \in 1 .. Len(flushes') :
                 /\ flushes'[i].at = "send" => IsOwn(flushes'[i].head)
                 /\ ~legacy /\ flushes'[i].given # Output!NoWriter => IsOwn(flushes'[i].given)
<1>1. /\ writer # Output!NoWriter => IsOwn(writer)
      /\ \A i \in 1 .. Len(flushes) :
            /\ flushes[i].at = "send" => IsOwn(flushes[i].head)
            /\ ~legacy /\ flushes[i].given # Output!NoWriter => IsOwn(flushes[i].given)
  BY DEF TrackInv
<1>2. CASE Output!Flushed(p, t)
  <2>1. /\ Len(flushes') = Len(flushes) + 1 /\ writer' = Output!NoWriter
        /\ flushes'[Len(flushes) + 1] = [at |-> "new", given |-> Output!Given,
                                         n |-> Output!LastFlush + 1]
        /\ \A i \in 1 .. Len(flushes) : flushes'[i] = flushes[i]
    BY <1>2, FlushAdds
  <2>2. ~legacy /\ Output!Given # Output!NoWriter => IsOwn(Output!Given)
    BY <1>1 DEF Output!Given
  <2>3. \A i \in 1 .. Len(flushes') : i \in 1 .. Len(flushes) \/ i = Len(flushes) + 1
    BY <2>1, TextKnown
  <2>4. QED
    BY <1>1, <2>1, <2>2, <2>3
<1>3. CASE ~Output!Flushed(p, t)
  BY <1>1, <1>3, FlushAdds
<1>4. QED
  BY <1>2, <1>3

\* What a part begins, or goes on with, names the track of its participant.
LEMMA BeginIsOwn ==
    ASSUME TextTypes, NEW n, Output!Begin(n), ~switched, TrackInv
    PROVE  capture'.at \in {"create", "send"} => IsOwn(capture'.head)
<1>1. /\ writer # Output!NoWriter => IsOwn(writer)
      /\ who = NoOne \/ track \in {NoOne, who}
  BY DEF TrackInv
<1>2. who # NoOne => IsOwn(Output!Header(Output!NextId, who, track))
  BY <1>1 DEF IsOwn, Output!Header
<1>3. Output!Idle.at = "idle"
  BY DEF Output!Idle
<1>4. CASE ~legacy /\ delta /\ writer # Output!NoWriter
  BY <1>1, <1>3, <1>4 DEF Output!Begin
<1>5. CASE ~(~legacy /\ delta /\ writer # Output!NoWriter)
  <2>1. capture' # Output!Idle => who # NoOne
    BY <1>5 DEF Output!Begin, Output!Mute
  <2>2. capture' # Output!Idle => capture'.head = Output!Header(Output!NextId, who, track)
    BY <1>5 DEF Output!Begin
  <2>3. QED
    BY <1>2, <1>3, <2>1, <2>2
<1>6. QED
  BY <1>4, <1>5

\* A message names the track of its participant, whichever way that one was set.
LEMMA OwnTracksStay ==
    ASSUME TextTypes, TrackInv, Output!Next
    PROVE  TrackInv'
<1> SUFFICES ASSUME ~switched' PROVE TrackInv'
  BY DEF TrackInv
<1>1. ~switched /\ legacy' = legacy
  BY TextTypesStay
<1>2. /\ who = NoOne \/ track \in {NoOne, who}
      /\ writer # Output!NoWriter => IsOwn(writer)
      /\ capture.at \in {"create", "send"} => IsOwn(capture.head)
      /\ \A i \in 1 .. Len(flushes) :
            /\ flushes[i].at = "send" => IsOwn(flushes[i].head)
            /\ ~legacy /\ flushes[i].given # Output!NoWriter => IsOwn(flushes[i].given)
      /\ \A i \in 1 .. Len(shown) : IsOwn(shown[i].head)
  BY <1>1 DEF TrackInv
<1>3. Output!Idle.at = "idle"
  BY DEF Output!Idle
<1>4. \A i \in 1 .. Len(flushes) : \A j \in 1 .. Len(Output!Without(i)) :
          /\ Output!Without(i)[j].at = "send" => IsOwn(Output!Without(i)[j].head)
          /\ ~legacy /\ Output!Without(i)[j].given # Output!NoWriter =>
                IsOwn(Output!Without(i)[j].given)
  <2>1. \A i \in 1 .. Len(flushes) : \A j \in 1 .. Len(flushes) - 1 :
            j \in 1 .. Len(flushes) /\ j + 1 \in 1 .. Len(flushes)
    BY TextKnown
  <2>2. QED
    BY <1>2, <2>1, FlushLeaves
<1>5. CASE Output!Flush
  <2>1. /\ Output!DoFlush(who, track, FALSE) /\ who' = who /\ track' = track
        /\ capture' = capture /\ shown' = shown
    BY <1>5 DEF Output!Flush, Output!whoVars
  <2>2. QED
    BY <1>1, <1>2, <2>1, FlushIsOwn DEF TrackInv
<1>6. ASSUME NEW i \in 1 .. Len(flushes), Output!FlushBegins(i) PROVE TrackInv'
  <2>1. /\ flushes[i].at = "new" /\ who' = who /\ track' = track /\ writer' = writer
        /\ capture' = capture /\ shown' = shown
    BY <1>6 DEF Output!FlushBegins, Output!whoVars, Output!outVars, Output!callVars
  <2>2. who # NoOne => \A j : IsOwn(Output!Header(j, who, track))
    BY <1>2 DEF IsOwn, Output!Header
  <2>3. \/ flushes' = Output!Without(i)
        \/ \E h : IsOwn(h) /\ flushes' = [flushes EXCEPT ![i] =
              [at |-> "send", given |-> flushes[i].given, head |-> h, n |-> flushes[i].n]]
    <3>1. CASE legacy
      BY <1>6, <2>2, <3>1 DEF Output!FlushBegins, Output!Mute
    <3>2. CASE ~legacy /\ delta
      BY <1>2, <1>6, <3>2 DEF Output!FlushBegins
    <3>3. CASE ~legacy /\ ~delta
      BY <1>6, <2>2, <3>3 DEF Output!FlushBegins
    <3>4. QED
      BY <3>1, <3>2, <3>3
  <2>4. \A j \in 1 .. Len(flushes') :
            /\ flushes'[j].at = "send" => IsOwn(flushes'[j].head)
            /\ ~legacy /\ flushes'[j].given # Output!NoWriter => IsOwn(flushes'[j].given)
    <3>1. CASE flushes' = Output!Without(i)
      BY <1>4, <3>1
    <3>2. CASE flushes' # Output!Without(i)
      <4>1. PICK h : IsOwn(h) /\ flushes' = [flushes EXCEPT ![i] =
              [at |-> "send", given |-> flushes[i].given, head |-> h, n |-> flushes[i].n]]
        BY <2>3, <3>2
      <4>2. /\ Len(flushes') = Len(flushes) /\ flushes'[i].head = h
            /\ flushes'[i].given = flushes[i].given
            /\ \A j \in 1 .. Len(flushes) : j # i => flushes'[j] = flushes[j]
        BY <4>1 DEF TextTypes
      <4>3. QED
        BY <1>2, <4>1, <4>2
    <3>3. QED
      BY <3>1, <3>2
  <2>5. QED
    BY <1>1, <1>2, <2>1, <2>4 DEF TrackInv
<1>7. ASSUME NEW i \in 1 .. Len(flushes), Output!FlushEnds(i) PROVE TrackInv'
  <2>1. /\ flushes[i].at = "send" /\ who' = who /\ track' = track /\ writer' = writer
        /\ capture' = capture /\ flushes' = Output!Without(i)
    BY <1>7 DEF Output!FlushEnds, Output!whoVars, Output!outVars, Output!callVars
  <2>2. \A j \in 1 .. Len(shown') : IsOwn(shown'[j].head)
    <3>1. \/ shown' = shown
          \/ shown' = Append(shown, [head |-> flushes[i].head, id |-> flushes[i].head.id,
                                     text |-> Output!FinalText(i), segment |-> 0,
                                     final |-> TRUE])
      BY <1>7 DEF Output!FlushEnds
    <3>2. IsOwn(flushes[i].head)
      BY <1>2, <2>1
    <3>3. QED
      BY <1>2, <3>1, <3>2, MessageShown
  <2>3. QED
    BY <1>1, <1>2, <1>4, <2>1, <2>2 DEF TrackInv
<1>8. CASE Output!CaptureText
  <2>1. /\ who' = who /\ track' = track /\ writer' = writer /\ flushes' = flushes
        /\ shown' = shown
    BY <1>8 DEF Output!CaptureText, Output!whoVars
  <2>2. capture'.at \in {"create", "send"} => IsOwn(capture'.head)
    <3>1. CASE Output!Mute(who, track)
      BY <1>2, <1>8, <3>1 DEF Output!CaptureText
    <3>2. CASE ~Output!Mute(who, track) /\ flushes # <<>>
      BY <1>8, <3>2 DEF Output!CaptureText
    <3>3. CASE ~Output!Mute(who, track) /\ flushes = <<>>
      BY <1>1, <1>8, <3>3, BeginIsOwn DEF Output!CaptureText
    <3>4. QED
      BY <3>1, <3>2, <3>3
  <2>3. QED
    BY <1>1, <1>2, <2>1, <2>2 DEF TrackInv
<1>9. CASE Output!CaptureGoesOn
  <2>1. /\ Output!Begin(capture.part) /\ who' = who /\ track' = track /\ writer' = writer
        /\ flushes' = flushes /\ shown' = shown
    BY <1>9 DEF Output!CaptureGoesOn, Output!whoVars
  <2>2. QED
    BY <1>1, <1>2, <2>1, BeginIsOwn DEF TrackInv
<1>10. CASE Output!Created
  <2>1. /\ capture.at = "create" /\ capture' = [capture EXCEPT !.at = "send"]
        /\ writer' = Output!Keeps /\ who' = who /\ track' = track /\ flushes' = flushes
        /\ shown' = shown
    BY <1>10 DEF Output!Created, Output!whoVars
  <2>2. IsOwn(capture.head) /\ capture'.head = capture.head
    BY <1>2, <2>1, TextKnown
  <2>3. QED
    BY <1>1, <1>2, <2>1, <2>2 DEF TrackInv, Output!Keeps
<1>11. CASE Output!Captured
  <2>1. /\ capture.at = "send" /\ capture' = Output!Idle /\ who' = who /\ track' = track
        /\ writer' = writer /\ flushes' = flushes
    BY <1>11 DEF Output!Captured, Output!whoVars, Output!outVars
  <2>2. \A j \in 1 .. Len(shown') : IsOwn(shown'[j].head)
    <3>1. \/ shown' = shown
          \/ shown' = Append(shown, [head |-> capture.head, id |-> capture.head.id,
                                     text |-> capture.text, segment |-> segment,
                                     final |-> FALSE])
      BY <1>11 DEF Output!Captured
    <3>2. IsOwn(capture.head)
      BY <1>2, <2>1
    <3>3. QED
      BY <1>2, <3>1, <3>2, MessageShown
  <2>3. QED
    BY <1>1, <1>2, <1>3, <2>1, <2>2 DEF TrackInv
<1>12. CASE Output!CancelCapture
  <2>1. /\ capture' = Output!Idle /\ who' = who /\ track' = track /\ writer' = writer
        /\ shown' = shown
    BY <1>12 DEF Output!CancelCapture, Output!whoVars, Output!outVars
  <2>2. flushes' = flushes \/ \E i \in 1 .. Len(flushes) : flushes' = Output!Without(i)
    BY <1>12 DEF Output!CancelCapture
  <2>3. QED
    BY <1>1, <1>2, <1>3, <1>4, <2>1, <2>2 DEF TrackInv
<1>13. ASSUME NEW p \in Participants, Output!SetParticipant(p) PROVE TrackInv'
  <2>1. /\ who' = p /\ capture' = capture /\ shown' = shown
        /\ switched' = (switched \/ (legacy /\ track \notin {NoOne, p}))
    BY <1>13 DEF Output!SetParticipant, Output!callVars
  <2>2. CASE p = NoOne
    BY <1>1, <1>2, <1>13, <2>1, <2>2 DEF TrackInv, Output!SetParticipant, Output!outVars
  <2>3. CASE p # NoOne
    <3>1. /\ track' = Output!TrackOf(p) /\ Output!DoFlush(p, Output!TrackOf(p), TRUE)
      BY <1>13, <2>3 DEF Output!SetParticipant
    <3>2. track' \in {NoOne, p}
      BY <2>1, <3>1 DEF Output!TrackOf
    <3>3. QED
      BY <1>1, <1>2, <2>1, <3>1, <3>2, FlushIsOwn DEF TrackInv
  <2>4. QED
    BY <2>2, <2>3
<1>14. ASSUME NEW p \in Users, Output!TrackPublished(p) PROVE TrackInv'
  <2>1. /\ track' = (IF p = who THEN p ELSE track) /\ who' = who /\ writer' = writer
        /\ capture' = capture /\ flushes' = flushes /\ shown' = shown
    BY <1>14 DEF Output!TrackPublished, Output!outVars, Output!callVars
  <2>2. QED
    BY <1>1, <1>2, <2>1 DEF TrackInv
<1>15. QED
  BY <1>5, <1>6, <1>7, <1>8, <1>9, <1>10, <1>11, <1>12, <1>13, <1>14
     DEF Output!Next, Participants

\* Nothing is shown.
LEMMA ShownStays ==
    ASSUME shown' = shown, legacy' = legacy, delta' = delta
    PROVE  /\ \A x : Ended(x)' = Ended(x) /\ Parts(x)' = Parts(x)
           /\ \A x, t : IsWhole(x, t) => IsWhole(x, t)'
<1>1. \A x : Ended(x)' = Ended(x) /\ Parts(x)' = Parts(x)
  BY DEF Ended, Parts
<1>2. \A x, t : IsWhole(x, t) => IsWhole(x, t)'
  BY <1>1 DEF IsWhole
<1>3. QED
  BY <1>1, <1>2

\* A message is shown: the parts of its segment, and whether that was ended.
LEMMA PartsShown ==
    ASSUME TextTypes, NEW m \in Messages, shown' = Append(shown, m)
    PROVE  \A x : /\ Ended(x)' <=> Ended(x) \/ (m.id = x /\ m.final)
                  /\ Parts(x)' = Parts(x) \cup (IF m.id = x /\ ~m.final THEN {Len(shown) + 1}
                                                ELSE {})
                  /\ Parts(x) \subseteq 1 .. Len(shown)
<1>1. /\ Len(shown') = Len(shown) + 1 /\ Len(shown) \in Nat /\ shown'[Len(shown) + 1] = m
      /\ \A i \in 1 .. Len(shown) : shown'[i] = shown[i]
      /\ \A i \in 1 .. Len(shown') : i \in 1 .. Len(shown) \/ i = Len(shown) + 1
  BY MessageShown
<1>2. /\ \A i \in 1 .. Len(shown) : i \in 1 .. Len(shown')
      /\ Len(shown) + 1 \in 1 .. Len(shown')
  BY <1>1
<1>3. ASSUME NEW x
      PROVE  Ended(x)' <=> Ended(x) \/ (m.id = x /\ m.final)
  BY <1>1, <1>2 DEF Ended
<1>4. ASSUME NEW x
      PROVE  Parts(x)' = Parts(x) \cup (IF m.id = x /\ ~m.final THEN {Len(shown) + 1} ELSE {})
  BY <1>1, <1>2 DEF Parts
<1>5. QED
  BY <1>3, <1>4 DEF Parts

\* The message that makes a segment final is whole, and is its last.
LEMMA FinalsShown ==
    ASSUME TextTypes, ~changed, ~lost, Output!FinalIsWhole, legacy' = legacy, delta' = delta,
           NEW m \in Messages, shown' = Append(shown, m), ~Ended(m.id),
           m.final => IsWhole(m.id, m.text)
    PROVE  Output!FinalIsWhole'
<1>1. /\ Len(shown') = Len(shown) + 1 /\ Len(shown) \in Nat /\ shown'[Len(shown) + 1] = m
      /\ \A i \in 1 .. Len(shown) : shown'[i] = shown[i]
      /\ \A i \in 1 .. Len(shown') : i \in 1 .. Len(shown) \/ i = Len(shown) + 1
  BY MessageShown
<1>2. \A i \in 1 .. Len(shown) : Output!Before(i)' = Output!Before(i)
  <2>1. \A i \in 1 .. Len(shown) : i \in Nat /\ \A j \in 1 .. i - 1 : j \in 1 .. Len(shown)
    BY <1>1
  <2>2. QED
    BY <1>1, <2>1 DEF Output!Before
<1>3. ASSUME NEW i, i = Len(shown) + 1 PROVE Output!Before(i)' = Parts(m.id)
  <2>1. 1 .. i - 1 = 1 .. Len(shown) /\ shown'[i] = m
    BY <1>1, <1>3
  <2>2. \A j \in 1 .. Len(shown) : shown'[j] = shown[j]
    BY <1>1
  <2>3. QED
    BY <2>1, <2>2 DEF Output!Before, Parts
<1>4. SUFFICES ASSUME NEW i \in 1 .. Len(shown'), shown'[i].final
               PROVE  /\ \A j \in i + 1 .. Len(shown') : shown'[j].id # shown'[i].id
                      /\ IF delta THEN legacy => \A j \in Output!Before(i)' :
                                          shown'[j].text \subseteq shown'[i].text
                         ELSE \A j \in Output!Before(i)' :
                             (\A k \in Output!Before(i)' : k <= j) =>
                                 shown'[i].text = shown'[j].text
  BY DEF Output!FinalIsWhole
<1>5. CASE i = Len(shown) + 1
  <2>1. \A j \in i + 1 .. Len(shown') : FALSE
    BY <1>1, <1>5
  <2>2. \A j \in Parts(m.id) : shown'[j] = shown[j]
    BY <1>1 DEF Parts
  <2>3. shown'[i] = m /\ Output!Before(i)' = Parts(m.id)
    BY <1>1, <1>3, <1>5
  <2>4. IsWhole(m.id, m.text)
    BY <1>4, <2>3
  <2>5. QED
    BY <2>1, <2>2, <2>3, <2>4 DEF IsWhole
<1>6. CASE i \in 1 .. Len(shown)
  <2>1. /\ \A j \in i + 1 .. Len(shown) : shown[j].id # shown[i].id
        /\ IF delta THEN legacy => \A j \in Output!Before(i) :
                            shown[j].text \subseteq shown[i].text
           ELSE \A j \in Output!Before(i) : (\A k \in Output!Before(i) : k <= j) =>
                    shown[i].text = shown[j].text
    BY <1>1, <1>4, <1>6 DEF Output!FinalIsWhole
  <2>2. shown[i].id # m.id
    BY <1>1, <1>4, <1>6 DEF Ended
  <2>3. \A j \in i + 1 .. Len(shown') : j \in i + 1 .. Len(shown) \/ j = Len(shown) + 1
    BY <1>1
  <2>4. \A j \in i + 1 .. Len(shown) : j \in 1 .. Len(shown)
    BY <1>1
  <2>5. \A j \in Output!Before(i) : j \in 1 .. Len(shown)
    BY <1>1 DEF Output!Before
  <2>6. QED
    BY <1>1, <1>2, <1>6, <2>1, <2>2, <2>3, <2>4, <2>5
<1>7. QED
  BY <1>1, <1>5, <1>6

\* A segment is flushed by one task, which is given the segment and its text.
LEMMA SegmentFlushed ==
    ASSUME TextTypes, Calls, Segments, ~lost => Ends, Output!Flush, ~changed
    PROVE  Calls' /\ Segments' /\ (~lost' => Ends')
<1>1. /\ capture = Output!Idle /\ segment' = segment + 1 /\ legacy' = legacy /\ delta' = delta
      /\ who' = who /\ track' = track /\ capture' = capture /\ shown' = shown
      /\ changed' = changed /\ lost' = lost /\ Output!DoFlush(who, track, FALSE)
  BY DEF Output!Flush, Output!whoVars, Output!spoilVars
<1>2. /\ id \in Nat \ {0} /\ segment \in Nat /\ writer.id \in Nat /\ Output!NoWriter.id = 0
      /\ capture.at = "idle" /\ capturing \in BOOLEAN
      /\ \A i \in 1 .. Len(shown) : shown[i] \in Messages
  BY <1>1, TextKnown DEF TextTypes
<1>3. /\ Len(flushes) <= 1 /\ (capturing => flushes = <<>>)
      /\ capturing \/ flushes # <<>> => ~Output!Mute(who, track)
      /\ writer # Output!NoWriter => ~legacy /\ delta /\ capturing /\ writer.id = id
      /\ \A i \in 1 .. Len(flushes) :
            /\ FlushId(flushes[i]) <= id
            /\ \/ FlushId(flushes[i]) >= 1
               \/ ~legacy /\ delta /\ flushes[i].given = Output!NoWriter
            /\ flushes[i].at = "send" => /\ FlushId(flushes[i]) >= 1
                                        /\ flushes[i].head.id = FlushId(flushes[i])
  BY DEF Calls
<1>4. /\ \A i \in 1 .. Len(shown) : shown[i].id >= 1 /\ shown[i].id <= id
      /\ \A i \in 1 .. Len(shown) : ~shown[i].final =>
            /\ shown[i].segment <= segment
            /\ capturing /\ shown[i].id = id => shown[i].segment = segment
            /\ shown[i].segment = segment => capturing /\ shown[i].id = id
      /\ Output!SegmentsApart
  BY DEF Segments
<1>5. /\ ~capturing' /\ (Output!Flushed(who, track) <=> capturing)
      /\ id' = (IF capturing /\ legacy THEN id + 1 ELSE id)
      /\ text' = (IF capturing /\ legacy THEN {} ELSE text)
  BY <1>1, <1>2, <1>3 DEF Output!DoFlush, Output!Flushed
<1>6. Segments'
  <2>1. \A i \in 1 .. Len(shown) : shown[i].id \in Nat /\ shown[i].segment \in Nat
    BY <1>2 DEF Messages
  <2>2. \A i \in 1 .. Len(shown) : shown[i].id >= 1 /\ shown[i].id <= id'
    BY <1>2, <1>4, <1>5, <2>1
  <2>3. \A i \in 1 .. Len(shown) : ~shown[i].final =>
            shown[i].segment <= segment' /\ shown[i].segment # segment'
    BY <1>1, <1>2, <1>4, <2>1
  <2>4. Output!SegmentsApart'
    BY <1>1, <1>4 DEF Output!SegmentsApart
  <2>5. QED
    BY <1>1, <1>5, <2>2, <2>3, <2>4 DEF Segments
<1>7. /\ \A x : Ended(x)' = Ended(x) /\ Parts(x)' = Parts(x)
      /\ \A x, t : IsWhole(x, t) => IsWhole(x, t)'
  BY <1>1, ShownStays
<1>8. Output!FinalIsWhole => Output!FinalIsWhole'
  BY <1>1 DEF Output!FinalIsWhole, Output!Before
<1>9. CASE ~capturing
  <2>1. /\ flushes' = flushes /\ writer' = writer /\ id' = id /\ text' = text
    BY <1>1, <1>5, <1>9, FlushAdds
  <2>2. Calls'
    BY <1>1, <1>2, <1>3, <1>5, <1>9, <2>1 DEF Calls, FlushId, Output!Mute
  <2>3. ~lost' => Ends'
    BY <1>1, <1>5, <1>7, <1>8, <1>9, <2>1 DEF Ends, FlushId, FlushText
  <2>4. QED
    BY <1>6, <2>2, <2>3
<1>10. CASE capturing
  <2>1. Len(flushes) = 0 /\ Len(flushes) + 1 = 1 /\ Output!Flushed(who, track)
    BY <1>3, <1>5, <1>10
  <2>2. /\ Len(flushes') = 1 /\ writer' = Output!NoWriter
        /\ flushes'[1] = [at |-> "new", given |-> Output!Given, n |-> Output!LastFlush + 1]
    BY <1>1, <2>1, FlushAdds
  <2>3. /\ legacy => Output!Given = [id |-> id, text |-> text]
        /\ ~legacy /\ delta => Output!Given = writer
    BY DEF Output!Given
  <2>4. ASSUME NEW f, f = flushes'[1]
        PROVE  /\ f.at = "new" /\ (~legacy /\ delta => f.given = writer)
               /\ FlushId(f)' = (IF ~legacy /\ delta THEN writer.id ELSE id)
               /\ FlushText(f)' = (IF ~legacy /\ delta THEN {} ELSE text)
    BY <1>1, <1>5, <1>10, <2>2, <2>3, <2>4 DEF FlushId, FlushText
  <2>5. \A i \in 1 .. Len(flushes') : i = 1
    BY <2>2
  <2>6. id' \in Nat /\ id <= id'
    BY <1>2, <1>5
  <2>7. Calls'
    <3>1. ASSUME NEW i \in 1 .. Len(flushes'), NEW f, f = flushes'[i]
          PROVE  /\ FlushId(f)' <= id'
                 /\ FlushId(f)' >= 1 \/ (~legacy' /\ delta' /\ f.given = Output!NoWriter)
                 /\ f.at # "send"
      BY <1>1, <1>2, <1>3, <1>10, <2>4, <2>5, <2>6, <3>1
    <3>2. /\ Len(flushes') <= 1 /\ ~capturing' /\ capture'.at = "idle"
          /\ ~Output!Mute(who, track)'
      BY <1>1, <1>2, <1>3, <1>5, <1>10, <2>2 DEF Output!Mute
    <3>3. QED
      BY <1>1, <2>2, <3>1, <3>2 DEF Calls
  <2>8. ~lost' => Ends'
    <3>1. SUFFICES ASSUME ~lost PROVE Ends'
      BY <1>1
    <3>2. /\ ~Ended(id)
          /\ ~legacy /\ delta /\ writer = Output!NoWriter => Parts(id) = {}
          /\ IsWhole(id, text)
          /\ \A i \in 1 .. Len(shown) :
                \/ Ended(shown[i].id) \/ shown[i].id = id
                \/ \E k \in 1 .. Len(flushes) : FlushId(flushes[k]) = shown[i].id
          /\ Output!FinalIsWhole
      BY <1>1, <1>10, <3>1 DEF Ends
    <3>3. ASSUME NEW f, f = flushes'[1]
          PROVE  ~Ended(FlushId(f)') /\ IsWhole(FlushId(f)', FlushText(f)')
      <4>1. CASE ~legacy /\ delta
        <5>1. writer.id = id \/ writer.id = 0
          BY <1>2, <1>3
        <5>2. ~Ended(0)
          BY <1>4 DEF Ended
        <5>3. QED
          BY <2>4, <3>2, <3>3, <4>1, <5>1, <5>2 DEF IsWhole
      <4>2. CASE ~(~legacy /\ delta)
        BY <2>4, <3>2, <3>3, <4>2
      <4>3. QED
        BY <4>1, <4>2
    <3>4. ASSUME NEW i \in 1 .. Len(shown), NEW f, f = flushes'[1]
          PROVE  Ended(shown[i].id) \/ FlushId(f)' = shown[i].id
      <4>1. Ended(shown[i].id) \/ shown[i].id = id
        BY <2>1, <3>2
      <4>2. ASSUME ~legacy, delta, writer = Output!NoWriter, shown[i].id = id PROVE FALSE
        BY <3>2, <4>2 DEF Ended, Parts
      <4>3. QED
        BY <1>3, <2>4, <3>4, <4>1, <4>2
    <3>5. QED
      BY <1>1, <1>5, <1>7, <1>8, <2>2, <2>5, <3>2, <3>3, <3>4 DEF Ends
  <2>9. QED
    BY <1>6, <2>7, <2>8
<1>11. QED
  BY <1>2, <1>9, <1>10

\* The flush task begins to send, or ends, for a stream that was not opened.
LEMMA SegmentEnding ==
    ASSUME TextTypes, Calls, Segments, ~lost => Ends, ~changed,
           NEW i \in 1 .. Len(flushes), Output!FlushBegins(i)
    PROVE  Calls' /\ Segments' /\ (~lost' => Ends')
<1>1. /\ flushes[i].at = "new" /\ legacy' = legacy /\ delta' = delta /\ who' = who
      /\ track' = track /\ id' = id /\ capturing' = capturing /\ text' = text
      /\ writer' = writer /\ segment' = segment /\ capture' = capture /\ shown' = shown
      /\ changed' = changed /\ lost' = lost
  BY DEF Output!FlushBegins, Output!whoVars, Output!outVars, Output!callVars, Output!spoilVars
<1>2. /\ i = 1 /\ Len(flushes) = 1 /\ flushes # <<>> /\ ~capturing
      /\ ~Output!Mute(who, track) /\ writer = Output!NoWriter
  <2>1. Len(flushes) \in Nat /\ Len(flushes) <= 1
    BY TextKnown DEF Calls
  <2>2. i = 1 /\ Len(flushes) = 1 /\ flushes # <<>>
    <3>1. i = 1
      BY <2>1
    <3>2. \A n \in Nat : n <= 1 /\ 1 \in 1 .. n => n = 1
      OBVIOUS
    <3>3. Len(flushes) = 1 /\ Len(<<>>) = 0
      BY <2>1, <3>1, <3>2
    <3>4. QED
      BY <3>1, <3>3
  <2>3. QED
    BY <2>2 DEF Calls
<1>3. /\ capture.at = "waits" => flushes[1].n = capture.flush
      /\ capture.at \notin {"create", "send"}
      /\ FlushId(flushes[1]) <= id
      /\ \/ FlushId(flushes[1]) >= 1
         \/ ~legacy /\ delta /\ flushes[1].given = Output!NoWriter
  BY <1>2 DEF Calls
<1>4. Segments'
  BY <1>1 DEF Segments, Output!SegmentsApart
<1>5. /\ \A x : Ended(x)' = Ended(x) /\ Parts(x)' = Parts(x)
      /\ \A x, t : IsWhole(x, t) => IsWhole(x, t)'
  BY <1>1, ShownStays
<1>6. Output!FinalIsWhole => Output!FinalIsWhole'
  BY <1>1 DEF Output!FinalIsWhole, Output!Before
<1>7. CASE ~legacy /\ delta /\ flushes[1].given = Output!NoWriter
  <2>1. flushes' = Output!Without(1)
    BY <1>2, <1>7 DEF Output!FlushBegins
  <2>2. Len(flushes') = 0 /\ flushes' = <<>> /\ (1 .. Len(flushes')) = {}
    BY <1>2, <2>1, FlushLeaves
  <2>3. Calls'
    BY <1>1, <1>2, <1>3, <2>2 DEF Calls, Output!Mute
  <2>4. ASSUME ~lost PROVE Ends'
    <3>1. FlushId(flushes[1]) = 0
      BY <1>7, TextKnown DEF FlushId
    <3>2. \A j \in 1 .. Len(shown) : Ended(shown[j].id)
      <4>1. \A j \in 1 .. Len(shown) : shown[j].id # FlushId(flushes[1])
        BY <3>1 DEF Segments
      <4>2. QED
        BY <1>2, <2>4, <4>1 DEF Ends
    <3>3. Output!FinalIsWhole'
      BY <1>6, <2>4 DEF Ends
    <3>4. QED
      BY <1>1, <1>2, <1>5, <2>2, <3>2, <3>3 DEF Ends
  <2>5. QED
    BY <1>1, <1>4, <2>3, <2>4
<1>8. CASE ~(~legacy /\ delta /\ flushes[1].given = Output!NoWriter)
  <2>1. PICK h : /\ h.id = FlushId(flushes[1])
                 /\ flushes' = [flushes EXCEPT ![1] = [at |-> "send",
                        given |-> flushes[1].given, head |-> h, n |-> flushes[1].n]]
    <3>. \A j : Output!Header(j, who, track).id = j
      BY DEF Output!Header
    <3>1. CASE legacy
      BY <1>2, <3>1 DEF Output!FlushBegins, FlushId
    <3>2. CASE ~legacy /\ delta
      BY <1>2, <1>8, <3>2 DEF Output!FlushBegins, FlushId
    <3>3. CASE ~legacy /\ ~delta
      BY <1>2, <3>3 DEF Output!FlushBegins, FlushId, Output!Mute
    <3>4. QED
      BY <3>1, <3>2, <3>3
  <2>2. /\ Len(flushes') = 1 /\ flushes'[1].at = "send" /\ flushes'[1].head = h
        /\ flushes'[1].given = flushes[1].given /\ flushes'[1].n = flushes[1].n
        /\ \A k \in 1 .. Len(flushes') : k = 1
    <3>1. flushes \in Seq(FlushTasks) /\ 1 \in 1 .. Len(flushes)
      BY <1>2 DEF TextTypes
    <3>2. QED
      BY <1>2, <2>1, <3>1
  <2>3. ASSUME NEW f, f = flushes'[1]
        PROVE  FlushId(f)' = FlushId(flushes[1]) /\ FlushText(f)' = FlushText(flushes[1])
    BY <1>1, <2>2, <2>3 DEF FlushId, FlushText
  <2>4. Calls'
    <3>1. ASSUME NEW k \in 1 .. Len(flushes'), NEW f, f = flushes'[k]
          PROVE  /\ FlushId(f)' <= id' /\ FlushId(f)' >= 1 /\ f.head.id = FlushId(f)'
                 /\ capture'.at = "waits" => f.n = capture'.flush
      BY <1>1, <1>3, <1>8, <2>1, <2>2, <2>3, <3>1
    <3>2. Len(flushes') <= 1 /\ ~capturing' /\ ~Output!Mute(who, track)'
      BY <1>1, <1>2, <2>2 DEF Output!Mute
    <3>3. QED
      BY <1>1, <1>2, <1>3, <3>1, <3>2 DEF Calls
  <2>5. ASSUME ~lost PROVE Ends'
    <3>1. /\ ~Ended(FlushId(flushes[1])) /\ IsWhole(FlushId(flushes[1]), FlushText(flushes[1]))
          /\ \A j \in 1 .. Len(shown) :
                Ended(shown[j].id) \/ FlushId(flushes[1]) = shown[j].id
          /\ Output!FinalIsWhole
      BY <1>2, <2>5 DEF Ends
    <3>2. ASSUME NEW f, f = flushes'[1]
          PROVE  /\ ~Ended(FlushId(f)') /\ IsWhole(FlushId(f)', FlushText(f)')
                 /\ \A j \in 1 .. Len(shown) :
                       Ended(shown[j].id) \/ FlushId(f)' = shown[j].id
      BY <2>3, <3>1, <3>2
    <3>3. QED
      BY <1>1, <1>2, <1>5, <1>6, <2>2, <3>1, <3>2 DEF Ends
  <2>6. QED
    BY <1>1, <1>4, <2>4, <2>5
<1>9. QED
  BY <1>7, <1>8

\* The segment is made final by the flush task, which is over then.
LEMMA SegmentEnded ==
    ASSUME TextTypes, Calls, Segments, ~lost => Ends, ~changed,
           NEW i \in 1 .. Len(flushes), Output!FlushEnds(i)
    PROVE  Calls' /\ Segments' /\ (~lost' => Ends')
<1> DEFINE m == [head |-> flushes[i].head, id |-> flushes[i].head.id,
                 text |-> Output!FinalText(i), segment |-> 0, final |-> TRUE]
<1>1. /\ flushes[i].at = "send" /\ legacy' = legacy /\ delta' = delta /\ who' = who
      /\ track' = track /\ id' = id /\ capturing' = capturing /\ text' = text
      /\ writer' = writer /\ segment' = segment /\ capture' = capture /\ changed' = changed
      /\ flushes' = Output!Without(i)
      /\ (shown' = Append(shown, m) /\ lost' = lost) \/ (shown' = shown /\ lost' = TRUE)
  BY DEF Output!FlushEnds, Output!whoVars, Output!outVars, Output!callVars, Output!spoilVars
<1>2. /\ i = 1 /\ Len(flushes) = 1 /\ flushes # <<>> /\ ~capturing
      /\ ~Output!Mute(who, track) /\ writer = Output!NoWriter
      /\ capture.at \notin {"create", "send"} /\ FlushId(flushes[1]) <= id
      /\ FlushId(flushes[1]) >= 1 /\ flushes[1].head.id = FlushId(flushes[1])
  <2>1. Len(flushes) \in Nat /\ Len(flushes) <= 1
    BY TextKnown DEF Calls
  <2>2. i = 1 /\ Len(flushes) = 1 /\ flushes # <<>>
    <3>1. i = 1
      BY <2>1
    <3>2. \A n \in Nat : n <= 1 /\ 1 \in 1 .. n => n = 1
      OBVIOUS
    <3>3. Len(flushes) = 1 /\ Len(<<>>) = 0
      BY <2>1, <3>1, <3>2
    <3>4. QED
      BY <3>1, <3>3
  <2>3. ~capturing
    BY <2>2 DEF Calls
  <2>4. QED
    BY <1>1, <2>2, <2>3 DEF Calls
<1>3. Len(flushes') = 0 /\ flushes' = <<>> /\ (1 .. Len(flushes')) = {}
  BY <1>1, <1>2, FlushLeaves
<1>4. Calls'
  BY <1>1, <1>2, <1>3 DEF Calls, Output!Mute
<1>5. CASE shown' = shown /\ lost' = TRUE
  BY <1>1, <1>4, <1>5 DEF Segments, Output!SegmentsApart
<1>6. CASE shown' = Append(shown, m) /\ lost' = lost
  <2>1. m.id = FlushId(flushes[1]) /\ m.text = FlushText(flushes[1]) /\ m.final
    BY <1>2 DEF Output!FinalText, FlushText
  <2>2. m \in Messages
    <3>1. m.head \in Heads /\ m.id \in Nat
      BY <1>1, TextKnown DEF Heads
    <3>2. m.text \in Texts
      BY <1>1, TextKnown DEF Output!FinalText, TextTypes, Texts
    <3>3. QED
      BY <3>1, <3>2 DEF Messages
  <2> HIDE DEF m
  <2>3. /\ Len(shown') = Len(shown) + 1 /\ Len(shown) \in Nat /\ shown'[Len(shown) + 1] = m
        /\ \A k \in 1 .. Len(shown) : shown'[k] = shown[k]
        /\ \A k \in 1 .. Len(shown') : k \in 1 .. Len(shown) \/ k = Len(shown) + 1
    BY <1>6, MessageShown
  <2>4. Segments'
    <3>1. \A k \in 1 .. Len(shown') : ~shown'[k].final =>
              k \in 1 .. Len(shown) /\ shown'[k] = shown[k]
      BY <2>1, <2>3
    <3>2. Output!SegmentsApart'
      BY <1>1, <3>1 DEF Segments, Output!SegmentsApart
    <3>3. \A k \in 1 .. Len(shown') : shown'[k].id >= 1 /\ shown'[k].id <= id
      BY <1>2, <2>1, <2>3 DEF Segments
    <3>4. QED
      BY <1>1, <3>1, <3>2, <3>3 DEF Segments
  <2>5. ASSUME ~lost PROVE Ends'
    <3>1. /\ ~Ended(m.id) /\ IsWhole(m.id, m.text) /\ Output!FinalIsWhole
          /\ \A j \in 1 .. Len(shown) : Ended(shown[j].id) \/ shown[j].id = m.id
      BY <1>2, <2>1, <2>5 DEF Ends
    <3>2. Output!FinalIsWhole'
      BY <1>1, <1>6, <2>2, <2>5, <3>1, FinalsShown
    <3>3. \A x : Ended(x)' <=> Ended(x) \/ m.id = x
      BY <1>6, <2>1, <2>2, PartsShown
    <3>4. \A k \in 1 .. Len(shown') : Ended(shown[k].id)'
      <4>1. ASSUME NEW k \in 1 .. Len(shown'), NEW x, x = shown'[k].id PROVE Ended(x)'
        BY <2>3, <3>1, <3>3, <4>1
      <4>2. QED
        BY <4>1
    <3>5. QED
      BY <1>1, <1>2, <1>3, <3>2, <3>4 DEF Ends
  <2>6. QED
    BY <1>4, <1>6, <2>4, <2>5
<1>7. QED
  BY <1>1, <1>5, <1>6

\* A part goes on with the segment that is captured, or begins one that nothing was shown of.
LEMMA SegmentBegun ==
    ASSUME TextTypes, Calls, Segments, ~lost => Ends, ~changed,
           ~Output!Mute(who, track), flushes = <<>>, capture.at \in {"idle", "waits"},
           NEW n, Output!Begin(n), legacy' = legacy, delta' = delta, who' = who,
           track' = track, writer' = writer, segment' = segment, flushes' = flushes,
           shown' = shown, changed' = changed, lost' = lost
    PROVE  Calls' /\ Segments' /\ (~lost' => Ends')
<1>1. /\ id \in Nat \ {0} /\ capturing \in BOOLEAN /\ segment \in Nat /\ Len(shown) \in Nat
      /\ \A i \in 1 .. Len(shown) : shown[i] \in Messages
  BY TextKnown DEF TextTypes
<1>2. /\ id' = (IF capturing THEN id ELSE id + 1) /\ capturing' = TRUE
      /\ text' = (IF legacy /\ delta /\ capturing THEN text \cup {n} ELSE {n})
  BY DEF Output!Begin, Output!NextId, Output!NextText
<1>3. writer # Output!NoWriter => ~legacy /\ delta /\ capturing /\ writer.id = id
  BY DEF Calls
<1>4. /\ capture'.at \in {"create", "send"} /\ capture' # Output!Idle
      /\ capture'.head.id = id' /\ capture'.text = text'
      /\ capture'.at = "create" => ~legacy /\ writer = Output!NoWriter
      /\ capture'.at = "send" /\ ~legacy => writer # Output!NoWriter
  <2>1. \A j : Output!Header(j, who, track).id = j
    BY DEF Output!Header
  <2>2. ~(legacy /\ Output!Mute(who, track)) /\ who # NoOne
    BY DEF Output!Mute
  <2>3. \A at1, h, t : [at |-> at1, head |-> h, text |-> t] # Output!Idle
    <3>1. Output!Idle = [at |-> "idle"]
      BY DEF Output!Idle
    <3>2. ASSUME NEW at1, NEW h, NEW t, [at |-> at1, head |-> h, text |-> t] = [at |-> "idle"]
          PROVE  FALSE
      <4>1. DOMAIN [at |-> at1, head |-> h, text |-> t] = DOMAIN [at |-> "idle"]
        BY <3>2
      <4>2. QED
        BY <4>1
    <3>3. QED
      BY <3>1, <3>2
  <2>4. CASE ~legacy /\ delta /\ writer # Output!NoWriter
    <3>1. capture' = [at |-> "send", head |-> writer, text |-> Output!NextText(n)]
      BY <2>4 DEF Output!Begin
    <3>2. QED
      BY <1>2, <1>3, <2>3, <2>4, <3>1 DEF Output!NextText
  <2>5. CASE ~(~legacy /\ delta /\ writer # Output!NoWriter)
    <3>1. capture' = [at |-> IF legacy THEN "send" ELSE "create",
                      head |-> Output!Header(Output!NextId, who, track),
                      text |-> Output!NextText(n)]
      BY <2>2, <2>5 DEF Output!Begin
    <3>2. QED
      BY <1>2, <1>3, <2>1, <2>3, <2>5, <3>1 DEF Output!NextText, Output!NextId
  <2>6. QED
    BY <2>4, <2>5
<1>5. Calls'
  <2>1. Len(flushes') = 0 /\ (1 .. Len(flushes')) = {} /\ flushes' = <<>>
    OBVIOUS
  <2>2. ~Output!Mute(who, track)'
    BY DEF Output!Mute
  <2>3. writer' # Output!NoWriter => ~legacy' /\ delta' /\ writer'.id = id'
    BY <1>2, <1>3
  <2>4. QED
    BY <1>2, <1>4, <2>1, <2>2, <2>3 DEF Calls
<1>6. \A i \in 1 .. Len(shown) : shown[i].id \in Nat /\ shown[i].id >= 1 /\ shown[i].id <= id
  BY <1>1 DEF Segments, Messages
<1>7. ~capturing => \A i \in 1 .. Len(shown) : shown[i].id # id'
  BY <1>1, <1>2, <1>6
<1>8. Segments'
  <2>1. \A i \in 1 .. Len(shown) : shown[i].id <= id'
    BY <1>1, <1>2, <1>6
  <2>2. ASSUME NEW i \in 1 .. Len(shown), ~shown[i].final
        PROVE  /\ shown[i].segment <= segment
               /\ shown[i].id = id' => shown[i].segment = segment
               /\ shown[i].segment = segment => shown[i].id = id'
    BY <1>2, <1>7, <2>2 DEF Segments
  <2>3. Output!SegmentsApart'
    BY DEF Segments, Output!SegmentsApart
  <2>4. QED
    BY <1>2, <1>6, <2>1, <2>2, <2>3 DEF Segments
<1>9. /\ \A x : Ended(x)' = Ended(x) /\ Parts(x)' = Parts(x)
      /\ \A x, t : IsWhole(x, t) => IsWhole(x, t)'
  BY ShownStays
<1>10. ASSUME ~lost PROVE Ends'
  <2>1. /\ capturing => ~Ended(id)
        /\ ~legacy /\ delta /\ capturing /\ writer = Output!NoWriter => Parts(id) = {}
        /\ capturing /\ delta => IsWhole(id, text)
        /\ \A i \in 1 .. Len(shown) : Ended(shown[i].id) \/ (capturing /\ shown[i].id = id)
        /\ Output!FinalIsWhole
    BY <1>10 DEF Ends
  <2>2. ~capturing => ~Ended(id') /\ Parts(id') = {}
    BY <1>7 DEF Ended, Parts
  <2>3. ASSUME NEW x, x = id'
        PROVE  /\ ~Ended(x)
               /\ ~legacy /\ delta /\ writer = Output!NoWriter => Parts(x) = {}
               /\ delta => IsWhole(x, text')
    <3>1. CASE capturing
      <4>1. (x = id /\ text \subseteq text') \/ ~legacy \/ ~delta
        BY <1>2, <2>3, <3>1
      <4>2. delta => IsWhole(x, text')
        BY <1>2, <2>1, <2>3, <3>1, <4>1 DEF IsWhole
      <4>3. QED
        BY <1>2, <2>1, <2>3, <3>1, <4>2
    <3>2. CASE ~capturing
      BY <2>2, <2>3, <3>2 DEF IsWhole
    <3>3. QED
      BY <1>1, <3>1, <3>2
  <2>4. ASSUME NEW i \in 1 .. Len(shown)
        PROVE  Ended(shown[i].id) \/ shown[i].id = id'
    BY <1>2, <2>1
  <2>5. Output!FinalIsWhole'
    BY <2>1 DEF Output!FinalIsWhole, Output!Before
  <2>6. Len(flushes') = 0 /\ (1 .. Len(flushes')) = {}
    OBVIOUS
  <2>7. delta => IsWhole(id, text)'
    <3>1. ASSUME NEW x, NEW t, x = id', t = text' PROVE delta => IsWhole(x, t)'
      BY <1>9, <2>3, <3>1
    <3>2. QED
      BY <3>1
  <2>8. QED
    BY <1>2, <1>4, <1>9, <2>3, <2>4, <2>5, <2>6, <2>7 DEF Ends
<1>11. QED
  BY <1>5, <1>8, <1>10

\* Whatever else changes, what is shown of the segment of now, and how it will end, stay.
LEMMA SegmentStays ==
    ASSUME Segments, ~lost => Ends, ~changed, legacy' = legacy, delta' = delta, id' = id,
           capturing' = capturing, text' = text, segment' = segment, flushes' = flushes,
           shown' = shown, changed' = changed, lost' = lost,
           capturing /\ capture' = Output!Idle => capture = Output!Idle \/ delta,
           ~legacy /\ delta /\ capturing /\ writer' = Output!NoWriter =>
               writer = Output!NoWriter
    PROVE  Segments' /\ (~lost' => Ends')
<1>1. Segments'
  BY DEF Segments, Output!SegmentsApart
<1>2. /\ \A x : Ended(x)' = Ended(x) /\ Parts(x)' = Parts(x)
      /\ \A x, t : IsWhole(x, t) => IsWhole(x, t)'
  BY ShownStays
<1>3. ASSUME ~lost PROVE Ends'
  <2>1. Output!FinalIsWhole'
    BY <1>3 DEF Ends, Output!FinalIsWhole, Output!Before
  <2>2. ASSUME NEW i \in 1 .. Len(flushes), NEW f, f = flushes[i]
        PROVE  /\ FlushId(f)' = FlushId(f) /\ FlushText(f)' = FlushText(f)
               /\ ~Ended(FlushId(f)) /\ IsWhole(FlushId(f), FlushText(f))
    BY <1>3, <2>2 DEF FlushId, FlushText, Ends
  <2>3. capturing /\ (delta \/ capture' = Output!Idle) => IsWhole(id, text)'
    <3>1. ASSUME NEW x, NEW t, x = id, t = text, capturing, delta \/ capture' = Output!Idle
          PROVE  IsWhole(x, t)'
      BY <1>2, <1>3, <3>1 DEF Ends
    <3>2. QED
      BY <3>1
  <2>4. QED
    BY <1>2, <1>3, <2>1, <2>2, <2>3 DEF Ends
<1>4. QED
  BY <1>1, <1>3

\* A caller captures a part.
LEMMA PartCaptured ==
    ASSUME TextTypes, Calls, Segments, ~lost => Ends, ~changed, Output!CaptureText
    PROVE  Calls' /\ Segments' /\ (~lost' => Ends')
<1>1. /\ capture = Output!Idle /\ legacy' = legacy /\ delta' = delta /\ who' = who
      /\ track' = track /\ writer' = writer /\ segment' = segment /\ flushes' = flushes
      /\ shown' = shown /\ changed' = changed /\ lost' = lost
  BY DEF Output!CaptureText, Output!whoVars, Output!spoilVars
<1>2. capture.at = "idle"
  BY <1>1, TextKnown
<1>3. CASE Output!Mute(who, track)
  <2>1. id' = id /\ text' = text /\ capturing' = capturing /\ capture' = capture
    BY <1>3 DEF Output!CaptureText
  <2>2. Calls'
    BY <1>1, <2>1 DEF Calls, FlushId, Output!Mute
  <2>3. QED
    BY <1>1, <2>1, <2>2, SegmentStays
<1>4. CASE ~Output!Mute(who, track) /\ flushes # <<>>
  <2>1. /\ id' = id /\ text' = text /\ capturing' = capturing
        /\ capture' = [at |-> "waits", part |-> parts + 1, flush |-> Output!LastFlush]
    BY <1>4 DEF Output!CaptureText
  <2>2. capture'.at = "waits" /\ capture'.flush = Output!LastFlush
    BY <2>1
  <2>3. ~capturing /\ \A i \in 1 .. Len(flushes) : flushes[i].n = Output!LastFlush
    <3>1. ~capturing /\ Len(flushes) \in Nat /\ Len(flushes) <= 1
      BY <1>4, TextKnown DEF Calls
    <3>2. \A i \in 1 .. Len(flushes) : i = Len(flushes)
      BY <3>1
    <3>3. QED
      BY <1>4, <3>1, <3>2 DEF Output!LastFlush
  <2>4. ~Output!Mute(who, track)'
    BY <1>1, <1>4 DEF Output!Mute
  <2>5. Calls'
    BY <1>1, <2>1, <2>2, <2>3, <2>4 DEF Calls, FlushId
  <2>6. QED
    BY <1>1, <2>1, <2>3, <2>5, SegmentStays
<1>5. CASE ~Output!Mute(who, track) /\ flushes = <<>>
  <2>1. Output!Begin(parts + 1)
    BY <1>5 DEF Output!CaptureText
  <2>2. QED
    BY <1>1, <1>2, <1>5, <2>1, SegmentBegun
<1>6. QED
  BY <1>3, <1>4, <1>5

\* The capture goes on when the flush that it waited for is over.
LEMMA PartGoesOn ==
    ASSUME TextTypes, Calls, Segments, ~lost => Ends, ~changed, Output!CaptureGoesOn
    PROVE  Calls' /\ Segments' /\ (~lost' => Ends')
<1>1. /\ capture.at = "waits" /\ legacy' = legacy /\ delta' = delta /\ who' = who
      /\ track' = track /\ writer' = writer /\ segment' = segment /\ flushes' = flushes
      /\ shown' = shown /\ changed' = changed /\ lost' = lost
      /\ \A i \in 1 .. Len(flushes) : flushes[i].n # capture.flush
      /\ Output!Begin(capture.part)
  BY DEF Output!CaptureGoesOn, Output!whoVars, Output!spoilVars
<1>2. capture # Output!Idle /\ ~Output!Mute(who, track)
  BY <1>1, TextKnown DEF Calls
<1>3. flushes = <<>>
  <2>1. \A i \in 1 .. Len(flushes) : FALSE
    BY <1>1 DEF Calls
  <2>2. QED
    BY <2>1 DEF TextTypes
<1>4. QED
  BY <1>1, <1>2, <1>3, SegmentBegun

\* The stream of the segment is open.
LEMMA StreamCreated ==
    ASSUME TextTypes, Calls, Segments, ~lost => Ends, ~changed, Output!Created
    PROVE  Calls' /\ Segments' /\ (~lost' => Ends')
<1>1. /\ capture.at = "create" /\ capture' = [capture EXCEPT !.at = "send"]
      /\ writer' = Output!Keeps /\ legacy' = legacy /\ delta' = delta /\ who' = who
      /\ track' = track /\ id' = id /\ capturing' = capturing /\ text' = text
      /\ segment' = segment /\ flushes' = flushes /\ shown' = shown /\ changed' = changed
      /\ lost' = lost
  BY DEF Output!Created, Output!whoVars, Output!spoilVars
<1>2. /\ capture # Output!Idle /\ capturing /\ capture.head.id = id /\ capture.text = text
      /\ ~legacy /\ writer = Output!NoWriter /\ capture.head \in Heads
      /\ flushes = <<>> /\ ~Output!Mute(who, track) /\ id \in Nat \ {0}
  BY <1>1, TextKnown DEF Calls, TextTypes
<1>3. /\ capture'.at = "send" /\ capture'.head = capture.head /\ capture'.text = capture.text
      /\ capture' # Output!Idle
  <2>1. capture' = [at |-> "send", head |-> capture.head, text |-> capture.text]
    BY <1>1, TextKnown
  <2>2. Output!Idle.at = "idle"
    BY DEF Output!Idle
  <2>3. QED
    BY <2>1, <2>2
<1>4. delta => writer' = capture.head /\ writer' # Output!NoWriter
  BY <1>1, <1>2, TextKnown DEF Output!Keeps
<1>5. ~delta => writer' = Output!NoWriter
  BY <1>1, <1>2 DEF Output!Keeps
<1>6. Calls'
  <2>1. ~Output!Mute(who, track)' /\ (1 .. Len(flushes')) = {} /\ Len(flushes') <= 1
    BY <1>1, <1>2 DEF Output!Mute
  <2>2. QED
    BY <1>1, <1>2, <1>3, <1>4, <1>5, <2>1 DEF Calls
<1>7. QED
  BY <1>1, <1>3, <1>4, <1>6, SegmentStays

\* The caller is cut off.
LEMMA CaptureCut ==
    ASSUME TextTypes, Calls, Segments, ~lost => Ends, ~changed, Output!CancelCapture
    PROVE  Calls' /\ Segments' /\ (~lost' => Ends')
<1>1. /\ delta /\ capture # Output!Idle /\ capture' = Output!Idle /\ legacy' = legacy
      /\ delta' = delta /\ who' = who /\ track' = track /\ id' = id /\ writer' = writer
      /\ capturing' = capturing /\ text' = text /\ segment' = segment /\ shown' = shown
      /\ changed' = changed
  BY DEF Output!CancelCapture, Output!whoVars, Output!outVars, Output!spoilVars
<1>2. capture'.at = "idle" /\ (~Output!Mute(who, track) => ~Output!Mute(who, track)')
  BY <1>1 DEF Output!Idle, Output!Mute
<1>3. CASE flushes' = flushes /\ lost' = lost
  <2>1. Calls'
    BY <1>1, <1>2, <1>3 DEF Calls, FlushId
  <2>2. QED
    BY <1>1, <1>3, <2>1, SegmentStays
<1>4. CASE lost' = TRUE /\ \E i \in 1 .. Len(flushes) : flushes' = Output!Without(i)
  <2>1. Len(flushes') <= 1 /\ (1 .. Len(flushes')) = {} /\ ~capturing
    <3>1. PICK i \in 1 .. Len(flushes) : flushes' = Output!Without(i)
      BY <1>4
    <3>2. Len(flushes) \in Nat /\ Len(flushes) <= 1 /\ Len(flushes') = Len(flushes) - 1
      BY <3>1, FlushLeaves, TextKnown DEF Calls
    <3>3. ~capturing
      <4>1. Len(<<>>) = 0 /\ flushes # <<>>
        BY <3>1
      <4>2. QED
        BY <4>1 DEF Calls
    <3>4. QED
      BY <3>2, <3>3
  <2>2. Calls'
    BY <1>1, <1>2, <2>1 DEF Calls
  <2>3. Segments'
    BY <1>1 DEF Segments, Output!SegmentsApart
  <2>4. QED
    BY <1>4, <2>2, <2>3
<1>5. QED
  BY <1>3, <1>4 DEF Output!CancelCapture

\* The part is shown, as one of the segment that is captured.
LEMMA PartShown ==
    ASSUME TextTypes, Calls, Segments, ~lost => Ends, ~changed, Output!Captured
    PROVE  Calls' /\ Segments' /\ (~lost' => Ends')
<1> DEFINE m == [head |-> capture.head, id |-> capture.head.id, text |-> capture.text,
                 segment |-> segment, final |-> FALSE]
<1>1. /\ capture.at = "send" /\ capture' = Output!Idle /\ legacy' = legacy /\ delta' = delta
      /\ who' = who /\ track' = track /\ id' = id /\ capturing' = capturing /\ text' = text
      /\ writer' = writer /\ segment' = segment /\ flushes' = flushes /\ changed' = changed
      /\ (shown' = Append(shown, m) /\ lost' = lost) \/ (shown' = shown /\ lost' = TRUE)
  BY DEF Output!Captured, Output!whoVars, Output!outVars, Output!spoilVars
<1>2. /\ capture # Output!Idle /\ capturing /\ capture.head.id = id /\ capture.text = text
      /\ flushes = <<>> /\ ~Output!Mute(who, track) /\ id \in Nat \ {0} /\ segment \in Nat
      /\ ~legacy /\ delta => writer # Output!NoWriter
  BY <1>1, TextKnown DEF Calls, TextTypes
<1>3. Len(flushes') <= 1 /\ (1 .. Len(flushes')) = {}
  BY <1>1, <1>2
<1>4. Calls'
  <2>1. capture'.at = "idle" /\ ~Output!Mute(who, track)'
    BY <1>1, <1>2 DEF Output!Mute, Output!Idle
  <2>2. QED
    BY <1>1, <1>2, <1>3, <2>1 DEF Calls
<1>5. CASE shown' = shown /\ lost' = TRUE
  BY <1>1, <1>4, <1>5 DEF Segments, Output!SegmentsApart
<1>6. CASE shown' = Append(shown, m) /\ lost' = lost
  <2>1. m.id = id /\ m.text = text /\ m.segment = segment /\ m.final = FALSE
    BY <1>2
  <2>2. m \in Messages
    <3>1. capture.head \in Heads /\ capture.text \in Texts
      BY <1>1, TextKnown
    <3>2. QED
      BY <1>2, <3>1 DEF Messages
  <2> HIDE DEF m
  <2>3. /\ Len(shown') = Len(shown) + 1 /\ Len(shown) \in Nat /\ shown'[Len(shown) + 1] = m
        /\ \A k \in 1 .. Len(shown) : shown'[k] = shown[k]
        /\ \A k \in 1 .. Len(shown') : k \in 1 .. Len(shown) \/ k = Len(shown) + 1
    BY <1>6, MessageShown
  <2>4. Segments'
    <3>1. \A k \in 1 .. Len(shown') : shown'[k].id >= 1 /\ shown'[k].id <= id
      BY <1>2, <2>1, <2>3 DEF Segments
    <3>2. \A k \in 1 .. Len(shown') : ~shown'[k].final =>
              /\ shown'[k].segment <= segment
              /\ shown'[k].id = id => shown'[k].segment = segment
              /\ shown'[k].segment = segment => shown'[k].id = id
      BY <1>2, <2>1, <2>3 DEF Segments
    <3>3. Output!SegmentsApart'
      <4>1. SUFFICES ASSUME NEW i \in 1 .. Len(shown'), NEW j \in 1 .. Len(shown'),
                            ~shown'[i].final, ~shown'[j].final
                     PROVE  (shown'[i].id = shown'[j].id)
                                = (shown'[i].segment = shown'[j].segment)
        BY DEF Output!SegmentsApart
      <4>2. CASE i \in 1 .. Len(shown) /\ j \in 1 .. Len(shown)
        BY <2>3, <4>1, <4>2 DEF Segments, Output!SegmentsApart
      <4>3. CASE i = Len(shown) + 1 \/ j = Len(shown) + 1
        BY <2>1, <2>3, <3>2, <4>1, <4>3
      <4>4. QED
        BY <2>3, <4>2, <4>3
    <3>4. QED
      BY <1>1, <1>2, <3>1, <3>2, <3>3 DEF Segments
  <2>5. ASSUME ~lost PROVE Ends'
    <3>1. /\ ~Ended(id) /\ Output!FinalIsWhole /\ (delta => IsWhole(id, text))
          /\ \A i \in 1 .. Len(shown) : Ended(shown[i].id) \/ shown[i].id = id
      BY <1>2, <2>5 DEF Ends
    <3>2. Output!FinalIsWhole'
      <4>1. ~Ended(m.id) /\ (m.final => IsWhole(m.id, m.text))
        BY <2>1, <3>1
      <4>2. QED
        BY <1>1, <1>6, <2>2, <2>5, <3>1, <4>1, FinalsShown
    <3>3. \A x : Ended(x)' <=> Ended(x)
      BY <1>6, <2>1, <2>2, PartsShown
    <3>4. ASSUME NEW x, x = id
          PROVE  /\ Parts(x)' = Parts(x) \cup {Len(shown) + 1}
                 /\ Parts(x) \subseteq 1 .. Len(shown)
      BY <1>6, <2>1, <2>2, <3>4, PartsShown
    <3>5. ASSUME NEW x, NEW t, x = id, t = text PROVE IsWhole(x, t)'
      <4>1. /\ \A i \in Parts(x) : shown'[i] = shown[i] /\ i <= Len(shown) /\ i \in Nat
            /\ shown'[Len(shown) + 1].text = t
        BY <2>1, <2>3, <3>4, <3>5
      <4>2. CASE delta
        BY <1>1, <3>1, <3>4, <3>5, <4>1, <4>2 DEF IsWhole
      <4>3. CASE ~delta
        <5>1. \A i \in Parts(x)' : (\A k \in Parts(x)' : k <= i) => i = Len(shown) + 1
          BY <2>3, <3>4, <3>5, <4>1
        <5>2. QED
          BY <1>1, <4>1, <4>3, <5>1 DEF IsWhole
      <4>4. QED
        BY <4>2, <4>3
    <3>6. IsWhole(id, text)'
      BY <1>1, <3>5
    <3>7. ASSUME NEW i \in 1 .. Len(shown'), NEW x, x = shown'[i].id
          PROVE  Ended(x)' \/ x = id
      BY <2>1, <2>3, <3>1, <3>3, <3>7
    <3>8. ~Ended(id)'
      <4>1. ASSUME NEW x, x = id PROVE ~Ended(x)'
        BY <3>1, <3>3, <4>1
      <4>2. QED
        BY <1>1, <4>1
    <3>9. QED
      BY <1>1, <1>2, <1>3, <3>2, <3>6, <3>7, <3>8 DEF Ends
  <2>6. QED
    BY <1>4, <1>6, <2>4, <2>5
<1>7. QED
  BY <1>1, <1>5, <1>6

\* The participant is set while no segment is open.
LEMMA ParticipantSet ==
    ASSUME TextTypes, Calls, Segments, ~lost => Ends,
           NEW p \in Participants, Output!SetParticipant(p), ~changed'
    PROVE  Calls' /\ Segments' /\ (~lost' => Ends')
<1>1. /\ ~changed /\ ~capturing /\ capture = Output!Idle /\ flushes = <<>>
      /\ legacy' = legacy /\ delta' = delta /\ segment' = segment /\ capture' = capture
      /\ shown' = shown /\ lost' = lost
  BY DEF Output!SetParticipant, Output!callVars
<1>2. /\ id \in Nat \ {0} /\ capture.at = "idle" /\ writer = Output!NoWriter
      /\ \A i \in 1 .. Len(shown) : shown[i] \in Messages
  BY <1>1, TextKnown DEF TextTypes, Calls
<1>3. /\ ~capturing' /\ flushes' = flushes /\ writer' = writer
      /\ id' = id \/ id' = id + 1
  <2>1. CASE p = NoOne
    BY <1>1, <2>1 DEF Output!SetParticipant, Output!outVars
  <2>2. CASE p # NoOne
    <3>1. Output!DoFlush(p, Output!TrackOf(p), TRUE)
      BY <2>2 DEF Output!SetParticipant
    <3>2. QED
      BY <1>1, <3>1 DEF Output!DoFlush, Output!Flushed
  <2>3. QED
    BY <2>1, <2>2
<1>4. Len(flushes') = 0 /\ (1 .. Len(flushes')) = {} /\ flushes' = <<>>
  BY <1>1, <1>3
<1>5. Calls'
  BY <1>1, <1>2, <1>3, <1>4 DEF Calls
<1>6. Segments'
  <2>1. \A i \in 1 .. Len(shown) : shown[i].id >= 1 /\ shown[i].id <= id'
    BY <1>2, <1>3 DEF Segments, Messages
  <2>2. \A i \in 1 .. Len(shown) : ~shown[i].final =>
            shown[i].segment <= segment /\ shown[i].segment # segment
    BY <1>1 DEF Segments
  <2>3. Output!SegmentsApart'
    BY <1>1 DEF Segments, Output!SegmentsApart
  <2>4. QED
    BY <1>1, <1>3, <2>1, <2>2, <2>3 DEF Segments
<1>7. ASSUME ~lost PROVE Ends'
  <2>1. \A x : Ended(x)' = Ended(x)
    BY <1>1, ShownStays
  <2>2. \A i \in 1 .. Len(shown) : Ended(shown[i].id)
    <3>1. (1 .. Len(flushes)) = {}
      BY <1>1
    <3>2. QED
      BY <1>1, <1>7, <3>1 DEF Ends
  <2>3. Output!FinalIsWhole'
    BY <1>1, <1>7 DEF Ends, Output!FinalIsWhole, Output!Before
  <2>4. QED
    BY <1>1, <1>3, <1>4, <2>1, <2>2, <2>3 DEF Ends
<1>8. QED
  BY <1>1, <1>5, <1>6, <1>7

\* A participant publishes a microphone.
LEMMA MicrophonePublished ==
    ASSUME TextTypes, Calls, Segments, ~lost => Ends, ~changed,
           NEW p \in Users, Output!TrackPublished(p)
    PROVE  Calls' /\ Segments' /\ (~lost' => Ends')
<1>1. /\ track' = (IF p = who THEN p ELSE track) /\ legacy' = legacy /\ delta' = delta
      /\ who' = who /\ id' = id /\ capturing' = capturing /\ text' = text /\ writer' = writer
      /\ segment' = segment /\ capture' = capture /\ flushes' = flushes /\ shown' = shown
      /\ changed' = changed /\ lost' = lost
  BY DEF Output!TrackPublished, Output!outVars, Output!callVars, Output!spoilVars
<1>2. ~Output!Mute(who, track) => ~Output!Mute(who, track)'
  BY <1>1, MediaAssumption DEF Output!Mute
<1>3. Calls'
  BY <1>1, <1>2 DEF Calls, FlushId
<1>4. QED
  BY <1>1, <1>3, SegmentStays

\* Every step keeps the invariant.
LEMMA TextStep == TextInv /\ (Output!Next \/ UNCHANGED outputVars) => TextInv'
<1> SUFFICES ASSUME TextInv, Output!Next \/ UNCHANGED outputVars PROVE TextInv'
  OBVIOUS
<1>1. TextTypes /\ TrackInv /\ (~changed => Calls /\ Segments /\ (~lost => Ends))
  BY DEF TextInv
<1>2. CASE UNCHANGED outputVars
  <2>1. /\ legacy' = legacy /\ delta' = delta /\ mics' = mics /\ who' = who /\ track' = track
        /\ id' = id /\ capturing' = capturing /\ text' = text /\ writer' = writer
        /\ parts' = parts /\ segment' = segment /\ capture' = capture /\ flushes' = flushes
        /\ shown' = shown /\ changes' = changes /\ changed' = changed
        /\ switched' = switched /\ lost' = lost
    BY <1>2 DEF outputVars
  <2>2. TextTypes'
    BY <1>1, <2>1 DEF TextTypes, FlushTasks, Givens
  <2>3. TrackInv'
    BY <1>1, <2>1 DEF TrackInv
  <2>4. ASSUME ~changed' PROVE Calls' /\ Segments' /\ (~lost' => Ends')
    <3>1. Calls'
      BY <1>1, <2>1, <2>4 DEF Calls, FlushId, Output!Mute
    <3>2. QED
      BY <1>1, <2>1, <2>4, <3>1, SegmentStays
  <2>5. QED
    BY <2>2, <2>3, <2>4 DEF TextInv
<1>3. CASE Output!Next
  <2>1. TextTypes' /\ TrackInv'
    BY <1>1, <1>3, TextTypesStay, OwnTracksStay
  <2>2. ASSUME ~changed' PROVE Calls' /\ Segments' /\ (~lost' => Ends')
    <3>1. ~changed /\ Calls /\ Segments /\ (~lost => Ends)
      BY <1>1, <1>3, <2>2, TextTypesStay
    <3>2. CASE Output!Flush \/ Output!CaptureText \/ Output!CaptureGoesOn \/ Output!Created
      BY <1>1, <3>1, <3>2, SegmentFlushed, PartCaptured, PartGoesOn, StreamCreated
    <3>3. CASE Output!Captured \/ Output!CancelCapture
      BY <1>1, <3>1, <3>3, PartShown, CaptureCut
    <3>4. CASE \E i \in 1 .. Len(flushes) : Output!FlushBegins(i) \/ Output!FlushEnds(i)
      BY <1>1, <3>1, <3>4, SegmentEnding, SegmentEnded
    <3>5. CASE \E p \in Participants : Output!SetParticipant(p)
      BY <1>1, <2>2, <3>1, <3>5, ParticipantSet
    <3>6. CASE \E p \in Users : Output!TrackPublished(p)
      BY <1>1, <3>1, <3>6, MicrophonePublished
    <3>7. QED
      BY <1>3, <3>2, <3>3, <3>4, <3>5, <3>6 DEF Output!Next, Participants
  <2>3. QED
    BY <2>1, <2>2 DEF TextInv
<1>4. QED
  BY <1>2, <1>3

\* The invariant is what the run checks, and more.
LEMMA TextPromises == TextInv => TextIsWhole
<1> SUFFICES ASSUME TextInv PROVE TextIsWhole
  OBVIOUS
<1>1. TextTypes /\ TrackInv /\ (~changed => Calls /\ Segments /\ (~lost => Ends))
  BY DEF TextInv
<1>2. Output!TypeOK
  <2>1. parts \in 0 .. MaxTextCalls
    BY <1>1, MediaAssumption DEF TextTypes
  <2>2. QED
    BY <1>1, <2>1, TextKnown DEF Output!TypeOK, TextTypes, Texts, Participants
<1>3. Output!FinalIsWhole
  BY <1>1 DEF Ends, Output!FinalIsWhole
<1>4. Output!SegmentsApart
  BY <1>1 DEF Segments, Output!SegmentsApart
<1>5. Output!AllFinal
  <2>1. SUFFICES ASSUME flushes = <<>>, ~capturing, ~changed, ~lost, NEW i \in 1 .. Len(shown)
                 PROVE  Ended(shown[i].id)
    BY DEF Output!AllFinal, Ended
  <2>2. (1 .. Len(flushes)) = {}
    BY <2>1
  <2>3. QED
    BY <1>1, <2>1, <2>2 DEF Ends
<1>6. Output!OwnTrack
  BY <1>1 DEF TrackInv, IsOwn, Output!OwnTrack
<1>7. QED
  BY <1>2, <1>3, <1>4, <1>5, <1>6 DEF TextIsWhole

-----------------------------------------------------------------------------
\* The text of a segment is shown whole, apart from that of others, for the track of who
\* spoke it, and ends; unless the participant was set within it, or a message was lost.
THEOREM TextStaysWhole == MediaSpec => []TextIsWhole
<1>1. MediaInit => TextInv
  BY TextStart
<1>2. TextInv /\ [MediaNext]_mediaVars => TextInv'
  <2> SUFFICES ASSUME TextInv, [MediaNext]_mediaVars
               PROVE  TextInv'
    OBVIOUS
  <2>1. Output!Next \/ UNCHANGED outputVars
    BY DEF MediaNext, mediaVars
  <2>2. QED
    BY <2>1, TextStep
<1>3. TextInv => TextIsWhole
  BY TextPromises
<1>4. QED
  BY <1>1, <1>2, <1>3, PTL DEF MediaSpec
=============================================================================
