-------------------------- MODULE MCServicesProofs --------------------------
(***************************************************************************)
(* What holds of the components of MCServices for every value of the       *)
(* constants: GeneratedOnce, of the fallback adapters (TtsFallback and     *)
(* LlmStream); that a job reported as a success has run (JobProcess); that *)
(* a reply of a realtime session gets its own response and is not          *)
(* forgotten (RealtimeSession); that the server is not told that a job     *)
(* runs once it was told that it ended (Worker); and the types of all      *)
(* seven.  The components share no state, so each has an invariant of its  *)
(* own; that of the chat (ChatSync) is in ChatSyncProofs.                  *)
(***************************************************************************)
EXTENDS ChatSyncProofs, SequenceTheorems, FiniteSetTheorems, TLAPS

-----------------------------------------------------------------------------
(* The audio of the TTS fallback adapter *)

Frame == [by : Tts!Providers, token : Nat]

AudioTypes ==
    /\ pushed \in 0 .. MaxTokens /\ eaten \in 0 .. pushed
    /\ base \in 0 .. eaten /\ voiced \in base .. eaten /\ kept \in 0 .. voiced
    /\ recovering \subseteq Tts!Providers /\ provider \in Tts!Providers
    /\ attempt \in 0 .. MaxRetry
    /\ ttsPhase \in {"running", "raised", "finished", "done", "error"}
    /\ events \in Seq(Nat) /\ held \in Seq(Frame) /\ Len(held) <= 1 /\ out \in Seq(Frame)
    /\ ttsStatus \in [Tts!Providers -> BOOLEAN]
AudioFlags == inputDone \in BOOLEAN /\ sent \in BOOLEAN /\ cut \in BOOLEAN /\ leaked \in BOOLEAN

\* What the adapter's emitter sent, the frame that it holds, the audio it has not read and
\* the frame that the provider's emitter holds are in the order of the text, and of one
\* provider, as long as none was given up with a frame held.
InOrder ==
    /\ \A i \in 1 .. Len(out) :
        /\ out[i].by = provider
        /\ \A j \in 1 .. Len(out) : i < j => out[i].token < out[j].token
        /\ held # <<>> => out[i].token < held[1].token
    /\ held # <<>> => /\ held[1].by = provider
                      /\ \A i \in 1 .. Len(events) : held[1].token < events[i]
                      /\ held[1].token <= voiced
                      /\ kept # 0 => held[1].token < kept
    /\ \A i \in 1 .. Len(events) :
        /\ events[i] <= voiced
        /\ kept # 0 => events[i] < kept
        /\ \A j \in 1 .. Len(events) : i < j => events[i] < events[j]
    /\ kept \in {0, voiced}

Frames == Len(out) + Len(held) + Len(events) + (IF kept = 0 THEN 0 ELSE 1)

\* As long as no attempt failed with text it had taken, nothing of the text is missing.
NoneMissing ==
    /\ base = 0
    /\ ttsPhase \in {"running", "finished", "raised"} => Frames = voiced
    /\ ttsPhase = "raised" => voiced = 0
    /\ ttsPhase = "done" => Len(out) = pushed

\* What is held in each phase of the stream.
HeldBack ==
    /\ ttsPhase \in {"raised", "finished"} => kept = 0
    /\ ttsPhase = "finished" => inputDone /\ voiced = pushed
    /\ Tts!Over => held = <<>>
    /\ ~Tts!Over /\ held = <<>> => out = <<>>

AudioInv ==
    /\ AudioTypes /\ AudioFlags /\ HeldBack
    /\ ~leaked => InOrder
    /\ ~leaked /\ ~cut => NoneMissing

\* A set of numbers that is not empty has a least one: it is the provider that is tried.
LEMMA LeastIsFirst ==
    ASSUME NEW S \in SUBSET Nat, S # {}
    PROVE  \E p \in S : \A q \in S : p <= q
<1>1. PICK p \in S : \A q \in S : <<q, p>> \notin OpToRel(<, Nat)
  BY NatLessThanWellFounded, WFMin, Zenon
<1>2. ASSUME NEW q \in S PROVE ~(q < p)
  BY <1>1, Zenon DEF OpToRel
<1>3. QED
  BY <1>2

\* The provider that is tried first is one of those that may be tried.
LEMMA FirstIsIn ==
    ASSUME NEW S \in SUBSET Nat, S # {}
    PROVE  Tts!First(S) \in S /\ Llm!First(S) \in S
BY LeastIsFirst DEF Tts!First, Llm!First

\* The frames of the stream, and the one that is held behind them.
LEMMA HeldFollows ==
    ASSUME NEW o \in Seq(Frame), NEW h \in Seq(Frame), Len(h) <= 1
    PROVE  /\ o \o h \in Seq(Frame) /\ Len(o \o h) = Len(o) + Len(h)
           /\ \A i \in 1 .. Len(o) : (o \o h)[i] = o[i]
           /\ h # <<>> => Len(h) = 1 /\ (o \o h)[Len(o) + 1] = h[1]
           /\ h = <<>> => Len(h) = 0 /\ o \o h = o
           /\ \A i \in 1 .. Len(o \o h) : i \in 1 .. Len(o) \/ (i = Len(o) + 1 /\ h # <<>>)
<1>1. o \o h \in Seq(Frame) /\ Len(o \o h) = Len(o) + Len(h)
  BY ConcatProperties
<1>2. \A i \in 1 .. Len(o) : (o \o h)[i] = o[i]
  BY ConcatProperties
<1>3. h # <<>> => Len(h) = 1
  <2>1. \A n \in Nat \ {0} : n <= 1 => n = 1
    OBVIOUS
  <2>2. h # <<>> => Len(h) \in Nat \ {0}
    BY EmptySeq, Zenon
  <2>3. QED
    BY <2>1, <2>2, Zenon
<1>4. h # <<>> => (o \o h)[Len(o) + 1] = h[1]
  BY <1>3, ConcatProperties
<1>5. h = <<>> => o \o h = o
  BY ConcatEmptySeq
<1>6. h = <<>> => Len(h) = 0
  BY EmptySeq
<1>7. \A i \in 1 .. Len(o \o h) : i \in 1 .. Len(o) \/ (i = Len(o) + 1 /\ h # <<>>)
  <2>1. Len(o) \in Nat
    BY LenProperties
  <2>2. CASE h = <<>>
    BY <1>5, <2>2
  <2>3. CASE h # <<>>
    <3>1. Len(o \o h) = Len(o) + 1
      BY <1>1, <1>3, <2>3
    <3> DEFINE n == Len(o)
               m == Len(o \o h)
    <3>2. n \in Nat /\ m = n + 1
      BY <2>1, <3>1
    <3> HIDE DEF n, m
    <3>3. \A i \in 1 .. m : i \in 1 .. n \/ i = n + 1
      BY <3>2
    <3>4. QED
      BY <2>3, <3>3 DEF n, m
  <2>4. QED
    BY <2>2, <2>3
<1>8. QED
  BY <1>1, <1>2, <1>3, <1>4, <1>5, <1>6, <1>7

\* Nothing was said when a stream begins.
LEMMA AudioStart == Tts!Init => AudioInv
<1> SUFFICES ASSUME Tts!Init PROVE AudioInv
  OBVIOUS
<1>1. AudioFlags
  BY Zenon DEF Tts!Init, AudioFlags
<1>2. provider \in Tts!Providers
  <2>1. Tts!Candidates(1, ttsStatus) \subseteq Tts!Providers
    BY DEF Tts!Candidates
  <2>2. Tts!Candidates(1, ttsStatus) # {}
    <3>1. 1 \in Tts!Providers /\ \A p \in Tts!Providers : p >= 1
      BY ServicesAssumption DEF Tts!Providers
    <3>2. CASE allFailed
      BY <3>1, <3>2 DEF Tts!Candidates
    <3>3. CASE ~allFailed
      BY <3>1, <3>3 DEF Tts!Init, Tts!Candidates
    <3>4. QED
      BY <3>2, <3>3
  <2>3. QED
    BY <2>1, <2>2, FirstIsIn, ServicesAssumption DEF Tts!Init, Tts!Providers
<1>3. AudioTypes
  BY <1>2, ServicesAssumption DEF Tts!Init, AudioTypes
<1>4. HeldBack /\ InOrder /\ NoneMissing
  BY ServicesAssumption DEF Tts!Init, HeldBack, InOrder, NoneMissing, Frames, Tts!Over
<1>5. QED
  BY <1>1, <1>3, <1>4 DEF AudioInv

\* The counters of the audio are numbers, and a frame that is held is the only one.
LEMMA AudioNumbers ==
    ASSUME AudioTypes
    PROVE  /\ pushed \in Nat /\ eaten \in Nat /\ base \in Nat /\ voiced \in Nat /\ kept \in Nat
           /\ MaxTokens \in Nat /\ MaxRetry \in Nat
           /\ Len(out) \in Nat /\ Len(held) \in Nat /\ Len(events) \in Nat
           /\ \A i \in 1 .. Len(events) : events[i] \in Nat
           /\ \A i \in 1 .. Len(out) : out[i].token \in Nat
           /\ held # <<>> => Len(held) = 1 /\ held[1].token \in Nat
<1>1. /\ pushed \in Nat /\ eaten \in Nat /\ base \in Nat /\ voiced \in Nat /\ kept \in Nat
      /\ MaxTokens \in Nat /\ MaxRetry \in Nat
  BY ServicesAssumption DEF AudioTypes
<1>2. Len(out) \in Nat /\ Len(held) \in Nat /\ Len(events) \in Nat
  BY LenProperties DEF AudioTypes
<1>3. \A i \in 1 .. Len(events) : events[i] \in Nat
  BY ElementOfSeq DEF AudioTypes
<1>4. \A i \in 1 .. Len(out) : out[i] \in Frame
  BY ElementOfSeq DEF AudioTypes
<1>5. held # <<>> => Len(held) = 1
  BY HeldFollows DEF AudioTypes
<1>6. held # <<>> => held[1] \in Frame
  BY <1>5, ElementOfSeq DEF AudioTypes
<1>7. \A f \in Frame : f.token \in Nat
  BY DEF Frame
<1>8. QED
  BY <1>1, <1>2, <1>3, <1>4, <1>5, <1>6, <1>7

\* The provider's emitter sends the frame that it kept, behind those before.
LEMMA EmitterSends ==
    ASSUME AudioInv, events' = IF kept = 0 THEN events ELSE Append(events, kept)
    PROVE  /\ events' \in Seq(Nat) /\ Len(events') = Len(events) + (IF kept = 0 THEN 0 ELSE 1)
           /\ \A i \in 1 .. Len(events') : events'[i] \in Nat
           /\ ~leaked => \A i \in 1 .. Len(events') :
                /\ events'[i] <= voiced
                /\ held # <<>> => held[1].token < events'[i]
                /\ \A j \in 1 .. Len(events') : i < j => events'[i] < events'[j]
<1>0. AudioTypes
  BY DEF AudioInv
<1>1. CASE kept = 0
  BY <1>0, <1>1, AudioNumbers DEF AudioInv, AudioTypes, InOrder
<1>2. CASE kept # 0
  <2>1. /\ events' \in Seq(Nat) /\ Len(events') = Len(events) + 1
        /\ \A i \in 1 .. Len(events) : events'[i] = events[i]
        /\ events'[Len(events) + 1] = kept
    BY <1>0, <1>2, AudioNumbers, AppendProperties DEF AudioTypes
  <2>2. \A i \in 1 .. Len(events') : i \in 1 .. Len(events) \/ i = Len(events) + 1
    BY <1>0, <2>1, AudioNumbers
  <2>3. \A i \in 1 .. Len(events') : events'[i] \in Nat
    BY <1>0, <2>1, <2>2, AudioNumbers
  <2>4. ASSUME ~leaked, NEW i \in 1 .. Len(events')
        PROVE  /\ events'[i] <= voiced
               /\ held # <<>> => held[1].token < events'[i]
               /\ \A j \in 1 .. Len(events') : i < j => events'[i] < events'[j]
    <3>1. InOrder /\ kept = voiced
      BY <1>2, <2>4 DEF AudioInv, InOrder
    <3>2. QED
      BY <1>0, <1>2, <2>1, <2>2, <3>1, AudioNumbers DEF InOrder
  <2>5. QED
    BY <1>2, <2>1, <2>3, <2>4
<1>3. QED
  BY <1>1, <1>2

\* Each frame that is said, read or lost, and each fallback, keeps the audio in order.
LEMMA AudioStep == AudioInv /\ [Tts!Next]_ttsVars => AudioInv'
<1> SUFFICES ASSUME AudioInv, [Tts!Next]_ttsVars PROVE AudioInv'
  OBVIOUS
<1>0. AudioFlags'
  BY Zenon DEF AudioInv, AudioFlags, Tts!Next, Tts!PushText, Tts!EndInput, Tts!TakeToken,
     Tts!Voice, Tts!AttemptFails, Tts!AttemptEnds, Tts!ReadFrame, Tts!ProviderEnds,
     Tts!ProviderRaises, Tts!Finish, Tts!Recovered, ttsVars, Tts!inputVars, Tts!statusVars,
     Tts!attemptVars, Tts!outVars
<1> USE DEF Tts!Over, Tts!inputVars, Tts!statusVars, Tts!attemptVars, Tts!outVars
<1>b. /\ AudioTypes /\ AudioFlags /\ HeldBack
      /\ ~leaked => InOrder
      /\ ~leaked /\ ~cut => NoneMissing
  BY DEF AudioInv
<1>q. ASSUME AudioTypes', HeldBack', ~leaked' => InOrder', ~leaked' /\ ~cut' => NoneMissing'
      PROVE  AudioInv'
  BY <1>0, <1>q DEF AudioInv
<1>a. /\ pushed \in Nat /\ eaten \in Nat /\ base \in Nat /\ voiced \in Nat /\ kept \in Nat
      /\ MaxTokens \in Nat /\ MaxRetry \in Nat
      /\ Len(out) \in Nat /\ Len(held) \in Nat /\ Len(events) \in Nat
      /\ \A i \in 1 .. Len(events) : events[i] \in Nat
      /\ \A i \in 1 .. Len(out) : out[i].token \in Nat
      /\ held # <<>> => Len(held) = 1 /\ held[1].token \in Nat
  BY <1>b, AudioNumbers
<1>1. CASE Tts!PushText
  <2>1. AudioTypes' /\ HeldBack'
    BY <1>a, <1>b, <1>1 DEF Tts!PushText, AudioTypes, HeldBack
  <2>2. ~leaked' => InOrder'
    BY <1>b, <1>1 DEF Tts!PushText, InOrder
  <2>3. ~leaked' /\ ~cut' => NoneMissing'
    BY <1>b, <1>1 DEF Tts!PushText, NoneMissing, Frames
  <2>4. QED
    BY <1>q, <2>1, <2>2, <2>3
<1>2. CASE Tts!EndInput
  <2>1. AudioTypes' /\ HeldBack'
    BY <1>a, <1>b, <1>2 DEF Tts!EndInput, AudioTypes, HeldBack
  <2>2. ~leaked' => InOrder'
    BY <1>b, <1>2 DEF Tts!EndInput, InOrder
  <2>3. ~leaked' /\ ~cut' => NoneMissing'
    BY <1>b, <1>2 DEF Tts!EndInput, NoneMissing, Frames
  <2>4. QED
    BY <1>q, <2>1, <2>2, <2>3
<1>3. CASE Tts!TakeToken
  <2>1. AudioTypes' /\ HeldBack'
    BY <1>a, <1>b, <1>3 DEF Tts!TakeToken, AudioTypes, HeldBack
  <2>2. ~leaked' => InOrder'
    BY <1>b, <1>3 DEF Tts!TakeToken, InOrder
  <2>3. ~leaked' /\ ~cut' => NoneMissing'
    BY <1>b, <1>3 DEF Tts!TakeToken, NoneMissing, Frames
  <2>4. QED
    BY <1>q, <2>1, <2>2, <2>3
<1>4. CASE Tts!Voice \/ Tts!AttemptEnds
  <2>1. events' = IF kept = 0 THEN events ELSE Append(events, kept)
    BY <1>4 DEF Tts!Voice, Tts!AttemptEnds
  <2>s. events' \in Seq(Nat)
    BY <2>1, EmitterSends
  <2>2. /\ Len(events') = Len(events) + (IF kept = 0 THEN 0 ELSE 1)
        /\ \A i \in 1 .. Len(events') : events'[i] \in Nat
        /\ ~leaked => \A i \in 1 .. Len(events') :
             /\ events'[i] <= voiced
             /\ held # <<>> => held[1].token < events'[i]
             /\ \A j \in 1 .. Len(events') : i < j => events'[i] < events'[j]
    BY <2>1, EmitterSends
  <2>3. AudioTypes' /\ HeldBack'
    <3>1. CASE Tts!Voice
      BY <1>a, <1>b, <2>s, <3>1 DEF Tts!Voice, AudioTypes, HeldBack
    <3>2. CASE Tts!AttemptEnds
      BY <1>a, <1>b, <2>s, <3>2 DEF Tts!AttemptEnds, AudioTypes, HeldBack
    <3>3. QED
      BY <1>4, <3>1, <3>2
  <2>4. ~leaked' => InOrder'
    <3>1. /\ held' = held /\ out' = out /\ provider' = provider /\ leaked' = leaked
          /\ \/ voiced' = voiced + 1 /\ kept' = voiced + 1
             \/ voiced' = voiced /\ kept' = 0
      BY <1>4 DEF Tts!Voice, Tts!AttemptEnds
    <3>2. QED
      BY <1>a, <1>b, <2>2, <3>1 DEF InOrder
  <2>5. ~leaked' /\ ~cut' => NoneMissing'
    <3> SUFFICES ASSUME ~leaked', ~cut' PROVE NoneMissing'
      OBVIOUS
    <3>1. /\ NoneMissing /\ ttsPhase = "running" /\ ttsPhase' \in {"running", "finished"}
          /\ UNCHANGED <<held, out, base>>
      BY <1>4, <1>b DEF Tts!Voice, Tts!AttemptEnds
    <3>2. Len(out) + Len(held) + Len(events') = voiced
      <4>1. CASE kept = 0
        BY <1>a, <2>2, <3>1, <4>1 DEF NoneMissing, Frames
      <4>2. CASE kept # 0
        BY <1>a, <2>2, <3>1, <4>2 DEF NoneMissing, Frames
      <4>3. QED
        BY <4>1, <4>2
    <3>3. \/ kept' = voiced + 1 /\ voiced' = voiced + 1
          \/ kept' = 0 /\ voiced' = voiced
      BY <1>4 DEF Tts!Voice, Tts!AttemptEnds
    <3>4. Frames' = voiced'
      BY <1>a, <3>1, <3>2, <3>3 DEF Frames
    <3>5. QED
      BY <3>1, <3>4 DEF NoneMissing
  <2>6. QED
    BY <1>q, <2>3, <2>4, <2>5
<1>5. CASE Tts!AttemptFails
  <2>1. AudioTypes' /\ HeldBack'
    BY <1>a, <1>b, <1>5 DEF Tts!AttemptFails, AudioTypes, HeldBack
  <2>2. ~leaked' => InOrder'
    <3>1. /\ leaked' = leaked /\ UNCHANGED <<held, out, events, provider>>
          /\ voiced' = eaten /\ kept' = 0 /\ voiced <= eaten
      BY <1>a, <1>b, <1>5 DEF Tts!AttemptFails, AudioTypes
    <3>2. QED
      BY <1>a, <1>b, <3>1 DEF InOrder
  <2>3. ASSUME ~leaked', ~cut' PROVE NoneMissing'
    <3>1. NoneMissing /\ ~(eaten > base)
      BY <1>5, <1>b, <2>3, Zenon DEF Tts!AttemptFails
    <3>2. eaten = 0 /\ base = 0 /\ voiced = 0
      BY <1>a, <1>b, <3>1 DEF NoneMissing, AudioTypes
    <3>3. base' = 0 /\ voiced' = 0 /\ kept' = 0 /\ UNCHANGED <<held, out, events>>
          /\ ttsPhase = "running" /\ ttsPhase' \in {"running", "raised"}
      BY <1>5, <3>2 DEF Tts!AttemptFails
    <3>4. kept = 0 /\ Frames = 0
      BY <1>a, <1>b, <3>1, <3>2, <3>3 DEF NoneMissing, AudioTypes
    <3>5. QED
      BY <3>3, <3>4 DEF NoneMissing, Frames
  <2>4. QED
    BY <1>q, <2>1, <2>2, <2>3
<1>6. CASE Tts!ReadFrame
  <2> DEFINE frame == [by |-> provider, token |-> Head(events)]
  <2>s. events \in Seq(Nat) /\ events # <<>> /\ events' = Tail(events)
    BY <1>b, <1>6 DEF Tts!ReadFrame, AudioTypes
  <2>t. events' \in Seq(Nat)
    BY <2>s, HeadTailProperties
  <2>1. /\ Head(events) \in Nat /\ Head(events) = events[1]
        /\ Len(events') = Len(events) - 1
        /\ \A i \in 1 .. Len(events') : events'[i] = events[i + 1]
        /\ Len(events) > 0
    BY <2>s, HeadTailProperties, EmptySeq
  <2>u. held' = <<frame>> /\ frame \in Frame /\ held' \in Seq(Frame)
    BY <1>b, <1>6, <2>1 DEF Tts!ReadFrame, Frame, AudioTypes
  <2>2. Len(held') = 1 /\ held' # <<>> /\ held'[1].by = provider /\ held'[1].token = events[1]
    BY <2>1, <2>u
  <2>v. out' \in Seq(Frame)
    BY <1>b, <1>6, HeldFollows DEF Tts!ReadFrame, AudioTypes
  <2>3. /\ Len(out') = Len(out) + Len(held)
        /\ \A i \in 1 .. Len(out) : out'[i] = out[i]
        /\ held # <<>> => Len(held) = 1 /\ out'[Len(out) + 1] = held[1]
        /\ held = <<>> => Len(held) = 0 /\ out' = out
        /\ \A i \in 1 .. Len(out') :
             i \in 1 .. Len(out) \/ (i = Len(out) + 1 /\ held # <<>>)
    BY <1>b, <1>6, HeldFollows DEF Tts!ReadFrame, AudioTypes
  <2> HIDE DEF frame
  <2>4. AudioTypes' /\ HeldBack'
    BY <1>a, <1>b, <1>6, <2>t, <2>u, <2>v, <2>2 DEF Tts!ReadFrame, AudioTypes, HeldBack
  <2>5. ASSUME ~leaked PROVE InOrder'
    <3>1. /\ InOrder /\ provider' = provider /\ voiced' = voiced /\ kept' = kept
          /\ held = <<>> => out = <<>>
      BY <1>b, <1>6, <2>5 DEF Tts!ReadFrame, HeldBack
    <3>2. /\ \A i \in 1 .. Len(events') : i + 1 \in 1 .. Len(events)
          /\ 1 \in 1 .. Len(events)
      BY <1>a, <2>1
    <3>3. \A i \in 1 .. Len(out') :
            /\ out'[i].by = provider /\ out'[i].token < events[1]
            /\ \A j \in 1 .. Len(out') : i < j => out'[i].token < out'[j].token
      <4>1. \A i \in 1 .. Len(out) : held # <<>> /\ out[i].token < held[1].token
        <5>1. ASSUME NEW i \in 1 .. Len(out) PROVE out # <<>>
          BY EmptySeq
        <5>2. QED
          BY <3>1, <5>1 DEF InOrder
      <4>2. held # <<>> => held[1].by = provider /\ held[1].token < events[1]
        BY <3>1, <3>2 DEF InOrder
      <4>3. \A i \in 1 .. Len(out) :
              /\ out[i].by = provider
              /\ \A j \in 1 .. Len(out) : i < j => out[i].token < out[j].token
        BY <3>1 DEF InOrder
      <4>4. events[1] \in Nat
        BY <1>a, <3>2
      <4> SUFFICES ASSUME NEW i \in 1 .. Len(out')
                   PROVE  /\ out'[i].by = provider /\ out'[i].token < events[1]
                          /\ \A j \in 1 .. Len(out') : i < j => out'[i].token < out'[j].token
        OBVIOUS
      <4>5. CASE i \in 1 .. Len(out)
        <5>1. /\ out'[i] = out[i] /\ out[i].by = provider /\ out[i].token \in Nat
              /\ held # <<>> /\ out[i].token < held[1].token /\ held[1].token \in Nat
              /\ held[1].token < events[1] /\ out'[Len(out) + 1] = held[1]
          BY <1>a, <2>3, <4>1, <4>2, <4>3, <4>5
        <5>2. out[i].token < events[1]
          BY <4>4, <5>1
        <5>3. ASSUME NEW j \in 1 .. Len(out'), i < j PROVE out'[i].token < out'[j].token
          <6>1. CASE j \in 1 .. Len(out)
            BY <2>3, <4>3, <4>5, <5>1, <5>3, <6>1
          <6>2. CASE j = Len(out) + 1
            BY <5>1, <6>2
          <6>3. QED
            BY <2>3, <6>1, <6>2
        <5>4. QED
          BY <5>1, <5>2, <5>3
      <4>6. CASE i = Len(out) + 1 /\ held # <<>>
        <5>1. out'[i] = held[1]
          BY <2>3, <4>6
        <5>2. \A j \in 1 .. Len(out') : ~(i < j)
          BY <1>a, <2>3, <4>6
        <5>3. QED
          BY <4>2, <4>6, <5>1, <5>2
      <4>7. QED
        BY <2>3, <4>5, <4>6
    <3>4. \A i \in 1 .. Len(events') :
            /\ events'[i] <= voiced /\ events[1] < events'[i]
            /\ kept # 0 => events'[i] < kept
            /\ \A j \in 1 .. Len(events') : i < j => events'[i] < events'[j]
      <4>1. \A i \in 1 .. Len(events) :
              /\ events[i] <= voiced
              /\ kept # 0 => events[i] < kept
              /\ \A j \in 1 .. Len(events) : i < j => events[i] < events[j]
        BY <3>1 DEF InOrder
      <4>2. \A i, j \in 1 .. Len(events') : 1 < i + 1 /\ (i < j => i + 1 < j + 1)
        OBVIOUS
      <4>3. QED
        BY <2>1, <3>2, <4>1, <4>2
    <3>5. events[1] <= voiced /\ (kept # 0 => events[1] < kept)
      BY <1>a, <2>1, <3>1 DEF InOrder
    <3>6. QED
      BY <2>2, <3>1, <3>3, <3>4, <3>5 DEF InOrder
  <2>6. ~leaked' /\ ~cut' => NoneMissing'
    <3>1. /\ UNCHANGED <<base, voiced, kept, ttsPhase, leaked, cut>>
          /\ ttsPhase # "done"
      BY <1>6 DEF Tts!ReadFrame
    <3>2. Frames' = Frames
      BY <1>a, <2>1, <2>2, <2>3, <3>1 DEF Frames
    <3>3. QED
      BY <1>b, <3>1, <3>2 DEF NoneMissing
  <2>7. leaked' = leaked
    BY <1>6 DEF Tts!ReadFrame
  <2>8. QED
    BY <1>q, <2>4, <2>5, <2>6, <2>7
<1>7. ASSUME Tts!Finish, UNCHANGED <<inputDone, pushed, allFailed, cut, leaked>>,
             recovering' \subseteq Tts!Providers, ttsStatus' \in [Tts!Providers -> BOOLEAN],
             ttsPhase \in {"finished", "raised"}, events = <<>>
      PROVE  AudioInv'
  <2>s. out \o held \in Seq(Frame) /\ out \in Seq(Frame)
    BY <1>b, HeldFollows DEF AudioTypes
  <2>1. /\ Len(out \o held) = Len(out) + Len(held)
        /\ \A i \in 1 .. Len(out) : (out \o held)[i] = out[i]
        /\ held # <<>> => Len(held) = 1 /\ (out \o held)[Len(out) + 1] = held[1]
        /\ held = <<>> => Len(held) = 0 /\ out \o held = out
        /\ \A i \in 1 .. Len(out \o held) :
             i \in 1 .. Len(out) \/ (i = Len(out) + 1 /\ held # <<>>)
    BY <1>b, HeldFollows DEF AudioTypes
  <2>2. /\ held' = <<>> /\ out' \in {out, out \o held} /\ ttsPhase' \in {"done", "error"}
        /\ ttsPhase' = "done" => out' = out \o held /\ (out \o held # <<>> \/ ~(pushed > 0))
        /\ UNCHANGED <<provider, attempt, eaten, base, voiced, kept, sent, events>>
    BY <1>7 DEF Tts!Finish
  <2>3. AudioTypes' /\ HeldBack'
    <3>1. held' \in Seq(Frame) /\ out' \in Seq(Frame)
      BY <2>s, <2>2, EmptySeq
    <3>0. Len(held') = 0
      BY <2>2, EmptySeq, Zenon
    <3>2. QED
      BY <1>a, <1>b, <1>7, <2>2, <3>0, <3>1 DEF AudioTypes, HeldBack
  <2>4. ASSUME ~leaked PROVE InOrder'
    <3>2. InOrder
      BY <1>b, <2>4
    <3>3. \A i \in 1 .. Len(out') :
            /\ out'[i].by = provider
            /\ \A j \in 1 .. Len(out') : i < j => out'[i].token < out'[j].token
      <4>1. CASE out' = out
        BY <3>2, <4>1 DEF InOrder
      <4>2. CASE out' = out \o held
        BY <1>a, <2>1, <3>2, <4>2 DEF InOrder
      <4>3. QED
        BY <2>2, <4>1, <4>2
    <3>4. QED
      BY <1>7, <2>2, <3>2, <3>3 DEF InOrder
  <2>5. ASSUME ~leaked, ~cut PROVE NoneMissing'
    <3>1. /\ NoneMissing /\ kept = 0 /\ Len(events) = 0 /\ Len(out) + Len(held) = voiced
      BY <1>a, <1>b, <1>7, <2>5 DEF NoneMissing, Frames, HeldBack
    <3>2. ASSUME ttsPhase' = "done" PROVE Len(out') = pushed
      <4>1. CASE ttsPhase = "finished"
        BY <1>b, <2>1, <2>2, <3>1, <3>2, <4>1 DEF HeldBack
      <4>2. CASE ttsPhase = "raised"
        <5>1. Len(out \o held) = 0
          BY <2>1, <3>1, <4>2 DEF NoneMissing
        <5>2. out \o held = <<>>
          BY <2>s, <5>1, EmptySeq
        <5>3. QED
          BY <1>a, <2>2, <3>2, <5>1, <5>2
      <4>3. QED
        BY <1>7, <4>1, <4>2
    <3>3. QED
      BY <1>7, <2>2, <3>1, <3>2 DEF NoneMissing
  <2>6. QED
    BY <1>7, <1>q, <2>3, <2>4, <2>5
<1>8. CASE Tts!ProviderEnds
  <2>1. /\ Tts!Finish /\ ttsPhase \in {"finished", "raised"} /\ events = <<>>
        /\ UNCHANGED <<inputDone, pushed, allFailed, cut, leaked, recovering, ttsStatus>>
    BY <1>8 DEF Tts!ProviderEnds
  <2>2. recovering' \subseteq Tts!Providers /\ ttsStatus' \in [Tts!Providers -> BOOLEAN]
    BY <1>b, <2>1 DEF AudioTypes
  <2>3. QED
    BY <1>7, <2>1, <2>2
<1>9. CASE Tts!ProviderRaises
  <2> DEFINE left   == [ttsStatus EXCEPT ![provider] = FALSE]
             after  == Tts!Candidates(provider + 1, left)
             passed == {p \in Tts!Providers : /\ p >= provider
                                              /\ after # {} => p < Tts!First(after)}
  <2>1. /\ ttsPhase = "raised" /\ events = <<>> /\ ttsStatus' = left
        /\ UNCHANGED <<inputDone, pushed, allFailed, cut>>
    BY <1>9 DEF Tts!ProviderRaises
  <2>2. left \in [Tts!Providers -> BOOLEAN]
    BY <1>b DEF AudioTypes
  <2>3. after \in SUBSET Nat /\ after \subseteq Tts!Providers
    BY DEF Tts!Candidates, Tts!Providers
  <2>4. passed \subseteq Tts!Providers
    OBVIOUS
  <2>5. CASE ~Tts!FallsBack
    <3>1. Tts!Finish /\ UNCHANGED <<recovering, leaked>>
      BY <1>9, <2>5 DEF Tts!ProviderRaises
    <3>2. recovering' \subseteq Tts!Providers
      BY <1>b, <3>1 DEF AudioTypes
    <3> HIDE DEF left
    <3>3. QED
      BY <1>7, <2>1, <2>2, <3>1, <3>2
  <2>6. CASE Tts!FallsBack
    <3>1. recovering' = IF pushed = 0 THEN recovering ELSE recovering \cup passed
      BY <1>9, <2>6 DEF Tts!ProviderRaises
    <3>2. recovering' \subseteq Tts!Providers
      BY <1>b, <2>4, <3>1 DEF AudioTypes
    <3> HIDE DEF left, passed
    <3>3. CASE after = {}
      <4>1. /\ ttsPhase' = "error" /\ held' = <<>>
            /\ UNCHANGED <<provider, attempt, eaten, base, voiced, kept, sent, events, out,
                           leaked>>
        BY <1>9, <2>6, <3>3 DEF Tts!ProviderRaises, left
      <4>2. AudioTypes' /\ HeldBack'
        BY <1>a, <1>b, <2>1, <2>2, <3>2, <4>1 DEF AudioTypes, HeldBack
      <4>3. ~leaked' => InOrder'
        BY <1>b, <2>1, <4>1 DEF InOrder
      <4>4. ~leaked' /\ ~cut' => NoneMissing'
        BY <1>b, <2>1, <4>1 DEF NoneMissing
      <4>5. QED
        BY <1>q, <4>2, <4>3, <4>4
    <3>4. CASE after # {}
      <4>1. /\ provider' = Tts!First(after)
            /\ attempt' = 0 /\ eaten' = 0 /\ base' = 0 /\ voiced' = 0 /\ kept' = 0
            /\ events' = <<>> /\ ttsPhase' = "running"
            /\ leaked' = (leaked \/ (held # <<>> /\ out = <<>>))
            /\ UNCHANGED <<held, out>>
        BY <1>9, <2>6, <3>4 DEF Tts!ProviderRaises, left
      <4>2. provider' \in Tts!Providers
        BY <2>3, <3>4, <4>1, FirstIsIn
      <4>3. AudioTypes' /\ HeldBack'
        BY <1>a, <1>b, <2>1, <2>2, <3>2, <4>1, <4>2 DEF AudioTypes, HeldBack
      <4>4. ~leaked' => held = <<>> /\ out = <<>>
        BY <2>6, <4>1 DEF Tts!FallsBack
      <4>5. ~leaked' => InOrder'
        BY <1>b, <4>1, <4>4 DEF InOrder
      <4>6. ~leaked' => NoneMissing'
        BY <1>b, <4>1, <4>4 DEF NoneMissing, Frames
      <4>7. QED
        BY <1>q, <4>1, <4>3, <4>5, <4>6
    <3>5. QED
      BY <3>3, <3>4
  <2>7. QED
    BY <2>5, <2>6
<1>10. ASSUME NEW p \in Tts!Providers, Tts!Recovered(p) PROVE AudioInv'
  <2>1. AudioTypes' /\ HeldBack'
    BY <1>a, <1>b, <1>10 DEF Tts!Recovered, AudioTypes, HeldBack
  <2>2. ~leaked' => InOrder'
    BY <1>b, <1>10 DEF Tts!Recovered, InOrder
  <2>3. ~leaked' /\ ~cut' => NoneMissing'
    BY <1>b, <1>10 DEF Tts!Recovered, NoneMissing, Frames
  <2>4. QED
    BY <1>q, <2>1, <2>2, <2>3
<1>11. CASE UNCHANGED ttsVars
  <2>1. AudioTypes' /\ HeldBack'
    BY <1>b, <1>11 DEF ttsVars, AudioTypes, HeldBack
  <2>2. ~leaked' => InOrder'
    BY <1>b, <1>11 DEF ttsVars, InOrder
  <2>3. ~leaked' /\ ~cut' => NoneMissing'
    BY <1>b, <1>11 DEF ttsVars, NoneMissing, Frames
  <2>4. QED
    BY <1>q, <2>1, <2>2, <2>3
<1>12. QED
  BY <1>1, <1>2, <1>3, <1>4, <1>5, <1>6, <1>8, <1>9, <1>10, <1>11 DEF Tts!Next

\* What is heard is in order and of one provider, and whole at the end.
LEMMA AudioImplies == AudioInv => Tts!HeardOnceAndWhole
<1> SUFFICES ASSUME AudioInv, ~leaked PROVE
        /\ \A i, j \in 1 .. Len(Tts!Heard) :
            i < j => /\ Tts!Heard[i].by = Tts!Heard[j].by
                     /\ Tts!Heard[i].token < Tts!Heard[j].token
        /\ ttsPhase = "done" /\ ~cut => Len(out) = pushed
  BY DEF Tts!HeardOnceAndWhole
<1>0. AudioTypes /\ InOrder
  BY DEF AudioInv
<1>1. /\ Len(Tts!Heard) = Len(out) + Len(held)
      /\ \A i \in 1 .. Len(out) : Tts!Heard[i] = out[i]
      /\ held # <<>> => Len(held) = 1 /\ Tts!Heard[Len(out) + 1] = held[1]
      /\ held = <<>> => Len(held) = 0 /\ Tts!Heard = out
      /\ \A i \in 1 .. Len(Tts!Heard) :
            i \in 1 .. Len(out) \/ (i = Len(out) + 1 /\ held # <<>>)
  BY <1>0, HeldFollows DEF AudioTypes, Tts!Heard
<1>2. /\ Len(out) \in Nat /\ Len(held) \in Nat
      /\ \A i \in 1 .. Len(out) : out[i].token \in Nat
      /\ held # <<>> => held[1].token \in Nat
  BY <1>0, AudioNumbers
<1>3. \A i, j \in 1 .. Len(Tts!Heard) :
        i < j => /\ Tts!Heard[i].by = Tts!Heard[j].by
                 /\ Tts!Heard[i].token < Tts!Heard[j].token
  BY <1>0, <1>1, <1>2 DEF InOrder
<1>4. ttsPhase = "done" /\ ~cut => Len(out) = pushed
  BY DEF AudioInv, NoneMissing
<1>5. QED
  BY <1>3, <1>4

-----------------------------------------------------------------------------
(* The answer of the LLM fallback adapter *)

Part == [what : {"text", "call"}, mine : BOOLEAN]
Me == Llm!Me

AnswerTypes ==
    /\ plugin \in [Llm!Providers -> LlmPlugins] /\ llm \in Llm!Providers
    /\ llmStatus \in [Llm!Providers -> BOOLEAN] /\ llmRecovering \subseteq Llm!Providers
    /\ outer \in 0 .. MaxOuter /\ llmAttempt \in 0 .. MaxRetry
    /\ request \in {"new", "open", "broken", "spent"}
    /\ block \in {"none", "text", "call", "over"} /\ tool \in {"none", "mine", "old"}
    /\ llmPhase \in {"running", "raised", "retrying", "done", "error"}
    /\ spoilt \subseteq Llm!Spoilers
    /\ answer \in Seq({"text", "call"}) /\ llmOut \in Seq(Part)
AnswerFlags == llmSent \in BOOLEAN /\ chunkSent \in BOOLEAN /\ retryable \in BOOLEAN

\* The reader has what the model said, up to a tool call that is in pieces.
Passed ==
    /\ \A i \in 1 .. Len(llmOut) : llmOut[i].mine /\ llmOut[i].what = answer[i]
    /\ Len(answer) = Len(llmOut) + IF tool = "mine" THEN 1 ELSE 0
    /\ tool = "mine" => answer[Len(answer)] = "call" /\ block = "call"
    /\ llmPhase = "done" => tool # "mine"

\* Nothing was passed on when the attempt is given up for another.
NothingPassed ==
    /\ llmOut # <<>> => llmSent
    /\ chunkSent = llmSent
    /\ llmPhase \in {"raised", "retrying"} /\ retryable => ~llmSent
    /\ llmPhase = "retrying" => ~llmSent

\* What the attempts of each plugin keep.
Keeps ==
    /\ tool = "old" => Me = "aws"
    /\ Me = "anthropic" /\ request # "open" => tool = "none"
    /\ Me = "google" => block = "none" /\ tool = "none"

\* An attempt with a spent response is known, and a retry is one that is left.
Stages ==
    /\ request = "spent" => "reused" \in spoilt
    /\ llmPhase = "retrying" => outer < MaxOuter

AnswerInv ==
    /\ AnswerTypes /\ AnswerFlags /\ Stages
    /\ spoilt = {} => Passed /\ NothingPassed /\ Keeps

Said == {"text", "call"}

\* What was passed on of an earlier attempt is not this one's any more.
LEMMA AgedIs ==
    ASSUME NEW s \in Seq(Part)
    PROVE  Llm!Aged(s) \in Seq(Part) /\ (s = <<>> => Llm!Aged(s) = <<>>)
<1>1. DOMAIN s = 1 .. Len(s) /\ Len(s) \in Nat
  BY LenProperties
<1>2. \A i \in 1 .. Len(s) : s[i] \in Part
  BY ElementOfSeq
<1>3. \A p \in Part : [p EXCEPT !.mine = FALSE] \in Part
  BY DEF Part
<1>4. Llm!Aged(s) = [i \in 1 .. Len(s) |-> [s[i] EXCEPT !.mine = FALSE]]
  BY <1>1 DEF Llm!Aged
<1>5. Llm!Aged(s) \in [1 .. Len(s) -> Part]
  BY <1>2, <1>3, <1>4
<1>6. Llm!Aged(s) \in Seq(Part)
  BY <1>1, <1>5, SeqDef
<1>7. ASSUME s = <<>> PROVE Llm!Aged(s) = <<>>
  <2>1. Len(s) = 0
    BY <1>7, EmptySeq
  <2>2. Len(Llm!Aged(s)) = 0
    BY <1>1, <1>5, <1>6, <2>1, LenProperties
  <2>3. QED
    BY <1>6, <2>2, EmptySeq
<1>8. QED
  BY <1>6, <1>7

\* A part that the model said, behind those that were passed on.
LEMMA OneMore ==
    ASSUME NEW o \in Seq(Part), NEW a \in Seq(Said), NEW part \in Part, part.mine,
           \A i \in 1 .. Len(o) : o[i].mine /\ o[i].what = a[i],
           a[Len(o) + 1] = part.what
    PROVE  /\ o \o <<part>> \in Seq(Part) /\ Len(o \o <<part>>) = Len(o) + 1
           /\ \A i \in 1 .. Len(o \o <<part>>) :
                (o \o <<part>>)[i].mine /\ (o \o <<part>>)[i].what = a[i]
<1>1. /\ o \o <<part>> = Append(o, part)
      /\ Append(o, part) \in Seq(Part) /\ Len(Append(o, part)) = Len(o) + 1
      /\ \A i \in 1 .. Len(o) : Append(o, part)[i] = o[i]
      /\ Append(o, part)[Len(o) + 1] = part
  BY AppendProperties, AppendIsConcat
<1> DEFINE n == Len(o)
           s == Append(o, part)
<1>2. n \in Nat
  BY LenProperties
<1>3. /\ \A i \in 1 .. n : s[i].mine /\ s[i].what = a[i]
      /\ s[n + 1].mine /\ s[n + 1].what = a[n + 1] /\ Len(s) = n + 1
  BY <1>1
<1> HIDE DEF n, s
<1>4. \A i \in 1 .. Len(s) : s[i].mine /\ s[i].what = a[i]
  <2>1. \A i \in 1 .. n + 1 : i \in 1 .. n \/ i = n + 1
    BY <1>2
  <2>2. QED
    BY <1>3, <2>1
<1>5. QED
  BY <1>1, <1>4 DEF s

\* What the model says comes behind what it said.
LEMMA SaysMore ==
    ASSUME NEW a \in Seq(Said), NEW x \in Said
    PROVE  /\ Append(a, x) \in Seq(Said) /\ Len(Append(a, x)) = Len(a) + 1
           /\ \A i \in 1 .. Len(a) : Append(a, x)[i] = a[i]
           /\ Append(a, x)[Len(a) + 1] = x
BY AppendProperties

\* What each plugin makes of an event of the model.
LEMMA ParseIs ==
    ASSUME AnswerTypes, AnswerFlags, NEW event \in {"text", "start", "end"}
    PROVE  LET parsed == Llm!Parse(event)
           IN /\ parsed.parts \in {<<>>, <<Llm!Mine("text")>>, <<Llm!Mine("call")>>,
                                   <<Llm!Call>>}
              /\ parsed.tool \in {"none", "mine", "old"} /\ parsed.chunk \in BOOLEAN
              /\ parsed.parts # <<>> => parsed.chunk
              /\ event = "text" => /\ parsed.parts = <<Llm!Mine("text")>>
                                   /\ parsed.tool = IF Me = "google" THEN "none" ELSE tool
              /\ event = "start" =>
                    /\ parsed.tool = IF Me = "google" THEN "none" ELSE "mine"
                    /\ parsed.parts = CASE Me = "google" -> <<Llm!Mine("call")>>
                                        [] Me = "openai" -> Llm!KeptCall [] OTHER -> <<>>
              /\ event = "end" /\ Me # "google" => /\ parsed.parts = Llm!KeptCall
                                                   /\ parsed.tool = "none"
<1>1. Me \in {"openai", "anthropic", "google", "aws"}
  BY ServicesAssumption DEF AnswerTypes, Me, Llm!Me
<1>2. Llm!KeptCall \in {<<>>, <<Llm!Call>>} /\ tool \in {"none", "mine", "old"}
  BY DEF Llm!KeptCall, AnswerTypes
<1>3. CASE Me = "openai"
  <2>1. Llm!Parse(event) = Llm!OpenaiParse(event)
    BY <1>3 DEF Me, Llm!Parse
  <2>2. QED
    BY <1>2, <1>3, <2>1 DEF Llm!OpenaiParse
<1>4. CASE Me = "anthropic"
  <2>1. Llm!Parse(event) = Llm!AnthropicParse(event)
    BY <1>4 DEF Me, Llm!Parse
  <2>2. Llm!Parse(event).chunk = (Llm!Parse(event).parts # <<>>)
    BY <2>1 DEF Llm!AnthropicParse
  <2>3. /\ Llm!Parse(event).parts = CASE event = "text" -> <<Llm!Mine("text")>>
                                       [] event = "start" -> <<>> [] OTHER -> Llm!KeptCall
        /\ Llm!Parse(event).tool = CASE event = "text" -> tool [] event = "start" -> "mine"
                                      [] OTHER -> "none"
    BY <2>1 DEF Llm!AnthropicParse
  <2>4. Llm!Parse(event).chunk \in BOOLEAN
    BY <2>2
  <2>5. QED
    BY <1>2, <1>4, <2>2, <2>3, <2>4
<1>5. CASE Me = "google"
  <2>1. Llm!Parse(event) = Llm!GoogleParse(event)
    BY <1>5 DEF Me, Llm!Parse
  <2>2. QED
    BY <1>2, <1>5, <2>1 DEF Llm!GoogleParse
<1>6. CASE Me = "aws"
  <2>1. Llm!Parse(event) = Llm!AwsParse(event)
    BY <1>6 DEF Me, Llm!Parse
  <2>2. Llm!Parse(event).chunk = (Llm!Parse(event).parts # <<>>)
    BY <2>1 DEF Llm!AwsParse
  <2>3. /\ Llm!Parse(event).parts = CASE event = "text" -> <<Llm!Mine("text")>>
                                       [] event = "start" -> <<>> [] OTHER -> Llm!KeptCall
        /\ Llm!Parse(event).tool = CASE event = "text" -> tool [] event = "start" -> "mine"
                                      [] OTHER -> "none"
    BY <2>1 DEF Llm!AwsParse
  <2>4. Llm!Parse(event).chunk \in BOOLEAN
    BY <2>2
  <2>5. QED
    BY <1>2, <1>6, <2>2, <2>3, <2>4
<1>7. QED
  BY <1>1, <1>3, <1>4, <1>5, <1>6

\* Some provider is tried: one that is available, or any when none is.
LEMMA SomeoneIsTried ==
    ASSUME NEW available
    PROVE  Llm!First(Llm!Candidates(1, available, Llm!AllFailed(available))) \in Llm!Providers
<1> DEFINE these == Llm!Candidates(1, available, Llm!AllFailed(available))
<1>1. these \subseteq Llm!Providers /\ these \in SUBSET Nat
  BY ServicesAssumption DEF Llm!Candidates, Llm!Providers
<1>2. 1 \in Llm!Providers /\ \A p \in Llm!Providers : p >= 1
  BY ServicesAssumption DEF Llm!Providers
<1>3. these # {}
  <2>1. CASE Llm!AllFailed(available)
    BY <1>2, <2>1 DEF Llm!Candidates
  <2>2. CASE ~Llm!AllFailed(available)
    BY <1>2, <2>2 DEF Llm!Candidates, Llm!AllFailed
  <2>3. QED
    BY <2>1, <2>2
<1> HIDE DEF these
<1>4. Llm!First(these) \in these
  BY <1>1, <1>3, FirstIsIn
<1>5. QED
  BY <1>1, <1>4 DEF these

\* A stream of the model begins with an answer that says nothing.
LEMMA AnswerStart == Llm!Init => AnswerInv
<1> SUFFICES ASSUME Llm!Init PROVE AnswerInv
  OBVIOUS
<1>1. AnswerFlags
  BY Zenon DEF Llm!Init, AnswerFlags
<1>2. llm \in Llm!Providers
  BY SomeoneIsTried DEF Llm!Init
<1>3. llmRecovering \subseteq Llm!Providers
  <2>1. llmRecovering = 1 .. llm - 1
    BY DEF Llm!Init
  <2>2. QED
    BY <1>2, <2>1, ServicesAssumption DEF Llm!Providers
<1>4. AnswerTypes
  <2>1. answer \in Seq({"text", "call"}) /\ llmOut \in Seq(Part)
    BY EmptySeq DEF Llm!Init
  <2>2. QED
    BY <1>2, <1>3, <2>1, ServicesAssumption DEF Llm!Init, AnswerTypes
<1>5. Passed
  <2>1. Len(llmOut) = 0 /\ Len(answer) = 0
    BY EmptySeq DEF Llm!Init
  <2>2. QED
    BY <2>1 DEF Llm!Init, Passed
<1>6. NothingPassed /\ Keeps
  BY DEF Llm!Init, NothingPassed, Keeps
<1>7. QED
  BY <1>1, <1>4, <1>5, <1>6 DEF Llm!Init, AnswerInv, Stages

\* A new attempt that follows one of which nothing was passed on.
LEMMA Begins ==
    ASSUME AnswerInv, llmOut' = Llm!Aged(llmOut), answer' = <<>>, block' = "none",
           llmSent' = FALSE, chunkSent' = FALSE, llmPhase' = "running",
           tool' \in {"none", "old"}
    PROVE  /\ answer' \in Seq(Said) /\ llmOut' \in Seq(Part)
           /\ llmOut = <<>> => Passed' /\ NothingPassed'
<1>1. llmOut \in Seq(Part)
  BY DEF AnswerInv, AnswerTypes
<1>2. llmOut' \in Seq(Part) /\ (llmOut = <<>> => llmOut' = <<>>)
  BY <1>1, AgedIs
<1>3. answer' \in Seq(Said) /\ Len(answer') = 0
  BY EmptySeq
<1>4. ASSUME llmOut = <<>> PROVE Passed' /\ NothingPassed'
  <2>1. Len(llmOut') = 0
    BY <1>2, <1>4, EmptySeq
  <2>2. Passed'
    BY <1>3, <2>1 DEF Passed
  <2>3. NothingPassed'
    BY <1>2, <1>4 DEF NothingPassed
  <2>4. QED
    BY <2>2, <2>3
<1>5. QED
  BY <1>2, <1>3, <1>4

\* Each event of the model, of whichever plugin, reaches the reader in order.
LEMMA EventKeeps ==
    ASSUME AnswerInv, NEW event \in {"text", "start", "end"}, Llm!Event(event)
    PROVE  AnswerTypes' /\ (spoilt' = {} => Passed' /\ NothingPassed' /\ Keeps')
<1> DEFINE parsed == Llm!Parse(event)
<1>0. AnswerTypes /\ AnswerFlags
  BY DEF AnswerInv
<1>1. /\ UNCHANGED <<plugin, llmStatus, llmRecovering, llmAllFailed, outer, llm, llmAttempt,
                     request, llmPhase, retryable>>
      /\ llmPhase = "running" /\ request = "open" /\ Me' = Me
  BY DEF Llm!Event, Llm!statusVars, Me, Llm!Me
<1>2. /\ llmOut' = llmOut \o parsed.parts /\ tool' = parsed.tool
      /\ llmSent' = (llmSent \/ parsed.chunk) /\ chunkSent' = (chunkSent \/ parsed.chunk)
      /\ answer' = CASE event = "text" -> Append(answer, "text")
                     [] event = "start" -> Append(answer, "call") [] OTHER -> answer
      /\ spoilt' = IF Me = "aws" /\ parsed.parts # <<>> /\ ~parsed.parts[1].mine
                   THEN spoilt \cup {"orphan"} ELSE spoilt
      /\ block' = IF Me = "google" THEN "none"
                  ELSE CASE event = "text" -> "text" [] event = "start" -> "call"
                         [] event = "end" -> IF Me = "openai" THEN "over" ELSE "none"
      /\ CASE event = "text" -> block \in {"none", "text"}
           [] event = "start" -> block = "none" \/ (Me = "openai" /\ block \in {"text", "call"})
           [] event = "end" -> block \in {"text", "call"}
  BY DEF Llm!Event, Me
<1>3. /\ parsed.parts \in {<<>>, <<Llm!Mine("text")>>, <<Llm!Mine("call")>>, <<Llm!Call>>}
      /\ parsed.tool \in {"none", "mine", "old"} /\ parsed.chunk \in BOOLEAN
      /\ parsed.parts # <<>> => parsed.chunk
      /\ event = "text" => /\ parsed.parts = <<Llm!Mine("text")>>
                           /\ parsed.tool = IF Me = "google" THEN "none" ELSE tool
      /\ event = "start" =>
            /\ parsed.tool = IF Me = "google" THEN "none" ELSE "mine"
            /\ parsed.parts = CASE Me = "google" -> <<Llm!Mine("call")>>
                                [] Me = "openai" -> Llm!KeptCall [] OTHER -> <<>>
      /\ event = "end" /\ Me # "google" => /\ parsed.parts = Llm!KeptCall
                                           /\ parsed.tool = "none"
  BY <1>0, ParseIs
<1> HIDE DEF parsed
<1>4. Me \in {"openai", "anthropic", "google", "aws"} /\ tool \in {"none", "mine", "old"}
  BY <1>0, ServicesAssumption DEF AnswerTypes, Me, Llm!Me
<1>5. /\ Llm!Mine("text") \in Part /\ Llm!Mine("text").mine /\ Llm!Mine("text").what = "text"
      /\ Llm!Mine("call") \in Part /\ Llm!Mine("call").mine /\ Llm!Mine("call").what = "call"
  BY DEF Llm!Mine, Part
<1>6. Llm!Call \in Part /\ Llm!Call.what = "call" /\ Llm!Call.mine = (tool = "mine")
  BY DEF Llm!Call, Part
<1>7. AnswerTypes'
  <2>1. answer \in Seq({"text", "call"}) /\ llmOut \in Seq(Part)
    BY <1>0 DEF AnswerTypes
  <2>2. answer' \in Seq({"text", "call"})
    BY <1>2, <2>1, SaysMore DEF Said
  <2>3. parsed.parts \in Seq(Part)
    <3>1. <<>> \in Seq(Part) /\ \A part \in Part : <<part>> \in Seq(Part)
      BY EmptySeq
    <3>2. QED
      BY <1>3, <1>5, <1>6, <3>1, Zenon
  <2>4. llmOut' \in Seq(Part)
    BY <1>2, <2>1, <2>3, ConcatProperties
  <2>5. block' \in {"none", "text", "call", "over"}
    BY <1>2, <1>4
  <2>6. spoilt' \subseteq Llm!Spoilers
    BY <1>0, <1>2 DEF AnswerTypes, Llm!Spoilers
  <2>7. QED
    BY <1>0, <1>1, <1>2, <1>3, <2>2, <2>4, <2>5, <2>6 DEF AnswerTypes
<1> SUFFICES ASSUME spoilt' = {} PROVE Passed' /\ NothingPassed' /\ Keeps'
  BY <1>7
<1>8. Passed /\ NothingPassed /\ Keeps
  BY <1>2 DEF AnswerInv
<1>9. ~(Me = "aws" /\ parsed.parts # <<>> /\ ~parsed.parts[1].mine)
  BY <1>2
<1>10. Keeps'
  <2>1. ASSUME tool' = "old" PROVE Me' = "aws"
    BY <1>1, <1>2, <1>3, <1>4, <1>8, <2>1 DEF Keeps
  <2>2. ASSUME Me' = "google" PROVE block' = "none" /\ tool' = "none"
    <3>1. Me = "google" /\ block = "none"
      BY <1>1, <1>8, <2>2 DEF Keeps
    <3>2. event \in {"text", "start"}
      BY <1>2, <3>1
    <3>3. QED
      BY <1>2, <1>3, <3>1, <3>2
  <2>3. request' = "open"
    BY <1>1
  <2>4. QED
    BY <2>1, <2>2, <2>3 DEF Keeps
<1>11. NothingPassed'
  <2>1. llmOut' # <<>> => llmSent'
    <3>1. CASE parsed.parts = <<>>
      <4>1. llmOut' = llmOut
        BY <1>0, <1>2, <3>1, ConcatEmptySeq DEF AnswerTypes
      <4>2. QED
        BY <1>0, <1>2, <1>8, <4>1 DEF NothingPassed
    <3>2. CASE parsed.parts # <<>>
      BY <1>2, <1>3, <3>2
    <3>3. QED
      BY <3>1, <3>2
  <2>2. chunkSent' = llmSent'
    BY <1>2, <1>8 DEF NothingPassed
  <2>3. QED
    BY <1>1, <2>1, <2>2 DEF NothingPassed
<1> DEFINE n == Len(llmOut)
           m == Len(answer)
<1>12. n \in Nat /\ m \in Nat
  BY <1>0, LenProperties DEF AnswerTypes
<1>13. /\ \A i \in 1 .. n : llmOut[i].mine /\ llmOut[i].what = answer[i]
       /\ m = n + IF tool = "mine" THEN 1 ELSE 0
       /\ tool = "mine" => answer[m] = "call" /\ block = "call"
  BY <1>8 DEF Passed
<1>14. answer \in Seq(Said) /\ llmOut \in Seq(Part)
  BY <1>0 DEF AnswerTypes, Said
<1>15. ASSUME NEW x \in Said, answer' = Append(answer, x)
       PROVE  /\ answer' \in Seq(Said) /\ Len(answer') = m + 1 /\ answer'[m + 1] = x
              /\ \A i \in 1 .. n : llmOut[i].mine /\ llmOut[i].what = answer'[i]
              /\ tool = "mine" => answer'[m] = "call"
  <2>1. /\ answer' \in Seq(Said) /\ Len(answer') = m + 1 /\ answer'[m + 1] = x
        /\ \A i \in 1 .. m : answer'[i] = answer[i]
    BY <1>14, <1>15, SaysMore
  <2> HIDE DEF n, m
  <2>2. /\ \A i \in 1 .. n : i \in 1 .. m
        /\ tool = "mine" => m \in 1 .. m
    BY <1>12, <1>13
  <2>3. QED
    BY <1>13, <2>1, <2>2
<1>16. CASE event = "text" \/ (event = "start" /\ Me = "google")
  <2>1. /\ tool # "mine" /\ tool' # "mine"
    BY <1>2, <1>3, <1>4, <1>8, <1>13, <1>16 DEF Keeps
  <2>2. PICK x \in Said : /\ answer' = Append(answer, x)
                          /\ parsed.parts = <<Llm!Mine(x)>>
    BY <1>2, <1>3, <1>16 DEF Said
  <2>3. Llm!Mine(x) \in Part /\ Llm!Mine(x).mine /\ Llm!Mine(x).what = x
    BY DEF Llm!Mine, Part, Said
  <2>4. m = n
    BY <1>12, <1>13, <2>1
  <2>5. /\ answer' \in Seq(Said) /\ Len(answer') = n + 1 /\ answer'[n + 1] = x
        /\ \A i \in 1 .. n : llmOut[i].mine /\ llmOut[i].what = answer'[i]
    BY <1>15, <2>2, <2>4
  <2>6. /\ Len(llmOut') = n + 1
        /\ \A i \in 1 .. Len(llmOut') : llmOut'[i].mine /\ llmOut'[i].what = answer'[i]
    BY <1>2, <1>14, <2>2, <2>3, <2>5, OneMore
  <2>7. Passed'
    <3>1. Len(answer') = Len(llmOut') + 0
      BY <1>12, <2>5, <2>6
    <3>2. QED
      BY <1>1, <2>1, <2>6, <3>1 DEF Passed
  <2>8. QED
    BY <1>10, <1>11, <2>7
<1>17. CASE event = "start" /\ Me # "google"
  <2>1. tool' = "mine" /\ block' = "call" /\ answer' = Append(answer, "call")
    BY <1>2, <1>3, <1>17
  <2>2. /\ answer' \in Seq(Said) /\ Len(answer') = m + 1 /\ answer'[m + 1] = "call"
        /\ \A i \in 1 .. n : llmOut[i].mine /\ llmOut[i].what = answer'[i]
        /\ tool = "mine" => answer'[m] = "call"
    BY <1>15, <2>1 DEF Said
  <2>3. Len(llmOut') = m /\ \A i \in 1 .. m : llmOut'[i].mine /\ llmOut'[i].what = answer'[i]
    <3>1. CASE tool = "mine"
      <4>1. Me = "openai"
        BY <1>2, <1>4, <1>13, <1>17, <3>1
      <4>2. parsed.parts = <<Llm!Call>> /\ Llm!Call.mine
        BY <1>3, <1>6, <1>17, <3>1, <4>1 DEF Llm!KeptCall
      <4>3. m = n + 1
        BY <1>12, <1>13, <3>1
      <4>4. answer'[n + 1] = Llm!Call.what
        BY <1>6, <2>2, <3>1, <4>3
      <4>5. QED
        BY <1>2, <1>6, <1>14, <2>2, <4>2, <4>3, <4>4, OneMore
    <3>2. CASE tool # "mine"
      <4>1. parsed.parts = <<>>
        BY <1>3, <1>4, <1>8, <1>17, <3>2 DEF Llm!KeptCall, Keeps
      <4>2. llmOut' = llmOut
        BY <1>2, <1>14, <4>1, ConcatEmptySeq
      <4>3. m = n
        BY <1>12, <1>13, <3>2
      <4>4. QED
        BY <2>2, <4>2, <4>3
    <3>3. QED
      BY <3>1, <3>2
  <2>4. Passed'
    BY <1>1, <2>1, <2>2, <2>3 DEF Passed
  <2>5. QED
    BY <1>10, <1>11, <2>4
<1>18. CASE event = "end"
  <2>1. Me # "google" /\ answer' = answer /\ tool' = "none" /\ parsed.parts = Llm!KeptCall
    BY <1>2, <1>3, <1>8, <1>18 DEF Keeps
  <2>2. tool # "old"
    <3>1. ASSUME tool = "old" PROVE FALSE
      <4>1. Me = "aws" /\ parsed.parts = <<Llm!Call>> /\ ~Llm!Call.mine
        BY <1>6, <1>8, <2>1, <3>1 DEF Keeps, Llm!KeptCall
      <4>2. QED
        BY <1>9, <4>1
    <3>2. QED
      BY <3>1
  <2>3. Len(llmOut') = m /\ \A i \in 1 .. m : llmOut'[i].mine /\ llmOut'[i].what = answer[i]
    <3>1. CASE tool = "mine"
      <4>1. parsed.parts = <<Llm!Call>> /\ Llm!Call.mine
        BY <1>6, <2>1, <3>1 DEF Llm!KeptCall
      <4>2. m = n + 1
        BY <1>12, <1>13, <3>1
      <4>3. answer[n + 1] = Llm!Call.what
        BY <1>6, <1>13, <3>1, <4>2
      <4>4. QED
        BY <1>2, <1>6, <1>13, <1>14, <4>1, <4>2, <4>3, OneMore
    <3>2. CASE tool = "none"
      <4>1. llmOut' = llmOut
        BY <1>2, <1>14, <2>1, <3>2, ConcatEmptySeq DEF Llm!KeptCall
      <4>2. m = n
        BY <1>12, <1>13, <3>2
      <4>3. QED
        BY <1>13, <4>1, <4>2
    <3>3. QED
      BY <1>4, <2>2, <3>1, <3>2
  <2>4. Passed'
    <3>1. Len(answer') = Len(llmOut') + 0
      BY <1>12, <2>1, <2>3
    <3>2. QED
      BY <2>1, <2>3, <3>1 DEF Passed
  <2>5. QED
    BY <1>10, <1>11, <2>4
<1>19. QED
  BY <1>16, <1>17, <1>18

\* Each event, failure, retry and fallback keeps the answer whole.
LEMMA AnswerStep == AnswerInv /\ [Llm!Next]_llmVars => AnswerInv'
<1> SUFFICES ASSUME AnswerInv, [Llm!Next]_llmVars PROVE AnswerInv'
  OBVIOUS
<1>0. AnswerFlags'
  <2>1. CASE \E event \in {"text", "start", "end"} : Llm!Event(event)
    <3>1. PICK event \in {"text", "start", "end"} : Llm!Event(event)
      BY <2>1
    <3>2. Llm!Parse(event).chunk \in BOOLEAN
      BY ParseIs DEF AnswerInv
    <3>3. /\ llmSent' = (llmSent \/ Llm!Parse(event).chunk)
          /\ chunkSent' = (chunkSent \/ Llm!Parse(event).chunk) /\ retryable' = retryable
      BY <3>1, Zenon DEF Llm!Event
    <3>4. QED
      BY <3>2, <3>3, Zenon DEF AnswerInv, AnswerFlags
  <2>2. CASE \E error \in Llm!Errors : Llm!AttemptFails(error)
    <3>1. PICK error \in Llm!Errors : Llm!AttemptFails(error)
      BY <2>2
    <3>2. Llm!Retries(error) \in BOOLEAN
      <4>1. Me \in {"openai", "anthropic", "google", "aws"}
        BY ServicesAssumption DEF AnswerInv, AnswerTypes, Me, Llm!Me
      <4>2. (~llmSent) \in BOOLEAN /\ TRUE \in BOOLEAN /\ FALSE \in BOOLEAN
        OBVIOUS
      <4>3. QED
        BY <4>1, <4>2 DEF Llm!Retries, Llm!OpenaiRetries, Llm!AnthropicRetries,
           Llm!GoogleRetries, Llm!AwsRetries, Me
    <3>3. QED
      BY <3>1, <3>2, Zenon DEF AnswerInv, AnswerFlags, Llm!AttemptFails, Llm!attemptVars
  <2>3. CASE \/ Llm!Connect \/ Llm!AnswerEnds \/ Llm!ProviderRaises \/ Llm!Restart
             \/ \E p \in Llm!Providers : Llm!Recovered(p)
             \/ UNCHANGED llmVars
    BY <2>3, Zenon DEF AnswerInv, AnswerFlags, Llm!Connect, Llm!AnswerEnds,
       Llm!ProviderRaises, Llm!Restart, Llm!Recovered, Llm!Try, llmVars, Llm!attemptVars
  <2>4. QED
    BY <2>1, <2>2, <2>3 DEF Llm!Next
<1> USE DEF Llm!statusVars, Llm!attemptVars
<1>b. /\ AnswerTypes /\ AnswerFlags /\ Stages
      /\ spoilt = {} => Passed /\ NothingPassed /\ Keeps
  BY DEF AnswerInv
<1>q. ASSUME AnswerTypes', Stages',
             spoilt' = {} => Passed' /\ NothingPassed' /\ Keeps'
      PROVE  AnswerInv'
  BY <1>0, <1>q DEF AnswerInv
<1>1. CASE Llm!Connect
  <2>1. /\ llmPhase = "running" /\ request = "new" /\ request' = "open"
        /\ UNCHANGED <<plugin, llmStatus, llmRecovering, outer, llm, llmAttempt, block, tool,
                       llmSent, chunkSent, answer, llmOut, llmPhase, retryable, spoilt>>
    BY <1>1 DEF Llm!Connect
  <2>2. AnswerTypes' /\ Stages'
    BY <1>b, <2>1 DEF AnswerTypes, Stages
  <2>3. spoilt' = {} => Passed' /\ NothingPassed' /\ Keeps'
    BY <1>b, <2>1 DEF Passed, NothingPassed, Keeps, Me, Llm!Me
  <2>4. QED
    BY <1>q, <2>2, <2>3
<1>2. ASSUME NEW event \in {"text", "start", "end"}, Llm!Event(event) PROVE AnswerInv'
  <2>1. AnswerTypes' /\ (spoilt' = {} => Passed' /\ NothingPassed' /\ Keeps')
    BY <1>2, EventKeeps
  <2>2. Stages'
    BY <1>2 DEF Llm!Event, Stages
  <2>3. QED
    BY <1>q, <2>1, <2>2
<1>3. CASE Llm!AnswerEnds
  <2>1. /\ llmPhase = "running" /\ llmPhase' = "done"
        /\ \/ request = "open" /\ block = IF Me = "openai" THEN "over" ELSE "none"
           \/ request = "spent"
        /\ UNCHANGED <<plugin, llmStatus, llmRecovering, outer, llm, llmAttempt, request, block,
                       tool, llmSent, chunkSent, answer, llmOut, retryable, spoilt>>
    BY <1>3 DEF Llm!AnswerEnds, Me
  <2>2. AnswerTypes' /\ Stages'
    BY <1>b, <2>1 DEF AnswerTypes, Stages
  <2>3. spoilt' = {} => Passed' /\ NothingPassed' /\ Keeps'
    <3>1. spoilt = {} => tool # "mine"
      BY <1>b, <2>1 DEF Passed, Stages
    <3>2. QED
      BY <1>b, <2>1, <3>1 DEF Passed, NothingPassed, Keeps, Me, Llm!Me
  <2>4. QED
    BY <1>q, <2>2, <2>3
<1>4. ASSUME NEW error \in Llm!Errors, Llm!AttemptFails(error) PROVE AnswerInv'
  <2>1. /\ llmPhase = "running" /\ request # "spent"
        /\ UNCHANGED <<plugin, llmStatus, llmRecovering, llmAllFailed, outer, llm, chunkSent>>
        /\ spoilt' = spoilt
             \cup (IF request' = "spent" THEN {"reused"} ELSE {})
             \cup (IF /\ llmSent
                      /\ <<Me, error>> \in {<<"google", "busy">>, <<"anthropic", "server">>}
                   THEN {"repeated"} ELSE {})
    BY <1>4 DEF Llm!AttemptFails, Me
  <2>2. Stages'
    <3>1. llmPhase' \in {"running", "raised"}
      BY <1>4 DEF Llm!AttemptFails
    <3>2. QED
      BY <2>1, <3>1 DEF Stages
  <2>3. spoilt' \subseteq Llm!Spoilers
    BY <1>b, <2>1 DEF AnswerTypes, Llm!Spoilers
  <2>4. Me \in {"openai", "anthropic", "google", "aws"} /\ Me' = Me
    BY <1>b, <2>1, ServicesAssumption DEF AnswerTypes, Me, Llm!Me
  <2>5. spoilt' = {} =>
          /\ spoilt = {} /\ request' # "spent"
          /\ llmSent => <<Me, error>> \notin {<<"google", "busy">>, <<"anthropic", "server">>}
    BY <2>1
  <2>6. ASSUME spoilt' = {}, Llm!Retries(error) PROVE ~llmSent
    <3>1. CASE Me = "openai"
      BY <2>6, <3>1 DEF Me, Llm!Retries, Llm!OpenaiRetries
    <3>2. CASE Me = "anthropic"
      BY <2>5, <2>6, <3>2 DEF Me, Llm!Retries, Llm!AnthropicRetries
    <3>3. CASE Me = "google"
      BY <2>5, <2>6, <3>3 DEF Me, Llm!Retries, Llm!GoogleRetries
    <3>4. CASE Me = "aws"
      BY <2>6, <3>4 DEF Me, Llm!Retries, Llm!AwsRetries
    <3>5. QED
      BY <2>4, <3>1, <3>2, <3>3, <3>4
  <2>7. CASE llmAttempt < MaxRetry /\ Llm!Retries(error)
    <3>1. /\ llmAttempt' = llmAttempt + 1 /\ block' = "none" /\ llmSent' = FALSE
          /\ request' = Llm!NextAttempt.request /\ tool' = Llm!NextAttempt.tool
          /\ answer' = <<>> /\ llmOut' = Llm!Aged(llmOut)
          /\ UNCHANGED <<llmPhase, retryable>>
      BY <1>4, <2>7 DEF Llm!AttemptFails
    <3>2. /\ request' = IF Me # "anthropic" THEN "new"
                        ELSE IF request = "open" THEN "spent" ELSE "broken"
          /\ tool' = IF Me \in {"openai", "google"} \/ tool = "none" THEN "none" ELSE "old"
      BY <3>1 DEF Llm!NextAttempt, Me
    <3>3. answer' \in Seq(Said) /\ llmOut' \in Seq(Part)
      BY <1>b, <3>1, AgedIs, EmptySeq DEF AnswerTypes
    <3>4. AnswerTypes'
      BY <1>b, <2>1, <2>3, <2>7, <3>1, <3>2, <3>3, ServicesAssumption DEF AnswerTypes, Said
    <3>5. ASSUME spoilt' = {} PROVE Passed' /\ NothingPassed' /\ Keeps'
      <4>1. ~llmSent /\ ~chunkSent /\ llmOut = <<>>
        BY <1>b, <2>5, <2>6, <2>7, <3>5 DEF NothingPassed
      <4>2. chunkSent' = FALSE
        BY <1>b, <2>1, <4>1 DEF AnswerFlags
      <4>3. Passed' /\ NothingPassed'
        BY <2>1, <3>1, <3>2, <4>1, <4>2, Begins
      <4>4. Keeps'
        <5>1. tool' = "old" => Me' = "aws"
          BY <1>b, <2>4, <2>5, <3>2, <3>5 DEF Keeps
        <5>2. Me' = "anthropic" => tool' = "none"
          BY <1>b, <2>4, <2>5, <3>2, <3>5 DEF Keeps
        <5>3. Me' = "google" => block' = "none" /\ tool' = "none"
          BY <2>4, <3>1, <3>2
        <5>4. QED
          BY <5>1, <5>2, <5>3 DEF Keeps
      <4>5. QED
        BY <4>3, <4>4
    <3>6. QED
      BY <1>q, <2>2, <3>4, <3>5
  <2>8. CASE ~(llmAttempt < MaxRetry /\ Llm!Retries(error))
    <3>1. /\ llmPhase' = "raised" /\ retryable' = Llm!Retries(error)
          /\ UNCHANGED <<llmAttempt, request, block, tool, llmSent, answer, llmOut>>
      BY <1>4, <2>8 DEF Llm!AttemptFails
    <3>2. AnswerTypes'
      BY <1>b, <2>1, <2>3, <3>1 DEF AnswerTypes
    <3>3. ASSUME spoilt' = {} PROVE Passed' /\ NothingPassed' /\ Keeps'
      <4>1. Passed /\ NothingPassed /\ Keeps
        BY <1>b, <2>5, <3>3
      <4>2. Passed' /\ Keeps'
        BY <2>4, <3>1, <4>1 DEF Passed, Keeps
      <4>3. NothingPassed'
        BY <2>1, <2>6, <3>1, <3>3, <4>1 DEF NothingPassed
      <4>4. QED
        BY <4>2, <4>3
    <3>4. QED
      BY <1>q, <2>2, <3>2, <3>3
  <2>9. QED
    BY <2>7, <2>8
<1>5. ASSUME NEW p \in Llm!Providers, Llm!Try(p), UNCHANGED <<plugin, retryable, spoilt>>,
             llmStatus' \in [Llm!Providers -> BOOLEAN],
             llmRecovering' \subseteq Llm!Providers, outer' \in 0 .. MaxOuter,
             spoilt = {} => llmOut = <<>>
      PROVE  AnswerInv'
  <2>1. /\ llm' = p /\ chunkSent' = FALSE /\ llmAttempt' = 0 /\ request' = "new"
        /\ block' = "none" /\ tool' = "none" /\ llmSent' = FALSE /\ answer' = <<>>
        /\ llmOut' = Llm!Aged(llmOut) /\ llmPhase' = "running"
    BY <1>5 DEF Llm!Try
  <2>2. /\ answer' \in Seq(Said) /\ llmOut' \in Seq(Part)
        /\ llmOut = <<>> => Passed' /\ NothingPassed'
    BY <2>1, Begins
  <2>3. AnswerTypes'
    BY <1>5, <1>b, <2>1, <2>2, ServicesAssumption DEF AnswerTypes, Said
  <2>4. spoilt' = {} => Passed' /\ NothingPassed' /\ Keeps'
    BY <1>5, <2>1, <2>2 DEF Keeps
  <2>5. Stages'
    BY <2>1 DEF Stages
  <2>6. QED
    BY <1>q, <2>3, <2>4, <2>5
<1>6. CASE Llm!ProviderRaises
  <2> DEFINE left   == [llmStatus EXCEPT ![llm] = FALSE]
             after  == Llm!Candidates(llm + 1, left, llmAllFailed)
             passed == {p \in Llm!Providers : p >= llm /\ (after # {} => p < Llm!First(after))}
  <2>1. /\ llmPhase = "raised" /\ llmStatus' = left
        /\ llmRecovering' = IF Llm!FallsBack THEN llmRecovering \cup passed ELSE llmRecovering
        /\ IF Llm!FallsBack /\ after # {}
           THEN Llm!Try(Llm!First(after))
           ELSE /\ llmPhase' = IF (Llm!FallsBack \/ retryable) /\ outer < MaxOuter
                               THEN "retrying" ELSE "error"
                /\ UNCHANGED <<llm, chunkSent, llmAttempt, request, block, tool, llmSent,
                               answer, llmOut>>
        /\ UNCHANGED <<plugin, outer, retryable, spoilt>>
    BY <1>6 DEF Llm!ProviderRaises
  <2>2. left \in [Llm!Providers -> BOOLEAN] /\ passed \subseteq Llm!Providers
    BY <1>b DEF AnswerTypes
  <2>3. after \in SUBSET Nat /\ after \subseteq Llm!Providers
    BY DEF Llm!Candidates, Llm!Providers
  <2> HIDE DEF left, passed, after
  <2>4. llmRecovering' \subseteq Llm!Providers /\ outer \in 0 .. MaxOuter
    BY <1>b, <2>1, <2>2 DEF AnswerTypes
  <2>5. spoilt = {} /\ Llm!FallsBack => llmOut = <<>>
    BY <1>b DEF NothingPassed, Llm!FallsBack
  <2>6. CASE Llm!FallsBack /\ after # {}
    <3>1. Llm!First(after) \in Llm!Providers
      BY <2>3, <2>6, FirstIsIn
    <3>2. QED
      BY <1>5, <2>1, <2>2, <2>4, <2>5, <2>6, <3>1
  <2>7. CASE ~(Llm!FallsBack /\ after # {})
    <3>1. AnswerTypes' /\ Stages'
      BY <1>b, <2>1, <2>2, <2>4, <2>7 DEF AnswerTypes, Stages
    <3>2. ASSUME spoilt = {} PROVE Passed' /\ NothingPassed' /\ Keeps'
      <4>1. Passed /\ NothingPassed /\ Keeps
        BY <1>b, <3>2
      <4>2. /\ llmPhase' \in {"retrying", "error"}
            /\ llmPhase' = "retrying" => Llm!FallsBack \/ retryable
            /\ UNCHANGED <<plugin, llm, chunkSent, llmAttempt, request, block, tool, llmSent,
                           answer, llmOut, retryable>>
        BY <2>1, <2>7
      <4>3. llmPhase' = "retrying" => ~llmSent
        BY <2>1, <4>1, <4>2 DEF NothingPassed, Llm!FallsBack
      <4>4. NothingPassed'
        BY <2>1, <4>1, <4>2, <4>3 DEF NothingPassed
      <4>5. Passed' /\ Keeps'
        BY <4>1, <4>2 DEF Passed, Keeps, Me, Llm!Me
      <4>6. QED
        BY <4>4, <4>5
    <3>3. QED
      BY <1>q, <2>1, <3>1, <3>2
  <2>8. QED
    BY <2>6, <2>7
<1>7. CASE Llm!Restart
  <2> DEFINE p == Llm!First(Llm!Candidates(1, llmStatus, Llm!AllFailed(llmStatus)))
  <2>1. /\ llmPhase = "retrying" /\ outer' = outer + 1 /\ Llm!Try(p)
        /\ llmRecovering' = llmRecovering \cup (1 .. llm' - 1)
        /\ UNCHANGED <<plugin, llmStatus, retryable, spoilt>>
    BY <1>7 DEF Llm!Restart
  <2>2. p \in Llm!Providers
    BY SomeoneIsTried
  <2> HIDE DEF p
  <2>3. llm' = p
    BY <2>1 DEF Llm!Try
  <2>4. llmRecovering' \subseteq Llm!Providers
    <3>1. 1 .. p - 1 \subseteq Llm!Providers
      BY <2>2, ServicesAssumption DEF Llm!Providers
    <3>2. QED
      BY <1>b, <2>1, <2>3, <3>1 DEF AnswerTypes
  <2>5. spoilt = {} => llmOut = <<>>
    BY <1>b, <2>1 DEF NothingPassed
  <2>6. outer' \in 0 .. MaxOuter
    BY <1>b, <2>1, ServicesAssumption DEF AnswerTypes, Stages
  <2>7. QED
    BY <1>5, <1>b, <2>1, <2>2, <2>4, <2>5, <2>6 DEF AnswerTypes
<1>8. ASSUME NEW p \in Llm!Providers, Llm!Recovered(p) PROVE AnswerInv'
  <2>1. /\ llmRecovering' = llmRecovering \ {p}
        /\ llmStatus' \in {llmStatus, [llmStatus EXCEPT ![p] = TRUE]}
        /\ UNCHANGED <<plugin, outer, llm, chunkSent, llmAttempt, request, block, tool, llmSent,
                       answer, llmOut, llmPhase, retryable, spoilt>>
    BY <1>8 DEF Llm!Recovered
  <2>2. AnswerTypes' /\ Stages'
    BY <1>b, <2>1 DEF AnswerTypes, Stages
  <2>3. spoilt' = {} => Passed' /\ NothingPassed' /\ Keeps'
    BY <1>b, <2>1 DEF Passed, NothingPassed, Keeps, Me, Llm!Me
  <2>4. QED
    BY <1>b, <1>q, <2>1, <2>2, <2>3
<1>9. CASE UNCHANGED llmVars
  <2>1. UNCHANGED <<plugin, llmStatus, llmRecovering, outer, llm, chunkSent, llmAttempt, request,
                    block, tool, llmSent, answer, llmOut, llmPhase, retryable, spoilt>>
    BY <1>9 DEF llmVars
  <2>2. AnswerTypes' /\ Stages'
    BY <1>b, <2>1 DEF AnswerTypes, Stages
  <2>3. spoilt' = {} => Passed' /\ NothingPassed' /\ Keeps'
    BY <1>b, <2>1 DEF Passed, NothingPassed, Keeps, Me, Llm!Me
  <2>4. QED
    BY <1>b, <1>q, <2>1, <2>2, <2>3
<1>10. QED
  BY <1>1, <1>2, <1>3, <1>4, <1>6, <1>7, <1>8, <1>9 DEF Llm!Next

\* What was passed on is of one attempt, and whole at the end.
LEMMA AnswerImplies == AnswerInv => Llm!AnswerIsWhole
<1> SUFFICES ASSUME AnswerInv, spoilt = {} PROVE
        /\ \A i \in DOMAIN llmOut : llmOut[i].mine /\ llmOut[i].what = answer[i]
        /\ llmPhase = "done" => Len(llmOut) = Len(answer)
  BY DEF Llm!AnswerIsWhole
<1>1. Passed /\ DOMAIN llmOut = 1 .. Len(llmOut) /\ Len(llmOut) \in Nat
  BY LenProperties DEF AnswerInv, AnswerTypes
<1>2. \A i \in DOMAIN llmOut : llmOut[i].mine /\ llmOut[i].what = answer[i]
  BY <1>1, Zenon DEF Passed
<1>3. ASSUME llmPhase = "done" PROVE Len(llmOut) = Len(answer)
  <2>1. Len(answer) = Len(llmOut) + 0
    BY <1>1, <1>3 DEF Passed
  <2>2. \A n \in Nat : n + 0 = n
    OBVIOUS
  <2>3. QED
    BY <1>1, <2>1, <2>2, Zenon
<1>4. QED
  BY <1>2, <1>3

-----------------------------------------------------------------------------
(* The process of a job *)

ProcessTypes ==
    /\ toProc \in Seq(Process!Messages) /\ toWorker \in Seq(Process!Answers)
    /\ initFut \in {"pending", "done", "failed"}
    /\ supervise \in {"initializing", "serving", "done"}
    /\ status \in {"none", "running", "success", "failed"}
    /\ procClose \in {"no", "asked", "timed out", "done"}
    /\ os \in {"alive", "clean", "killed", "crashed"}
    /\ phase \in {"starting", "running"}
    /\ job \in {"none", "runs", "callbacks", "over"}

\* What is on its way was sent: a request to shut down by a worker that closes the process,
\* the answer that it is initialized by a process that runs.
OnTheWay ==
    /\ \A i \in 1 .. Len(toProc) : toProc[i] = "shutdown" => procClose # "no"
    /\ \A i \in 1 .. Len(toWorker) : toWorker[i] = "initialized" => phase = "running"
    /\ initFut = "done" => phase = "running"
    /\ launched => initFut = "done"
    /\ phase = "starting" => job = "none"

\* Why a process ended with code 0 while its worker lived.
Ended ==
    \/ job = "over"
    \/ job = "none" /\ (procClose # "no" \/ phase = "starting")

ProcessInv ==
    /\ ProcessTypes /\ OnTheWay
    /\ worker /\ os = "clean" => Ended
    /\ status = "success" => os = "clean" /\ supervise = "done" /\ Ended

\* A process begins with its initialization on the way.
LEMMA ProcessStart == Process!Init => ProcessInv
<1> SUFFICES ASSUME Process!Init PROVE ProcessInv
  OBVIOUS
<1>1. /\ toProc = <<"initialize">> /\ toWorker = <<>>
      /\ initFut = "pending" /\ supervise = "initializing" /\ launched = FALSE
      /\ status = "none" /\ procClose = "no" /\ os = "alive" /\ phase = "starting"
      /\ job = "none"
  BY DEF Process!Init
<1>2. toProc \in Seq(Process!Messages) /\ toWorker \in Seq(Process!Answers)
  BY <1>1, EmptySeq DEF Process!Messages
<1>3. /\ Len(toWorker) = 0 /\ \A i \in 1 .. Len(toProc) : toProc[i] = "initialize"
  BY <1>1, EmptySeq
<1>4. ProcessTypes /\ OnTheWay
  BY <1>1, <1>2, <1>3 DEF ProcessTypes, OnTheWay
<1>5. QED
  BY <1>1, <1>4 DEF ProcessInv

\* A message that is taken, or one that is sent behind the others.
LEMMA Queued ==
    ASSUME NEW S, NEW q \in Seq(S)
    PROVE  /\ \A x \in S : /\ Append(q, x) \in Seq(S)
                           /\ \A i \in 1 .. Len(Append(q, x)) :
                                \/ i \in 1 .. Len(q) /\ Append(q, x)[i] = q[i]
                                \/ Append(q, x)[i] = x
           /\ q # <<>> => /\ Tail(q) \in Seq(S) /\ 1 \in 1 .. Len(q) /\ Head(q) = q[1]
                          /\ \A i \in 1 .. Len(Tail(q)) :
                                i + 1 \in 1 .. Len(q) /\ Tail(q)[i] = q[i + 1]
<1>0. Len(q) \in Nat
  BY LenProperties
<1>1. ASSUME NEW x \in S
      PROVE  /\ Append(q, x) \in Seq(S)
             /\ \A i \in 1 .. Len(Append(q, x)) :
                  \/ i \in 1 .. Len(q) /\ Append(q, x)[i] = q[i]
                  \/ Append(q, x)[i] = x
  <2>1. /\ Append(q, x) \in Seq(S) /\ Len(Append(q, x)) = Len(q) + 1
        /\ \A i \in 1 .. Len(q) : Append(q, x)[i] = q[i]
        /\ Append(q, x)[Len(q) + 1] = x
    BY AppendProperties
  <2>2. \A i \in 1 .. Len(q) + 1 : i \in 1 .. Len(q) \/ i = Len(q) + 1
    BY <1>0
  <2>3. QED
    BY <2>1, <2>2
<1>2. ASSUME q # <<>>
      PROVE  /\ Tail(q) \in Seq(S) /\ 1 \in 1 .. Len(q) /\ Head(q) = q[1]
             /\ \A i \in 1 .. Len(Tail(q)) :
                   i + 1 \in 1 .. Len(q) /\ Tail(q)[i] = q[i + 1]
  <2>1. /\ Tail(q) \in Seq(S) /\ Len(Tail(q)) = Len(q) - 1
        /\ \A i \in 1 .. Len(Tail(q)) : Tail(q)[i] = q[i + 1]
    BY <1>2, HeadTailProperties
  <2>2. Len(q) \in Nat \ {0}
    BY <1>2, EmptySeq, Zenon
  <2>3. 1 \in 1 .. Len(q) /\ \A i \in 1 .. Len(q) - 1 : i + 1 \in 1 .. Len(q)
    BY <2>2
  <2>4. Head(q) = q[1]
    OBVIOUS
  <2>5. QED
    BY <2>1, <2>3, <2>4
<1>3. QED
  BY <1>1, <1>2

\* Each message, timer and death of the two sides keeps the reason of an exit.
LEMMA ProcessStep == ProcessInv /\ [Process!Next]_processVars => ProcessInv'
<1> SUFFICES ASSUME ProcessInv, [Process!Next]_processVars PROVE ProcessInv'
  OBVIOUS
<1> USE DEF Process!workerVars, Process!procVars, Process!Dead, Process!Awake
<1>b. /\ ProcessTypes /\ OnTheWay
      /\ worker /\ os = "clean" => Ended
      /\ status = "success" => os = "clean" /\ supervise = "done" /\ Ended
  BY DEF ProcessInv
<1>p. toProc \in Seq(Process!Messages) /\ toWorker \in Seq(Process!Answers)
  BY <1>b DEF ProcessTypes
<1>q. /\ \A m \in Process!Messages :
           toProc' = Append(toProc, m) =>
              /\ toProc' \in Seq(Process!Messages)
              /\ \A i \in 1 .. Len(toProc') : \/ i \in 1 .. Len(toProc) /\ toProc'[i] = toProc[i]
                                              \/ toProc'[i] = m
      /\ toProc # <<>> => /\ 1 \in 1 .. Len(toProc) /\ Head(toProc) = toProc[1]
                          /\ toProc' = Tail(toProc) =>
                               /\ toProc' \in Seq(Process!Messages)
                               /\ \A i \in 1 .. Len(toProc') :
                                    i + 1 \in 1 .. Len(toProc) /\ toProc'[i] = toProc[i + 1]
  <2> DEFINE M == Process!Messages
  <2>1. /\ \A x \in M : /\ Append(toProc, x) \in Seq(M)
                        /\ \A i \in 1 .. Len(Append(toProc, x)) :
                             \/ i \in 1 .. Len(toProc) /\ Append(toProc, x)[i] = toProc[i]
                             \/ Append(toProc, x)[i] = x
        /\ toProc # <<>> => /\ Tail(toProc) \in Seq(M)
                            /\ 1 \in 1 .. Len(toProc) /\ Head(toProc) = toProc[1]
                            /\ \A i \in 1 .. Len(Tail(toProc)) :
                                 i + 1 \in 1 .. Len(toProc) /\ Tail(toProc)[i] = toProc[i + 1]
    <3> HIDE DEF M
    <3>1. toProc \in Seq(M)
      BY <1>p DEF M
    <3>2. QED
      BY <3>1, Queued
  <2>2. QED
    BY <2>1, Zenon
<1>w. /\ \A m \in Process!Answers :
           toWorker' = Append(toWorker, m) =>
              /\ toWorker' \in Seq(Process!Answers)
              /\ \A i \in 1 .. Len(toWorker') :
                    \/ i \in 1 .. Len(toWorker) /\ toWorker'[i] = toWorker[i]
                    \/ toWorker'[i] = m
      /\ toWorker # <<>> => /\ 1 \in 1 .. Len(toWorker) /\ Head(toWorker) = toWorker[1]
                            /\ toWorker' = Tail(toWorker) =>
                               /\ toWorker' \in Seq(Process!Answers)
                               /\ \A i \in 1 .. Len(toWorker') :
                                    /\ i + 1 \in 1 .. Len(toWorker)
                                    /\ toWorker'[i] = toWorker[i + 1]
  <2> DEFINE A == Process!Answers
  <2>1. /\ \A x \in A : /\ Append(toWorker, x) \in Seq(A)
                        /\ \A i \in 1 .. Len(Append(toWorker, x)) :
                             \/ i \in 1 .. Len(toWorker) /\ Append(toWorker, x)[i] = toWorker[i]
                             \/ Append(toWorker, x)[i] = x
        /\ toWorker # <<>> => /\ Tail(toWorker) \in Seq(A)
                              /\ 1 \in 1 .. Len(toWorker) /\ Head(toWorker) = toWorker[1]
                              /\ \A i \in 1 .. Len(Tail(toWorker)) :
                                   i + 1 \in 1 .. Len(toWorker) /\ Tail(toWorker)[i] = toWorker[i + 1]
    <3> HIDE DEF A
    <3>1. toWorker \in Seq(A)
      BY <1>p DEF A
    <3>2. QED
      BY <3>1, Queued
  <2>2. QED
    BY <2>1, Zenon
<1>m. /\ {"initialize", "start", "trace", "shutdown"} = Process!Messages
      /\ {"initialized", "error", "trace", "exiting"} = Process!Answers
  BY DEF Process!Messages, Process!Answers
<1>1. CASE Process!InitAnswered
  <2>1. ProcessTypes'
    <3>1. toProc' \in Seq(Process!Messages) /\ toWorker' \in Seq(Process!Answers)
      BY <1>p, <1>q, <1>w, <1>m, <1>1 DEF Process!InitAnswered
    <3>2. QED
      BY <1>b, <3>1, <1>1 DEF Process!InitAnswered, ProcessTypes
  <2>2. OnTheWay'
    BY <1>b, <1>q, <1>w, <1>m, <1>1 DEF Process!InitAnswered, OnTheWay
  <2>3. QED
    BY <1>b, <1>q, <2>1, <2>2, <1>1 DEF Process!InitAnswered, ProcessInv, Ended, OnTheWay
<1>2. CASE Process!InitTimeout
  <2>1. ProcessTypes'
    BY <1>b, <1>2 DEF Process!InitTimeout, Process!Kill, ProcessTypes
  <2>2. OnTheWay'
    BY <1>b, <1>q, <1>w, <1>m, <1>2 DEF Process!InitTimeout, Process!Kill, OnTheWay
  <2>3. QED
    BY <1>b, <1>q, <2>1, <2>2, <1>2 DEF Process!InitTimeout, Process!Kill, ProcessInv, Ended, OnTheWay
<1>3. CASE Process!Supervise
  <2>1. ProcessTypes'
    BY <1>b, <1>3 DEF Process!Supervise, ProcessTypes
  <2>2. OnTheWay'
    BY <1>b, <1>q, <1>w, <1>m, <1>3 DEF Process!Supervise, OnTheWay
  <2>3. QED
    BY <1>b, <1>q, <2>1, <2>2, <1>3 DEF Process!Supervise, ProcessInv, Ended, OnTheWay
<1>4. CASE Process!ReadIpc
  <2>1. ProcessTypes'
    <3>1. toProc' \in Seq(Process!Messages) /\ toWorker' \in Seq(Process!Answers)
      BY <1>p, <1>q, <1>w, <1>m, <1>4 DEF Process!ReadIpc
    <3>2. QED
      BY <1>b, <3>1, <1>4 DEF Process!ReadIpc, ProcessTypes
  <2>2. OnTheWay'
    BY <1>b, <1>q, <1>w, <1>m, <1>4 DEF Process!ReadIpc, OnTheWay
  <2>3. QED
    BY <1>b, <1>q, <2>1, <2>2, <1>4 DEF Process!ReadIpc, ProcessInv, Ended, OnTheWay
<1>5. CASE Process!LaunchJob
  <2>1. ProcessTypes'
    <3>1. toProc' \in Seq(Process!Messages) /\ toWorker' \in Seq(Process!Answers)
      BY <1>p, <1>q, <1>w, <1>m, <1>5 DEF Process!LaunchJob
    <3>2. QED
      BY <1>b, <3>1, <1>5 DEF Process!LaunchJob, ProcessTypes
  <2>2. OnTheWay'
    BY <1>b, <1>q, <1>w, <1>m, <1>5 DEF Process!LaunchJob, OnTheWay
  <2>3. QED
    BY <1>b, <1>q, <2>1, <2>2, <1>5 DEF Process!LaunchJob, ProcessInv, Ended, OnTheWay
<1>6. CASE Process!AskTrace
  <2>1. ProcessTypes'
    <3>1. toProc' \in Seq(Process!Messages) /\ toWorker' \in Seq(Process!Answers)
      BY <1>p, <1>q, <1>w, <1>m, <1>6 DEF Process!AskTrace
    <3>2. QED
      BY <1>b, <3>1, <1>6 DEF Process!AskTrace, ProcessTypes
  <2>2. OnTheWay'
    BY <1>b, <1>q, <1>w, <1>m, <1>6 DEF Process!AskTrace, OnTheWay
  <2>3. QED
    BY <1>b, <1>q, <2>1, <2>2, <1>6 DEF Process!AskTrace, ProcessInv, Ended, OnTheWay
<1>7. CASE Process!AskClose
  <2>1. ProcessTypes'
    <3>1. toProc' \in Seq(Process!Messages) /\ toWorker' \in Seq(Process!Answers)
      BY <1>p, <1>q, <1>w, <1>m, <1>7 DEF Process!AskClose
    <3>2. QED
      BY <1>b, <3>1, <1>7 DEF Process!AskClose, ProcessTypes
  <2>2. OnTheWay'
    BY <1>b, <1>q, <1>w, <1>m, <1>7 DEF Process!AskClose, OnTheWay
  <2>3. QED
    BY <1>b, <1>q, <2>1, <2>2, <1>7 DEF Process!AskClose, ProcessInv, Ended, OnTheWay
<1>8. CASE Process!CloseTimeout
  <2>1. ProcessTypes'
    BY <1>b, <1>8 DEF Process!CloseTimeout, Process!Kill, ProcessTypes
  <2>2. OnTheWay'
    BY <1>b, <1>q, <1>w, <1>m, <1>8 DEF Process!CloseTimeout, Process!Kill, OnTheWay
  <2>3. QED
    BY <1>b, <1>q, <2>1, <2>2, <1>8 DEF Process!CloseTimeout, Process!Kill, ProcessInv, Ended, OnTheWay
<1>9. CASE Process!PongTimeout
  <2>1. ProcessTypes'
    BY <1>b, <1>9 DEF Process!PongTimeout, Process!Kill, ProcessTypes
  <2>2. OnTheWay'
    BY <1>b, <1>q, <1>w, <1>m, <1>9 DEF Process!PongTimeout, Process!Kill, OnTheWay
  <2>3. QED
    BY <1>b, <1>q, <2>1, <2>2, <1>9 DEF Process!PongTimeout, Process!Kill, ProcessInv, Ended, OnTheWay
<1>10. CASE Process!MemoryKill
  <2>1. ProcessTypes'
    BY <1>b, <1>10 DEF Process!MemoryKill, Process!Kill, ProcessTypes
  <2>2. OnTheWay'
    BY <1>b, <1>q, <1>w, <1>m, <1>10 DEF Process!MemoryKill, Process!Kill, OnTheWay
  <2>3. QED
    BY <1>b, <1>q, <2>1, <2>2, <1>10 DEF Process!MemoryKill, Process!Kill, ProcessInv, Ended, OnTheWay
<1>11. CASE Process!Joined
  <2>1. ProcessTypes'
    BY <1>b, <1>11 DEF Process!Joined, ProcessTypes
  <2>2. OnTheWay'
    BY <1>b, <1>q, <1>w, <1>m, <1>11 DEF Process!Joined, OnTheWay
  <2>3. QED
    BY <1>b, <1>q, <2>1, <2>2, <1>11 DEF Process!Joined, ProcessInv, Ended, OnTheWay
<1>12. CASE Process!Closed
  <2>1. ProcessTypes'
    BY <1>b, <1>12 DEF Process!Closed, ProcessTypes
  <2>2. OnTheWay'
    BY <1>b, <1>q, <1>w, <1>m, <1>12 DEF Process!Closed, OnTheWay
  <2>3. QED
    BY <1>b, <1>q, <2>1, <2>2, <1>12 DEF Process!Closed, ProcessInv, Ended, OnTheWay
<1>13. CASE Process!WorkerDies
  <2>1. ProcessTypes'
    BY <1>b, <1>13 DEF Process!WorkerDies, ProcessTypes
  <2>2. OnTheWay'
    BY <1>b, <1>q, <1>w, <1>m, <1>13 DEF Process!WorkerDies, OnTheWay
  <2>3. QED
    BY <1>b, <1>q, <2>1, <2>2, <1>13 DEF Process!WorkerDies, ProcessInv, Ended, OnTheWay
<1>14. CASE Process!InitializeProcess
  <2>1. ProcessTypes'
    <3>1. toProc' \in Seq(Process!Messages) /\ toWorker' \in Seq(Process!Answers)
      BY <1>p, <1>q, <1>w, <1>m, <1>14 DEF Process!InitializeProcess
    <3>2. QED
      BY <1>b, <3>1, <1>14 DEF Process!InitializeProcess, ProcessTypes
  <2>2. OnTheWay'
    BY <1>b, <1>q, <1>w, <1>m, <1>14 DEF Process!InitializeProcess, OnTheWay
  <2>3. QED
    BY <1>b, <1>q, <2>1, <2>2, <1>14 DEF Process!InitializeProcess, ProcessInv, Ended, OnTheWay
<1>15. CASE Process!StartJob
  <2>1. ProcessTypes'
    <3>1. toProc' \in Seq(Process!Messages) /\ toWorker' \in Seq(Process!Answers)
      BY <1>p, <1>q, <1>w, <1>m, <1>15 DEF Process!StartJob, Process!Receives
    <3>2. QED
      BY <1>b, <3>1, <1>15 DEF Process!StartJob, Process!Receives, ProcessTypes
  <2>2. OnTheWay'
    BY <1>b, <1>q, <1>w, <1>m, <1>15 DEF Process!StartJob, Process!Receives, OnTheWay
  <2>3. QED
    BY <1>b, <1>q, <2>1, <2>2, <1>15 DEF Process!StartJob, Process!Receives, ProcessInv, Ended, OnTheWay
<1>16. CASE Process!ReceiveShutdown
  <2>1. ProcessTypes'
    <3>1. toProc' \in Seq(Process!Messages) /\ toWorker' \in Seq(Process!Answers)
      BY <1>p, <1>q, <1>w, <1>m, <1>16 DEF Process!ReceiveShutdown, Process!Receives
    <3>2. QED
      BY <1>b, <3>1, <1>16 DEF Process!ReceiveShutdown, Process!Receives, ProcessTypes
  <2>2. OnTheWay'
    BY <1>b, <1>q, <1>w, <1>m, <1>16 DEF Process!ReceiveShutdown, Process!Receives, OnTheWay
  <2>3. QED
    BY <1>b, <1>q, <2>1, <2>2, <1>16 DEF Process!ReceiveShutdown, Process!Receives, ProcessInv, Ended, OnTheWay
<1>17. CASE Process!ReceiveTrace
  <2>1. ProcessTypes'
    <3>1. toProc' \in Seq(Process!Messages) /\ toWorker' \in Seq(Process!Answers)
      BY <1>p, <1>q, <1>w, <1>m, <1>17 DEF Process!ReceiveTrace, Process!Receives
    <3>2. QED
      BY <1>b, <3>1, <1>17 DEF Process!ReceiveTrace, Process!Receives, ProcessTypes
  <2>2. OnTheWay'
    BY <1>b, <1>q, <1>w, <1>m, <1>17 DEF Process!ReceiveTrace, Process!Receives, OnTheWay
  <2>3. QED
    BY <1>b, <1>q, <2>1, <2>2, <1>17 DEF Process!ReceiveTrace, Process!Receives, ProcessInv, Ended, OnTheWay
<1>18. CASE Process!TraceDone
  <2>1. ProcessTypes'
    <3>1. toProc' \in Seq(Process!Messages) /\ toWorker' \in Seq(Process!Answers)
      BY <1>p, <1>q, <1>w, <1>m, <1>18 DEF Process!TraceDone
    <3>2. QED
      BY <1>b, <3>1, <1>18 DEF Process!TraceDone, ProcessTypes
  <2>2. OnTheWay'
    BY <1>b, <1>q, <1>w, <1>m, <1>18 DEF Process!TraceDone, OnTheWay
  <2>3. QED
    BY <1>b, <1>q, <2>1, <2>2, <1>18 DEF Process!TraceDone, ProcessInv, Ended, OnTheWay
<1>19. CASE Process!JobAsksShutdown
  <2>1. ProcessTypes'
    BY <1>b, <1>19 DEF Process!JobAsksShutdown, ProcessTypes
  <2>2. OnTheWay'
    BY <1>b, <1>q, <1>w, <1>m, <1>19 DEF Process!JobAsksShutdown, OnTheWay
  <2>3. QED
    BY <1>b, <1>q, <2>1, <2>2, <1>19 DEF Process!JobAsksShutdown, ProcessInv, Ended, OnTheWay
<1>20. CASE Process!LeaveRoom
  <2>1. ProcessTypes'
    <3>1. toProc' \in Seq(Process!Messages) /\ toWorker' \in Seq(Process!Answers)
      BY <1>p, <1>q, <1>w, <1>m, <1>20 DEF Process!LeaveRoom
    <3>2. QED
      BY <1>b, <3>1, <1>20 DEF Process!LeaveRoom, ProcessTypes
  <2>2. OnTheWay'
    BY <1>b, <1>q, <1>w, <1>m, <1>20 DEF Process!LeaveRoom, OnTheWay
  <2>3. QED
    BY <1>b, <1>q, <2>1, <2>2, <1>20 DEF Process!LeaveRoom, ProcessInv, Ended, OnTheWay
<1>21. CASE Process!CallbacksEnd
  <2>1. ProcessTypes'
    BY <1>b, <1>21 DEF Process!CallbacksEnd, ProcessTypes
  <2>2. OnTheWay'
    BY <1>b, <1>q, <1>w, <1>m, <1>21 DEF Process!CallbacksEnd, OnTheWay
  <2>3. QED
    BY <1>b, <1>q, <2>1, <2>2, <1>21 DEF Process!CallbacksEnd, ProcessInv, Ended, OnTheWay
<1>22. CASE Process!Exit
  <2>1. ProcessTypes'
    BY <1>b, <1>22 DEF Process!Exit, ProcessTypes
  <2>2. OnTheWay'
    BY <1>b, <1>q, <1>w, <1>m, <1>22 DEF Process!Exit, OnTheWay
  <2>3. QED
    BY <1>b, <1>q, <2>1, <2>2, <1>22 DEF Process!Exit, ProcessInv, Ended, OnTheWay
<1>23. CASE Process!OrphanExits
  <2>1. ProcessTypes'
    BY <1>b, <1>23 DEF Process!OrphanExits, ProcessTypes
  <2>2. OnTheWay'
    BY <1>b, <1>q, <1>w, <1>m, <1>23 DEF Process!OrphanExits, OnTheWay
  <2>3. QED
    BY <1>b, <1>q, <2>1, <2>2, <1>23 DEF Process!OrphanExits, ProcessInv, Ended, OnTheWay
<1>24. CASE Process!Freeze
  <2>1. ProcessTypes'
    BY <1>b, <1>24 DEF Process!Freeze, ProcessTypes
  <2>2. OnTheWay'
    BY <1>b, <1>q, <1>w, <1>m, <1>24 DEF Process!Freeze, OnTheWay
  <2>3. QED
    BY <1>b, <1>q, <2>1, <2>2, <1>24 DEF Process!Freeze, ProcessInv, Ended, OnTheWay
<1>25. CASE Process!Thaw
  <2>1. ProcessTypes'
    BY <1>b, <1>25 DEF Process!Thaw, ProcessTypes
  <2>2. OnTheWay'
    BY <1>b, <1>q, <1>w, <1>m, <1>25 DEF Process!Thaw, OnTheWay
  <2>3. QED
    BY <1>b, <1>q, <2>1, <2>2, <1>25 DEF Process!Thaw, ProcessInv, Ended, OnTheWay
<1>26. CASE Process!Crash
  <2>1. ProcessTypes'
    BY <1>b, <1>26 DEF Process!Crash, ProcessTypes
  <2>2. OnTheWay'
    BY <1>b, <1>q, <1>w, <1>m, <1>26 DEF Process!Crash, OnTheWay
  <2>3. QED
    BY <1>b, <1>q, <2>1, <2>2, <1>26 DEF Process!Crash, ProcessInv, Ended, OnTheWay
<1>27. CASE UNCHANGED processVars
  <2>1. ProcessTypes'
    <3>1. ProcessTypes
      BY <1>b
    <3>2. toProc' \in Seq(Process!Messages) /\ toWorker' \in Seq(Process!Answers)
      BY <1>27, <1>p DEF processVars
    <3>3. /\ initFut' \in {"pending", "done", "failed"}
          /\ supervise' \in {"initializing", "serving", "done"}
          /\ status' \in {"none", "running", "success", "failed"}
      BY <1>27, <3>1 DEF processVars, ProcessTypes
    <3>4. /\ procClose' \in {"no", "asked", "timed out", "done"}
          /\ os' \in {"alive", "clean", "killed", "crashed"}
          /\ phase' \in {"starting", "running"}
          /\ job' \in {"none", "runs", "callbacks", "over"}
      BY <1>27, <3>1 DEF processVars, ProcessTypes
    <3>5. QED
      BY <3>2, <3>3, <3>4 DEF ProcessTypes
  <2>2. OnTheWay'
    BY <1>b, <1>27 DEF processVars, OnTheWay
  <2>3. QED
    BY <1>b, <1>27, <2>1, <2>2 DEF processVars, ProcessInv, Ended
<1>28. QED
  BY <1>1, <1>2, <1>3, <1>4, <1>5, <1>6, <1>7, <1>8, <1>9, <1>10, <1>11, <1>12, <1>13, <1>14, <1>15, <1>16, <1>17, <1>18, <1>19, <1>20, <1>21, <1>22, <1>23, <1>24, <1>25, <1>26, <1>27 DEF Process!Next

\* An exit that counts as a success has one of the reasons that Ended names.
LEMMA ProcessImplies == ProcessInv => Process!SuccessHasRun
BY DEF ProcessInv, OnTheWay, Ended, Process!SuccessHasRun

-----------------------------------------------------------------------------
(* The replies of a realtime session *)

ReplyTypes ==
    /\ serving \in {0} \cup Realtime!Gens /\ requester \in [Realtime!Gens -> {0} \cup Realtime!Replies]
    /\ gens \in [Realtime!Gens -> {"none", "created", "emitted", "text", "done"}]
    /\ readers \in [Realtime!Gens -> 0 .. 2]
    /\ done \in [Realtime!Replies -> {"none", "pending", "generated", "timeout"}]
    /\ keyed \in [Realtime!Replies -> {Realtime!NoKey, Realtime!EventId} \cup Realtime!Gens]
    /\ got \in [Realtime!Replies -> {0} \cup Realtime!Gens]
    /\ recovery \in [at : {"none", "updating", "sent"}, reply : {0} \cup Realtime!Replies,
                     gen : {0} \cup Realtime!Gens]

\* A response that was not given has no reply; one that has belongs to the reply that asked
\* for it, which is the only one in the table under its id.
Requested ==
    /\ \A r \in Realtime!Replies :
        /\ keyed[r] \in Realtime!Gens => requester[keyed[r]] = r /\ gens[keyed[r]] # "none"
        /\ got[r] # 0 => requester[got[r]] = r /\ gens[got[r]] # "none"

\* The response under way is the current generation; one without an item has no reader.
ReadOnce ==
    /\ serving # 0 => generation = serving
    /\ \A g \in Realtime!Gens : /\ gens[g] \in {"none", "created", "text"} => readers[g] = 0
                                /\ "many" \notin excepted => readers[g] <= 1

\* Without a recovery, no reply is left to it.
Waits ==
    /\ recovery.at = "none" => recovery.reply = 0
    /\ Realtime!PendingIsKnown

ReplyInv == ReplyTypes /\ Requested /\ ReadOnce /\ Waits

\* A session begins without replies and responses.
LEMMA ReplyStart == Realtime!Init => ReplyInv
<1> SUFFICES ASSUME Realtime!Init PROVE ReplyInv
  OBVIOUS
<1>1. MaxReplies \in Nat /\ MaxGens \in Nat
  BY ServicesAssumption
<1>2. ReplyTypes
  BY <1>1 DEF Realtime!Init, ReplyTypes, Realtime!NoRecovery
<1>3. Requested /\ ReadOnce /\ Waits
  BY <1>1 DEF Realtime!Init, Requested, ReadOnce, Waits, Realtime!NoRecovery, Realtime!NoKey,
     Realtime!Gens, Realtime!Replies, Realtime!PendingIsKnown
<1>4. QED
  BY <1>2, <1>3 DEF ReplyInv

\* The keys are apart: that of a request, those of the responses, and none.
LEMMA KeysApart ==
    /\ Realtime!NoKey \notin Realtime!Gens /\ 0 \notin Realtime!Gens /\ Realtime!NoKey # 0
    /\ 0 \notin Realtime!Replies /\ Realtime!EventId = 0
BY ServicesAssumption DEF Realtime!NoKey, Realtime!Gens, Realtime!Replies, Realtime!EventId

\* Each event of the server, loss of the connection, timeout and recovery keeps the replies.
LEMMA ReplyStep == ReplyInv /\ [Realtime!Next]_replyVars => ReplyInv'
<1> SUFFICES ASSUME ReplyInv, [Realtime!Next]_replyVars PROVE ReplyInv'
  OBVIOUS
<1> USE KeysApart DEF Realtime!connVars, Realtime!serverVars, Realtime!genVars, Realtime!replyVars,
     Realtime!textVars, Realtime!bounds
<1>b. ReplyTypes /\ Requested /\ ReadOnce /\ Waits
  BY DEF ReplyInv
<1>1. ASSUME NEW r \in Realtime!Replies, Realtime!GenerateReply(r) PROVE ReplyInv'
  <2>1. ReplyTypes'
    BY <1>b, <1>1 DEF Realtime!GenerateReply, ReplyTypes
  <2>2. Requested'
    BY <1>b, <1>1 DEF Realtime!GenerateReply, ReplyTypes, Requested
  <2>3. ReadOnce'
    BY <1>b, <1>1 DEF Realtime!GenerateReply, ReplyTypes, ReadOnce
  <2>4. Waits'
    BY <1>b, <1>1 DEF Realtime!GenerateReply, ReplyTypes, Waits, Realtime!PendingIsKnown
  <2>5. QED
    BY <2>1, <2>2, <2>3, <2>4 DEF ReplyInv
<1>2. ASSUME NEW r \in Realtime!Replies, Realtime!ReplyTimeout(r) PROVE ReplyInv'
  <2>1. ReplyTypes'
    BY <1>b, <1>2 DEF Realtime!ReplyTimeout, ReplyTypes
  <2>2. Requested'
    BY <1>b, <1>2 DEF Realtime!ReplyTimeout, ReplyTypes, Requested
  <2>3. ReadOnce'
    BY <1>b, <1>2 DEF Realtime!ReplyTimeout, ReplyTypes, ReadOnce
  <2>4. Waits'
    BY <1>b, <1>2 DEF Realtime!ReplyTimeout, ReplyTypes, Waits, Realtime!PendingIsKnown
  <2>5. QED
    BY <2>1, <2>2, <2>3, <2>4 DEF ReplyInv
<1>3. ASSUME NEW g \in Realtime!Gens, NEW r \in {0} \cup Realtime!Replies,
             Realtime!ResponseCreated(r, g)
      PROVE  ReplyInv'
  <2>1. ReplyTypes'
    BY <1>b, <1>3 DEF Realtime!ResponseCreated, Realtime!KeyOfResponse, ReplyTypes
  <2>2. Requested'
    BY <1>b, <1>3 DEF Realtime!ResponseCreated, Realtime!KeyOfResponse, ReplyTypes, Requested
  <2>3. ReadOnce'
    BY <1>b, <1>3 DEF Realtime!ResponseCreated, Realtime!KeyOfResponse, ReplyTypes, ReadOnce
  <2>4. Waits'
    BY <1>b, <1>3 DEF Realtime!ResponseCreated, Realtime!KeyOfResponse, ReplyTypes, Waits, Realtime!PendingIsKnown
  <2>5. QED
    BY <2>1, <2>2, <2>3, <2>4 DEF ReplyInv
<1>4. CASE Realtime!Close
  <2>1. ReplyTypes'
    BY <1>b, <1>4 DEF Realtime!Close, ReplyTypes
  <2>2. Requested'
    BY <1>b, <1>4 DEF Realtime!Close, ReplyTypes, Requested
  <2>3. ReadOnce'
    BY <1>b, <1>4 DEF Realtime!Close, ReplyTypes, ReadOnce
  <2>4. Waits'
    BY <1>b, <1>4 DEF Realtime!Close, ReplyTypes, Waits, Realtime!PendingIsKnown
  <2>5. QED
    BY <2>1, <2>2, <2>3, <2>4 DEF ReplyInv
<1>5. CASE Realtime!Connected
  <2>1. ReplyTypes'
    BY <1>b, <1>5 DEF Realtime!Connected, ReplyTypes
  <2>2. Requested'
    BY <1>b, <1>5 DEF Realtime!Connected, ReplyTypes, Requested
  <2>3. ReadOnce'
    BY <1>b, <1>5 DEF Realtime!Connected, ReplyTypes, ReadOnce
  <2>4. Waits'
    BY <1>b, <1>5 DEF Realtime!Connected, ReplyTypes, Waits, Realtime!PendingIsKnown
  <2>5. QED
    BY <2>1, <2>2, <2>3, <2>4 DEF ReplyInv
<1>6. CASE Realtime!ConnectFails
  <2>1. ReplyTypes'
    BY <1>b, <1>6 DEF Realtime!ConnectFails, ReplyTypes
  <2>2. Requested'
    BY <1>b, <1>6 DEF Realtime!ConnectFails, ReplyTypes, Requested
  <2>3. ReadOnce'
    BY <1>b, <1>6 DEF Realtime!ConnectFails, ReplyTypes, ReadOnce
  <2>4. Waits'
    BY <1>b, <1>6 DEF Realtime!ConnectFails, ReplyTypes, Waits, Realtime!PendingIsKnown
  <2>5. QED
    BY <2>1, <2>2, <2>3, <2>4 DEF ReplyInv
<1>7. CASE Realtime!Send
  <2>1. ReplyTypes'
    BY <1>b, <1>7 DEF Realtime!Send, ReplyTypes
  <2>2. Requested'
    BY <1>b, <1>7 DEF Realtime!Send, ReplyTypes, Requested
  <2>3. ReadOnce'
    BY <1>b, <1>7 DEF Realtime!Send, ReplyTypes, ReadOnce
  <2>4. Waits'
    BY <1>b, <1>7 DEF Realtime!Send, ReplyTypes, Waits, Realtime!PendingIsKnown
  <2>5. QED
    BY <2>1, <2>2, <2>3, <2>4 DEF ReplyInv
<1>8. CASE Realtime!ConnectionLost
  <2>1. ReplyTypes'
    BY <1>b, <1>8 DEF Realtime!ConnectionLost, Realtime!Forgotten, ReplyTypes
  <2>2. Requested'
    BY <1>b, <1>8 DEF Realtime!ConnectionLost, Realtime!Forgotten, ReplyTypes, Requested
  <2>3. ReadOnce'
    BY <1>b, <1>8 DEF Realtime!ConnectionLost, Realtime!Forgotten, ReplyTypes, ReadOnce
  <2>4. Waits'
    BY <1>b, <1>8 DEF Realtime!ConnectionLost, Realtime!Forgotten, ReplyTypes, Waits, Realtime!PendingIsKnown
  <2>5. QED
    BY <2>1, <2>2, <2>3, <2>4 DEF ReplyInv
<1>9. CASE Realtime!RecvFails
  <2>1. ReplyTypes'
    BY <1>b, <1>9 DEF Realtime!RecvFails, ReplyTypes
  <2>2. Requested'
    BY <1>b, <1>9 DEF Realtime!RecvFails, ReplyTypes, Requested
  <2>3. ReadOnce'
    BY <1>b, <1>9 DEF Realtime!RecvFails, ReplyTypes, ReadOnce
  <2>4. Waits'
    BY <1>b, <1>9 DEF Realtime!RecvFails, ReplyTypes, Waits, Realtime!PendingIsKnown
  <2>5. QED
    BY <2>1, <2>2, <2>3, <2>4 DEF ReplyInv
<1>10. CASE Realtime!SendFails
  <2>1. ReplyTypes'
    BY <1>b, <1>10 DEF Realtime!SendFails, Realtime!NextConnection, Realtime!Forgotten, ReplyTypes
  <2>2. Requested'
    BY <1>b, <1>10 DEF Realtime!SendFails, Realtime!NextConnection, Realtime!Forgotten, ReplyTypes, Requested
  <2>3. ReadOnce'
    BY <1>b, <1>10 DEF Realtime!SendFails, Realtime!NextConnection, Realtime!Forgotten, ReplyTypes, ReadOnce
  <2>4. Waits'
    BY <1>b, <1>10 DEF Realtime!SendFails, Realtime!NextConnection, Realtime!Forgotten, ReplyTypes, Waits, Realtime!PendingIsKnown
  <2>5. QED
    BY <2>1, <2>2, <2>3, <2>4 DEF ReplyInv
<1>11. CASE Realtime!SendEnds
  <2>1. ReplyTypes'
    BY <1>b, <1>11 DEF Realtime!SendEnds, Realtime!NextConnection, Realtime!Forgotten, ReplyTypes
  <2>2. Requested'
    BY <1>b, <1>11 DEF Realtime!SendEnds, Realtime!NextConnection, Realtime!Forgotten, ReplyTypes, Requested
  <2>3. ReadOnce'
    BY <1>b, <1>11 DEF Realtime!SendEnds, Realtime!NextConnection, Realtime!Forgotten, ReplyTypes, ReadOnce
  <2>4. Waits'
    BY <1>b, <1>11 DEF Realtime!SendEnds, Realtime!NextConnection, Realtime!Forgotten, ReplyTypes, Waits, Realtime!PendingIsKnown
  <2>5. QED
    BY <2>1, <2>2, <2>3, <2>4 DEF ReplyInv
<1>12. CASE Realtime!Expire
  <2>1. ReplyTypes'
    BY <1>b, <1>12 DEF Realtime!Expire, Realtime!NextConnection, Realtime!Forgotten, ReplyTypes
  <2>2. Requested'
    BY <1>b, <1>12 DEF Realtime!Expire, Realtime!NextConnection, Realtime!Forgotten, ReplyTypes, Requested
  <2>3. ReadOnce'
    BY <1>b, <1>12 DEF Realtime!Expire, Realtime!NextConnection, Realtime!Forgotten, ReplyTypes, ReadOnce
  <2>4. Waits'
    BY <1>b, <1>12 DEF Realtime!Expire, Realtime!NextConnection, Realtime!Forgotten, ReplyTypes, Waits, Realtime!PendingIsKnown
  <2>5. QED
    BY <2>1, <2>2, <2>3, <2>4 DEF ReplyInv
<1>13. CASE Realtime!ExpiredEnds
  <2>1. ReplyTypes'
    BY <1>b, <1>13 DEF Realtime!ExpiredEnds, Realtime!NextConnection, Realtime!Forgotten, ReplyTypes
  <2>2. Requested'
    BY <1>b, <1>13 DEF Realtime!ExpiredEnds, Realtime!NextConnection, Realtime!Forgotten, ReplyTypes, Requested
  <2>3. ReadOnce'
    BY <1>b, <1>13 DEF Realtime!ExpiredEnds, Realtime!NextConnection, Realtime!Forgotten, ReplyTypes, ReadOnce
  <2>4. Waits'
    BY <1>b, <1>13 DEF Realtime!ExpiredEnds, Realtime!NextConnection, Realtime!Forgotten, ReplyTypes, Waits, Realtime!PendingIsKnown
  <2>5. QED
    BY <2>1, <2>2, <2>3, <2>4 DEF ReplyInv
<1>14. CASE Realtime!Item
  <2>1. ReplyTypes'
    BY <1>b, <1>14 DEF Realtime!Item, Realtime!Keyed, ReplyTypes
  <2>2. Requested'
    BY <1>b, <1>14 DEF Realtime!Item, Realtime!Keyed, ReplyTypes, Requested
  <2>3. ReadOnce'
    <3>1. serving # 0 /\ serving \in Realtime!Gens /\ generation = serving
          /\ gens[serving] \in {"created", "emitted"} /\ serving' = serving
          /\ generation' = generation /\ gens' = [gens EXCEPT ![serving] = "emitted"]
          /\ excepted' = IF gens[serving] = "emitted" THEN excepted \cup {"many"} ELSE excepted
      BY <1>b, <1>14 DEF Realtime!Item, ReplyTypes
    <3>2. /\ \A f \in Realtime!Gens : f # serving => readers'[f] = readers[f]
          /\ readers'[serving] <= readers[serving] + 1
      BY <1>b, <1>14, <3>1 DEF Realtime!Item, ReplyTypes
    <3>3. ASSUME NEW f \in Realtime!Gens
          PROVE  /\ gens'[f] \in {"none", "created", "text"} => readers'[f] = 0
                 /\ "many" \notin excepted' => readers'[f] <= 1
      BY <1>b, <3>1, <3>2 DEF ReplyTypes, ReadOnce
    <3>4. QED
      BY <3>1, <3>3 DEF ReadOnce
  <2>4. Waits'
    BY <1>b, <1>14 DEF Realtime!Item, Realtime!Keyed, ReplyTypes, Waits, Realtime!PendingIsKnown
  <2>5. QED
    BY <2>1, <2>2, <2>3, <2>4 DEF ReplyInv
<1>15. CASE Realtime!Text
  <2>1. ReplyTypes'
    BY <1>b, <1>15 DEF Realtime!Text, Realtime!Keyed, ReplyTypes
  <2>2. Requested'
    BY <1>b, <1>15 DEF Realtime!Text, Realtime!Keyed, ReplyTypes, Requested
  <2>3. ReadOnce'
    BY <1>b, <1>15 DEF Realtime!Text, Realtime!Keyed, ReplyTypes, ReadOnce
  <2>4. Waits'
    <3> DEFINE its == Realtime!Keyed(serving)
               timedOut == \E q \in its : done[q] # "pending"
    <3>1. serving \in Realtime!Gens /\ done' = done
          /\ \A q \in Realtime!Replies : q \in its <=> keyed[q] = serving
      BY <1>b, <1>15 DEF Realtime!Text, Realtime!Keyed, ReplyTypes
    <3>2. /\ its \subseteq Realtime!Replies
          /\ \A q, r \in its : q = r
      BY <1>b, <3>1 DEF Realtime!Keyed, Requested
    <3>3. CASE recoveries >= MaxRecovery
      BY <1>b, <1>15, <3>3 DEF Realtime!Text, Waits, Realtime!PendingIsKnown
    <3>4. ASSUME ~(recoveries >= MaxRecovery)
          PROVE  /\ keyed' = [r \in Realtime!Replies |-> IF r \in its THEN Realtime!NoKey ELSE keyed[r]]
                 /\ timedOut => recovery' = recovery /\ excepted' = excepted
                 /\ ~timedOut =>
                      /\ recovery' = [at |-> "updating", gen |-> serving,
                            reply |-> IF its = {} THEN 0 ELSE CHOOSE r \in its : TRUE]
                      /\ excepted' = IF recovery.at # "none" THEN excepted \cup {"text"}
                                     ELSE excepted
      BY <3>4, <1>15 DEF Realtime!Text
    <3>5. CASE ~(recoveries >= MaxRecovery) /\ timedOut
      <4>1. \A r \in its : done[r] # "pending"
        BY <3>2, <3>5
      <4>2. QED
        BY <1>b, <3>1, <3>4, <3>5, <4>1 DEF Waits, Realtime!PendingIsKnown
    <3>6. CASE ~(recoveries >= MaxRecovery) /\ ~timedOut
      <4>1. recovery'.at = "updating" /\ recovery'.reply = IF its = {} THEN 0 ELSE CHOOSE r \in its : TRUE
        BY <3>4, <3>6
      <4>2. \A r \in its : recovery'.reply = r
        <5> SUFFICES ASSUME NEW r \in its PROVE recovery'.reply = r
          OBVIOUS
        <5>1. (CHOOSE q \in its : TRUE) \in its
          OBVIOUS
        <5>2. QED
          BY <3>2, <4>1, <5>1
      <4>3. "text" \notin excepted' => "text" \notin excepted /\ recovery.at = "none"
        BY <3>4, <3>6
      <4>4. ASSUME "text" \notin excepted', NEW r \in Realtime!Replies, done'[r] = "pending"
            PROVE  keyed'[r] # Realtime!NoKey \/ recovery'.reply = r
        <5>1. keyed[r] # Realtime!NoKey
          BY <1>b, <3>1, <4>3, <4>4 DEF Waits, Realtime!PendingIsKnown
        <5>2. CASE r \in its
          BY <4>2, <5>2
        <5>3. CASE r \notin its
          BY <3>4, <3>6, <5>1, <5>3
        <5>4. QED
          BY <5>2, <5>3
      <4>5. QED
        BY <4>1, <4>4 DEF Waits, Realtime!PendingIsKnown
    <3>7. QED
      BY <3>3, <3>5, <3>6
  <2>5. QED
    BY <2>1, <2>2, <2>3, <2>4 DEF ReplyInv
<1>16. CASE Realtime!Recovered
  <2>1. ReplyTypes'
    BY <1>b, <1>16 DEF Realtime!Recovered, Realtime!Registered, Realtime!NoRecovery, ReplyTypes
  <2>2. Requested'
    BY <1>b, <1>16 DEF Realtime!Recovered, Realtime!Registered, Realtime!NoRecovery, ReplyTypes, Requested
  <2>3. ReadOnce'
    BY <1>b, <1>16 DEF Realtime!Recovered, Realtime!Registered, Realtime!NoRecovery, ReplyTypes, ReadOnce
  <2>4. Waits'
    BY <1>b, <1>16 DEF Realtime!Recovered, Realtime!Registered, Realtime!NoRecovery, ReplyTypes, Waits, Realtime!PendingIsKnown
  <2>5. QED
    BY <2>1, <2>2, <2>3, <2>4 DEF ReplyInv
<1>17. CASE Realtime!RecoveryTimeout
  <2>1. ReplyTypes'
    BY <1>b, <1>17 DEF Realtime!RecoveryTimeout, Realtime!NoRecovery, ReplyTypes
  <2>2. Requested'
    BY <1>b, <1>17 DEF Realtime!RecoveryTimeout, Realtime!NoRecovery, ReplyTypes, Requested
  <2>3. ReadOnce'
    BY <1>b, <1>17 DEF Realtime!RecoveryTimeout, Realtime!NoRecovery, ReplyTypes, ReadOnce
  <2>4. Waits'
    BY <1>b, <1>17 DEF Realtime!RecoveryTimeout, Realtime!NoRecovery, ReplyTypes, Waits, Realtime!PendingIsKnown
  <2>5. QED
    BY <2>1, <2>2, <2>3, <2>4 DEF ReplyInv
<1>18. CASE Realtime!ResponseDone
  <2>1. ReplyTypes'
    BY <1>b, <1>18 DEF Realtime!ResponseDone, ReplyTypes
  <2>2. Requested'
    BY <1>b, <1>18 DEF Realtime!ResponseDone, ReplyTypes, Requested
  <2>3. ReadOnce'
    <3>1. serving' = 0 /\ readers' = readers /\ excepted' = excepted
          /\ \A f \in Realtime!Gens : gens'[f] = gens[f] \/ gens'[f] = "done"
      BY <1>b, <1>18 DEF Realtime!ResponseDone, ReplyTypes
    <3>2. QED
      BY <1>b, <3>1 DEF ReadOnce
  <2>4. Waits'
    BY <1>b, <1>18 DEF Realtime!ResponseDone, ReplyTypes, Waits, Realtime!PendingIsKnown
  <2>5. QED
    BY <2>1, <2>2, <2>3, <2>4 DEF ReplyInv
<1>19. CASE UNCHANGED replyVars
  BY <1>b, <1>19 DEF replyVars, ReplyInv, ReplyTypes, Requested, ReadOnce, Waits, Realtime!PendingIsKnown
<1>20. QED
  BY <1>1, <1>2, <1>3, <1>4, <1>5, <1>6, <1>7, <1>8, <1>9, <1>10, <1>11, <1>12, <1>13, <1>14, <1>15, <1>16, <1>17, <1>18, <1>19 DEF Realtime!Next

\* The invariant says what a reply gets, and where one that waits is known.
LEMMA ReplyImplies == ReplyInv => Realtime!OwnGeneration /\ Realtime!PendingIsKnown
<1>1. ASSUME ReplyInv PROVE Requested /\ ReadOnce /\ Waits
  BY <1>1 DEF ReplyInv
<1>2. Requested /\ ReadOnce => Realtime!OwnGeneration
  BY DEF Requested, ReadOnce, Realtime!OwnGeneration
<1>3. QED
  BY <1>1, <1>2 DEF Waits

-----------------------------------------------------------------------------
(* What the worker tells the server of a job *)

StatusTypes ==
    /\ chan \in Seq(Server!Messages) /\ sending \in Seq(Server!Messages)
    /\ blocked \subseteq Server!Messages
    /\ heard \in [Jobs -> {"none", "running", "ended"}]

Tells(m, j) == m[1] = "job" /\ m[2] = j

\* What the server heard, what is being sent and what is in the channel tell the end of a
\* job only once it has ended, and nothing else behind that, as long as nobody had to wait
\* for room in the channel.
EndIsLast ==
    /\ blocked = {}
    /\ \A j \in Jobs :
        /\ heard[j] = "ended" =>
              /\ j \in ended
              /\ \A i \in 1 .. Len(sending) : Tells(sending[i], j) => sending[i][3] = "ended"
              /\ \A i \in 1 .. Len(chan) : Tells(chan[i], j) => chan[i][3] = "ended"
        /\ \A i \in 1 .. Len(sending) :
              Tells(sending[i], j) /\ sending[i][3] = "ended" =>
                 /\ j \in ended
                 /\ \A k \in 1 .. Len(chan) : Tells(chan[k], j) => chan[k][3] = "ended"
        /\ \A i \in 1 .. Len(chan) :
              Tells(chan[i], j) /\ chan[i][3] = "ended" =>
                 /\ j \in ended
                 /\ \A k \in 1 .. Len(chan) : i < k /\ Tells(chan[k], j) => chan[k][3] = "ended"

StatusInv == StatusTypes /\ (wasFull \/ EndIsLast)

\* Nothing was told when the worker starts.
LEMMA StatusStart == Server!Init => StatusInv
<1> SUFFICES ASSUME Server!Init PROVE StatusInv
  OBVIOUS
<1>1. chan = <<>> /\ sending = <<>> /\ blocked = {} /\ heard = [j \in Jobs |-> "none"]
  BY DEF Server!Init
<1>2. <<>> \in Seq(Server!Messages) /\ 1 .. Len(<<>>) = {}
  BY EmptySeq
<1>3. QED
  BY <1>1, <1>2 DEF StatusInv, StatusTypes, EndIsLast

\* The messages by their first field, which tells what the others are.
LEMMA MessageIs ==
    /\ \A j \in Jobs, a \in BOOLEAN : /\ Server!Answer(j, a) \in Server!Messages
                                      /\ Server!Answer(j, a)[1] = "answer"
    /\ \A j \in Jobs : /\ Server!JobUpdate(j) \in Server!Messages
                       /\ Server!JobUpdate(j)[1] = "job" /\ Server!JobUpdate(j)[2] = j
                       /\ (Server!JobUpdate(j)[3] = "ended" <=> j \in ended)
    /\ \A w \in {"load", "drain"}, s \in {"available", "full"} :
         Server!Update(w, s) \in Server!Messages /\ Server!Update(w, s)[1] = "worker"
    /\ \A m \in Server!Messages : m[1] = "job" => m[3] \in {"running", "ended"}
BY DEF Server!Messages, Server!Answer, Server!JobUpdate, Server!Update

\* A message that is queued goes behind the others, or waits.
LEMMA QueueKeeps ==
    ASSUME StatusInv, NEW m \in Server!Messages, Server!Queue(m),
           \A j \in Jobs : Tells(m, j) => (m[3] = "ended" <=> j \in ended),
           sending' = sending, heard' = heard, ended' = ended
    PROVE  StatusInv'
<1>1. StatusTypes /\ (wasFull \/ EndIsLast)
  BY DEF StatusInv
<1>2. CASE Len(chan) < Capacity
  <2>1. chan' = Append(chan, m) /\ blocked' = blocked /\ wasFull' = wasFull
    BY <1>2 DEF Server!Queue, Server!Put
  <2>2. chan \in Seq(Server!Messages)
    BY <1>1 DEF StatusTypes
  <2>3. /\ Append(chan, m) \in Seq(Server!Messages) /\ Len(Append(chan, m)) = Len(chan) + 1
        /\ \A i \in 1 .. Len(chan) : Append(chan, m)[i] = chan[i]
        /\ Append(chan, m)[Len(chan) + 1] = m /\ Len(chan) \in Nat
    BY <2>2, AppendProperties, LenProperties
  <2>4. StatusTypes'
    BY <1>1, <2>1, <2>3 DEF StatusTypes
  <2> DEFINE n == Len(chan)
             c == Append(chan, m)
  <2>5. /\ n \in Nat /\ Len(chan') = n + 1
        /\ \A i \in 1 .. n + 1 : \/ i \in 1 .. n /\ chan'[i] = chan[i]
                                 \/ i = n + 1 /\ chan'[i] = m
    <3>1. \A k \in Nat : \A i \in 1 .. k + 1 : i \in 1 .. k \/ i = k + 1
      OBVIOUS
    <3>2. n \in Nat /\ Len(chan') = n + 1 /\ chan' = c
      BY <2>1, <2>3
    <3>3. \A i \in 1 .. n + 1 : i \in 1 .. n \/ i = n + 1
      BY <3>1, <3>2, Zenon
    <3>4. \A i \in 1 .. n : chan'[i] = chan[i]
      BY <2>3, <3>2, Zenon
    <3>5. chan'[n + 1] = m
      <4>1. Append(chan, m)[Len(chan) + 1] = m /\ chan' = Append(chan, m)
        BY <2>1, <2>3, Zenon
      <4>2. QED
        BY <4>1
    <3>6. \A i \in 1 .. n + 1 : \/ i \in 1 .. n /\ chan'[i] = chan[i]
                                \/ i = n + 1 /\ chan'[i] = m
      <4> HIDE DEF n
      <4> QED
        BY <3>2, <3>3, <3>4, <3>5
    <3>7. QED
      BY <3>2, <3>6
  <2>6. ASSUME EndIsLast PROVE EndIsLast'
    <3> SUFFICES ASSUME NEW j \in Jobs
                 PROVE  /\ heard'[j] = "ended" =>
                            /\ j \in ended'
                            /\ \A i \in 1 .. Len(sending') :
                                 Tells(sending'[i], j) => sending'[i][3] = "ended"
                            /\ \A i \in 1 .. Len(chan') :
                                 Tells(chan'[i], j) => chan'[i][3] = "ended"
                        /\ \A i \in 1 .. Len(sending') :
                             Tells(sending'[i], j) /\ sending'[i][3] = "ended" =>
                               /\ j \in ended'
                               /\ \A k \in 1 .. Len(chan') :
                                    Tells(chan'[k], j) => chan'[k][3] = "ended"
                        /\ \A i \in 1 .. Len(chan') :
                             Tells(chan'[i], j) /\ chan'[i][3] = "ended" =>
                               /\ j \in ended'
                               /\ \A k \in 1 .. Len(chan') :
                                    i < k /\ Tells(chan'[k], j) => chan'[k][3] = "ended"
      BY <2>1, <2>6 DEF EndIsLast, Tells
    <3> HIDE DEF n, c
    <3>1. j \in ended /\ Tells(m, j) => m[3] = "ended"
      OBVIOUS
    <3>2. Tells(m, j) /\ m[3] = "ended" => j \in ended
      OBVIOUS
    <3>3. n = Len(chan)
      BY DEF n
    <3>4. /\ heard[j] = "ended" =>
              /\ j \in ended
              /\ \A i \in 1 .. Len(sending) : Tells(sending[i], j) => sending[i][3] = "ended"
              /\ \A i \in 1 .. n : Tells(chan[i], j) => chan[i][3] = "ended"
          /\ \A i \in 1 .. Len(sending) :
               Tells(sending[i], j) /\ sending[i][3] = "ended" =>
                 /\ j \in ended
                 /\ \A k \in 1 .. n : Tells(chan[k], j) => chan[k][3] = "ended"
          /\ \A i \in 1 .. n :
               Tells(chan[i], j) /\ chan[i][3] = "ended" =>
                 /\ j \in ended
                 /\ \A k \in 1 .. n : i < k /\ Tells(chan[k], j) => chan[k][3] = "ended"
      BY <2>6, <3>3 DEF EndIsLast
    <3>5. ASSUME NEW k \in 1 .. n + 1, j \in ended, Tells(chan'[k], j)
          PROVE  k = n + 1 => chan'[k][3] = "ended"
      BY <2>5, <3>1, <3>5
    <3>6. heard'[j] = "ended" =>
            /\ j \in ended'
            /\ \A i \in 1 .. Len(sending') : Tells(sending'[i], j) => sending'[i][3] = "ended"
            /\ \A i \in 1 .. Len(chan') : Tells(chan'[i], j) => chan'[i][3] = "ended"
      BY <2>5, <3>1, <3>4
    <3>7. ASSUME NEW i \in 1 .. Len(sending'), Tells(sending'[i], j), sending'[i][3] = "ended"
          PROVE  /\ j \in ended'
                 /\ \A k \in 1 .. Len(chan') : Tells(chan'[k], j) => chan'[k][3] = "ended"
      BY <2>5, <3>1, <3>4, <3>7
    <3>8. ASSUME NEW i \in 1 .. Len(chan'), Tells(chan'[i], j), chan'[i][3] = "ended"
          PROVE  /\ j \in ended'
                 /\ \A k \in 1 .. Len(chan') :
                      i < k /\ Tells(chan'[k], j) => chan'[k][3] = "ended"
      BY <2>5, <3>1, <3>2, <3>4, <3>8
    <3>9. QED
      BY <3>6, <3>7, <3>8
  <2>7. QED
    BY <1>1, <2>1, <2>4, <2>6 DEF StatusInv
<1>3. CASE ~(Len(chan) < Capacity)
  BY <1>1, <1>3 DEF Server!Queue, StatusInv, StatusTypes
<1>4. QED
  BY <1>2, <1>3

\* What is told of a job stays in order over each step of the worker, the server, the
\* processes and the connection.
LEMMA StatusStep == StatusInv /\ [Server!Next]_serverVars => StatusInv'
<1> SUFFICES ASSUME StatusInv, [Server!Next]_serverVars PROVE StatusInv'
  OBVIOUS
<1> USE DEF Server!connVars, Server!chanVars, Server!sendVars, Server!reqVars, Server!procVars,
     Server!drainVars, Server!srvVars
<1>b. StatusTypes /\ (wasFull \/ EndIsLast)
  BY DEF StatusInv
\* Steps that leave the messages alone.
<1>u. ASSUME chan' = chan, sending' = sending, blocked' = blocked, heard' = heard,
             wasFull' = wasFull, ended \subseteq ended'
      PROVE  StatusInv'
  <2>1. StatusTypes'
    BY <1>b, <1>u DEF StatusTypes
  <2>2. EndIsLast => EndIsLast'
    BY <1>u DEF EndIsLast, Tells
  <2>3. QED
    BY <1>b, <1>u, <2>1, <2>2 DEF StatusInv
\* The connection is gone, and what was being sent on it.
<1>v. ASSUME chan' = chan, sending' = <<>>, blocked' \subseteq blocked, heard' = heard,
             wasFull' = wasFull, ended' = ended
      PROVE  StatusInv'
  <2>1. <<>> \in Seq(Server!Messages) /\ 1 .. Len(<<>>) = {}
    BY EmptySeq
  <2>2. StatusTypes'
    BY <1>b, <1>v, <2>1 DEF StatusTypes
  <2>3. EndIsLast => EndIsLast'
    BY <1>v, <2>1 DEF EndIsLast, Tells
  <2>4. QED
    BY <1>b, <1>v, <2>2, <2>3 DEF StatusInv
<1>1. CASE Server!ConnectFails
  BY <1>u, <1>1 DEF Server!ConnectFails
<1>2. CASE Server!RegisterFails
  BY <1>u, <1>2 DEF Server!RegisterFails
<1>3. CASE Server!Register
  BY <1>u, <1>3 DEF Server!Register
<1>4. CASE Server!Reconnect
  BY <1>u, <1>4 DEF Server!Reconnect
<1>5. CASE Server!DrainGoesOn
  BY <1>u, <1>5 DEF Server!DrainGoesOn
<1>6. CASE Server!DrainTimeout
  BY <1>u, <1>6 DEF Server!DrainTimeout
<1>7. CASE Server!PoolClosed
  BY <1>u, <1>7 DEF Server!PoolClosed
<1>8. CASE Server!FinishClose
  BY <1>u, <1>8 DEF Server!FinishClose
<1>9. ASSUME NEW j \in Jobs, Server!Offer(j) PROVE StatusInv'
  BY <1>u, <1>9 DEF Server!Offer
<1>10. ASSUME NEW j \in Jobs, Server!Assign(j) PROVE StatusInv'
  BY <1>u, <1>10 DEF Server!Assign
<1>11. ASSUME NEW j \in Jobs, Server!AssignmentTimeout(j) PROVE StatusInv'
  BY <1>u, <1>11 DEF Server!AssignmentTimeout
<1>12. ASSUME NEW j \in Jobs, Server!Launch(j) PROVE StatusInv'
  BY <1>u, <1>12 DEF Server!Launch
<1>13. ASSUME NEW j \in Jobs, Server!LaunchIsLost(j) PROVE StatusInv'
  BY <1>u, <1>13 DEF Server!LaunchIsLost
<1>14. ASSUME NEW j \in Jobs, Server!Terminate(j) PROVE StatusInv'
  BY <1>u, <1>14 DEF Server!Terminate
<1>15. ASSUME NEW p \in Server!Procs, Server!Spawn(p) \/ Server!ProcEnds(p) PROVE StatusInv'
  BY <1>u, <1>15 DEF Server!Spawn, Server!ProcEnds
<1>16. CASE Server!Drop
  BY <1>v, <1>16 DEF Server!Drop
<1>17. CASE Server!Close
  BY <1>v, <1>17 DEF Server!Close
<1>18. CASE Server!SendTaskTakes
  <2>1. /\ sending = <<>> /\ chan # <<>> /\ sending' = <<Head(chan)>> /\ chan' = Tail(chan)
        /\ blocked' = blocked /\ heard' = heard /\ wasFull' = wasFull /\ ended' = ended
    BY <1>18 DEF Server!SendTaskTakes
  <2>2. /\ Tail(chan) \in Seq(Server!Messages) /\ 1 \in 1 .. Len(chan) /\ Head(chan) = chan[1]
        /\ \A i \in 1 .. Len(Tail(chan)) : i + 1 \in 1 .. Len(chan) /\ Tail(chan)[i] = chan[i + 1]
    <3>1. chan \in Seq(Server!Messages)
      BY <1>b DEF StatusTypes
    <3>2. QED
      BY <2>1, <3>1, Queued
  <2>3. Head(chan) \in Server!Messages
    BY <1>b, <2>1 DEF StatusTypes
  <2>4. /\ <<Head(chan)>> \in Seq(Server!Messages)
        /\ \A i \in 1 .. Len(<<Head(chan)>>) : <<Head(chan)>>[i] = chan[1]
    BY <2>2, <2>3
  <2>5. StatusTypes'
    BY <1>b, <2>1, <2>2, <2>4 DEF StatusTypes
  <2>6. \A i \in 1 .. Len(Tail(chan)) : 1 < i + 1
    OBVIOUS
  <2>7. \A i, k \in 1 .. Len(Tail(chan)) : i < k => i + 1 < k + 1
    OBVIOUS
  <2>8. ASSUME EndIsLast PROVE EndIsLast'
    <3>1. /\ \A i \in 1 .. Len(sending') : sending'[i] = chan[1]
          /\ \A i \in 1 .. Len(chan') : i + 1 \in 1 .. Len(chan) /\ chan'[i] = chan[i + 1]
                                        /\ 1 < i + 1
          /\ \A i, k \in 1 .. Len(chan') : i < k => i + 1 < k + 1
      BY <2>1, <2>2, <2>4, <2>6, <2>7
    <3>2. ASSUME NEW j \in Jobs
          PROVE  /\ heard'[j] = "ended" =>
                     /\ j \in ended'
                     /\ \A i \in 1 .. Len(sending') :
                          Tells(sending'[i], j) => sending'[i][3] = "ended"
                     /\ \A i \in 1 .. Len(chan') :
                          Tells(chan'[i], j) => chan'[i][3] = "ended"
                 /\ \A i \in 1 .. Len(sending') :
                      Tells(sending'[i], j) /\ sending'[i][3] = "ended" =>
                        /\ j \in ended'
                        /\ \A k \in 1 .. Len(chan') :
                             Tells(chan'[k], j) => chan'[k][3] = "ended"
                 /\ \A i \in 1 .. Len(chan') :
                      Tells(chan'[i], j) /\ chan'[i][3] = "ended" =>
                        /\ j \in ended'
                        /\ \A k \in 1 .. Len(chan') :
                             i < k /\ Tells(chan'[k], j) => chan'[k][3] = "ended"
      <4>1. /\ heard[j] = "ended" =>
                /\ j \in ended
                /\ \A i \in 1 .. Len(chan) : Tells(chan[i], j) => chan[i][3] = "ended"
            /\ \A i \in 1 .. Len(chan) :
                 Tells(chan[i], j) /\ chan[i][3] = "ended" =>
                   /\ j \in ended
                   /\ \A k \in 1 .. Len(chan) : i < k /\ Tells(chan[k], j) => chan[k][3] = "ended"
        BY <2>8 DEF EndIsLast
      <4>2. heard' = heard /\ ended' = ended /\ 1 \in 1 .. Len(chan)
        BY <2>1, <2>2
      <4>3. heard'[j] = "ended" =>
               /\ j \in ended'
               /\ \A i \in 1 .. Len(sending') : Tells(sending'[i], j) => sending'[i][3] = "ended"
               /\ \A i \in 1 .. Len(chan') : Tells(chan'[i], j) => chan'[i][3] = "ended"
        BY <3>1, <4>1, <4>2 DEF Tells
      <4>4. ASSUME NEW i \in 1 .. Len(sending'), Tells(sending'[i], j), sending'[i][3] = "ended"
            PROVE  /\ j \in ended'
                   /\ \A k \in 1 .. Len(chan') : Tells(chan'[k], j) => chan'[k][3] = "ended"
        <5>1. Tells(chan[1], j) /\ chan[1][3] = "ended"
          BY <3>1, <4>4 DEF Tells
        <5>2. /\ j \in ended
              /\ \A k \in 1 .. Len(chan) : 1 < k /\ Tells(chan[k], j) => chan[k][3] = "ended"
          BY <4>1, <4>2, <5>1
        <5>3. QED
          BY <3>1, <4>2, <5>2 DEF Tells
      <4>5. ASSUME NEW i \in 1 .. Len(chan'), Tells(chan'[i], j), chan'[i][3] = "ended"
            PROVE  /\ j \in ended'
                   /\ \A k \in 1 .. Len(chan') :
                        i < k /\ Tells(chan'[k], j) => chan'[k][3] = "ended"
        <5>1. i + 1 \in 1 .. Len(chan) /\ Tells(chan[i + 1], j) /\ chan[i + 1][3] = "ended"
          BY <3>1, <4>5 DEF Tells
        <5>2. /\ j \in ended
              /\ \A k \in 1 .. Len(chan) :
                   i + 1 < k /\ Tells(chan[k], j) => chan[k][3] = "ended"
          BY <4>1, <5>1
        <5>3. ASSUME NEW k \in 1 .. Len(chan'), i < k, Tells(chan'[k], j)
              PROVE  chan'[k][3] = "ended"
          <6>1. k + 1 \in 1 .. Len(chan) /\ chan'[k] = chan[k + 1] /\ i + 1 < k + 1
            BY <3>1, <5>3
          <6>2. QED
            BY <5>2, <5>3, <6>1 DEF Tells
        <5>4. QED
          BY <4>2, <5>2, <5>3
      <4>6. QED
        BY <4>3, <4>4, <4>5
    <3>3. QED
      BY <2>1, <2>8, <3>2 DEF EndIsLast, Tells
  <2>9. QED
    BY <1>b, <2>1, <2>5, <2>8 DEF StatusInv
<1>19. CASE Server!Sent
  <2> DEFINE m == Head(sending)
  <2>1. /\ sending # <<>> /\ sending' = <<>> /\ chan' = chan /\ blocked' = blocked
        /\ wasFull' = wasFull /\ ended' = ended
    BY <1>19 DEF Server!Sent
  <2>2. <<>> \in Seq(Server!Messages) /\ 1 .. Len(<<>>) = {}
    BY EmptySeq
  <2>3. m \in Server!Messages /\ 1 \in 1 .. Len(sending) /\ m = sending[1]
    <3>1. sending \in Seq(Server!Messages)
      BY <1>b DEF StatusTypes
    <3>2. QED
      BY <2>1, <3>1, Queued, HeadTailProperties
  <2>4. m[1] \in {"answer", "job", "worker"} /\ (m[1] = "job" => m[3] \in {"running", "ended"})
    BY <2>3 DEF Server!Messages
  <2>5. \/ heard' = heard
        \/ m[1] = "job" /\ heard' = [heard EXCEPT ![m[2]] = m[3]]
    BY <1>19, <2>4 DEF Server!Sent
  <2>6. StatusTypes'
    <3>1. heard' \in [Jobs -> {"none", "running", "ended"}]
      BY <1>b, <2>4, <2>5 DEF StatusTypes
    <3>2. QED
      BY <1>b, <2>1, <2>2, <3>1 DEF StatusTypes
  <2>7. \A j \in Jobs : heard'[j] = heard[j] \/ (Tells(m, j) /\ heard'[j] = m[3])
    BY <1>b, <2>5 DEF StatusTypes, Tells
  <2>8. EndIsLast => EndIsLast'
    BY <2>1, <2>2, <2>3, <2>7 DEF EndIsLast, Tells
  <2>9. QED
    BY <1>b, <2>1, <2>6, <2>8 DEF StatusInv
<1>20. CASE Server!LoadTick
  <2>1. PICK s \in {"available", "full"} : Server!Queue(Server!Update("load", s))
    BY <1>20 DEF Server!LoadTick
  <2>2. sending' = sending /\ heard' = heard /\ ended' = ended
    BY <1>20 DEF Server!LoadTick
  <2>3. /\ Server!Update("load", s) \in Server!Messages
        /\ \A j \in Jobs : ~Tells(Server!Update("load", s), j)
    BY MessageIs DEF Tells
  <2>4. QED
    BY <2>1, <2>2, <2>3, QueueKeeps
<1>21. ASSUME NEW j \in Jobs, Server!AnswerRequest(j) PROVE StatusInv'
  <2>1. PICK a \in BOOLEAN : Server!Queue(Server!Answer(j, a))
    BY <1>21 DEF Server!AnswerRequest
  <2>2. sending' = sending /\ heard' = heard /\ ended' = ended
    BY <1>21 DEF Server!AnswerRequest
  <2>3. /\ Server!Answer(j, a) \in Server!Messages
        /\ \A k \in Jobs : ~Tells(Server!Answer(j, a), k)
    BY MessageIs DEF Tells
  <2>4. QED
    BY <2>1, <2>2, <2>3, QueueKeeps
<1>22. ASSUME NEW j \in Jobs, NEW event \in {"launched", "closed"}, Server!UpdateJobStatus(j, event)
      PROVE  StatusInv'
  <2>1. Server!Queue(Server!JobUpdate(j)) /\ sending' = sending /\ heard' = heard /\ ended' = ended
    BY <1>22 DEF Server!UpdateJobStatus
  <2>2. /\ Server!JobUpdate(j) \in Server!Messages
        /\ \A k \in Jobs : Tells(Server!JobUpdate(j), k) =>
                             (Server!JobUpdate(j)[3] = "ended" <=> k \in ended)
    BY MessageIs DEF Tells
  <2>3. QED
    BY <2>1, <2>2, QueueKeeps
<1>23. CASE Server!Drain
  <2>1. sending' = sending /\ heard' = heard /\ ended' = ended
    BY <1>23 DEF Server!Drain
  <2>2. CASE conn \in {"connecting", "failed"}
    BY <1>u, <1>23, <2>2 DEF Server!Drain
  <2>3. CASE conn \notin {"connecting", "failed"}
    <3>1. Server!Queue(Server!Update("drain", "full"))
      BY <1>23, <2>3 DEF Server!Drain
    <3>2. /\ Server!Update("drain", "full") \in Server!Messages
          /\ \A j \in Jobs : ~Tells(Server!Update("drain", "full"), j)
      BY MessageIs DEF Tells
    <3>3. QED
      BY <2>1, <3>1, <3>2, QueueKeeps
  <2>4. QED
    BY <2>2, <2>3
<1>24. ASSUME NEW m \in blocked, Server!Unblock(m) PROVE StatusInv'
  <2>1. /\ chan' = Append(chan, m) /\ blocked' = blocked \ {m} /\ wasFull' = wasFull
        /\ sending' = sending /\ heard' = heard
    BY <1>24 DEF Server!Unblock, Server!Put
  <2>2. wasFull
    BY <1>b DEF EndIsLast
  <2>3. Append(chan, m) \in Seq(Server!Messages)
    BY <1>b, AppendProperties DEF StatusTypes
  <2>4. QED
    BY <1>b, <2>1, <2>2, <2>3 DEF StatusInv, StatusTypes
<1>25. CASE UNCHANGED serverVars
  BY <1>u, <1>25 DEF serverVars
<1>26. QED
  BY <1>1, <1>2, <1>3, <1>4, <1>5, <1>6, <1>7, <1>8, <1>9, <1>10, <1>11, <1>12, <1>13, <1>14, <1>15, <1>16, <1>17, <1>18, <1>19, <1>20, <1>21, <1>22, <1>23, <1>24, <1>25 DEF Server!Next

\* What the server hears of a job that has ended is that it ended.
LEMMA StatusImplies ==
    StatusInv /\ [Server!Next]_serverVars =>
        \A j \in Jobs : heard[j] = "ended" => heard'[j] = "ended" \/ wasFull
<1> SUFFICES ASSUME StatusInv, [Server!Next]_serverVars, NEW j \in Jobs, heard[j] = "ended", ~wasFull
             PROVE  heard'[j] = "ended"
  OBVIOUS
<1>1. CASE Server!Sent
  <2> DEFINE m == Head(sending)
  <2>1. sending \in Seq(Server!Messages) /\ sending # <<>> /\ heard \in [Jobs -> {"none", "running", "ended"}]
    BY <1>1 DEF Server!Sent, StatusInv, StatusTypes
  <2>2. 1 \in 1 .. Len(sending) /\ m = sending[1] /\ m \in Server!Messages
    BY <2>1, Queued, HeadTailProperties
  <2>3. m[1] \in {"answer", "job", "worker"}
    BY <2>2 DEF Server!Messages
  <2>4. heard' = heard \/ (m[1] = "job" /\ heard' = [heard EXCEPT ![m[2]] = m[3]])
    BY <1>1, <2>3 DEF Server!Sent
  <2>5. Tells(m, j) => m[3] = "ended"
    BY <2>2 DEF StatusInv, EndIsLast
  <2>6. QED
    BY <2>1, <2>4, <2>5 DEF Tells
<1>2. CASE ~Server!Sent
  <2>1. heard' = heard
    BY <1>2 DEF Server!Next, serverVars, Server!connVars, Server!chanVars, Server!sendVars,
       Server!reqVars, Server!procVars, Server!drainVars, Server!srvVars,
       Server!ConnectFails, Server!RegisterFails, Server!Register, Server!Reconnect,
       Server!DrainGoesOn, Server!DrainTimeout, Server!PoolClosed, Server!FinishClose, Server!Drop, Server!Close,
       Server!Offer, Server!Assign, Server!AssignmentTimeout, Server!Launch, Server!LaunchIsLost, Server!Terminate,
       Server!Spawn, Server!ProcEnds, Server!SendTaskTakes, Server!LoadTick,
       Server!AnswerRequest, Server!UpdateJobStatus, Server!Drain, Server!Unblock
  <2>2. QED
    BY <2>1
<1>3. QED
  BY <1>1, <1>2

-----------------------------------------------------------------------------
(* The types of the worker, of a job's process, of the inference process and of the replies *)

\* The process: what ProcessInv leaves out.
ProcessFlags ==
    worker \in BOOLEAN /\ launched \in BOOLEAN /\ killSent \in BOOLEAN /\ frozen \in BOOLEAN
ProcessRest ==
    /\ traces \in 0 .. MaxTraces /\ freezes \in 0 .. MaxFreezes
    /\ reader \in {"reading", "tracing", "returned"} /\ shutdownFut \in {"pending", "set"}

\* A process begins with them.
LEMMA ProcessRestStart == Process!Init => ProcessFlags /\ ProcessRest
<1> SUFFICES ASSUME Process!Init PROVE ProcessFlags /\ ProcessRest
  OBVIOUS
<1>1. MaxTraces \in Nat /\ MaxFreezes \in Nat
  BY ServicesAssumption
<1>2. ProcessFlags
  BY DEF Process!Init, ProcessFlags
<1>3. ProcessRest
  BY <1>1 DEF Process!Init, ProcessRest
<1>4. QED
  BY <1>2, <1>3

\* Every step of the process keeps them.
LEMMA ProcessRestStep ==
    ProcessFlags /\ ProcessRest /\ [Process!Next]_processVars => ProcessFlags' /\ ProcessRest'
<1> SUFFICES ASSUME ProcessFlags, ProcessRest, [Process!Next]_processVars
             PROVE  ProcessFlags' /\ ProcessRest'
  OBVIOUS
<1>0. MaxTraces \in Nat /\ MaxFreezes \in Nat
  BY ServicesAssumption
<1> USE DEF Process!workerVars, Process!procVars
<1>1. CASE UNCHANGED processVars
  BY <1>1 DEF processVars, ProcessFlags, ProcessRest
<1>2. CASE \/ Process!InitAnswered \/ Process!InitTimeout \/ Process!Supervise
           \/ Process!ReadIpc \/ Process!LaunchJob \/ Process!AskTrace \/ Process!AskClose
           \/ Process!CloseTimeout
  <2>1. ProcessFlags'
    BY <1>2, Zenon DEF ProcessFlags, Process!InitAnswered, Process!InitTimeout,
       Process!Supervise, Process!ReadIpc, Process!LaunchJob, Process!AskTrace,
       Process!AskClose, Process!CloseTimeout, Process!Kill
  <2>2. ProcessRest'
    <3>1. CASE Process!AskTrace
      BY <1>0, <3>1 DEF ProcessRest, Process!AskTrace
    <3>2. CASE ~Process!AskTrace
      BY <1>2, <3>2 DEF ProcessRest, Process!InitAnswered, Process!InitTimeout,
         Process!Supervise, Process!ReadIpc, Process!LaunchJob, Process!AskClose,
         Process!CloseTimeout, Process!Kill
    <3>3. QED
      BY <3>1, <3>2
  <2>3. QED
    BY <2>1, <2>2
<1>3. CASE \/ Process!PongTimeout \/ Process!MemoryKill \/ Process!Joined \/ Process!Closed
           \/ Process!WorkerDies \/ Process!InitializeProcess \/ Process!StartJob
           \/ Process!ReceiveShutdown
  <2>1. ProcessFlags'
    BY <1>3, Zenon DEF ProcessFlags, Process!PongTimeout, Process!MemoryKill, Process!Joined,
       Process!Closed, Process!WorkerDies, Process!InitializeProcess, Process!StartJob,
       Process!ReceiveShutdown, Process!Kill
  <2>2. ProcessRest'
    BY <1>0, <1>3 DEF ProcessRest, Process!PongTimeout, Process!MemoryKill, Process!Joined,
       Process!Closed, Process!WorkerDies, Process!InitializeProcess, Process!StartJob,
       Process!ReceiveShutdown, Process!Kill
  <2>3. QED
    BY <2>1, <2>2
<1>4. CASE \/ Process!ReceiveTrace \/ Process!TraceDone \/ Process!JobAsksShutdown
           \/ Process!LeaveRoom \/ Process!CallbacksEnd \/ Process!Exit \/ Process!OrphanExits
           \/ Process!Freeze \/ Process!Thaw \/ Process!Crash
  <2>1. ProcessFlags'
    BY <1>4, Zenon DEF ProcessFlags, Process!ReceiveTrace, Process!TraceDone,
       Process!JobAsksShutdown, Process!LeaveRoom, Process!CallbacksEnd, Process!Exit,
       Process!OrphanExits, Process!Freeze, Process!Thaw, Process!Crash
  <2>2. ProcessRest'
    BY <1>0, <1>4 DEF ProcessRest, Process!ReceiveTrace, Process!TraceDone,
       Process!JobAsksShutdown, Process!LeaveRoom, Process!CallbacksEnd, Process!Exit,
       Process!OrphanExits, Process!Freeze, Process!Thaw, Process!Crash
  <2>3. QED
    BY <2>1, <2>2
<1>5. QED
  BY <1>1, <1>2, <1>3, <1>4 DEF Process!Next

\* Requests for inference.
Asked == Infer!Requests

InferFlags == reading \in BOOLEAN /\ alive \in BOOLEAN /\ early \in BOOLEAN
InferTypes ==
    /\ client \in [Asked -> {"none", "sending", "waiting", "answered", "cancelled"}]
    /\ task \in [Asked -> {"none", "sending", "waiting", "resolved", "done", "cancelled"}]
    /\ gone \subseteq Clients /\ active \subseteq Asked
    /\ up \in [Clients -> Seq(Asked)] /\ down \in [Clients -> Seq(Asked)]
    /\ queue \in Seq(Asked) /\ replies \in Seq(Asked)
    /\ run \in Seq(Asked) /\ Len(run) <= 1

\* The inference process begins with its types.
LEMMA InferStart == Infer!Init => InferFlags /\ InferTypes
<1> SUFFICES ASSUME Infer!Init PROVE InferFlags /\ InferTypes
  OBVIOUS
<1>1. <<>> \in Seq(Asked) /\ Len(<<>>) = 0
  BY EmptySeq
<1>2. InferTypes
  BY <1>1 DEF Infer!Init, InferTypes, Asked
<1>3. InferFlags
  BY DEF Infer!Init, InferFlags
<1>4. QED
  BY <1>2, <1>3

\* Every step of the inference process keeps its types.
LEMMA InferStep == InferTypes /\ [Infer!Next]_inferVars => InferTypes'
<1> SUFFICES ASSUME InferTypes, [Infer!Next]_inferVars PROVE InferTypes'
  OBVIOUS
<1>0. \A r \in Asked : Infer!JobOf(r) \in Clients
  BY DEF Asked, Infer!Requests, Infer!JobOf
<1>1. CASE UNCHANGED inferVars
  BY <1>1 DEF inferVars, InferTypes, Asked
<1>2. ASSUME NEW r \in Asked, \/ Infer!AskInference(r) \/ Infer!AskRegistered(r)
                              \/ Infer!CallerCancelled(r) \/ Infer!TaskRegistered(r)
                              \/ Infer!Answer(r)
      PROVE  InferTypes'
  <2>1. CASE Infer!AskInference(r)
    BY <1>0, <2>1 DEF InferTypes, Asked, Infer!AskInference, Infer!workerVars,
       Infer!procVars
  <2>2. CASE Infer!AskRegistered(r) \/ Infer!CallerCancelled(r)
    BY <2>2 DEF InferTypes, Asked, Infer!AskRegistered, Infer!CallerCancelled,
       Infer!workerVars, Infer!procVars
  <2>3. CASE Infer!TaskRegistered(r)
    BY <2>3 DEF InferTypes, Asked, Infer!TaskRegistered, Infer!clientVars,
       Infer!procVars
  <2>4. CASE Infer!Answer(r)
    BY <1>0, <2>4 DEF InferTypes, Asked, Infer!Answer, Infer!procVars
  <2>5. QED
    BY <1>2, <2>1, <2>2, <2>3, <2>4
<1>3. ASSUME NEW j \in Clients, \/ Infer!ReadAnswer(j) \/ Infer!StartInference(j)
                                \/ Infer!JobEnds(j)
      PROVE  InferTypes'
  <2>1. CASE Infer!ReadAnswer(j)
    <3>1. Head(down[j]) \in Asked /\ Tail(down[j]) \in Seq(Asked)
      BY <2>1, HeadTailProperties DEF InferTypes, Infer!ReadAnswer
    <3>2. QED
      BY <2>1, <3>1 DEF InferTypes, Asked, Infer!ReadAnswer, Infer!procVars
  <2>2. CASE Infer!StartInference(j)
    <3>1. Head(up[j]) \in Asked /\ Tail(up[j]) \in Seq(Asked)
      BY <2>2, HeadTailProperties DEF InferTypes, Infer!StartInference
    <3>2. QED
      BY <2>2, <3>1 DEF InferTypes, Asked, Infer!StartInference
  <2>3. CASE Infer!JobEnds(j)
    BY <2>3 DEF InferTypes, Asked, Infer!JobEnds, Infer!CancelTasks,
       Infer!procVars
  <2>4. QED
    BY <1>3, <2>1, <2>2, <2>3
<1>4. CASE Infer!ReadReply
  <2>1. Head(replies) \in Asked /\ Tail(replies) \in Seq(Asked)
    BY <1>4, HeadTailProperties DEF InferTypes, Infer!ReadReply
  <2>2. QED
    BY <1>4, <2>1 DEF InferTypes, Asked, Infer!ReadReply, Infer!clientVars
<1>5. CASE Infer!RunInference
  <2>1. Head(queue) \in Asked /\ Tail(queue) \in Seq(Asked)
    BY <1>5, HeadTailProperties DEF InferTypes, Infer!RunInference
  <2>2. QED
    BY <1>5, <2>1 DEF InferTypes, Asked, Infer!RunInference, Infer!clientVars,
       Infer!workerVars
<1>6. CASE Infer!Respond
  <2>1. replies \o run \in Seq(Asked) /\ <<>> \in Seq(Asked) /\ Len(<<>>) = 0
    BY ConcatProperties, EmptySeq DEF InferTypes
  <2>2. QED
    BY <1>6, <2>1 DEF InferTypes, Asked, Infer!Respond, Infer!clientVars, Infer!workerVars
<1>7. CASE Infer!InferenceEnds
  <2>1. <<>> \in Seq(Asked) /\ Len(<<>>) = 0
    BY EmptySeq
  <2>2. QED
    BY <1>7, <2>1 DEF InferTypes, Asked, Infer!InferenceEnds, Infer!clientVars,
       Infer!workerVars
<1>8. QED
  BY <1>1, <1>2, <1>3, <1>4, <1>5, <1>6, <1>7 DEF Infer!Next, Asked

\* Every step of the inference process keeps its flags.
LEMMA InferFlagsStep == InferFlags /\ [Infer!Next]_inferVars => InferFlags'
<1> SUFFICES ASSUME InferFlags, [Infer!Next]_inferVars PROVE InferFlags'
  OBVIOUS
<1>1. CASE UNCHANGED inferVars
  BY <1>1 DEF inferVars, InferFlags
<1>2. CASE Infer!Next
  BY <1>2, Zenon DEF InferFlags, Infer!Next, Infer!AskInference, Infer!AskRegistered,
     Infer!CallerCancelled, Infer!TaskRegistered, Infer!Answer, Infer!ReadAnswer,
     Infer!StartInference, Infer!JobEnds, Infer!CancelTasks, Infer!ReadReply,
     Infer!RunInference, Infer!Respond, Infer!InferenceEnds, Infer!clientVars,
     Infer!workerVars, Infer!procVars
<1>3. QED
  BY <1>1, <1>2

\* The session: what ReplyInv leaves out.
ReplyFlags == ws \in BOOLEAN /\ chClosed \in BOOLEAN
ReplyRest ==
    /\ link \in {"connecting", "up", "expired", "dead", "over"}
    /\ generationAwaited \in {0} \cup Realtime!Gens /\ generation \in {0} \cup Realtime!Gens
    /\ recoveries \in 0 .. MaxRecovery

\* A session begins with them.
LEMMA ReplyRestStart == Realtime!Init => ReplyFlags /\ ReplyRest
<1> SUFFICES ASSUME Realtime!Init PROVE ReplyFlags /\ ReplyRest
  OBVIOUS
<1>1. MaxRecovery \in Nat
  BY ServicesAssumption
<1>2. ReplyFlags
  BY DEF Realtime!Init, ReplyFlags
<1>3. ReplyRest
  BY <1>1 DEF Realtime!Init, ReplyRest
<1>4. QED
  BY <1>2, <1>3

\* Every step of the session keeps them.
LEMMA ReplyRestStep == ReplyRest /\ [Realtime!Next]_replyVars => ReplyRest'
<1> SUFFICES ASSUME ReplyRest, [Realtime!Next]_replyVars PROVE ReplyRest'
  OBVIOUS
<1>0. MaxRecovery \in Nat
  BY ServicesAssumption
<1>1. CASE UNCHANGED replyVars
  BY <1>1 DEF replyVars, ReplyRest
<1>2. ASSUME NEW r \in Realtime!Replies, Realtime!GenerateReply(r) \/ Realtime!ReplyTimeout(r)
      PROVE  ReplyRest'
  BY <1>0, <1>2 DEF ReplyRest, Realtime!GenerateReply, Realtime!ReplyTimeout, Realtime!connVars,
     Realtime!genVars, Realtime!textVars
<1>3. CASE \/ Realtime!Close \/ Realtime!Connected \/ Realtime!ConnectFails \/ Realtime!Send
           \/ Realtime!ConnectionLost
  BY <1>3 DEF ReplyRest, Realtime!Close, Realtime!Connected, Realtime!ConnectFails,
     Realtime!Send, Realtime!ConnectionLost, Realtime!connVars, Realtime!genVars,
     Realtime!textVars
<1>4. CASE \/ Realtime!RecvFails \/ Realtime!SendFails \/ Realtime!SendEnds \/ Realtime!Expire
           \/ Realtime!ExpiredEnds
  BY <1>4 DEF ReplyRest, Realtime!RecvFails, Realtime!SendFails, Realtime!SendEnds,
     Realtime!Expire, Realtime!ExpiredEnds, Realtime!NextConnection, Realtime!connVars,
     Realtime!genVars, Realtime!textVars
<1>5. ASSUME NEW g \in Realtime!Gens, NEW r \in {0} \cup Realtime!Replies,
             Realtime!ResponseCreated(r, g)
      PROVE  ReplyRest'
  BY <1>5 DEF ReplyRest, Realtime!ResponseCreated, Realtime!connVars, Realtime!textVars
<1>6. CASE \/ Realtime!Item \/ Realtime!Text \/ Realtime!Recovered \/ Realtime!RecoveryTimeout
           \/ Realtime!ResponseDone
  BY <1>0, <1>6 DEF ReplyRest, Realtime!Item, Realtime!Text, Realtime!Recovered,
     Realtime!RecoveryTimeout, Realtime!ResponseDone, Realtime!connVars, Realtime!genVars,
     Realtime!textVars
<1>7. QED
  BY <1>1, <1>2, <1>3, <1>4, <1>5, <1>6 DEF Realtime!Next

\* Every step of the session keeps its flags.
LEMMA ReplyFlagsStep == ReplyFlags /\ [Realtime!Next]_replyVars => ReplyFlags'
<1> SUFFICES ASSUME ReplyFlags, [Realtime!Next]_replyVars PROVE ReplyFlags'
  OBVIOUS
<1>1. CASE UNCHANGED replyVars
  BY <1>1 DEF replyVars, ReplyFlags
<1>2. CASE Realtime!Next
  BY <1>2, Zenon DEF ReplyFlags, Realtime!Next, Realtime!GenerateReply, Realtime!ReplyTimeout,
     Realtime!Close, Realtime!Connected, Realtime!ConnectFails, Realtime!Send,
     Realtime!ConnectionLost, Realtime!RecvFails, Realtime!SendFails, Realtime!SendEnds,
     Realtime!Expire, Realtime!ExpiredEnds, Realtime!NextConnection, Realtime!ResponseCreated,
     Realtime!Item, Realtime!Text, Realtime!Recovered, Realtime!RecoveryTimeout,
     Realtime!ResponseDone, Realtime!connVars, Realtime!genVars, Realtime!textVars
<1>3. QED
  BY <1>1, <1>2

\* The worker: the connection, what is told to the server, the requests, the processes of the
\* pool, which are listed once, and the drain.
ServerFlags == wasFull \in BOOLEAN /\ draining \in BOOLEAN
ConnTypes ==
    /\ conn \in {"connecting", "up", "dropped", "failed", "cancelled"}
    /\ retries \in 0 .. MaxRetry + 1 /\ drops \in 0 .. MaxDrops
ChanTypes ==
    /\ chan \in Seq(Server!Messages) /\ Len(chan) <= Capacity /\ blocked \subseteq Server!Messages
    /\ sending \in Seq(Server!Messages) /\ Len(sending) <= 1 /\ lost \subseteq Jobs
RequestTypes ==
    /\ req \in [Jobs -> {"none", "asked", "answering", "waiting", "assigned", "launched",
                         "timed out", "done", "lost"}]
    /\ pending \subseteq Jobs
SeenTypes ==
    /\ tasks \subseteq Jobs \X {"launched", "closed"}
    /\ srv \in [Jobs -> {"none", "offered", "accepted", "refused", "assigned"}]
    /\ heard \in [Jobs -> {"none", "running", "ended"}]
    /\ seen \in {"available", "full"}
PoolTypes ==
    /\ listed \in Seq(Server!Procs) /\ \A i, j \in 1 .. Len(listed) : listed[i] = listed[j] => i = j
    /\ jobOf \in [Server!Procs -> Jobs \cup {NoJob}]
    /\ stopping \subseteq Server!Procs /\ ended \subseteq Jobs
DrainTypes ==
    /\ drain \in {"no", "telling", "waiting", "done", "timed out"}
    /\ visited \in 0 .. MaxProcs /\ awaited \in 0 .. MaxProcs
CloseTypes == close \in {"no", "pool", "tasks", "done"}
ServerTypes ==
    /\ ConnTypes /\ ChanTypes /\ RequestTypes /\ SeenTypes /\ PoolTypes /\ DrainTypes
    /\ CloseTypes

\* The list is not longer than there are processes.
LEMMA ListedFits == PoolTypes => Len(listed) <= MaxProcs
<1> SUFFICES ASSUME PoolTypes PROVE Len(listed) <= MaxProcs
  OBVIOUS
<1>1. MaxProcs \in Nat /\ Len(listed) \in Nat
  BY ServicesAssumption, LenProperties DEF PoolTypes
<1>2. listed \in Injection(1 .. Len(listed), Server!Procs)
  BY LenProperties DEF PoolTypes, Injection, IsInjective
<1>3. IsFiniteSet(Server!Procs) /\ Cardinality(Server!Procs) = MaxProcs
  BY <1>1, FS_Interval DEF Server!Procs
<1>4. Cardinality(1 .. Len(listed)) <= MaxProcs
  BY <1>2, <1>3, FS_Injection
<1>5. Cardinality(1 .. Len(listed)) = Len(listed)
  BY <1>1, FS_Interval
<1>6. QED
  BY <1>4, <1>5

\* The next process to wait for is in the list.
LEMMA VisitTypes ==
    ASSUME PoolTypes, NEW k \in Nat, Server!VisitFrom(k)
    PROVE  DrainTypes'
<1>1. MaxProcs \in Nat /\ Len(listed) \in Nat /\ Len(listed) <= MaxProcs
  BY ServicesAssumption, ListedFits, LenProperties DEF PoolTypes
<1> DEFINE ahead == {i \in k + 1 .. Len(listed) : Server!Busy(listed[i])}
<1>2. CASE ahead = {}
  BY <1>1, <1>2 DEF Server!VisitFrom, DrainTypes
<1>3. CASE ahead # {}
  <2> DEFINE p == CHOOSE x \in ahead : \A y \in ahead : x <= y
  <2>1. ahead \in SUBSET Nat
    BY <1>1
  <2>2. \E x \in ahead : \A y \in ahead : x <= y
    BY <1>3, <2>1, LeastIsFirst
  <2>3. p \in ahead
    BY <2>2
  <2>4. p \in 1 .. Len(listed)
    BY <1>1, <2>3
  <2>5. listed[p] \in 1 .. MaxProcs
    BY <2>4, ElementOfSeq DEF PoolTypes, Server!Procs
  <2>6. drain' = "waiting" /\ visited' = p /\ awaited' = listed[p]
    BY <1>3 DEF Server!VisitFrom, Server!Min
  <2>7. QED
    BY <1>1, <2>4, <2>5, <2>6 DEF DrainTypes
<1>4. QED
  BY <1>2, <1>3

\* The fields of a message.
LEMMA MessageFields ==
    ASSUME NEW m \in Server!Messages
    PROVE  /\ m[1] = "answer" => m[2] \in Jobs
           /\ m[1] = "job" => m[2] \in Jobs /\ m[3] \in {"running", "ended"}
           /\ m[1] = "worker" => m[3] \in {"available", "full"}
           /\ m[1] \in {"answer", "job", "worker"}
BY DEF Server!Messages

\* A message put into a channel that has room leaves the types.
LEMMA PutTypes ==
    ASSUME ChanTypes, RequestTypes, PoolTypes, DrainTypes, NEW m \in Server!Messages,
           Len(chan) < Capacity, Server!Put(m)
    PROVE  /\ chan' \in Seq(Server!Messages) /\ Len(chan') <= Capacity
           /\ RequestTypes' /\ DrainTypes'
<1>1. Capacity \in Nat
  BY ServicesAssumption
<1>2. chan' \in Seq(Server!Messages) /\ Len(chan') <= Capacity
  BY <1>1, AppendProperties DEF Server!Put, ChanTypes
<1>3. RequestTypes'
  BY MessageFields DEF Server!Put, RequestTypes, Server!reqVars
<1>4. DrainTypes'
  <2>1. CASE m[1] = "worker" /\ m[2] = "drain"
    BY <2>1, VisitTypes DEF Server!Put
  <2>2. CASE ~(m[1] = "worker" /\ m[2] = "drain")
    BY <2>2 DEF Server!Put, DrainTypes
  <2>3. QED
    BY <2>1, <2>2
<1>5. QED
  BY <1>2, <1>3, <1>4

\* A message that is put or waits for room leaves the types.
LEMMA QueueTypes ==
    ASSUME ChanTypes, RequestTypes, PoolTypes, DrainTypes, NEW m \in Server!Messages,
           Server!Queue(m), UNCHANGED Server!sendVars
    PROVE  ChanTypes' /\ RequestTypes' /\ DrainTypes'
<1>1. CASE Len(chan) < Capacity
  BY <1>1, PutTypes DEF Server!Queue, Server!sendVars, ChanTypes
<1>2. CASE ~(Len(chan) < Capacity)
  <2>1. ChanTypes'
    BY <1>2 DEF Server!Queue, Server!sendVars, ChanTypes
  <2>2. RequestTypes'
    BY <1>2, MessageFields DEF Server!Queue, RequestTypes
  <2>3. DrainTypes'
    BY <1>2 DEF Server!Queue, DrainTypes
  <2>4. QED
    BY <2>1, <2>2, <2>3
<1>3. QED
  BY <1>1, <1>2

\* The worker begins with its types.
LEMMA ServerStart == Server!Init => ServerFlags /\ ServerTypes
<1> SUFFICES ASSUME Server!Init PROVE ServerFlags /\ ServerTypes
  OBVIOUS
<1>1. MaxRetry \in Nat /\ MaxDrops \in Nat /\ Capacity \in Nat /\ MaxProcs \in Nat
  BY ServicesAssumption
<1>2. \A S : <<>> \in Seq(S) /\ Len(<<>>) = 0
  BY EmptySeq
<1>3. ServerFlags
  BY DEF Server!Init, ServerFlags
<1>4. ConnTypes /\ RequestTypes /\ SeenTypes /\ DrainTypes /\ CloseTypes
  BY <1>1 DEF Server!Init, ConnTypes, RequestTypes, SeenTypes, DrainTypes, CloseTypes
<1>5. ChanTypes
  BY <1>1, <1>2 DEF Server!Init, ChanTypes
<1>6. PoolTypes
  BY <1>1, <1>2 DEF Server!Init, PoolTypes
<1>7. QED
  BY <1>3, <1>4, <1>5, <1>6 DEF ServerTypes

\* Every step of the worker keeps its flags.
LEMMA ServerFlagsStep == ServerFlags /\ [Server!Next]_serverVars => ServerFlags'
<1> SUFFICES ASSUME ServerFlags, [Server!Next]_serverVars PROVE ServerFlags'
  OBVIOUS
<1>1. CASE UNCHANGED serverVars
  BY <1>1 DEF serverVars, ServerFlags
<1>2. CASE Server!Next
  BY <1>2, Zenon DEF ServerFlags, Server!Next, Server!ConnectFails, Server!RegisterFails,
     Server!Register, Server!Drop, Server!Reconnect, Server!SendTaskTakes, Server!Sent,
     Server!LoadTick, Server!Unblock, Server!Offer, Server!AnswerRequest, Server!Assign,
     Server!AssignmentTimeout, Server!Launch, Server!LaunchIsLost, Server!Terminate,
     Server!UpdateJobStatus, Server!Spawn, Server!ProcEnds, Server!Drain, Server!DrainGoesOn,
     Server!DrainTimeout, Server!Close, Server!PoolClosed, Server!FinishClose, Server!Queue,
     Server!chanVars, Server!drainVars
<1>3. QED
  BY <1>1, <1>2

\* A process leaves the list.
LEMMA LeavesList ==
    ASSUME PoolTypes, NEW n \in 1 .. Len(listed)
    PROVE  LET rest == Server!RemoveAt(listed, n)
           IN /\ rest \in Seq(Server!Procs)
              /\ \A i, j \in 1 .. Len(rest) : rest[i] = rest[j] => i = j
<1> DEFINE rest == Server!RemoveAt(listed, n)
<1>1. listed \in Seq(Server!Procs) /\ Len(listed) \in Nat /\ n \in Nat
  BY LenProperties DEF PoolTypes
<1>2. rest \in Seq(Server!Procs) /\ Len(rest) = Len(listed) - 1
  BY <1>1, Removed DEF Server!RemoveAt
<1>4. \A i \in 1 .. Len(rest) : rest[i] = listed[IF i < n THEN i ELSE i + 1]
  <2>1. \A i \in 1 .. Len(listed) - 1 : rest[i] = IF i < n THEN listed[i] ELSE listed[i + 1]
    BY <1>1, Removed DEF Server!RemoveAt
  <2> HIDE DEF rest
  <2>2. QED
    BY <1>2, <2>1
<1> HIDE DEF rest
<1>5. ASSUME NEW i \in 1 .. Len(rest), NEW j \in 1 .. Len(rest), rest[i] = rest[j]
      PROVE  i = j
  <2> DEFINE At(k) == IF k < n THEN k ELSE k + 1
  <2>1. At(i) \in 1 .. Len(listed) /\ At(j) \in 1 .. Len(listed)
    BY <1>1, <1>2
  <2>2. listed[At(i)] = listed[At(j)]
    BY <1>4, <1>5
  <2>3. At(i) = At(j)
    BY <2>1, <2>2 DEF PoolTypes
  <2>4. QED
    BY <1>1, <1>2, <2>3
<1>6. QED
  BY <1>2, <1>5 DEF rest

\* Every step of the worker keeps its types.
LEMMA ServerStep == ServerTypes /\ [Server!Next]_serverVars => ServerTypes'
<1> SUFFICES ASSUME ServerTypes, [Server!Next]_serverVars PROVE ServerTypes'
  OBVIOUS
<1> USE DEF Server!connVars, Server!chanVars, Server!sendVars, Server!reqVars, Server!procVars,
        Server!drainVars, Server!srvVars
<1>b. /\ ConnTypes /\ ChanTypes /\ RequestTypes /\ SeenTypes /\ PoolTypes /\ DrainTypes
      /\ CloseTypes
  BY DEF ServerTypes
<1>n. MaxRetry \in Nat /\ MaxDrops \in Nat /\ Capacity \in Nat /\ MaxProcs \in Nat
  BY ServicesAssumption
<1>p. MaxProcs \in Nat
  BY ServicesAssumption
<1>e. \A S : <<>> \in Seq(S) /\ Len(<<>>) = 0
  BY EmptySeq
<1>r. /\ Server!Range(listed) \subseteq Server!Procs
      /\ \A p \in Server!Range(listed) : \E i \in 1 .. Len(listed) : listed[i] = p
  BY <1>b, ElementOfSeq, LenProperties DEF PoolTypes, Server!Range
<1>a. Server!AnswersIn(sending) \subseteq Jobs
  <2>1. \A m \in Server!Range(sending) : m \in Server!Messages
    BY <1>b, ElementOfSeq, LenProperties DEF ChanTypes, Server!Range
  <2>2. QED
    BY <2>1, MessageFields DEF Server!AnswersIn
<1>1. CASE UNCHANGED serverVars
  BY <1>b, <1>1 DEF serverVars, ServerTypes, ConnTypes, ChanTypes, RequestTypes, SeenTypes,
     PoolTypes, DrainTypes, CloseTypes
<1>2. CASE \/ Server!ConnectFails \/ Server!RegisterFails \/ Server!Register \/ Server!Reconnect
  <2>1. ConnTypes'
    BY <1>b, <1>n, <1>2 DEF ConnTypes, Server!ConnectFails, Server!RegisterFails,
       Server!Register, Server!Reconnect, Server!NewTry
  <2>2. /\ ChanTypes' /\ RequestTypes' /\ SeenTypes' /\ PoolTypes' /\ DrainTypes' /\ CloseTypes'
    BY <1>b, <1>2 DEF ChanTypes, RequestTypes, SeenTypes, PoolTypes, DrainTypes, CloseTypes,
       Server!ConnectFails, Server!RegisterFails, Server!Register, Server!Reconnect
  <2>3. QED
    BY <2>1, <2>2 DEF ServerTypes
<1>3. CASE Server!Drop
  <2>1. ConnTypes'
    BY <1>b, <1>n, <1>3 DEF ConnTypes, Server!Drop
  <2>2. ChanTypes'
    BY <1>b, <1>e, <1>a, <1>3 DEF ChanTypes, Server!Drop
  <2>3. RequestTypes' /\ SeenTypes' /\ PoolTypes' /\ DrainTypes' /\ CloseTypes'
    BY <1>b, <1>3 DEF RequestTypes, SeenTypes, PoolTypes, DrainTypes, CloseTypes, Server!Drop
  <2>4. QED
    BY <2>1, <2>2, <2>3 DEF ServerTypes
<1>4. CASE Server!SendTaskTakes
  <2>1. Head(chan) \in Server!Messages /\ Tail(chan) \in Seq(Server!Messages)
        /\ Len(Tail(chan)) = Len(chan) - 1 /\ Len(chan) \in Nat
    BY <1>b, <1>4, HeadTailProperties, LenProperties DEF ChanTypes, Server!SendTaskTakes
  <2>2. ChanTypes'
    BY <1>b, <1>n, <1>4, <2>1 DEF ChanTypes, Server!SendTaskTakes
  <2>3. ConnTypes' /\ RequestTypes' /\ SeenTypes' /\ PoolTypes' /\ DrainTypes' /\ CloseTypes'
    BY <1>b, <1>4 DEF ConnTypes, RequestTypes, SeenTypes, PoolTypes, DrainTypes, CloseTypes,
       Server!SendTaskTakes
  <2>4. QED
    BY <2>2, <2>3 DEF ServerTypes
<1>5. CASE Server!Sent
  <2>1. Head(sending) \in Server!Messages
    BY <1>b, <1>5, HeadTailProperties DEF ChanTypes, Server!Sent
  <2>2. SeenTypes'
    BY <1>b, <1>5, <2>1, MessageFields DEF SeenTypes, Server!Sent
  <2>3. ChanTypes'
    BY <1>b, <1>e, <1>5 DEF ChanTypes, Server!Sent
  <2>4. ConnTypes' /\ RequestTypes' /\ PoolTypes' /\ DrainTypes' /\ CloseTypes'
    BY <1>b, <1>5 DEF ConnTypes, RequestTypes, PoolTypes, DrainTypes, CloseTypes, Server!Sent
  <2>5. QED
    BY <2>2, <2>3, <2>4 DEF ServerTypes
<1>6. CASE Server!LoadTick
  <2>1. PICK s \in {"available", "full"} : Server!Queue(Server!Update("load", s))
    BY <1>6 DEF Server!LoadTick
  <2>2. Server!Update("load", s) \in Server!Messages
    BY MessageIs
  <2>3. ChanTypes' /\ RequestTypes' /\ DrainTypes'
    BY <1>b, <1>6, <2>1, <2>2, QueueTypes DEF Server!LoadTick
  <2>4. ConnTypes' /\ SeenTypes' /\ PoolTypes' /\ CloseTypes'
    BY <1>b, <1>6 DEF ConnTypes, SeenTypes, PoolTypes, CloseTypes, Server!LoadTick
  <2>5. QED
    BY <2>3, <2>4 DEF ServerTypes
<1>7. ASSUME NEW m \in blocked, Server!Unblock(m) PROVE ServerTypes'
  <2>1. m \in Server!Messages /\ Len(chan) < Capacity /\ Server!Put(m)
    BY <1>b, <1>7 DEF ChanTypes, Server!Unblock
  <2>2. /\ chan' \in Seq(Server!Messages) /\ Len(chan') <= Capacity
        /\ RequestTypes' /\ DrainTypes'
    BY <1>b, <2>1, PutTypes
  <2>3. ChanTypes'
    BY <1>b, <1>7, <2>2 DEF ChanTypes, Server!Unblock
  <2>4. ConnTypes' /\ SeenTypes' /\ PoolTypes' /\ CloseTypes'
    BY <1>b, <1>7 DEF ConnTypes, SeenTypes, PoolTypes, CloseTypes, Server!Unblock
  <2>5. QED
    BY <2>2, <2>3, <2>4 DEF ServerTypes
<1>8. ASSUME NEW j \in Jobs, Server!Offer(j) \/ Server!Assign(j) \/ Server!AssignmentTimeout(j)
      PROVE  ServerTypes'
  <2>1. RequestTypes'
    BY <1>b, <1>8 DEF RequestTypes, Server!Offer, Server!Assign, Server!AssignmentTimeout
  <2>2. SeenTypes'
    BY <1>b, <1>8 DEF SeenTypes, Server!Offer, Server!Assign, Server!AssignmentTimeout
  <2>3. ConnTypes' /\ ChanTypes' /\ PoolTypes' /\ DrainTypes' /\ CloseTypes'
    BY <1>b, <1>8 DEF ConnTypes, ChanTypes, PoolTypes, DrainTypes, CloseTypes, Server!Offer,
       Server!Assign, Server!AssignmentTimeout
  <2>4. QED
    BY <2>1, <2>2, <2>3 DEF ServerTypes
<1>9. ASSUME NEW j \in Jobs, Server!AnswerRequest(j) PROVE ServerTypes'
  <2>1. PICK accept \in BOOLEAN : Server!Queue(Server!Answer(j, accept))
    BY <1>9 DEF Server!AnswerRequest
  <2>2. Server!Answer(j, accept) \in Server!Messages
    BY MessageIs
  <2>3. ChanTypes' /\ RequestTypes' /\ DrainTypes'
    BY <1>b, <1>9, <2>1, <2>2, QueueTypes DEF Server!AnswerRequest
  <2>4. ConnTypes' /\ SeenTypes' /\ PoolTypes' /\ CloseTypes'
    BY <1>b, <1>9 DEF ConnTypes, SeenTypes, PoolTypes, CloseTypes, Server!AnswerRequest
  <2>5. QED
    BY <2>3, <2>4 DEF ServerTypes
<1>10. ASSUME NEW j \in Jobs, \/ Server!Launch(j) \/ Server!LaunchIsLost(j) \/ Server!Terminate(j)
       PROVE  ServerTypes'
  <2>1. RequestTypes' /\ SeenTypes'
    <3>1. CASE Server!Launch(j)
      <4>1. /\ req' = [req EXCEPT ![j] = "launched"] /\ UNCHANGED pending
            /\ tasks' = tasks \cup {<<j, "launched">>} /\ UNCHANGED <<srv, heard, seen>>
        BY <3>1 DEF Server!Launch
      <4>2. RequestTypes'
        BY <1>b, <4>1 DEF RequestTypes
      <4>3. tasks' \subseteq Jobs \X {"launched", "closed"}
        BY <1>b, <4>1 DEF SeenTypes
      <4>4. QED
        BY <1>b, <4>1, <4>2, <4>3 DEF SeenTypes
    <3>2. CASE Server!LaunchIsLost(j) \/ Server!Terminate(j)
      BY <1>b, <3>2 DEF RequestTypes, SeenTypes, Server!LaunchIsLost, Server!Terminate
    <3>3. QED
      BY <1>10, <3>1, <3>2
  <2>2. PoolTypes'
    BY <1>b, <1>r, <1>10 DEF PoolTypes, Server!Launch, Server!LaunchIsLost, Server!Terminate
  <2>3. ConnTypes' /\ ChanTypes' /\ DrainTypes' /\ CloseTypes'
    BY <1>b, <1>10 DEF ConnTypes, ChanTypes, DrainTypes, CloseTypes, Server!Launch,
       Server!LaunchIsLost, Server!Terminate
  <2>4. QED
    BY <2>1, <2>2, <2>3 DEF ServerTypes
<1>11. ASSUME NEW j \in Jobs, NEW event \in {"launched", "closed"},
              Server!UpdateJobStatus(j, event)
       PROVE  ServerTypes'
  <2>1. Server!JobUpdate(j) \in Server!Messages
    BY MessageIs
  <2>2. ChanTypes' /\ RequestTypes' /\ DrainTypes'
    BY <1>b, <1>11, <2>1, QueueTypes DEF Server!UpdateJobStatus
  <2>3. ConnTypes' /\ SeenTypes' /\ PoolTypes' /\ CloseTypes'
    BY <1>b, <1>11 DEF ConnTypes, SeenTypes, PoolTypes, CloseTypes, Server!UpdateJobStatus
  <2>4. QED
    BY <2>2, <2>3 DEF ServerTypes
<1>12. ASSUME NEW p \in Server!Procs, Server!Spawn(p) PROVE ServerTypes'
  <2>1. PoolTypes'
    <3>1. /\ listed' = Append(listed, p) /\ \A i \in 1 .. Len(listed) : listed[i] # p
          /\ UNCHANGED <<jobOf, stopping, ended>>
      BY <1>12 DEF Server!Spawn, Server!Range, PoolTypes
    <3>2. /\ Append(listed, p) \in Seq(Server!Procs) /\ Len(listed) \in Nat
          /\ Len(Append(listed, p)) = Len(listed) + 1
          /\ \A i \in 1 .. Len(listed) : Append(listed, p)[i] = listed[i]
          /\ Append(listed, p)[Len(listed) + 1] = p
      BY <1>b, AppendProperties, LenProperties DEF PoolTypes
    <3>3. \A i, j \in 1 .. Len(listed') : listed'[i] = listed'[j] => i = j
      BY <1>b, <3>1, <3>2 DEF PoolTypes
    <3>4. QED
      BY <1>b, <3>1, <3>2, <3>3 DEF PoolTypes
  <2>2. /\ ConnTypes' /\ ChanTypes' /\ RequestTypes' /\ SeenTypes' /\ DrainTypes' /\ CloseTypes'
    BY <1>b, <1>12 DEF ConnTypes, ChanTypes, RequestTypes, SeenTypes, DrainTypes, CloseTypes,
       Server!Spawn
  <2>3. QED
    BY <2>1, <2>2 DEF ServerTypes
<1>13. ASSUME NEW p \in Server!Procs, Server!ProcEnds(p) PROVE ServerTypes'
  <2> DEFINE n == CHOOSE i \in DOMAIN listed : listed[i] = p
  <2>1. n \in 1 .. Len(listed)
    BY <1>b, <1>r, <1>13, LenProperties DEF Server!ProcEnds, Server!Range, PoolTypes
  <2>2. listed' = Server!RemoveAt(listed, n) /\ UNCHANGED <<jobOf, stopping>>
    BY <1>13 DEF Server!ProcEnds, Server!RemoveAt
  <2>3. Server!Busy(p) => jobOf[p] \in Jobs
    BY <1>b DEF PoolTypes, Server!Busy
  <2>4. ended' \subseteq Jobs /\ tasks' \subseteq Jobs \X {"launched", "closed"}
    BY <1>b, <1>13, <2>3 DEF PoolTypes, SeenTypes, Server!ProcEnds
  <2>5. PoolTypes'
    <3> DEFINE rest == Server!RemoveAt(listed, n)
    <3>1. /\ rest \in Seq(Server!Procs)
          /\ \A i, j \in 1 .. Len(rest) : rest[i] = rest[j] => i = j
      BY <1>b, <2>1, LeavesList
    <3>2. listed' = rest
      BY <2>2
    <3> HIDE DEF rest, n
    <3>3. QED
      BY <1>b, <2>2, <2>4, <3>1, <3>2 DEF PoolTypes
  <2>6. SeenTypes' /\ ConnTypes' /\ ChanTypes' /\ RequestTypes' /\ DrainTypes' /\ CloseTypes'
    BY <1>b, <1>13, <2>4 DEF SeenTypes, ConnTypes, ChanTypes, RequestTypes, DrainTypes,
       CloseTypes, Server!ProcEnds
  <2>7. QED
    BY <2>5, <2>6 DEF ServerTypes
<1>14. CASE Server!Drain
  <2>1. ChanTypes' /\ RequestTypes' /\ DrainTypes'
    <3>1. CASE conn \in {"connecting", "failed"}
      <4>1. DrainTypes'
        BY <1>b, <1>14, <3>1, VisitTypes DEF Server!Drain
      <4>2. QED
        BY <1>b, <1>14, <3>1, <4>1 DEF Server!Drain, ChanTypes, RequestTypes
    <3>2. CASE conn \notin {"connecting", "failed"}
      <4>1. Server!Update("drain", "full") \in Server!Messages
        BY MessageIs
      <4>2. QED
        BY <1>b, <1>14, <3>2, <4>1, QueueTypes DEF Server!Drain
    <3>3. QED
      BY <3>1, <3>2
  <2>2. ConnTypes' /\ SeenTypes' /\ PoolTypes' /\ CloseTypes'
    BY <1>b, <1>14 DEF ConnTypes, SeenTypes, PoolTypes, CloseTypes, Server!Drain
  <2>3. QED
    BY <2>1, <2>2 DEF ServerTypes
<1>15. CASE Server!DrainGoesOn \/ Server!DrainTimeout
  <2>1. DrainTypes'
    <3>1. CASE Server!DrainGoesOn
      <4>1. visited \in Nat
        <5>1. visited \in 0 .. MaxProcs
          BY <1>b DEF DrainTypes
        <5>2. QED
          BY <1>p, <5>1
      <4>2. QED
        BY <1>b, <3>1, <4>1, VisitTypes DEF Server!DrainGoesOn
    <3>2. CASE Server!DrainTimeout
      <4>1. 0 \in 0 .. MaxProcs
        BY <1>p
      <4>2. drain' = "timed out" /\ visited' = 0 /\ awaited' = 0
        BY <3>2 DEF Server!DrainTimeout
      <4>3. QED
        BY <4>1, <4>2 DEF DrainTypes
    <3>3. QED
      BY <1>15, <3>1, <3>2
  <2>2. ConnTypes' /\ ChanTypes' /\ RequestTypes' /\ SeenTypes' /\ PoolTypes' /\ CloseTypes'
    BY <1>b, <1>15 DEF ConnTypes, ChanTypes, RequestTypes, SeenTypes, PoolTypes, CloseTypes,
       Server!DrainGoesOn, Server!DrainTimeout
  <2>3. QED
    BY <2>1, <2>2 DEF ServerTypes
<1>16. CASE Server!Close
  <2>1. ConnTypes'
    BY <1>b, <1>16 DEF ConnTypes, Server!Close
  <2>2. ChanTypes'
    <3>1. UNCHANGED chan /\ sending' = <<>> /\ lost' \subseteq Jobs /\ blocked' \subseteq blocked
      BY <1>b, <1>a, <1>16 DEF ChanTypes, Server!Close
    <3>2. QED
      BY <1>b, <1>e, <3>1 DEF ChanTypes
  <2>3. PoolTypes'
    BY <1>b, <1>r, <1>16 DEF PoolTypes, Server!Close
  <2>4. RequestTypes' /\ SeenTypes' /\ DrainTypes' /\ CloseTypes'
    BY <1>b, <1>16 DEF RequestTypes, SeenTypes, DrainTypes, CloseTypes, Server!Close
  <2>5. QED
    BY <2>1, <2>2, <2>3, <2>4 DEF ServerTypes
<1>17. CASE Server!PoolClosed \/ Server!FinishClose
  BY <1>b, <1>17 DEF ServerTypes, ConnTypes, ChanTypes, RequestTypes, SeenTypes, PoolTypes,
     DrainTypes, CloseTypes, Server!PoolClosed, Server!FinishClose
<1>18. QED
  BY <1>1, <1>2, <1>3, <1>4, <1>5, <1>6, <1>7, <1>8, <1>9, <1>10, <1>11, <1>12, <1>13, <1>14,
     <1>15, <1>16, <1>17 DEF Server!Next

-----------------------------------------------------------------------------
(* The types of the components, from their invariants *)

\* The worker's state has its type.
LEMMA ServerTyped == ServerTypes /\ ServerFlags => Server!TypeOK
<1> SUFFICES ASSUME ServerTypes, ServerFlags PROVE Server!TypeOK
  OBVIOUS
<1>1. wasFull \in BOOLEAN /\ draining \in BOOLEAN
  BY DEF ServerFlags
<1>2. ConnTypes /\ ChanTypes /\ RequestTypes /\ SeenTypes /\ PoolTypes /\ DrainTypes /\ CloseTypes
  BY DEF ServerTypes
<1>3. QED
  BY <1>1, <1>2, Zenon DEF ConnTypes, ChanTypes, RequestTypes, SeenTypes, PoolTypes, DrainTypes,
     CloseTypes, Server!TypeOK

\* The state of a job's process has its type.
LEMMA ProcessTyped == ProcessInv /\ ProcessFlags /\ ProcessRest => Process!TypeOK
<1> SUFFICES ASSUME ProcessTypes, ProcessFlags, ProcessRest PROVE Process!TypeOK
  BY DEF ProcessInv
<1>1. QED
  BY Zenon DEF ProcessTypes, ProcessFlags, ProcessRest, Process!TypeOK

\* The state of the inference process has its type.
LEMMA InferTyped == InferTypes /\ InferFlags => Infer!TypeOK
BY DEF InferTypes, InferFlags, Asked, Infer!TypeOK

\* The state of the TTS fallback adapter has its type.
LEMMA AudioTyped == AudioInv => Tts!TypeOK
BY DEF AudioInv, AudioTypes, AudioFlags, Tts!TypeOK

\* The state of the LLM fallback adapter has its type.
LEMMA AnswerTyped == AnswerInv => Llm!TypeOK
BY DEF AnswerInv, AnswerTypes, Llm!TypeOK

\* The state of a realtime session has its type.
LEMMA ReplyTyped == ReplyInv /\ ReplyFlags /\ ReplyRest => Realtime!TypeOK
<1>1. ReplyTypes => recovery.at \in {"none", "updating", "sent"}
  BY DEF ReplyTypes
<1>2. QED
  BY <1>1 DEF ReplyInv, ReplyTypes, ReplyFlags, ReplyRest, Realtime!TypeOK

-----------------------------------------------------------------------------
\* Over the retries and fallbacks of either adapter, what is heard is of one provider, in
\* order and whole, however long the text or the answer and however many the providers.
THEOREM FallbacksKeepWhole == Spec => []GeneratedOnce
<1>1. Init => AudioInv /\ AnswerInv
  BY AudioStart, AnswerStart DEF Init
<1>2. AudioInv /\ [Next]_vars => AudioInv'
  <2>1. [Next]_vars => [Tts!Next]_ttsVars
    BY DEF Next, vars
  <2>2. QED
    BY <2>1, AudioStep
<1>3. AnswerInv /\ [Next]_vars => AnswerInv'
  <2>1. [Next]_vars => [Llm!Next]_llmVars
    BY DEF Next, vars
  <2>2. QED
    BY <2>1, AnswerStep
<1>4. AudioInv /\ AnswerInv => GeneratedOnce
  BY AudioImplies, AnswerImplies DEF GeneratedOnce
<1>5. QED
  BY <1>1, <1>2, <1>3, <1>4, PTL DEF Spec

\* A job launched in a process that exits cleanly was received and is over, or the process
\* was asked to close before it read the job: "success" never hides a job that was lost.
THEOREM SuccessKeepsRun == Spec => []SuccessHasRun
<1>1. Init => ProcessInv
  BY ProcessStart DEF Init
<1>2. ProcessInv /\ [Next]_vars => ProcessInv'
  <2>1. [Next]_vars => [Process!Next]_processVars
    BY DEF Next, vars
  <2>2. QED
    BY <2>1, ProcessStep
<1>3. ProcessInv => SuccessHasRun
  BY ProcessImplies DEF SuccessHasRun
<1>4. QED
  BY <1>1, <1>2, <1>3, PTL DEF Spec

\* A reply of a realtime session gets the response to its own request, and one that waits
\* is in the table or with its recovery, however many replies, responses and lost
\* connections there are.
THEOREM RepliesGetTheirOwn == Spec => []RealtimeInStep
<1>1. Init => ReplyInv
  BY ReplyStart DEF Init
<1>2. ReplyInv /\ [Next]_vars => ReplyInv'
  <2>1. [Next]_vars => [Realtime!Next]_replyVars
    BY DEF Next, vars
  <2>2. QED
    BY <2>1, ReplyStep
<1>3. ReplyInv => RealtimeInStep
  BY ReplyImplies DEF RealtimeInStep
<1>4. QED
  BY <1>1, <1>2, <1>3, PTL DEF Spec

\* The server, once told that a job ended, is not told that it runs, however many jobs,
\* processes and lost connections there are, unless somebody had to wait for room in the
\* channel.
THEOREM EndStaysTold == Spec => ServerIsTold
<1>1. Init => StatusInv
  BY StatusStart DEF Init
<1>2. StatusInv /\ [Next]_vars => StatusInv'
  <2>1. [Next]_vars => [Server!Next]_serverVars
    BY DEF Next, vars
  <2>2. QED
    BY <2>1, StatusStep
<1>3. StatusInv /\ [Next]_vars =>
        [\A j \in Jobs : heard[j] = "ended" => heard'[j] = "ended" \/ wasFull]_Server!vars
  <2>1. [Next]_vars => [Server!Next]_serverVars
    BY DEF Next, vars
  <2>2. QED
    BY <2>1, StatusImplies
<1>4. QED
  BY <1>1, <1>2, <1>3, PTL DEF Spec, ServerIsTold, Server!StatusNeverGoesBack

\* The worker, a job's process, the inference process, the adapters, a realtime session and
\* its chat keep their types: no queue, counter, table or list leaves its bounds.
THEOREM ServicesTypeCorrect == Spec => []TypeOK
<1>1. Init => ServerFlags /\ ServerTypes
  BY ServerStart DEF Init
<1>2. Init => ProcessInv /\ ProcessFlags /\ ProcessRest
  BY ProcessStart, ProcessRestStart DEF Init
<1>3. Init => InferFlags /\ InferTypes
  BY InferStart DEF Init
<1>4. Init => AudioInv /\ AnswerInv
  BY AudioStart, AnswerStart DEF Init
<1>5. Init => ReplyInv /\ ReplyFlags /\ ReplyRest
  BY ReplyStart, ReplyRestStart DEF Init
<1>6. Init => ChatFlags /\ ChatInv
  BY ChatStart DEF Init
<1>7. [Next]_vars => /\ [Server!Next]_serverVars /\ [Process!Next]_processVars
                     /\ [Infer!Next]_inferVars /\ [Tts!Next]_ttsVars
                     /\ [Llm!Next]_llmVars /\ [Realtime!Next]_replyVars
                     /\ [Chat!Next]_chatVars
  BY DEF Next, vars
<1>8. ServerTypes /\ ServerFlags /\ [Next]_vars => ServerTypes' /\ ServerFlags'
  BY <1>7, ServerStep, ServerFlagsStep
<1>9. ProcessInv /\ ProcessFlags /\ ProcessRest /\ [Next]_vars
        => ProcessInv' /\ ProcessFlags' /\ ProcessRest'
  BY <1>7, ProcessStep, ProcessRestStep
<1>10. InferTypes /\ InferFlags /\ [Next]_vars => InferTypes' /\ InferFlags'
  BY <1>7, InferStep, InferFlagsStep
<1>11. AudioInv /\ AnswerInv /\ [Next]_vars => AudioInv' /\ AnswerInv'
  BY <1>7, AudioStep, AnswerStep
<1>12. ReplyInv /\ ReplyFlags /\ ReplyRest /\ [Next]_vars
         => ReplyInv' /\ ReplyFlags' /\ ReplyRest'
  BY <1>7, ReplyStep, ReplyFlagsStep, ReplyRestStep
<1>13. ChatInv /\ ChatFlags /\ [Next]_vars => ChatInv' /\ ChatFlags'
  BY <1>7, ChatStep, ChatFlagsStep
<1>14. /\ ServerTypes /\ ServerFlags
       /\ ProcessInv /\ ProcessFlags /\ ProcessRest
       /\ InferTypes /\ InferFlags
       /\ AudioInv /\ AnswerInv
       /\ ReplyInv /\ ReplyFlags /\ ReplyRest
       /\ ChatInv /\ ChatFlags
       => TypeOK
  BY ServerTyped, ProcessTyped, InferTyped, AudioTyped, AnswerTyped, ReplyTyped, ChatTyped
     DEF TypeOK
<1>15. QED
  BY <1>1, <1>2, <1>3, <1>4, <1>5, <1>6, <1>8, <1>9, <1>10, <1>11, <1>12, <1>13, <1>14,
     PTL DEF Spec
=============================================================================
