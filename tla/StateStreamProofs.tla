-------------------------- MODULE StateStreamProofs --------------------------
(***************************************************************************)
(* Proofs about StateStream for any number of calls, any capacities of the *)
(* ring and of the slots and any number of updates.                        *)
(***************************************************************************)
EXTENDS StateStream, SequenceTheorems, TLAPS

USE Zenon

(***************************************************************************)
(* Sequences of numbers, as the leaves below need them.                    *)
(***************************************************************************)

\* The empty sequence.
LEMMA EmptyFacts == <<>> \in Seq(Nat) /\ Len(<<>>) = 0
BY SMT

\* A length is a natural number.
LEMMA LenNat == \A q \in Seq(Nat) : Len(q) \in Nat
BY SMT

\* A non-empty range has a first index.
LEMMA FirstIndex == \A n \in Nat \ {0} : 1 \in 1..n
BY SMT

\* A sequence of one number.
LEMMA SingleFacts ==
  ASSUME NEW n \in Nat
  PROVE  /\ <<n>> \in Seq(Nat) /\ <<n>> # <<>> /\ Len(<<n>>) = 1
         /\ \A i \in 1..1 : <<n>>[i] = n
BY SMT

\* What popping the front of a queue or backlog leaves.
LEMMA TailFacts ==
  ASSUME NEW q \in Seq(Nat), q # <<>>
  PROVE  /\ Head(q) \in Nat /\ Head(q) = q[1] /\ Len(q) \in Nat \ {0}
         /\ Tail(q) \in Seq(Nat) /\ Len(Tail(q)) = Len(q) - 1
         /\ \A i \in 1..(Len(q) - 1) : Tail(q)[i] = q[i + 1]
BY SMT

\* What pushing to the back of a queue, backlog or history leaves.
LEMMA AppendFacts ==
  ASSUME NEW q \in Seq(Nat), NEW n \in Nat
  PROVE  /\ Append(q, n) \in Seq(Nat) /\ Append(q, n) # <<>>
         /\ Len(Append(q, n)) = Len(q) + 1
         /\ \A i \in 1..Len(q) : Append(q, n)[i] = q[i]
         /\ Append(q, n)[Len(q) + 1] = n
BY SMT

\* RingBuffer::HeadSeq is a number.
LEMMA HeadSeqType ==
  ASSUME TypeOK PROVE HeadSeq \in Nat
BY SMT DEF TypeOK, HeadSeq

\* The same after a step.
LEMMA HeadSeqTypeNext ==
  ASSUME TypeOK' PROVE HeadSeq' \in Nat
BY SMT DEF TypeOK, HeadSeq

\* HeadSeq only depends on the ring.
LEMMA HeadSeqFrame ==
  ASSUME UNCHANGED ring PROVE HeadSeq' = HeadSeq
BY DEF HeadSeq

\* RingBuffer::Push leaves a sequence of numbers whose last is the pushed one.
LEMMA RingPushType ==
  ASSUME TypeOK, NEW n \in Nat, RingPush(n)
  PROVE  /\ ring' \in Seq(Nat) /\ ring' # <<>>
         /\ HeadSeq' = n
         /\ Len(ring') = IF Len(ring) < RingCapacity THEN Len(ring) + 1
                         ELSE Len(ring)
<1>1. ring \in Seq(Nat) BY DEF TypeOK
<1>2. CASE Len(ring) < RingCapacity
  BY <1>1, <1>2, SMT DEF RingPush, HeadSeq
<1>3. CASE ~(Len(ring) < RingCapacity)
  <2>1. Len(ring) > 0 BY <1>1, <1>3, RingCapacityAssumption, SMT
  <2>2. Tail(ring) \in Seq(Nat) /\ Len(Tail(ring)) = Len(ring) - 1
    BY <1>1, <2>1, SMT
  <2>3. ring' = Append(Tail(ring), n) BY <1>3 DEF RingPush
  <2> QED BY <1>1, <1>3, <2>1, <2>2, <2>3, SMT DEF HeadSeq
<1> QED BY <1>2, <1>3

\* A replay is a sequence of numbers.
LEMMA GetFromSeqType ==
  ASSUME TypeOK, NEW from \in Nat, InRing(from)
  PROVE  /\ GetFromSeq(from) \in Seq(Nat)
         /\ Len(GetFromSeq(from)) = HeadSeq - from
         /\ \A i \in 1..(HeadSeq - from) :
              GetFromSeq(from)[i] = ring[Len(ring) - (HeadSeq - from) + i]
<1>1. ring \in Seq(Nat) /\ HeadSeq \in Nat BY HeadSeqType DEF TypeOK
<1> DEFINE m == Len(ring) - (HeadSeq - from) + 1
<1>2. m \in Int /\ m >= 1 /\ m <= Len(ring) + 1
  BY <1>1, SMT DEF InRing
<1>3. GetFromSeq(from) = SubSeq(ring, m, Len(ring)) BY DEF GetFromSeq
<1>4. \A i \in m..Len(ring) : ring[i] \in Nat BY <1>1, <1>2, SMT
<1> HIDE DEF m
<1>5. /\ SubSeq(ring, m, Len(ring)) \in Seq(Nat)
      /\ Len(SubSeq(ring, m, Len(ring))) = Len(ring) - m + 1
      /\ \A i \in 1..(Len(ring) - m + 1) :
           SubSeq(ring, m, Len(ring))[i] = ring[m + i - 1]
  BY <1>1, <1>2, <1>4, SMT
<1> QED BY <1>1, <1>2, <1>3, <1>5, SMTT(30) DEF m

\* The initial state is well typed.
LEMMA TypeInit == Init => TypeOK
<1> SUFFICES ASSUME Init PROVE TypeOK OBVIOUS
<1>1. /\ queue \in [Calls -> Seq(Nat)] /\ backlog \in [Calls -> Seq(Nat)]
      /\ sent \in [Calls -> Seq(Nat)] /\ ring \in Seq(Nat)
  BY EmptyFacts DEF Init
<1>2. seq \in 0..MaxSeq BY MaxSeqAssumption, SMT DEF Init
<1>3. /\ state \in States /\ tail \in 0..TailEmits
      /\ epc \in {"idle", "publish", "fanout", "evictAll", "evicting"}
  BY SMT DEF Init, States, TailEmits
<1>6. live \subseteq Calls /\ slots \subseteq Calls BY DEF Init
<1>7. victim \in Calls \cup {None} /\ cancelled \in BOOLEAN BY DEF Init
<1>4. /\ eviction \in [Calls -> Reasons] /\ dropped \in [Calls -> Nat]
      /\ resume \in [Calls -> Nat] /\ floor \in [Calls -> Nat]
      /\ last \in [Calls -> Nat] /\ base \in [Calls -> Int]
      /\ fresh \in [Calls -> BOOLEAN] /\ status \in [Calls -> Statuses]
  BY SMT DEF Init, Reasons, Statuses
<1>5. stage \in [Calls -> {"new", "start", "baseline", "streaming",
                           "finished", "deleted"}]
  BY DEF Init
<1> QED BY <1>1, <1>2, <1>3, <1>4, <1>5, <1>6, <1>7 DEF TypeOK

\* The engine thread keeps the types.
LEMMA TypeEngine == TypeOK /\ Engine => TypeOK'
<1> SUFFICES ASSUME TypeOK, Engine PROVE TypeOK' OBVIOUS
<1> USE DEF TypeOK, callVars, pumpVars, busVars, slotVars, States, TailEmits
<1>1. CASE Emit
  <2>1. seq \in Nat /\ seq + 1 \in 0..MaxSeq
    BY <1>1, MaxSeqAssumption, SMT DEF Emit
  <2>2. ring' \in Seq(Nat)
    <3>1. RingPush(seq + 1) BY <1>1 DEF Emit
    <3> QED BY <2>1, <3>1, RingPushType, SMTT(30)
  <2>3. tail' \in 0..TailEmits BY <1>1, SMT DEF Emit, SpendTail, MayEmit
  <2> QED BY <1>1, <2>1, <2>2, <2>3 DEF Emit
<1>2. CASE EmitThrows
  <2>1. seq + 1 \in 0..MaxSeq BY <1>2, MaxSeqAssumption, SMT DEF EmitThrows
  <2>2. tail' \in 0..TailEmits BY <1>2, SMT DEF EmitThrows, SpendTail, MayEmit
  <2> QED BY <1>2, <2>1, <2>2 DEF EmitThrows
<1>3. CASE Close BY <1>3 DEF Close
<1>4. CASE PublishCapture BY <1>4 DEF PublishCapture
<1>5. CASE PublishEvict BY <1>5 DEF PublishEvict, Evict, Reasons
<1>6. CASE PublishDone BY <1>6 DEF PublishDone
<1>7. CASE EvictAllCapture BY <1>7 DEF EvictAllCapture
<1>8. CASE ServerShutdown
  <2>1. tail' \in 0..TailEmits BY <1>8, SMT DEF ServerShutdown
  <2> QED BY <1>8, <2>1 DEF ServerShutdown
<1>9. ASSUME NEW s \in Calls, PublishPush(s) PROVE TypeOK'
  <2>1. Append(queue[s], seq) \in Seq(Nat)
    <3>1. seq \in Nat /\ queue[s] \in Seq(Nat) BY MaxSeqAssumption, SMT
    <3> QED BY <3>1, AppendFacts
  <2>2. dropped[s] + 1 \in Nat
    <3>1. dropped[s] \in Nat OBVIOUS
    <3> HIDE DEF TypeOK
    <3> QED BY <3>1, SMT
  <2>3. victim' \in Calls \cup {None} BY <1>9 DEF PublishPush
  <2>4. queue' \in [Calls -> Seq(Nat)] BY <1>9, <2>1 DEF PublishPush
  <2>5. dropped' \in [Calls -> Nat] BY <1>9, <2>2, ZenonT(60) DEF PublishPush
  <2> QED BY <1>9, <2>3, <2>4, <2>5 DEF PublishPush
<1>10. ASSUME NEW s \in Calls, EvictAllOne(s) PROVE TypeOK'
  BY <1>10 DEF EvictAllOne, Evict, Reasons
<1> QED BY <1>1, <1>2, <1>3, <1>4, <1>5, <1>6, <1>7, <1>8, <1>9, <1>10
        DEF Engine

\* So do the calls.
LEMMA TypeCall == \A s \in Calls : TypeOK /\ Call(s) => TypeOK'
<1> SUFFICES ASSUME NEW s \in Calls, TypeOK, Call(s) PROVE TypeOK' OBVIOUS
<1> USE DEF TypeOK, engineVars, pumpVars, busVars, slotVars
<1>1. CASE Subscribe(s)
  <2>1. PICK r \in Resumes : /\ resume' = [resume EXCEPT ![s] = r]
                             /\ last' = [last EXCEPT ![s] = r]
    BY <1>1 DEF Subscribe
  <2>2. r \in Nat BY ResumesAssumption
  <2>3. HeadSeq \in Nat BY HeadSeqType
  <2> QED BY <1>1, <2>1, <2>2, <2>3 DEF Subscribe
<1>2. CASE Replay(s)
  <2>1. InRing(resume[s]) => GetFromSeq(resume[s]) \in Seq(Nat)
    BY GetFromSeqType
  <2>2. backlog' \in [Calls -> Seq(Nat)] /\ base' \in [Calls -> Int]
    <3>1. CASE resume[s] > 0 /\ InRing(resume[s])
      <4>1. resume[s] \in Int BY SMT
      <4>2. /\ backlog' = [backlog EXCEPT ![s] = GetFromSeq(resume[s])]
            /\ base' = [base EXCEPT ![s] = resume[s]]
        BY <1>2, <3>1 DEF Replay
      <4> QED BY <2>1, <3>1, <4>1, <4>2
    <3>2. CASE ~(resume[s] > 0 /\ InRing(resume[s]))
      BY <1>2, <3>2 DEF Replay
    <3> QED BY <3>1, <3>2
  <2> QED BY <1>2, <2>2 DEF Replay
<1>3. CASE Baseline(s)
  <2>1. HeadSeq - 1 \in Int /\ <<HeadSeq>> \in Seq(Nat)
    <3>1. HeadSeq \in Nat BY HeadSeqType
    <3> HIDE DEF TypeOK
    <3> QED BY <3>1, SingleFacts, SMT
  <2> QED BY <1>3, <2>1 DEF Baseline
<1>4. CASE Write(s)
  <2>1. /\ backlog[s] \in Seq(Nat) /\ sent[s] \in Seq(Nat)
        /\ backlog[s] # <<>>
    BY <1>4 DEF Write
  <2>2. Head(backlog[s]) \in Nat /\ Tail(backlog[s]) \in Seq(Nat)
    BY <2>1, TailFacts
  <2>3. Append(sent[s], Head(backlog[s])) \in Seq(Nat)
    BY <2>1, <2>2, AppendFacts
  <2> QED BY <1>4, <2>2, <2>3 DEF Write
<1>5. CASE WriteFails(s) BY <1>5 DEF WriteFails, FinishWith, Statuses
<1>6. CASE Pop(s)
  <2>1. queue[s] \in Seq(Nat) /\ queue[s] # <<>>
    <3>1. queue[s] \in Seq(Nat) OBVIOUS
    <3>2. queue[s] # <<>> BY <1>6 DEF Pop
    <3> QED BY <3>1, <3>2
  <2>2. /\ <<Head(queue[s])>> \in Seq(Nat) /\ <<>> \in Seq(Nat)
        /\ Tail(queue[s]) \in Seq(Nat)
    BY <2>1, TailFacts, SingleFacts, EmptyFacts
  <2> QED BY <1>6, <2>2 DEF Pop
<1>7. CASE PopEvicted(s)
  BY <1>7 DEF PopEvicted, FinishWith, Statuses, Reasons
<1>8. CASE PumpThrows(s) BY <1>8 DEF PumpThrows, FinishWith, Statuses
<1>9. CASE Unsubscribe(s) BY <1>9 DEF Unsubscribe, Evict, Reasons
<1> QED BY <1>1, <1>2, <1>3, <1>4, <1>5, <1>6, <1>7, <1>8, <1>9
        DEF Call, Pump

\* Every step keeps the types.
LEMMA TypeNext == TypeOK /\ [Next]_vars => TypeOK'
<1> SUFFICES ASSUME TypeOK, [Next]_vars PROVE TypeOK' OBVIOUS
<1>1. CASE Engine BY <1>1, TypeEngine
<1>2. ASSUME NEW s \in Calls, Call(s) PROVE TypeOK' BY <1>2, TypeCall
<1>3. CASE UNCHANGED vars
  BY <1>3 DEF vars, engineVars, busVars, slotVars, callVars, pumpVars, TypeOK
<1> QED BY <1>1, <1>2, <1>3 DEF Next

-----------------------------------------------------------------------------
(***************************************************************************)
(* Every step preserves StreamInv, one conjunct at a time.                 *)
(***************************************************************************)

\* The head of the ring only moves when an update is emitted, to the number just issued.
LEMMA HeadSeqStep ==
  ASSUME TypeOK, [Next]_vars, HeadSeq <= seq
  PROVE  /\ HeadSeq' \in Nat /\ HeadSeq <= HeadSeq' /\ HeadSeq' <= seq'
         /\ HeadSeq' # HeadSeq => Emit /\ HeadSeq' = seq + 1
<1> USE DEF vars, engineVars, busVars, slotVars, callVars, pumpVars
<1>1. HeadSeq \in Nat /\ seq \in Nat
  BY HeadSeqType, MaxSeqAssumption, SMT DEF TypeOK
<1>2. CASE Emit
  <2>1. RingPush(seq + 1) /\ seq' = seq + 1 /\ seq + 1 \in Nat
    BY <1>1, <1>2, SMT DEF Emit
  <2>2. HeadSeq' = seq + 1 BY <2>1, RingPushType
  <2> QED BY <1>1, <1>2, <2>1, <2>2, SMT
<1>3. CASE ~Emit
  <2>1. ring' = ring
    BY <1>3, ZenonT(60) DEF Next, Engine, EmitThrows, Close, PublishCapture, PublishEvict,
       PublishDone, EvictAllCapture, ServerShutdown, PublishPush, EvictAllOne,
       Call, Pump, Subscribe, Replay, Baseline, Write, WriteFails, Pop,
       PopEvicted, PumpThrows, Unsubscribe, FinishWith
  <2>2. seq' = seq \/ seq' = seq + 1
    BY <1>3 DEF Next, Engine, EmitThrows, Close, PublishCapture, PublishEvict,
       PublishDone, EvictAllCapture, ServerShutdown, PublishPush, EvictAllOne,
       Call, Pump, Subscribe, Replay, Baseline, Write, WriteFails, Pop,
       PopEvicted, PumpThrows, Unsubscribe, FinishWith
  <2>3. HeadSeq' = HeadSeq BY <2>1, HeadSeqFrame
  <2> QED BY <1>1, <2>2, <2>3, SMT
<1> QED BY <1>2, <1>3

\* The ring stays contiguous: a push appends the successor of its newest entry.
LEMMA RingNext ==
  ASSUME StreamInv, [Next]_vars, ~cancelled'
  PROVE  ~cancelled /\ RingContiguous'
<1> USE DEF vars, engineVars, busVars, slotVars, callVars, pumpVars
<1>1. TypeOK /\ HeadSeq <= seq BY DEF StreamInv, Background
<1>2. ~cancelled
  BY DEF Next, Engine, Emit, EmitThrows, Close, PublishCapture, PublishEvict,
     PublishDone, EvictAllCapture, ServerShutdown, PublishPush, EvictAllOne,
     Call, Pump, Subscribe, Replay, Baseline, Write, WriteFails, Pop,
     PopEvicted, PumpThrows, Unsubscribe, FinishWith
<1>3. RingContiguous /\ state \notin {"Disabled", "Released"}
  BY <1>2 DEF StreamInv, Background
<1>4. HeadSeq \in Nat /\ seq \in Nat /\ ring \in Seq(Nat)
  BY <1>1, HeadSeqType, MaxSeqAssumption, SMT DEF TypeOK
<1>5. CASE Emit
  <2>1. state = "Healthy" /\ HeadSeq = seq /\ state' = "Healthy"
    BY <1>3, <1>5 DEF Emit, MayEmit, RingContiguous
  <2>2. seq' = seq + 1 /\ RingPush(seq + 1) /\ seq + 1 \in Nat
    BY <1>4, <1>5, SMT DEF Emit
  <2>3. /\ HeadSeq' = seq + 1
        /\ Len(ring') = IF Len(ring) < RingCapacity THEN Len(ring) + 1
                        ELSE Len(ring)
    BY <1>1, <2>2, RingPushType
  <2>4. ASSUME NEW i \in 1..Len(ring')
        PROVE  ring'[i] = seq + 1 - Len(ring') + i
    <3>1. \A j \in 1..Len(ring) : ring[j] = seq - Len(ring) + j
      BY <1>3, <2>1 DEF RingContiguous
    <3>2. CASE Len(ring) < RingCapacity
      <4>1. ring' = Append(ring, seq + 1) BY <2>2, <3>2 DEF RingPush
      <4>2. /\ \A j \in 1..Len(ring) : ring'[j] = ring[j]
            /\ ring'[Len(ring) + 1] = seq + 1
        BY <1>4, <2>2, <4>1, AppendFacts
      <4> QED BY <1>4, <2>3, <3>1, <3>2, <4>2, <2>4, SMTT(30)
    <3>3. CASE ~(Len(ring) < RingCapacity)
      <4>1. ring' = Append(Tail(ring), seq + 1)
        BY <2>2, <3>3 DEF RingPush
      <4>2. ring # <<>> BY <3>3, <1>4, RingCapacityAssumption, SMT
      <4>3. /\ Tail(ring) \in Seq(Nat) /\ Len(Tail(ring)) = Len(ring) - 1
            /\ \A j \in 1..(Len(ring) - 1) : Tail(ring)[j] = ring[j + 1]
        BY <1>4, <4>2, TailFacts
      <4>4. /\ \A j \in 1..(Len(ring) - 1) : ring'[j] = ring[j + 1]
            /\ ring'[Len(ring)] = seq + 1
        BY <1>4, <2>2, <4>1, <4>3, AppendFacts, SMT
      <4>5. Len(ring) \in Nat /\ Len(ring') = Len(ring) /\ i \in 1..Len(ring)
        BY <1>4, <2>3, <3>3, <2>4, SMT
      <4>6. CASE i = Len(ring) BY <1>4, <4>4, <4>5, <4>6, SMT
      <4>7. CASE i # Len(ring)
        <5>1. i \in 1..(Len(ring) - 1) /\ i + 1 \in 1..Len(ring)
          BY <4>5, <4>7, SMT
        <5>2. ring'[i] = ring[i + 1] BY <5>1, <4>4
        <5>3. ring[i + 1] = seq - Len(ring) + (i + 1) BY <5>1, <3>1
        <5> QED BY <1>4, <4>5, <5>2, <5>3, SMT
      <4> QED BY <4>6, <4>7
    <3> QED BY <3>2, <3>3
  <2>5. Len(ring') <= RingCapacity
    BY <1>3, <1>4, <2>3, RingCapacityAssumption, SMT DEF RingContiguous
  <2>6. \A i \in 1..Len(ring') : ring'[i] = HeadSeq' - Len(ring') + i
    <3> TAKE i \in 1..Len(ring')
    <3>1. HeadSeq' = seq + 1 BY <2>3
    <3>2. ring'[i] = seq + 1 - Len(ring') + i BY <2>4
    <3>3. Len(ring') \in Nat BY <1>4, <2>3, SMT
    <3> QED BY <1>4, <3>1, <3>2, <3>3, SMT
  <2>7. HeadSeq' = seq' BY <2>2, <2>3
  <2> QED BY <1>2, <2>1, <2>5, <2>6, <2>7 DEF RingContiguous
<1>6. CASE ~Emit
  <2>1. HeadSeq' = HeadSeq BY <1>1, <1>6, HeadSeqStep
  <2>2. CASE EmitThrows
    <3>1. state = "Healthy" /\ state' = "Disabling" /\ epc' = "evictAll"
      BY <1>3, <2>2 DEF EmitThrows, MayEmit
    <3>2. ring' = ring BY <2>2 DEF EmitThrows
    <3> QED BY <1>2, <1>3, <2>1, <3>1, <3>2 DEF RingContiguous
  <2>3. CASE ~EmitThrows
    <3>1. ring' = ring /\ seq' = seq
      BY <1>6, <2>3, ZenonT(60) DEF Next, Engine, Close, PublishCapture,
       PublishEvict, PublishDone, EvictAllCapture, ServerShutdown,
       PublishPush, EvictAllOne, Call, Pump, Subscribe, Replay, Baseline,
       Write, WriteFails, Pop, PopEvicted, PumpThrows, Unsubscribe,
       FinishWith
    <3>2. state' = "Healthy" => state = "Healthy"
      BY ZenonT(60), <1>6, <2>3 DEF Next, Engine, Close, PublishCapture,
       PublishEvict, PublishDone, EvictAllCapture, ServerShutdown,
       PublishPush, EvictAllOne, Call, Pump, Subscribe, Replay, Baseline,
       Write, WriteFails, Pop, PopEvicted, PumpThrows, Unsubscribe,
       FinishWith
    <3>3. epc' \in {"publish", "fanout"} =>
            epc \in {"publish", "fanout"} /\ state' = state
      BY ZenonT(60), <1>6, <2>3 DEF Next, Engine, Close, PublishCapture,
       PublishEvict, PublishDone, EvictAllCapture, ServerShutdown,
       PublishPush, EvictAllOne, Call, Pump, Subscribe, Replay, Baseline,
       Write, WriteFails, Pop, PopEvicted, PumpThrows, Unsubscribe,
       FinishWith
    <3> QED BY <1>2, <1>3, <2>1, <3>1, <3>2, <3>3 DEF RingContiguous
  <2> QED BY <2>2, <2>3
<1> QED BY <1>5, <1>6

\* What a step of the engine thread leaves alone.
LEMMA EngineFrame ==
  ASSUME Engine
  PROVE  UNCHANGED <<stage, resume, floor, last, backlog, fresh, base, sent>>
BY DEF Engine, Emit, EmitThrows, Close, PublishCapture, PublishEvict,
   PublishDone, EvictAllCapture, ServerShutdown, PublishPush, EvictAllOne,
   callVars, pumpVars

\* What a step of one call leaves alone.
LEMMA CallFrame ==
  ASSUME NEW s \in Calls, NEW t \in Calls, TypeOK, Call(s)
  PROVE  /\ UNCHANGED engineVars
         /\ t # s => /\ stage'[t] = stage[t] /\ resume'[t] = resume[t]
                     /\ floor'[t] = floor[t] /\ last'[t] = last[t]
                     /\ backlog'[t] = backlog[t] /\ fresh'[t] = fresh[t]
                     /\ base'[t] = base[t] /\ sent'[t] = sent[t]
                     /\ queue'[t] = queue[t] /\ eviction'[t] = eviction[t]
                     /\ t \in slots' <=> t \in slots
BY ZenonT(60) DEF TypeOK, Call, Pump, Subscribe, Replay, Baseline, Write, WriteFails, Pop,
   PopEvicted, PumpThrows, Unsubscribe, FinishWith, Evict, busVars, slotVars,
   pumpVars

\* A step of the engine thread keeps the bounds that relate ring, bus and slots.
LEMMA BackgroundEngine ==
  ASSUME StreamInv, Engine PROVE Background'
<1>1. TypeOK /\ Background BY DEF StreamInv
<1>2. [Next]_vars BY DEF Next
<1>3. /\ HeadSeq \in Nat /\ HeadSeq' \in Nat
      /\ HeadSeq <= HeadSeq' /\ HeadSeq' <= seq'
  BY <1>1, <1>2, HeadSeqStep, HeadSeqType DEF Background
<1>4. state' \in {"Disabled", "Released"} => cancelled'
  BY <1>1 DEF Background, Engine, Emit, EmitThrows, Close, PublishCapture,
     PublishEvict, PublishDone, EvictAllCapture, ServerShutdown, PublishPush,
     EvictAllOne
<1>5. victim' # None => epc' = "fanout"
  BY <1>1 DEF Background, Engine, Emit, EmitThrows, Close, PublishCapture,
     PublishEvict, PublishDone, EvictAllCapture, ServerShutdown, PublishPush,
     EvictAllOne
<1>6. ASSUME NEW t \in Calls
      PROVE  /\ floor'[t] <= HeadSeq'
             /\ stage'[t] \in {"new", "start", "baseline"} =>
                  /\ sent'[t] = <<>> /\ backlog'[t] = <<>> /\ ~fresh'[t]
                  /\ last'[t] = resume'[t]
             /\ stage'[t] = "streaming" /\ ~fresh'[t] => base'[t] = resume'[t]
  <2>1. floor[t] \in Nat /\ floor[t] <= HeadSeq
    BY <1>1 DEF Background, TypeOK
  <2>2. floor'[t] <= HeadSeq' BY <1>3, <2>1, EngineFrame, SMT
  <2> QED BY <1>1, <2>2, EngineFrame DEF Background
<1>7. ASSUME NEW t \in Calls, stage'[t] = "new"
      PROVE  t \notin slots' \cup live' /\ queue'[t] = <<>>
  <2>1. stage[t] = "new" /\ t \notin slots \cup live /\ queue[t] = <<>>
    BY <1>1, <1>7, EngineFrame DEF Background
  <2>2. slots' \subseteq slots /\ live' \subseteq slots \cup live
    BY DEF Engine, Emit, EmitThrows, Close, PublishCapture, PublishEvict,
       PublishDone, EvictAllCapture, ServerShutdown, PublishPush, EvictAllOne,
       busVars
  <2>3. queue'[t] = queue[t]
    BY <1>1, <2>1 DEF Engine, Emit, EmitThrows, Close, PublishCapture,
       PublishEvict, PublishDone, EvictAllCapture, ServerShutdown,
       PublishPush, EvictAllOne, busVars, slotVars, TypeOK
  <2> QED BY <2>1, <2>2, <2>3
<1>8. ASSUME NEW t \in Calls, epc' = "fanout", t \in live',
             eviction'[t] = "kNone"
      PROVE  t \in slots' /\ victim' # t
  <2>1. CASE PublishCapture
    BY <1>1, <1>8, <2>1, NoneAssumption
       DEF PublishCapture, Background, busVars, slotVars
  <2>2. CASE PublishEvict
    BY <1>1, <1>8, <2>2, NoneAssumption
       DEF PublishEvict, Background, Evict, TypeOK
  <2>3. ASSUME NEW s \in Calls, PublishPush(s)
        PROVE  t \in slots' /\ victim' # t
    BY <1>1, <1>8, <2>3 DEF PublishPush, Background
  <2>4. CASE \/ Emit \/ EmitThrows \/ Close \/ PublishDone \/ EvictAllCapture
            \/ ServerShutdown \/ \E s \in Calls : EvictAllOne(s)
    BY <1>1, <1>8, <2>4 DEF Emit, EmitThrows, Close, PublishDone,
       EvictAllCapture, ServerShutdown, EvictAllOne, Background, busVars,
       slotVars
  <2> QED BY <2>1, <2>2, <2>3, <2>4 DEF Engine
<1> QED BY <1>3, <1>4, <1>5, <1>6, <1>7, <1>8 DEF Background

\* So does a step of a call.
LEMMA BackgroundCall ==
  ASSUME StreamInv, NEW s \in Calls, Call(s) PROVE Background'
<1>1. TypeOK /\ Background BY DEF StreamInv
<1>2. UNCHANGED engineVars BY <1>1, CallFrame
<1>3. HeadSeq' = HeadSeq /\ HeadSeq \in Nat
  BY <1>1, <1>2, HeadSeqFrame, HeadSeqType DEF engineVars
<1> DEFINE P(t) ==
       /\ floor[t] <= HeadSeq
       /\ stage[t] = "new" => t \notin slots \cup live /\ queue[t] = <<>>
       /\ stage[t] \in {"new", "start", "baseline"} =>
            /\ sent[t] = <<>> /\ backlog[t] = <<>> /\ ~fresh[t]
            /\ last[t] = resume[t]
       /\ epc = "fanout" /\ t \in live /\ eviction[t] = "kNone" =>
            t \in slots /\ victim # t
       /\ stage[t] = "streaming" /\ ~fresh[t] => base[t] = resume[t]
<1>4. ASSUME NEW t \in Calls PROVE P(t)'
  <2>1. P(t) BY <1>1 DEF Background
  <2>2. CASE t # s
    BY <1>1, <1>2, <1>3, <2>1, <2>2, CallFrame DEF engineVars
  <2>3. CASE t = s
    <3> USE <1>1, <1>2, <1>3, <2>1, <2>3
            DEF TypeOK, engineVars, busVars, slotVars, pumpVars
    <3>1. CASE Subscribe(s) BY <3>1, SMT DEF Subscribe
    <3>2. CASE Replay(s) BY <3>2 DEF Replay
    <3>3. CASE Baseline(s) BY <3>3 DEF Baseline
    <3>4. CASE Write(s) BY <3>4 DEF Write
    <3>5. CASE Pop(s) BY <3>5 DEF Pop
    <3>6. CASE WriteFails(s) \/ PopEvicted(s) \/ PumpThrows(s)
      BY <3>6 DEF WriteFails, PopEvicted, PumpThrows, FinishWith
    <3>7. CASE Unsubscribe(s) BY <3>7 DEF Unsubscribe, Evict
    <3> QED BY <3>1, <3>2, <3>3, <3>4, <3>5, <3>6, <3>7 DEF Call, Pump
  <2> QED BY <2>2, <2>3
<1>5. \A t \in Calls : P(t)' BY <1>4
<1> QED BY <1>1, <1>2, <1>3, <1>5 DEF Background, engineVars

\* Only a Write extends what a client was sent, and it extends it by the next
\* number.
LEMMA GapFreeNext ==
  ASSUME StreamInv, [Next]_vars PROVE GapFree'
<1>1. TypeOK /\ Background /\ GapFree BY DEF StreamInv
<1>2. CASE Engine BY <1>1, <1>2, EngineFrame DEF GapFree
<1>3. CASE UNCHANGED vars
  BY <1>1, <1>3 DEF GapFree, vars, callVars, pumpVars
<1>4. ASSUME NEW s \in Calls, Call(s) PROVE GapFree'
  <2> DEFINE P(t) ==
         /\ \A i \in 1..Len(sent[t]) : sent[t][i] = base[t] + i
         /\ sent[t] # <<>> /\ ~fresh[t] => base[t] = resume[t]
         /\ fresh[t] => base[t] + 1 >= floor[t]
  <2>1. ASSUME NEW t \in Calls, t # s PROVE P(t)'
    <3>1. P(t) BY <1>1 DEF GapFree
    <3> QED BY ZenonT(60), <1>1, <1>4, <2>1, <3>1, CallFrame
  <2>2. P(s)'
    <3>1. P(s) BY <1>1 DEF GapFree
    <3>2. CASE Write(s)
      <4>1. /\ stage[s] = "streaming" /\ backlog[s] # <<>> /\ ~cancelled
            /\ sent'[s] = Append(sent[s], Head(backlog[s]))
            /\ base'[s] = base[s] /\ fresh'[s] = fresh[s]
            /\ resume'[s] = resume[s] /\ floor'[s] = floor[s]
        BY <1>1, <3>2 DEF Write, TypeOK
      <4>2. /\ backlog[s] \in Seq(Nat) /\ sent[s] \in Seq(Nat)
            /\ base[s] \in Int
        BY <1>1 DEF TypeOK
      <4>3. Head(backlog[s]) = backlog[s][1] /\ 1 \in 1..Len(backlog[s])
        BY <4>1, <4>2, TailFacts, SMT
      <4>4. Head(backlog[s]) = base[s] + Len(sent[s]) + 1
        BY <4>1, <4>3 DEF StreamInv, BacklogJoins
      <4>5. /\ Len(sent'[s]) = Len(sent[s]) + 1 /\ Len(sent[s]) \in Nat
            /\ \A i \in 1..Len(sent[s]) : sent'[s][i] = sent[s][i]
            /\ sent'[s][Len(sent[s]) + 1] = Head(backlog[s])
        <5>1. Head(backlog[s]) \in Nat BY <4>1, <4>2, TailFacts
        <5> QED BY <4>1, <4>2, <5>1, AppendFacts, SMT
      <4>6. ASSUME NEW i \in 1..Len(sent'[s])
            PROVE  sent'[s][i] = base'[s] + i
        <5>1. CASE i \in 1..Len(sent[s]) BY <3>1, <4>1, <4>5, <5>1
        <5>2. CASE i = Len(sent[s]) + 1
          BY <4>1, <4>2, <4>4, <4>5, <5>2, SMT
        <5> QED BY <4>5, <5>1, <5>2, SMT
      <4>7. ~fresh'[s] => base'[s] = resume'[s]
        BY <1>1, <4>1 DEF Background
      <4> QED BY <3>1, <4>1, <4>6, <4>7
    <3>3. CASE Baseline(s)
      <4>1. /\ base'[s] + 1 = HeadSeq /\ sent'[s] = sent[s] /\ fresh'[s]
            /\ floor'[s] = floor[s]
        <5>1. HeadSeq \in Nat BY <1>1, HeadSeqType
        <5> QED BY <1>1, <3>3, <5>1, SMT DEF Baseline, TypeOK
      <4>2. sent[s] = <<>> /\ floor[s] <= HeadSeq /\ floor[s] \in Nat
        BY <1>1, <3>3 DEF Baseline, Background, TypeOK
      <4>3. HeadSeq \in Nat BY <1>1, HeadSeqType
      <4>4. base'[s] + 1 >= floor'[s] BY <4>1, <4>2, <4>3
      <4>5. Len(sent'[s]) = 0 BY <4>1, <4>2, EmptyFacts
      <4> QED BY <4>1, <4>2, <4>4, <4>5, SMT
    <3>4. CASE Replay(s) \/ Subscribe(s)
      <4>1. sent'[s] = <<>> /\ ~fresh'[s]
        BY <1>1, <3>4 DEF Replay, Subscribe, Background
      <4> QED BY <4>1, EmptyFacts, SMT
    <3>5. CASE Pop(s) \/ WriteFails(s) \/ PopEvicted(s) \/ PumpThrows(s)
              \/ Unsubscribe(s)
      BY <3>1, <3>5 DEF Pop, WriteFails, PopEvicted, PumpThrows, Unsubscribe,
         FinishWith, pumpVars
    <3> QED BY <1>4, <3>2, <3>3, <3>4, <3>5 DEF Call, Pump
  <2> QED BY <2>1, <2>2 DEF GapFree
<1> QED BY <1>2, <1>3, <1>4 DEF Next

\* A call whose own baseline and backlog are left alone stays joined when the ring grows.
LEMMA BacklogFrame ==
  ASSUME NEW t \in Calls, TypeOK, BacklogJoins(t),
         stage'[t] = stage[t] \/ stage'[t] # "streaming",
         base'[t] = base[t], sent'[t] = sent[t], backlog'[t] = backlog[t],
         last'[t] = last[t], HeadSeq' \in Nat, HeadSeq <= HeadSeq'
  PROVE  BacklogJoins(t)'
<1>1. HeadSeq \in Nat /\ base[t] \in Int /\ sent[t] \in Seq(Nat)
      /\ backlog[t] \in Seq(Nat)
  BY HeadSeqType DEF TypeOK
<1>2. Len(sent[t]) \in Nat /\ Len(backlog[t]) \in Nat
  BY <1>1, LenNat
<1> QED BY <1>1, <1>2, SMT DEF BacklogJoins, Reach

\* What the pump holds goes on where the last message it sent ends.
LEMMA BacklogNext ==
  ASSUME StreamInv, [Next]_vars, ~cancelled'
  PROVE  \A t \in Calls : BacklogJoins(t)'
<1>1. /\ TypeOK /\ Background /\ ~cancelled /\ RingContiguous
      /\ \A t \in Calls : BacklogJoins(t) /\ QueueJoins(t)
  BY RingNext DEF StreamInv
<1>2. HeadSeq \in Nat /\ HeadSeq' \in Nat /\ HeadSeq <= HeadSeq'
  BY <1>1, HeadSeqType, HeadSeqStep DEF Background
<1> SUFFICES ASSUME NEW t \in Calls PROVE BacklogJoins(t)' OBVIOUS
<1>3. CASE Engine BY <1>1, <1>2, <1>3, EngineFrame, BacklogFrame
<1>4. CASE UNCHANGED vars
  BY <1>1, <1>2, <1>4, BacklogFrame DEF vars, callVars, pumpVars
<1>5. ASSUME NEW s \in Calls, Call(s), s # t PROVE BacklogJoins(t)'
  BY <1>1, <1>2, <1>5, CallFrame, BacklogFrame
<1>6. ASSUME Call(t) PROVE BacklogJoins(t)'
  <2>1. HeadSeq' = HeadSeq
    BY <1>1, <1>6, CallFrame, HeadSeqFrame DEF engineVars
  <2>2. /\ base[t] \in Int /\ sent[t] \in Seq(Nat) /\ last[t] \in Nat
        /\ backlog[t] \in Seq(Nat) /\ queue[t] \in Seq(Nat)
        /\ resume[t] \in Nat
    BY <1>1 DEF TypeOK
  <2>3. CASE Subscribe(t) \/ WriteFails(t) \/ PopEvicted(t) \/ PumpThrows(t)
             \/ Unsubscribe(t)
    <3>1. stage'[t] # "streaming"
      BY <1>1, <2>3 DEF Subscribe, WriteFails, PopEvicted, PumpThrows,
         Unsubscribe, FinishWith, TypeOK
    <3> QED BY <3>1 DEF BacklogJoins
  <2>4. CASE Replay(t)
    <3>1. CASE ~(resume[t] > 0 /\ InRing(resume[t]))
      <4>1. stage'[t] # "streaming"
        BY <1>1, <2>4, <3>1 DEF Replay, TypeOK
      <4> QED BY <4>1 DEF BacklogJoins
    <3>2. CASE resume[t] > 0 /\ InRing(resume[t])
      <4>1. /\ backlog'[t] = GetFromSeq(resume[t]) /\ base'[t] = resume[t]
            /\ sent'[t] = <<>> /\ last'[t] = last[t]
        BY <1>1, <2>4, <3>2 DEF Replay, TypeOK, Background
      <4>2. /\ backlog'[t] \in Seq(Nat)
            /\ Len(backlog'[t]) = HeadSeq - resume[t]
            /\ \A i \in 1..(HeadSeq - resume[t]) :
                 backlog'[t][i] = ring[Len(ring) - (HeadSeq - resume[t]) + i]
        BY <1>1, <2>2, <3>2, <4>1, GetFromSeqType
      <4>3. Len(sent'[t]) = 0 BY <4>1, EmptyFacts
      <4>4. ASSUME NEW i \in 1..Len(backlog'[t])
            PROVE  backlog'[t][i] = base'[t] + Len(sent'[t]) + i
        <5> DEFINE j == Len(ring) - (HeadSeq - resume[t]) + i
        <5>1. Len(ring) \in Nat /\ i \in 1..(HeadSeq - resume[t])
          BY <1>1, <4>2, <4>4, SMT DEF TypeOK
        <5>2. j \in 1..Len(ring)
          <6>1. ~(resume[t] + 1 < HeadSeq - (Len(ring) - 1))
            BY <3>2 DEF InRing
          <6>2. HeadSeq - resume[t] <= Len(ring)
            <7>1. \A a, b, c \in Int : ~(a + 1 < b - (c - 1)) => b - a <= c
              BY SMT
            <7>2. resume[t] \in Int /\ HeadSeq \in Int /\ Len(ring) \in Int
              BY <1>2, <2>2, <5>1, SMT
            <7> QED BY <6>1, <7>1, <7>2
          <6> QED BY <1>2, <2>2, <5>1, <6>2, SMTT(30)
        <5>3. ring[j] = HeadSeq - Len(ring) + j
          BY <1>1, <5>2 DEF RingContiguous
        <5>4. backlog'[t][i] = ring[j] BY <4>2, <5>1
        <5> QED BY <1>2, <2>2, <4>1, <4>3, <5>1, <5>3, <5>4, SMT
      <4>5. last[t] = resume[t]
        BY <1>1, <2>4 DEF Replay, Background
      <4>6. base'[t] + Len(sent'[t]) + Len(backlog'[t]) <= HeadSeq'
        BY <1>2, <2>1, <2>2, <4>1, <4>2, <4>3, SMT
      <4>7. last'[t] = base'[t] + Len(sent'[t])
        BY <2>2, <4>1, <4>3, <4>5, SMT
      <4> QED BY <4>4, <4>6, <4>7 DEF BacklogJoins, Reach
    <3> QED BY <3>1, <3>2
  <2>5. CASE Baseline(t)
    <3>1. /\ backlog'[t] = <<HeadSeq>> /\ base'[t] = HeadSeq - 1
          /\ sent'[t] = <<>>
      BY <1>1, <2>5 DEF Baseline, TypeOK, Background
    <3>2. /\ Len(sent'[t]) = 0 /\ Len(backlog'[t]) = 1 /\ backlog'[t] # <<>>
          /\ \A i \in 1..1 : backlog'[t][i] = HeadSeq
      BY <1>2, <3>1, SingleFacts, EmptyFacts, ZenonT(60)
    <3>3. \A i \in 1..1 : backlog'[t][i] = base'[t] + Len(sent'[t]) + i
      BY <1>2, <3>1, <3>2, SMT
    <3>4. base'[t] + Len(sent'[t]) + Len(backlog'[t]) <= HeadSeq'
      BY <1>2, <2>1, <3>1, <3>2, SMT
    <3> QED BY <3>1, <3>2, <3>3, <3>4 DEF BacklogJoins, Reach
  <2>6. CASE Write(t)
    <3>1. /\ stage[t] = "streaming" /\ backlog[t] # <<>>
          /\ sent'[t] = Append(sent[t], Head(backlog[t]))
          /\ last'[t] = Head(backlog[t]) /\ backlog'[t] = Tail(backlog[t])
          /\ base'[t] = base[t]
      BY <1>1, <2>6 DEF Write, TypeOK
    <3>2. /\ Head(backlog[t]) \in Nat /\ Head(backlog[t]) = backlog[t][1]
          /\ Len(backlog[t]) \in Nat \ {0}
          /\ Len(backlog'[t]) = Len(backlog[t]) - 1
          /\ \A i \in 1..(Len(backlog[t]) - 1) :
               backlog'[t][i] = backlog[t][i + 1]
      BY <2>2, <3>1, TailFacts
    <3>3. Len(sent'[t]) = Len(sent[t]) + 1 /\ Len(sent[t]) \in Nat
      BY <2>2, <3>1, <3>2, AppendFacts, SMT
    <3>4. /\ \A i \in 1..Len(backlog[t]) :
               backlog[t][i] = base[t] + Len(sent[t]) + i
          /\ base[t] + Len(sent[t]) + Len(backlog[t]) <= HeadSeq
      BY <1>1, <3>1 DEF BacklogJoins, Reach
    <3>5. ASSUME NEW i \in 1..Len(backlog'[t])
          PROVE  backlog'[t][i] = base'[t] + Len(sent'[t]) + i
      <4>1. i + 1 \in 1..Len(backlog[t]) /\ i \in 1..(Len(backlog[t]) - 1)
        BY <3>2, <3>5, SMT
      <4>2. backlog[t][i + 1] = base[t] + Len(sent[t]) + (i + 1)
        BY <3>4, <4>1
      <4>3. backlog'[t][i] = backlog[t][i + 1] BY <3>2, <4>1
      <4>4. base'[t] + Len(sent'[t]) + i = base[t] + Len(sent[t]) + (i + 1)
        <5>1. i \in Nat BY <3>2, <4>1, SMT
        <5>2. base'[t] = base[t] /\ base[t] \in Int BY <2>2, <3>1
        <5>3. \A b \in Int, l \in Nat : b + (l + 1) + i = b + l + (i + 1)
          BY <5>1, SMT
        <5> QED BY <3>3, <5>2, <5>3
      <4> QED BY <4>2, <4>3, <4>4
    <3>6. last'[t] = base'[t] + Len(sent'[t])
      <4>1. 1 \in 1..Len(backlog[t]) BY <3>2, SMT
      <4>2. backlog[t][1] = base[t] + Len(sent[t]) + 1 BY <3>4, <4>1
      <4> QED BY <2>2, <3>1, <3>2, <3>3, <4>2, SMT
    <3>7. base'[t] + Len(sent'[t]) + Len(backlog'[t]) <= HeadSeq'
      <4>1. \A x, h \in Int, l, b \in Nat :
              x + l + b <= h => x + (l + 1) + (b - 1) <= h
        BY SMT
      <4>2. base[t] + (Len(sent[t]) + 1) + (Len(backlog[t]) - 1) <= HeadSeq
        <5>1. base[t] \in Int /\ HeadSeq \in Int BY <1>2, <2>2, SMT
        <5>2. Len(sent[t]) \in Nat /\ Len(backlog[t]) \in Nat BY <3>2, <3>3
        <5> QED BY <3>4, <4>1, <5>1, <5>2
      <4> QED BY <2>1, <3>1, <3>2, <3>3, <4>2
    <3>8. stage'[t] = "streaming" BY <2>6, <3>1 DEF Write
    <3> QED BY <3>5, <3>6, <3>7, <3>8 DEF BacklogJoins, Reach
  <2>7. CASE Pop(t)
    <3>1. /\ stage[t] = "streaming" /\ backlog[t] = <<>> /\ queue[t] # <<>>
          /\ sent'[t] = sent[t] /\ base'[t] = base[t] /\ last'[t] = last[t]
          /\ backlog'[t] = IF Head(queue[t]) <= last[t] THEN <<>>
                           ELSE <<Head(queue[t])>>
      BY <1>1, <2>7 DEF Pop, TypeOK
    <3>2. /\ Head(queue[t]) = queue[t][1] /\ Head(queue[t]) \in Nat
          /\ 1 \in 1..Len(queue[t])
      BY <2>2, <3>1, TailFacts, FirstIndex
    <3>3. Len(backlog[t]) = 0 /\ Len(sent[t]) \in Nat
      BY <2>2, <3>1, EmptyFacts, SMT
    <3>4. last[t] = base[t] + Len(sent[t]) /\ last[t] <= HeadSeq
      BY <1>1, <1>2, <2>2, <3>1, <3>3, SMT DEF BacklogJoins, Reach
    <3>5. Head(queue[t]) <= last[t] + 1 /\ Head(queue[t]) <= HeadSeq
      <4>1. Reach(t) = last[t]
        BY <2>2, <3>1, <3>3, <3>4, SMT DEF Reach
      <4> QED BY <1>1, <3>1, <3>2, <4>1 DEF QueueJoins, Active
    <3>6. CASE Head(queue[t]) <= last[t]
      <4>1. backlog'[t] = backlog[t] BY <3>1, <3>6
      <4>2. stage'[t] = stage[t] BY <2>7 DEF Pop
      <4> QED BY <1>1, <1>2, <3>1, <4>1, <4>2, BacklogFrame
    <3>7. CASE ~(Head(queue[t]) <= last[t])
      <4>1. Head(queue[t]) = last[t] + 1 BY <2>2, <3>2, <3>5, <3>7, SMT
      <4>2. /\ Len(backlog'[t]) = 1 /\ backlog'[t] # <<>>
            /\ \A i \in 1..1 : backlog'[t][i] = Head(queue[t])
        BY <3>1, <3>2, <3>7, SingleFacts
      <4>3. \A i \in 1..1 : backlog'[t][i] = base'[t] + Len(sent'[t]) + i
        BY <2>2, <3>1, <3>3, <3>4, <4>1, <4>2, SMT
      <4>4. base'[t] + Len(sent'[t]) + Len(backlog'[t]) <= HeadSeq'
        BY <1>2, <2>1, <2>2, <3>1, <3>3, <3>4, <3>5, <4>1, <4>2
      <4>5. last'[t] = base'[t] + Len(sent'[t]) BY <3>1, <3>4
      <4> QED BY <4>2, <4>3, <4>4, <4>5 DEF BacklogJoins, Reach
    <3> QED BY <3>6, <3>7
  <2> QED BY <1>6, <2>3, <2>4, <2>5, <2>6, <2>7 DEF Call, Pump
<1> QED BY <1>3, <1>4, <1>5, <1>6 DEF Next

\* Integers add up.
LEMMA SumOfThree == \A a, b, c \in Int : a + b + c \in Int
BY SMT

\* How far a call's baseline reaches is a number.
LEMMA ReachType ==
  ASSUME NEW t \in Calls, TypeOK PROVE Reach(t) \in Int
<1>1. HeadSeq \in Int BY HeadSeqType, SMT
<1>2. base[t] \in Int /\ Len(sent[t]) \in Int /\ Len(backlog[t]) \in Int
  BY SMT DEF TypeOK
<1> QED BY <1>1, <1>2, SumOfThree DEF Reach

\* A call whose queue is left alone stays joined to it when its baseline or the ring grows.
LEMMA QueueFrame ==
  ASSUME NEW t \in Calls, TypeOK, TypeOK', QueueJoins(t),
         Active(t)' => Active(t), queue'[t] = queue[t],
         Reach(t) <= Reach(t)', HeadSeq <= HeadSeq',
         Attached(t)' => Attached(t) /\ NextFor(t)' = NextFor(t)
  PROVE  QueueJoins(t)'
<1>1. Reach(t) \in Int /\ Reach(t)' \in Int
      /\ HeadSeq \in Int /\ HeadSeq' \in Int /\ NextFor(t) \in Int
  <2>1. Reach(t) \in Int BY ReachType
  <2>3. HeadSeq \in Int BY HeadSeqType, SMT
  <2>4. HeadSeq' \in Int BY HeadSeqTypeNext, SMT
  <2>2. Reach(t)' \in Int
    <3>1. /\ base'[t] \in Int
          /\ Len(sent'[t]) \in Int /\ Len(backlog'[t]) \in Int
      BY SMT DEF TypeOK
    <3> QED BY <2>4, <3>1, SumOfThree, ZenonT(60) DEF Reach
  <2> QED BY <2>1, <2>2, <2>3, <2>4, SMT DEF NextFor
<1>2. queue[t] \in Seq(Nat) BY DEF TypeOK
<1>3. SUFFICES ASSUME Active(t)' PROVE QueueJoins(t)' BY DEF QueueJoins
<1>4. Active(t) BY <1>3
<1>5. \A i \in 1..Len(queue'[t]) : /\ queue'[t][i] = queue'[t][1] + i - 1
                                   /\ queue'[t][i] <= HeadSeq'
  <2> TAKE i \in 1..Len(queue'[t])
  <2>1. queue[t][i] = queue[t][1] + i - 1 /\ queue[t][i] <= HeadSeq
    BY <1>4 DEF QueueJoins
  <2>2. queue[t][i] \in Int BY <1>2, SMT
  <2>3. queue[t][i] <= HeadSeq' BY <1>1, <2>1, <2>2, SMT
  <2> QED BY <2>1, <2>3
<1>6. ASSUME queue'[t] # <<>> PROVE queue'[t][1] <= Reach(t)' + 1
  <2>1. queue[t][1] <= Reach(t) + 1 /\ queue[t][1] \in Int
    BY <1>2, <1>4, <1>6, TailFacts, SMT DEF QueueJoins
  <2> QED BY <1>1, <2>1, SMT
<1>7. ASSUME Attached(t)'
      PROVE  IF queue'[t] = <<>> THEN NextFor(t)' <= Reach(t)' + 1
             ELSE queue'[t][Len(queue'[t])] + 1 = NextFor(t)'
  <2>1. IF queue[t] = <<>> THEN NextFor(t) <= Reach(t) + 1
        ELSE queue[t][Len(queue[t])] + 1 = NextFor(t)
    BY <1>4, <1>7 DEF QueueJoins
  <2>2. NextFor(t)' = NextFor(t) BY <1>7
  <2> QED BY <1>1, <2>1, <2>2, SMT
<1> QED BY <1>5, <1>6, <1>7 DEF QueueJoins

\* The engine thread: Publish appends exactly the number a slot waits for.
LEMMA QueueEngine ==
  ASSUME StreamInv, Engine, ~cancelled'
  PROVE  \A t \in Calls : QueueJoins(t)'
<1> SUFFICES ASSUME NEW t \in Calls PROVE QueueJoins(t)' OBVIOUS
<1>0. [Next]_vars BY DEF Next
<1>1. /\ TypeOK /\ Background /\ ~cancelled /\ RingContiguous
      /\ BacklogJoins(t) /\ QueueJoins(t)
  BY <1>0, RingNext DEF StreamInv
<1>2. TypeOK' BY <1>0, <1>1, TypeNext
<1>3. HeadSeq \in Nat /\ HeadSeq' \in Nat /\ HeadSeq <= HeadSeq'
  BY <1>0, <1>1, HeadSeqType, HeadSeqStep DEF Background
<1>4. Reach(t) \in Int BY <1>1, ReachType
<1>5. Reach(t) <= Reach(t)' /\ (Active(t)' <=> Active(t))
  <2>1. Active(t)' <=> Active(t) BY EngineFrame DEF Active
  <2>2. CASE stage[t] = "streaming"
    <3>1. Reach(t)' = Reach(t) BY <2>2, EngineFrame DEF Reach
    <3> QED BY <1>4, <2>1, <3>1, SMT
  <2>3. CASE stage[t] # "streaming"
    <3>1. Reach(t)' = HeadSeq' /\ Reach(t) = HeadSeq
      BY <2>3, EngineFrame DEF Reach
    <3> QED BY <1>3, <2>1, <3>1
  <2> QED BY <2>2, <2>3
<1>6. SUFFICES ASSUME ~PublishPush(t)
               PROVE  /\ queue'[t] = queue[t]
                      /\ Attached(t)' => Attached(t) /\ NextFor(t)' = NextFor(t)
  <2>1. CASE PublishPush(t)
    <3>1. epc = "fanout" /\ victim = None /\ t \in live /\ epc' = "fanout"
          /\ t \notin live' /\ slots' = slots /\ eviction' = eviction
          /\ ring' = ring /\ seq' = seq
      BY <2>1 DEF PublishPush
    <3>2. HeadSeq' = HeadSeq BY <3>1, HeadSeqFrame
    <3>3. seq = HeadSeq BY <1>1, <3>1 DEF RingContiguous
    <3>4. CASE eviction[t] = "kNone" /\ ~Full(t)
      <4>1. queue'[t] = Append(queue[t], HeadSeq) /\ victim' = victim
        BY <1>1, <2>1, <3>3, <3>4 DEF PublishPush, TypeOK
      <4>2. queue[t] \in Seq(Nat) BY <1>1 DEF TypeOK
      <4>3. /\ queue'[t] # <<>> /\ Len(queue'[t]) = Len(queue[t]) + 1
            /\ Len(queue[t]) \in Nat
            /\ \A i \in 1..Len(queue[t]) : queue'[t][i] = queue[t][i]
            /\ queue'[t][Len(queue[t]) + 1] = HeadSeq
        <5> DEFINE q == queue[t]
        <5>1. /\ Append(q, HeadSeq) # <<>>
              /\ Len(Append(q, HeadSeq)) = Len(q) + 1 /\ Len(q) \in Nat
              /\ \A i \in 1..Len(q) : Append(q, HeadSeq)[i] = q[i]
              /\ Append(q, HeadSeq)[Len(q) + 1] = HeadSeq
          BY <1>3, <4>2, AppendFacts, LenNat
        <5> QED BY <4>1, <5>1
      <4>4. NextFor(t) = HeadSeq /\ NextFor(t)' = HeadSeq + 1
        BY <3>1, <3>2 DEF NextFor
      <4>5. SUFFICES ASSUME Active(t) PROVE QueueJoins(t)'
        BY <1>5 DEF QueueJoins
      <4>6. Attached(t)
        BY <1>1, <3>1, <3>4, <4>5, NoneAssumption DEF Attached, Background
      <4>7. CASE queue[t] = <<>>
        <5>1. Len(queue[t]) = 0 BY <4>7, EmptyFacts
        <5>2. Len(queue'[t]) = 1 /\ queue'[t][1] = HeadSeq BY <4>3, <5>1, SMT
        <5>3. HeadSeq <= Reach(t)' + 1
          <6>1. HeadSeq <= Reach(t) + 1
            BY <1>1, <4>4, <4>5, <4>6, <4>7 DEF QueueJoins
          <6>2. Reach(t)' = Reach(t) BY <3>2, EngineFrame DEF Reach
          <6> QED BY <6>1, <6>2
        <5>4. \A i \in 1..1 : /\ queue'[t][i] = queue'[t][1] + i - 1
                              /\ queue'[t][i] <= HeadSeq'
          BY <1>3, <3>2, <5>2, SMT
        <5> QED BY <4>3, <4>4, <5>2, <5>3, <5>4 DEF QueueJoins
      <4>8. CASE queue[t] # <<>>
        <5>1. Len(queue[t]) \in Nat \ {0} BY <4>2, <4>8, TailFacts
        <5>2. queue[t][Len(queue[t])] + 1 = HeadSeq
          BY <1>1, <4>4, <4>5, <4>6, <4>8 DEF QueueJoins
        <5>3. /\ 1 \in 1..Len(queue[t]) /\ Len(queue[t]) \in 1..Len(queue[t])
              /\ queue'[t][1] = queue[t][1]
          BY <4>3, <5>1, SMT
        <5>4. queue[t][1] \in Int /\ queue[t][Len(queue[t])] \in Int
          BY <4>2, <5>3, SMT
        <5>5. \A i \in 1..Len(queue[t]) : /\ queue[t][i] = queue[t][1] + i - 1
                                          /\ queue[t][i] <= HeadSeq
          BY <1>1, <4>5 DEF QueueJoins
        <5>6. HeadSeq = queue[t][1] + (Len(queue[t]) + 1) - 1
          <6>1. queue[t][Len(queue[t])] = queue[t][1] + Len(queue[t]) - 1
            BY <5>3, <5>5
          <6>2. \A a \in Int, l \in Nat, b \in Int :
                  b = a + l - 1 => b + 1 = a + (l + 1) - 1
            BY SMT
          <6> QED BY <5>1, <5>2, <5>4, <6>1, <6>2, <4>3
        <5>7. ASSUME NEW i \in 1..Len(queue'[t])
              PROVE  /\ queue'[t][i] = queue'[t][1] + i - 1
                     /\ queue'[t][i] <= HeadSeq'
          <6>1. CASE i \in 1..Len(queue[t])
            BY <3>2, <4>3, <5>3, <5>5, <6>1
          <6>2. CASE i = Len(queue[t]) + 1
            <7>1. queue'[t][i] = HeadSeq BY <4>3, <6>2
            <7>2. queue'[t][i] = queue'[t][1] + i - 1
              BY <5>3, <5>6, <6>2, <7>1
            <7> QED BY <1>3, <3>2, <7>1, <7>2
          <6> QED BY <4>3, <6>1, <6>2, SMT
        <5>8. queue'[t][1] <= Reach(t)' + 1
          <6>1. queue[t][1] <= Reach(t) + 1
            BY <1>1, <4>5, <4>8 DEF QueueJoins
          <6>2. Reach(t)' = Reach(t) BY <3>2, EngineFrame DEF Reach
          <6> QED BY <5>3, <6>1, <6>2
        <5>9. queue'[t][Len(queue'[t])] + 1 = NextFor(t)'
          BY <4>3, <4>4
        <5> QED BY <4>3, <5>7, <5>8, <5>9 DEF QueueJoins
      <4> QED BY <4>7, <4>8
    <3>5. CASE ~(eviction[t] = "kNone" /\ ~Full(t))
      <4>1. victim' = t /\ queue'[t] = queue[t]
        BY <1>1, <2>1, <3>5 DEF PublishPush, TypeOK
      <4>2. ~Attached(t)' BY <4>1 DEF Attached
      <4> QED BY <1>1, <1>2, <1>3, <1>5, <4>1, <4>2, QueueFrame
    <3> QED BY <3>4, <3>5
  <2>2. CASE ~PublishPush(t)
    BY <1>1, <1>2, <1>3, <1>5, <1>6, <2>2, QueueFrame
  <2> QED BY <2>1, <2>2
<1>7. Attached(t)' => Active(t) BY <1>5 DEF Attached
<1> USE DEF busVars, slotVars
<1>8. CASE Emit
  <2>1. state = "Healthy" BY <1>1, <1>8 DEF Emit, MayEmit, Background
  <2>2. HeadSeq = seq BY <1>1, <2>1 DEF RingContiguous
  <2>3. RingPush(seq + 1) /\ seq + 1 \in Nat BY <1>3, <1>8, <2>2, SMT DEF Emit
  <2>4. HeadSeq' = HeadSeq + 1 BY <1>1, <2>2, <2>3, RingPushType
  <2>5. NextFor(t)' = NextFor(t) BY <1>8, <2>4 DEF Emit, NextFor
  <2> QED BY <1>7, <1>8, <2>5 DEF Emit, Attached
<1>10. CASE EmitThrows
  <2>1. HeadSeq' = HeadSeq BY <1>10, HeadSeqFrame DEF EmitThrows
  <2>2. NextFor(t)' = NextFor(t) BY <1>10, <2>1 DEF EmitThrows, NextFor
  <2> QED BY <1>7, <1>10, <2>2 DEF EmitThrows, Attached
<1>11. CASE Close
  <2>1. HeadSeq' = HeadSeq BY <1>11, HeadSeqFrame DEF Close
  <2>2. NextFor(t)' = NextFor(t) BY <1>11, <2>1 DEF Close, NextFor
  <2> QED BY <1>7, <1>11, <2>2 DEF Close, Attached
<1>12. CASE PublishCapture
  <2>1. HeadSeq' = HeadSeq BY <1>12, HeadSeqFrame DEF PublishCapture
  <2>2. Attached(t)' => t \in live' BY <1>12 DEF PublishCapture, Attached
  <2>3. Attached(t)' => NextFor(t)' = NextFor(t)
    BY <1>12, <2>1, <2>2 DEF PublishCapture, NextFor
  <2> QED BY <1>7, <1>12, <2>3 DEF PublishCapture, Attached
<1>13. CASE PublishEvict
  <2>1. HeadSeq' = HeadSeq BY <1>13, HeadSeqFrame DEF PublishEvict
  <2>2. NextFor(t)' = NextFor(t) BY <1>13, <2>1 DEF PublishEvict, NextFor
  <2>3. Attached(t)' => Attached(t)
    BY <1>1, <1>7, <1>13 DEF PublishEvict, Attached, Evict, TypeOK
  <2> QED BY <1>13, <2>2, <2>3 DEF PublishEvict
<1>14. CASE PublishDone
  <2>1. HeadSeq' = HeadSeq BY <1>14, HeadSeqFrame DEF PublishDone
  <2>2. NextFor(t)' = NextFor(t) BY <1>14, <2>1 DEF PublishDone, NextFor
  <2> QED BY <1>7, <1>14, <2>2 DEF PublishDone, Attached
<1>15. CASE EvictAllCapture
  BY <1>15 DEF EvictAllCapture, Attached
<1>16. CASE ServerShutdown BY <1>16 DEF ServerShutdown
<1>17. ASSUME NEW s \in Calls, PublishPush(s)
       PROVE  /\ queue'[t] = queue[t]
              /\ Attached(t)' => Attached(t) /\ NextFor(t)' = NextFor(t)
  <2>1. s # t BY <1>6, <1>17
  <2>2. HeadSeq' = HeadSeq BY <1>17, HeadSeqFrame DEF PublishPush
  <2>3. NextFor(t)' = NextFor(t)
    BY <1>17, <2>1, <2>2 DEF PublishPush, NextFor
  <2>4. Attached(t)' => Attached(t)
    BY <1>7, <1>17, <2>1, NoneAssumption DEF PublishPush, Attached
  <2>5. queue'[t] = queue[t] BY <1>1, <1>17, <2>1 DEF PublishPush, TypeOK
  <2> QED BY <2>3, <2>4, <2>5
<1>18. ASSUME NEW s \in Calls, EvictAllOne(s)
       PROVE  /\ queue'[t] = queue[t]
              /\ Attached(t)' => Attached(t) /\ NextFor(t)' = NextFor(t)
  <2>1. HeadSeq' = HeadSeq BY <1>18, HeadSeqFrame DEF EvictAllOne
  <2>2. NextFor(t)' = NextFor(t) BY <1>18, <2>1 DEF EvictAllOne, NextFor
  <2>3. Attached(t)' => Attached(t)
    BY <1>1, <1>7, <1>18 DEF EvictAllOne, Attached, Evict, TypeOK
  <2> QED BY <1>18, <2>2, <2>3 DEF EvictAllOne
<1> QED BY <1>8, <1>10, <1>11, <1>12, <1>13, <1>14, <1>15, <1>16, <1>17,
           <1>18 DEF Engine

\* The calls: taking the baseline covers what the slot does not hold yet, and
\* popping the slot moves its first entry to the pump.
LEMMA QueueCall ==
  ASSUME StreamInv, NEW s \in Calls, Call(s), ~cancelled'
  PROVE  \A t \in Calls : QueueJoins(t)'
<1> SUFFICES ASSUME NEW t \in Calls PROVE QueueJoins(t)' OBVIOUS
<1>0. [Next]_vars BY DEF Next
<1>1. /\ TypeOK /\ Background /\ ~cancelled /\ RingContiguous
      /\ BacklogJoins(t) /\ QueueJoins(t)
  BY <1>0, RingNext DEF StreamInv
<1>2. TypeOK' BY <1>0, <1>1, TypeNext
<1>3. UNCHANGED engineVars BY <1>1, CallFrame
<1>4. HeadSeq' = HeadSeq /\ HeadSeq \in Nat
  BY <1>1, <1>3, HeadSeqFrame, HeadSeqType DEF engineVars
<1>5. Reach(t) \in Int BY <1>1, ReachType
<1>6. NextFor(t)' = NextFor(t) /\ NextFor(t) \in Nat
      /\ NextFor(t) <= HeadSeq + 1
  BY <1>3, <1>4, SMT DEF NextFor, engineVars
<1>7. CASE t # s
  <2>1. Reach(t)' = Reach(t) BY <1>1, <1>4, <1>7, CallFrame DEF Reach
  <2>2. Active(t)' <=> Active(t) BY <1>1, <1>7, CallFrame DEF Active
  <2>3. Attached(t)' <=> Attached(t)
    BY <1>1, <1>3, <1>7, <2>2, CallFrame DEF Attached, engineVars
  <2>4. queue'[t] = queue[t] BY <1>1, <1>7, CallFrame
  <2>5. Reach(t) <= Reach(t)' /\ HeadSeq <= HeadSeq'
    BY <1>4, <1>5, <2>1, SMT
  <2> QED
    BY <1>1, <1>2, <1>6, <2>2, <2>3, <2>4, <2>5, QueueFrame
<1>8. CASE t = s
  <2>1. /\ base[t] \in Int /\ sent[t] \in Seq(Nat) /\ last[t] \in Nat
        /\ backlog[t] \in Seq(Nat) /\ queue[t] \in Seq(Nat)
        /\ resume[t] \in Nat
    BY <1>1 DEF TypeOK
  <2>2. CASE Subscribe(t)
    <3>1. queue'[t] = <<>> /\ stage'[t] = "start"
      BY <1>1, <2>2 DEF Subscribe, Background, slotVars, TypeOK
    <3>2. Reach(t)' = HeadSeq BY <1>4, <3>1 DEF Reach
    <3>3. Len(queue'[t]) = 0 BY <3>1, EmptyFacts
    <3> QED BY <1>6, <3>1, <3>2, <3>3, SMT DEF QueueJoins
  <2>3. CASE WriteFails(t) \/ PopEvicted(t) \/ PumpThrows(t) \/ Unsubscribe(t)
    <3>1. ~Active(t)'
      BY <1>1, <2>3 DEF WriteFails, PopEvicted, PumpThrows, Unsubscribe,
         FinishWith, Active, TypeOK
    <3> QED BY <3>1 DEF QueueJoins
  <2>4. CASE Replay(t) \/ Baseline(t) \/ Write(t)
    <3>1. Active(t)
      BY <2>4 DEF Replay, Baseline, Write, Active
    <3>2. queue'[t] = queue[t] /\ (Attached(t)' => Attached(t))
      BY <1>3, <2>4, <3>1 DEF Replay, Baseline, Write, Attached, engineVars,
         busVars, slotVars
    <3>3. Reach(t)' = Reach(t)
      <4>1. CASE Replay(t)
        <5>1. Reach(t) = HeadSeq BY <4>1 DEF Replay, Reach
        <5>2. CASE ~(resume[t] > 0 /\ InRing(resume[t]))
          <6>1. stage'[t] # "streaming"
            BY <1>1, <4>1, <5>2 DEF Replay, TypeOK
          <6> QED BY <1>4, <5>1, <6>1 DEF Reach
        <5>3. CASE resume[t] > 0 /\ InRing(resume[t])
          <6>1. /\ stage'[t] = "streaming" /\ base'[t] = resume[t]
                /\ backlog'[t] = GetFromSeq(resume[t]) /\ sent'[t] = <<>>
            BY ZenonT(60), <1>1, <4>1, <5>3 DEF Replay, TypeOK, Background
          <6>2. Len(backlog'[t]) = HeadSeq - resume[t] /\ Len(sent'[t]) = 0
            BY <1>1, <2>1, <5>3, <6>1, GetFromSeqType, EmptyFacts
          <6>3. \A a, b \in Int : a + 0 + (b - a) = b BY SMT
          <6>4. Reach(t)' = resume[t] + 0 + (HeadSeq - resume[t])
            BY <6>1, <6>2 DEF Reach
          <6>5. resume[t] \in Int /\ HeadSeq \in Int BY <1>4, <2>1, SMT
          <6> QED BY <5>1, <6>3, <6>4, <6>5
        <5> QED BY <5>2, <5>3
      <4>2. CASE Baseline(t)
        <5>1. Reach(t) = HeadSeq BY <4>2 DEF Baseline, Reach
        <5>2. /\ stage'[t] = "streaming" /\ base'[t] = HeadSeq - 1
              /\ backlog'[t] = <<HeadSeq>> /\ sent'[t] = <<>>
          BY <1>1, <4>2 DEF Baseline, TypeOK, Background
        <5>3. Len(backlog'[t]) = 1 /\ Len(sent'[t]) = 0
          BY <1>4, <5>2, SingleFacts, EmptyFacts
        <5>4. Reach(t)' = HeadSeq - 1 + 0 + 1 BY <5>2, <5>3 DEF Reach
        <5> QED BY <1>4, <5>1, <5>4, SMT
      <4>3. CASE Write(t)
        <5>1. /\ stage[t] = "streaming" /\ stage'[t] = "streaming"
              /\ backlog[t] # <<>> /\ base'[t] = base[t]
              /\ sent'[t] = Append(sent[t], Head(backlog[t]))
              /\ backlog'[t] = Tail(backlog[t])
          BY <1>1, <4>3 DEF Write, TypeOK
        <5>2. /\ Len(backlog'[t]) = Len(backlog[t]) - 1
              /\ Len(backlog[t]) \in Int /\ Head(backlog[t]) \in Nat
          BY <2>1, <5>1, TailFacts, SMT
        <5>3. Len(sent'[t]) = Len(sent[t]) + 1 /\ Len(sent[t]) \in Int
          BY <2>1, <5>1, <5>2, AppendFacts, SMT
        <5>4. \A a, b, c \in Int : a + (b + 1) + (c - 1) = a + b + c
          BY SMT
        <5>5. Reach(t) = base[t] + Len(sent[t]) + Len(backlog[t])
          BY <5>1 DEF Reach
        <5>6. Reach(t)' = base[t] + (Len(sent[t]) + 1) + (Len(backlog[t]) - 1)
          BY <5>1, <5>2, <5>3 DEF Reach
        <5> QED BY <2>1, <5>2, <5>3, <5>4, <5>5, <5>6
      <4> QED BY <2>4, <4>1, <4>2, <4>3
    <3>4. Reach(t) <= Reach(t)' /\ HeadSeq <= HeadSeq'
      BY <1>4, <1>5, <3>3, SMT
    <3> QED
      BY <1>1, <1>2, <1>6, <3>1, <3>2, <3>4, QueueFrame
  <2>5. CASE Pop(t)
    <3>1. /\ stage[t] = "streaming" /\ backlog[t] = <<>> /\ queue[t] # <<>>
          /\ stage'[t] = "streaming" /\ sent'[t] = sent[t]
          /\ base'[t] = base[t] /\ queue'[t] = Tail(queue[t])
          /\ backlog'[t] = IF Head(queue[t]) <= last[t] THEN <<>>
                           ELSE <<Head(queue[t])>>
          /\ Attached(t)' => Attached(t)
      BY <1>1, <1>3, <2>5 DEF Pop, TypeOK, Attached, Active, engineVars
    <3>2. /\ Head(queue[t]) = queue[t][1] /\ Head(queue[t]) \in Nat
          /\ Len(queue[t]) \in Nat \ {0}
          /\ queue'[t] \in Seq(Nat) /\ Len(queue'[t]) = Len(queue[t]) - 1
          /\ \A i \in 1..(Len(queue[t]) - 1) : queue'[t][i] = queue[t][i + 1]
      BY <2>1, <3>1, TailFacts
    <3>3. Len(backlog[t]) = 0 /\ Len(sent[t]) \in Int
      BY <2>1, <3>1, EmptyFacts, SMT
    <3>4. last[t] = base[t] + Len(sent[t])
      BY <1>1, <3>1 DEF BacklogJoins
    <3>5. Reach(t) = last[t]
      <4>1. Reach(t) = base[t] + Len(sent[t]) + 0 BY <3>1, <3>3 DEF Reach
      <4>2. \A a, b \in Int : a + b + 0 = a + b BY SMT
      <4> QED BY <2>1, <3>3, <3>4, <4>1, <4>2
    <3> DEFINE h == Head(queue[t])
    <3>6. /\ h <= last[t] + 1
          /\ \A i \in 1..Len(queue[t]) : /\ queue[t][i] = h + i - 1
                                          /\ queue[t][i] <= HeadSeq
          /\ Attached(t) => queue[t][Len(queue[t])] + 1 = NextFor(t)
      BY <1>1, <3>1, <3>2, <3>5 DEF QueueJoins, Active
    <3>7. h <= Reach(t)' /\ Reach(t)' \in Int
      <4>1. CASE h <= last[t]
        <5>1. /\ backlog'[t] = backlog[t] /\ stage'[t] = stage[t]
              /\ base'[t] = base[t] /\ sent'[t] = sent[t]
          BY <3>1, <4>1
        <5>2. Reach(t)' = Reach(t) BY <1>4, <5>1 DEF Reach
        <5> QED BY <1>5, <3>5, <4>1, <5>2
      <4>2. CASE ~(h <= last[t])
        <5>1. h = last[t] + 1 BY <2>1, <3>2, <3>6, <4>2, SMT
        <5>2. Len(backlog'[t]) = 1 BY <3>1, <3>2, <4>2, SingleFacts
        <5>3. Reach(t)' = base[t] + Len(sent[t]) + 1
          BY <3>1, <5>2 DEF Reach
        <5>4. Reach(t)' = last[t] + 1 BY <3>4, <5>3
        <5> QED BY <2>1, <5>1, <5>4, SMT
      <4> QED BY <4>1, <4>2
    <3> HIDE DEF h
    <3>8. h \in Nat BY <3>2 DEF h
    <3>9. \A i \in 1..Len(queue'[t]) : /\ queue'[t][i] = h + i
                                       /\ queue'[t][i] <= HeadSeq'
      <4> TAKE i \in 1..Len(queue'[t])
      <4>1. i \in 1..(Len(queue[t]) - 1) /\ i + 1 \in 1..Len(queue[t])
            /\ i \in Nat
        BY <3>2, SMT
      <4>2. queue'[t][i] = h + (i + 1) - 1 /\ queue'[t][i] <= HeadSeq
        BY <3>2, <3>6, <4>1
      <4>3. h + (i + 1) - 1 = h + i BY <3>8, <4>1, SMT
      <4> QED BY <1>4, <4>2, <4>3
    <3>10. ASSUME queue'[t] # <<>>
           PROVE  /\ queue'[t][1] = h + 1 /\ queue'[t][1] <= Reach(t)' + 1
                  /\ \A i \in 1..Len(queue'[t]) :
                       queue'[t][i] = queue'[t][1] + i - 1
                  /\ Attached(t)' => queue'[t][Len(queue'[t])] + 1 = NextFor(t)'
      <4>1. Len(queue'[t]) \in Nat \ {0} BY <3>2, <3>10, TailFacts
      <4>2. queue'[t][1] = h + 1 BY <3>9, <4>1, SMT
      <4>3. ASSUME NEW i \in 1..Len(queue'[t])
            PROVE  queue'[t][i] = queue'[t][1] + i - 1
        <5>1. i \in Nat BY <4>1, SMT
        <5>2. h + i = (h + 1) + i - 1 BY <3>8, <5>1, SMT
        <5> QED BY <3>9, <4>2, <5>2
      <4>4. h + 1 <= Reach(t)' + 1 BY <3>7, <3>8, SMT
      <4>5. queue'[t][Len(queue'[t])] = queue[t][Len(queue[t])]
        <5>1. Len(queue'[t]) \in 1..(Len(queue[t]) - 1)
              /\ Len(queue'[t]) + 1 = Len(queue[t])
          <6>1. \A a, b \in Nat \ {0} :
                  b = a - 1 => b \in 1..(a - 1) /\ b + 1 = a
            BY SMT
          <6> QED BY <3>2, <4>1, <6>1
        <5> QED BY <3>2, <5>1
      <4> QED BY <1>6, <3>1, <3>6, <4>2, <4>3, <4>4, <4>5
    <3>11. ASSUME queue'[t] = <<>>, Attached(t)'
           PROVE  NextFor(t)' <= Reach(t)' + 1
      <4>1. Len(queue[t]) = 1
        <5>1. Len(queue[t]) - 1 = 0 BY <3>2, <3>11, EmptyFacts
        <5> QED BY <3>2, <5>1, SMT
      <4>2. h + 1 = NextFor(t) BY <3>1, <3>2, <3>6, <3>11, <4>1 DEF h
      <4> QED BY <1>6, <3>7, <3>8, <4>2, SMT
    <3> QED
      <4>1. \A i \in 1..Len(queue'[t]) :
              /\ queue'[t][i] = queue'[t][1] + i - 1
              /\ queue'[t][i] <= HeadSeq'
        <5>1. CASE queue'[t] = <<>>
          <6>1. Len(queue'[t]) = 0 BY <5>1, EmptyFacts
          <6> QED BY <6>1, SMT
        <5>2. CASE queue'[t] # <<>> BY <3>9, <3>10, <5>2
        <5> QED BY <5>1, <5>2
      <4> QED BY <3>10, <3>11, <4>1 DEF QueueJoins
  <2> QED BY <1>8, <2>2, <2>3, <2>4, <2>5 DEF Call, Pump
<1> QED BY <1>7, <1>8

\* The initial state satisfies the inductive invariant.
LEMMA StreamInvInit == Init => StreamInv
<1> SUFFICES ASSUME Init PROVE StreamInv OBVIOUS
<1>1. TypeOK BY TypeInit
<1>2. HeadSeq = 0 BY DEF Init, HeadSeq
<1>3. Background BY <1>2, SMT DEF Init, Background
<1>4. \A s \in Calls : Len(sent[s]) = 0 /\ ~fresh[s] /\ sent[s] = <<>>
  BY EmptyFacts DEF Init
<1>5. GapFree
  <2>1. ASSUME NEW s \in Calls, NEW i \in 1..Len(sent[s]) PROVE FALSE
    <3>1. i \in 1..0 BY <1>4, <2>1
    <3> QED BY <3>1, SMT
  <2> QED BY <1>4, <2>1 DEF GapFree
<1>6. RingContiguous
  <2>1. Len(ring) = 0 BY EmptyFacts DEF Init
  <2> QED BY <1>2, <2>1, RingCapacityAssumption, SMT DEF Init, RingContiguous
<1>7. \A s \in Calls : BacklogJoins(s) /\ QueueJoins(s)
  BY DEF Init, BacklogJoins, QueueJoins, Active
<1> QED BY <1>1, <1>3, <1>5, <1>6, <1>7 DEF StreamInv

\* Every step keeps the inductive invariant.
LEMMA StreamInvNext == StreamInv /\ [Next]_vars => StreamInv'
<1> SUFFICES ASSUME StreamInv, [Next]_vars PROVE StreamInv' OBVIOUS
<1>1. TypeOK' BY TypeNext DEF StreamInv
<1>2. GapFree' BY GapFreeNext
<1>3. CASE UNCHANGED vars
  <2> USE <1>3 DEF vars, engineVars, busVars, slotVars, callVars, pumpVars
  <2>1. HeadSeq' = HeadSeq BY HeadSeqFrame
  <2>2. Background' BY <2>1 DEF StreamInv, Background
  <2>3. RingContiguous' = RingContiguous BY <2>1 DEF RingContiguous
  <2>4. ASSUME NEW s \in Calls
        PROVE  /\ BacklogJoins(s)' = BacklogJoins(s)
               /\ QueueJoins(s)' = QueueJoins(s)
    BY <2>1 DEF BacklogJoins, QueueJoins, Active, Attached, Reach, NextFor
  <2> QED BY <1>1, <1>2, <2>2, <2>3, <2>4 DEF StreamInv
<1>4. CASE Engine
  <2>1. Background' BY <1>4, BackgroundEngine
  <2>2. ASSUME ~cancelled'
        PROVE  /\ RingContiguous'
               /\ \A s \in Calls : BacklogJoins(s)' /\ QueueJoins(s)'
    BY <1>4, <2>2, RingNext, BacklogNext, QueueEngine
  <2> QED BY <1>1, <1>2, <2>1, <2>2 DEF StreamInv
<1>5. ASSUME NEW c \in Calls, Call(c) PROVE StreamInv'
  <2>1. Background' BY <1>5, BackgroundCall
  <2>2. ASSUME ~cancelled'
        PROVE  /\ RingContiguous'
               /\ \A s \in Calls : BacklogJoins(s)' /\ QueueJoins(s)'
    BY <1>5, <2>2, RingNext, BacklogNext, QueueCall
  <2> QED BY <1>1, <1>2, <2>1, <2>2 DEF StreamInv
<1> QED BY <1>3, <1>4, <1>5 DEF Next

\* StreamInv holds in every reachable state.
THEOREM StreamInvariant == Spec => []StreamInv
BY StreamInvInit, StreamInvNext, PTL DEF Spec

\* Types: numbers handed out stay within MaxSeq, every queue and every history
\* holds numbers, every status is one the pump can hand to Finish.
THEOREM TypeCorrect == Spec => []TypeOK
BY TypeInit, TypeNext, PTL DEF Spec

\* A StreamState client never sees a gap, a repetition or a stale snapshot,
\* for any number of calls and any capacities.
THEOREM GapFreeCorrect == Spec => []GapFree
<1>1. StreamInv => GapFree BY DEF StreamInv
<1> QED BY <1>1, StreamInvariant, PTL

-----------------------------------------------------------------------------
(***************************************************************************)
(* Who is blamed for a lost update.                                        *)
(***************************************************************************)

\* Every step keeps the account of evictions and final statuses.
LEMMA BlameNext == TypeOK /\ BlameInv /\ [Next]_vars => BlameInv'
<1> SUFFICES ASSUME TypeOK, BlameInv, [Next]_vars PROVE BlameInv' OBVIOUS
<1> USE DEF vars, engineVars, busVars, slotVars, callVars, pumpVars
<1> DEFINE B(t) ==
       /\ stage[t] \notin {"finished", "deleted"} => status[t] = "none"
       /\ eviction[t] = "kNone" => status[t] \in {"none", "CANCELLED", "INTERNAL"}
       /\ victim = t /\ eviction[t] = "kNone" => dropped[t] > 0
       /\ eviction[t] = "kSlowConsumer" => dropped[t] > 0
       /\ dropped[t] > 0 =>
            \/ victim = t /\ eviction[t] = "kNone"
            \/ eviction[t] = "kSlowConsumer"
            \/ stage[t] = "deleted"
       /\ dropped[t] > 0 => status[t] \notin {"OK", "UNAVAILABLE"}
       /\ status[t] = "RESOURCE_EXHAUSTED" => dropped[t] > 0
<1>0. (victim # None => epc = "fanout") /\ \A t \in Calls : B(t)
  BY DEF BlameInv
<1>1. victim' # None => epc' = "fanout"
  BY ZenonT(60), <1>0 DEF Next, Engine, Emit, EmitThrows, Close, PublishCapture,
     PublishEvict, PublishDone, EvictAllCapture, ServerShutdown, PublishPush,
     EvictAllOne, Call, Pump, Subscribe, Replay, Baseline, Write, WriteFails,
     Pop, PopEvicted, PumpThrows, Unsubscribe, FinishWith
<1>2. ASSUME NEW t \in Calls PROVE B(t)'
  <2>0. B(t) BY <1>0
  <2>1. CASE UNCHANGED vars BY <2>0, <2>1
  <2>2. CASE Emit \/ EmitThrows \/ Close \/ PublishCapture \/ PublishDone
              \/ EvictAllCapture \/ ServerShutdown
    BY <2>0, <2>2 DEF Emit, EmitThrows, Close, PublishCapture, PublishDone,
       EvictAllCapture, ServerShutdown
  <2>3. CASE PublishEvict
    <3>1. /\ eviction'[t] = IF t = victim /\ eviction[t] = "kNone"
                            THEN "kSlowConsumer" ELSE eviction[t]
          /\ victim' = None /\ dropped' = dropped /\ status' = status
          /\ stage' = stage
      BY <2>3 DEF PublishEvict, Evict, TypeOK
    <3> QED BY <2>0, <3>1, NoneAssumption
  <2>4. ASSUME NEW s \in Calls, PublishPush(s) PROVE B(t)'
    <3>1. dropped[s] + 1 > 0
      <4>1. dropped[s] \in Nat BY DEF TypeOK
      <4>2. \A n \in Nat : n + 1 > 0 BY SMT
      <4> QED BY <4>1, <4>2
    <3>2. CASE s # t
      <4>1. /\ dropped'[t] = dropped[t] /\ eviction' = eviction
            /\ victim = None /\ victim' # t
            /\ status' = status /\ stage' = stage
        BY <2>4, <3>2, NoneAssumption DEF PublishPush, TypeOK
      <4> QED BY <2>0, <4>1, NoneAssumption
    <3>3. CASE s = t
      <4>1. /\ victim = None /\ eviction' = eviction
            /\ status' = status /\ stage' = stage
            /\ \/ victim' = victim /\ dropped' = dropped
               \/ /\ eviction[t] = "kNone" /\ victim' = t
                  /\ dropped'[t] = dropped[t] + 1
               \/ eviction[t] # "kNone" /\ dropped' = dropped
        BY <2>4, <3>3 DEF PublishPush, TypeOK
      <4> QED BY <2>0, <3>1, <3>3, <4>1, NoneAssumption
    <3> QED BY <3>2, <3>3
  <2>5. ASSUME NEW s \in Calls, EvictAllOne(s) PROVE B(t)'
    <3>1. victim = None BY <1>0, <2>5 DEF EvictAllOne
    <3>2. /\ \/ eviction'[t] = eviction[t]
             \/ eviction[t] = "kNone" /\ eviction'[t] \in {"kFault", "kCanceled"}
          /\ victim' = None /\ dropped' = dropped /\ status' = status
          /\ stage' = stage
      BY <2>5, <3>1 DEF EvictAllOne, Evict, TypeOK
    <3> QED BY <2>0, <3>1, <3>2, NoneAssumption
  <2>6. ASSUME NEW s \in Calls,
               Subscribe(s) \/ Replay(s) \/ Baseline(s) \/ Write(s) \/ Pop(s)
        PROVE  B(t)'
    <3>1. /\ victim' = victim /\ eviction' = eviction /\ dropped' = dropped
          /\ status' = status
          /\ \/ stage'[t] = stage[t]
             \/ /\ stage[t] \in {"new", "start", "baseline"}
                /\ stage'[t] \in {"start", "baseline", "streaming"}
      BY <2>6 DEF Subscribe, Replay, Baseline, Write, Pop, TypeOK
    <3> QED BY <2>0, <3>1
  <2>7. ASSUME NEW s \in Calls, WriteFails(s) \/ PumpThrows(s) PROVE B(t)'
    <3>1. /\ victim' = victim /\ eviction' = eviction /\ dropped' = dropped
          /\ \/ stage'[t] = stage[t] /\ status'[t] = status[t]
             \/ /\ stage[t] \notin {"finished", "deleted"}
                /\ stage'[t] = "finished"
                /\ status'[t] \in {"CANCELLED", "INTERNAL"}
      BY <2>7 DEF WriteFails, PumpThrows, FinishWith, TypeOK
    <3> QED BY <2>0, <3>1
  <2>8. ASSUME NEW s \in Calls, PopEvicted(s) PROVE B(t)'
    <3>1. /\ victim' = victim /\ eviction' = eviction /\ dropped' = dropped
          /\ \/ stage'[t] = stage[t] /\ status'[t] = status[t]
             \/ /\ eviction[t] # "kNone" /\ stage[t] = "streaming"
                /\ stage'[t] = "finished"
                /\ IF eviction[t] = "kSlowConsumer"
                   THEN status'[t] = "RESOURCE_EXHAUSTED"
                   ELSE status'[t] \in {"UNAVAILABLE", "OK"}
      BY <2>8 DEF PopEvicted, FinishWith, TypeOK
    <3> QED BY <2>0, <3>1
  <2>9. ASSUME NEW s \in Calls, Unsubscribe(s) PROVE B(t)'
    <3>1. /\ victim' = victim /\ dropped' = dropped /\ status' = status
          /\ \/ stage'[t] = stage[t] /\ eviction'[t] = eviction[t]
             \/ /\ stage[t] = "finished" /\ stage'[t] = "deleted"
                /\ eviction'[t] = IF eviction[t] = "kNone" THEN "kCanceled"
                                  ELSE eviction[t]
      BY <2>9 DEF Unsubscribe, Evict, TypeOK
    <3> QED BY <2>0, <3>1
  <2> QED BY <2>1, <2>2, <2>3, <2>4, <2>5, <2>6, <2>7, <2>8, <2>9
          DEF Next, Engine, Call, Pump
<1>3. \A t \in Calls : B(t)' BY <1>2
<1> QED BY <1>1, <1>3 DEF BlameInv

\* That account holds in every behaviour.
LEMMA BlameInvariant == Spec => []BlameInv
<1>1. Init => BlameInv BY NoneAssumption, SMT DEF Init, BlameInv
<1> QED BY <1>1, TypeInit, TypeNext, BlameNext, PTL DEF Spec

\* A call whose slot dropped an update never ends with OK or UNAVAILABLE.
THEOREM LossReported == Spec => []LossIsReported
<1>1. TypeOK /\ BlameInv => LossIsReported
  BY DEF TypeOK, Statuses, BlameInv, LossIsReported
<1> QED BY <1>1, BlameInvariant, TypeCorrect, PTL

\* RESOURCE_EXHAUSTED ends only calls whose slot was full at a push.
THEOREM SlowIsFull == Spec => []SlowMeansFull
<1>1. BlameInv => SlowMeansFull BY DEF BlameInv, SlowMeansFull
<1> QED BY <1>1, BlameInvariant, PTL

-----------------------------------------------------------------------------
(***************************************************************************)
(* The implementation keeps StreamContract.                                *)
(***************************************************************************)

phaseBar == [s \in Calls |-> PhaseOf(s)]
posBar == [s \in Calls |-> PosOf(s)]

\* The initial state maps to an initial state of the contract.
LEMMA ContractInit == Init => Contract!Init
<1> SUFFICES ASSUME Init PROVE Contract!Init OBVIOUS
<1>1. HeadSeq = 0 BY DEF Init, HeadSeq
<1>2. \A s \in Calls : PhaseOf(s) = "new" /\ PosOf(s) = 0
  <2> TAKE s \in Calls
  <2>1. stage[s] = "new" /\ sent[s] = <<>> BY DEF Init
  <2> QED BY <2>1 DEF PhaseOf, PosOf, Active
<1> QED BY <1>1, <1>2 DEF Init, Contract!Init

\* A step that leaves the head and what the clients see alone is a stutter.
LEMMA ContractStutter ==
  ASSUME HeadSeq' = HeadSeq, resume' = resume, floor' = floor,
         \A t \in Calls : PhaseOf(t)' = PhaseOf(t) /\ PosOf(t)' = PosOf(t)
  PROVE  UNCHANGED Contract!vars
BY DEF Contract!vars

\* A step of the engine thread maps to a step of the contract or to a stutter.
LEMMA ContractEngine ==
  ASSUME StreamInv, Engine PROVE [Contract!Next]_(Contract!vars)
<1>1. TypeOK /\ HeadSeq <= seq BY DEF StreamInv, Background
<1>2. [Next]_vars BY DEF Next
<1>3. \A t \in Calls : PhaseOf(t)' = PhaseOf(t) /\ PosOf(t)' = PosOf(t)
  BY EngineFrame DEF PhaseOf, PosOf, Active
<1>4. CASE HeadSeq' = HeadSeq BY <1>3, <1>4, EngineFrame, ContractStutter
<1>5. CASE HeadSeq' # HeadSeq
  <2>1. HeadSeq \in Nat /\ HeadSeq' \in Nat /\ HeadSeq' > HeadSeq
    BY <1>1, <1>2, <1>5, HeadSeqStep, HeadSeqType, SMT
  <2>2. Contract!Publish
    BY <1>3, <2>1, EngineFrame DEF Contract!Publish
  <2> QED BY <2>2 DEF Contract!Next
<1> QED BY <1>4, <1>5

\* The first Write of a call opens its stream, every other one delivers.
LEMMA ContractWrite ==
  ASSUME StreamInv, NEW s \in Calls, Write(s)
  PROVE  Contract!Open(s) \/ Contract!Deliver(s)
<1>1. /\ TypeOK /\ Background /\ GapFree /\ ~cancelled
      /\ BacklogJoins(s) /\ QueueJoins(s)
  BY DEF StreamInv, Write
<1>2. Call(s) BY DEF Call, Pump
<1>3. /\ HeadSeq \in Nat /\ HeadSeq' = HeadSeq
      /\ resume' = resume /\ floor' = floor
  BY <1>1, <1>2, HeadSeqType, HeadSeqFrame, CallFrame DEF engineVars, Write
<1>4. /\ base[s] \in Int /\ sent[s] \in Seq(Nat) /\ backlog[s] \in Seq(Nat)
      /\ resume[s] \in Nat /\ floor[s] \in Nat /\ last[s] \in Nat
  BY <1>1 DEF TypeOK
<1>5. /\ stage[s] = "streaming" /\ backlog[s] # <<>> /\ stage' = stage
      /\ sent'[s] = Append(sent[s], Head(backlog[s]))
      /\ last'[s] = Head(backlog[s])
  BY <1>1 DEF Write, TypeOK
<1>6. /\ Head(backlog[s]) \in Nat /\ Head(backlog[s]) = backlog[s][1]
      /\ Len(backlog[s]) \in Nat \ {0} /\ 1 \in 1..Len(backlog[s])
  BY <1>4, <1>5, TailFacts, SMT
<1>7. sent'[s] # <<>> /\ Len(sent[s]) \in Nat
  <2>1. Append(sent[s], Head(backlog[s])) # <<>>
    BY <1>4, <1>6, AppendFacts
  <2>2. Len(sent[s]) \in Nat BY <1>4, SMT
  <2> QED BY <1>5, <2>1, <2>2
<1> DEFINE h == Head(backlog[s])
<1>8. h = base[s] + Len(sent[s]) + 1
  BY <1>1, <1>5, <1>6 DEF BacklogJoins
<1>9. h <= HeadSeq
  <2>1. base[s] + Len(sent[s]) + Len(backlog[s]) <= HeadSeq
    BY <1>1, <1>5 DEF BacklogJoins, Reach
  <2>2. \A b \in Int, l \in Nat, k \in Nat \ {0}, m \in Nat :
          b + l + k <= m => b + l + 1 <= m
    BY SMT
  <2> QED BY <1>3, <1>4, <1>6, <1>7, <1>8, <2>1, <2>2
<1>10. ASSUME NEW t \in Calls, t # s
       PROVE  PhaseOf(t)' = PhaseOf(t) /\ PosOf(t)' = PosOf(t)
  BY <1>1, <1>2, <1>10, CallFrame DEF PhaseOf, PosOf, Active
<1>11. PhaseOf(s)' = "open" /\ PosOf(s)' = h
  BY <1>5, <1>7 DEF PhaseOf, PosOf, Active
<1> DEFINE pos1 == [posBar EXCEPT ![s] = h]
<1>12. posBar' = pos1
  BY <1>10, <1>11 DEF posBar
<1>13. CASE sent[s] = <<>>
  <2>1. PhaseOf(s) = "asked" BY <1>5, <1>13 DEF PhaseOf, Active
  <2>2. phaseBar' = [phaseBar EXCEPT ![s] = "open"]
    BY <1>10, <1>11 DEF phaseBar
  <2>3. Len(sent[s]) = 0 BY <1>13, EmptyFacts
  <2>4. h = base[s] + 1
    <3>1. \A b \in Int : b + 0 + 1 = b + 1 BY SMT
    <3> QED BY <1>4, <1>8, <2>3, <3>1
  <2>5. CASE ~fresh[s]
    <3>1. base[s] = resume[s] BY <1>1, <1>5, <2>5 DEF Background
    <3>2. resume[s] < HeadSeq /\ h = resume[s] + 1
      BY <1>3, <1>4, <1>9, <2>4, <3>1, SMT
    <3> HIDE DEF h
    <3> QED BY <1>3, <1>12, <2>1, <2>2, <3>2
            DEF Contract!Open, phaseBar, posBar
  <2>6. CASE fresh[s]
    <3>1. base[s] + 1 >= floor[s] BY <1>1, <2>6 DEF GapFree
    <3>2. h \in floor[s]..HeadSeq BY <1>3, <1>4, <1>9, <2>4, <3>1, SMT
    <3> HIDE DEF h
    <3> QED BY <1>3, <1>12, <2>1, <2>2, <3>2
            DEF Contract!Open, phaseBar, posBar
  <2> QED BY <2>5, <2>6
<1>14. CASE sent[s] # <<>>
  <2>1. PhaseOf(s) = "open" /\ PosOf(s) = last[s]
    BY <1>5, <1>14 DEF PhaseOf, PosOf, Active
  <2>2. phaseBar' = phaseBar BY <1>10, <1>11, <2>1 DEF phaseBar
  <2>3. last[s] = base[s] + Len(sent[s])
    BY <1>1, <1>5, <1>14 DEF BacklogJoins
  <2>4. h = last[s] + 1 BY <1>8, <2>3
  <2>5. last[s] < HeadSeq BY <1>3, <1>4, <1>9, <2>4, SMT
  <2>6. posBar' = [posBar EXCEPT ![s] = @ + 1]
    BY <1>12, <2>1, <2>4 DEF posBar
  <2> QED
    BY <1>3, <2>1, <2>2, <2>5, <2>6 DEF Contract!Deliver, phaseBar, posBar
<1> QED BY <1>13, <1>14

\* So does a step of a call.
LEMMA ContractCall ==
  ASSUME StreamInv, NEW s \in Calls, Call(s)
  PROVE  [Contract!Next]_(Contract!vars)
<1>1. TypeOK /\ Background BY DEF StreamInv
<1>2. HeadSeq' = HeadSeq /\ HeadSeq \in Nat
  BY <1>1, HeadSeqType, HeadSeqFrame, CallFrame DEF engineVars
<1>3. ASSUME NEW t \in Calls, t # s
      PROVE  PhaseOf(t)' = PhaseOf(t) /\ PosOf(t)' = PosOf(t)
  BY <1>1, <1>3, CallFrame DEF PhaseOf, PosOf, Active
<1>4. CASE Subscribe(s)
  <2>1. /\ stage[s] = "new" /\ stage'[s] = "start" /\ sent' = sent
        /\ sent[s] = <<>>
    BY <1>1, <1>4 DEF Subscribe, TypeOK, Background
  <2>2. /\ PhaseOf(s) = "new" /\ PhaseOf(s)' = "asked"
        /\ PosOf(s) = 0 /\ PosOf(s)' = 0
    BY <2>1 DEF PhaseOf, PosOf, Active
  <2>3. PICK r \in Resumes : resume' = [resume EXCEPT ![s] = r]
    BY <1>4 DEF Subscribe
  <2>4. /\ resume'[s] = r /\ r \in Nat
        /\ floor' = [floor EXCEPT ![s] = HeadSeq]
    BY <1>1, <1>4, <2>3, ResumesAssumption DEF Subscribe, TypeOK
  <2>5. phaseBar' = [phaseBar EXCEPT ![s] = "asked"] /\ posBar' = posBar
    BY <1>3, <2>2 DEF phaseBar, posBar
  <2>6. Contract!Ask(s)
    BY <1>2, <2>2, <2>3, <2>4, <2>5 DEF Contract!Ask, phaseBar, posBar
  <2> QED BY <2>6 DEF Contract!Next
<1>5. CASE Replay(s) \/ Baseline(s) \/ Pop(s) \/ Unsubscribe(s)
  <2>1. /\ sent' = sent /\ last' = last /\ resume' = resume /\ floor' = floor
        /\ \/ Active(s) /\ Active(s)'
           \/ stage[s] = "finished" /\ stage'[s] = "deleted"
    BY <1>1, <1>5 DEF Replay, Baseline, Pop, Unsubscribe, Active, TypeOK,
       pumpVars
  <2>2. PhaseOf(s)' = PhaseOf(s) /\ PosOf(s)' = PosOf(s)
    BY <2>1 DEF PhaseOf, PosOf, Active
  <2> QED BY <1>2, <1>3, <2>1, <2>2, ContractStutter
<1>6. CASE Write(s)
  <2>1. Contract!Open(s) \/ Contract!Deliver(s) BY <1>6, ContractWrite
  <2> QED BY <2>1 DEF Contract!Next
<1>7. CASE WriteFails(s) \/ PopEvicted(s) \/ PumpThrows(s)
  <2>1. /\ Active(s) /\ stage'[s] = "finished" /\ sent' = sent
        /\ last' = last /\ resume' = resume /\ floor' = floor
    BY <1>1, <1>7 DEF WriteFails, PopEvicted, PumpThrows, FinishWith, Active,
       pumpVars, TypeOK
  <2>2. /\ PhaseOf(s) \in {"asked", "open"} /\ PhaseOf(s)' = "ended"
        /\ PosOf(s)' = PosOf(s)
    BY <2>1 DEF PhaseOf, PosOf, Active
  <2>3. phaseBar' = [phaseBar EXCEPT ![s] = "ended"] /\ posBar' = posBar
    BY <1>3, <2>2 DEF phaseBar, posBar
  <2>4. Contract!End(s)
    BY <1>2, <2>1, <2>2, <2>3 DEF Contract!End, phaseBar, posBar
  <2> QED BY <2>4 DEF Contract!Next
<1> QED BY <1>4, <1>5, <1>6, <1>7 DEF Call, Pump

\* Every behaviour of the ring, the bus, the slots and the pumps is one that
\* StreamContract allows: a stream starts where the client asked or at a
\* snapshot no older than the request, advances by one, never overtakes the
\* head and does not move once it has ended.
THEOREM ContractKept == Spec => KeepsContract
<1>1. StreamInv /\ [Next]_vars => [Contract!Next]_(Contract!vars)
  <2> SUFFICES ASSUME StreamInv, [Next]_vars
               PROVE  [Contract!Next]_(Contract!vars)
    OBVIOUS
  <2>1. CASE Engine BY <2>1, ContractEngine
  <2>2. ASSUME NEW s \in Calls, Call(s) PROVE [Contract!Next]_(Contract!vars)
    BY <2>2, ContractCall
  <2>3. CASE UNCHANGED vars
    <3>1. HeadSeq' = HeadSeq
      BY <2>3, HeadSeqFrame DEF vars, engineVars
    <3>2. \A t \in Calls : PhaseOf(t)' = PhaseOf(t) /\ PosOf(t)' = PosOf(t)
      BY <2>3 DEF vars, callVars, pumpVars, PhaseOf, PosOf, Active
    <3> QED BY <2>3, <3>1, <3>2, ContractStutter DEF vars, callVars
  <2> QED BY <2>1, <2>2, <2>3 DEF Next
<1> QED BY <1>1, ContractInit, StreamInvariant, PTL
        DEF Spec, KeepsContract, Contract!Spec
=============================================================================
