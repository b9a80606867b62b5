--------------------------- MODULE CommandPathProofs ---------------------------
(***************************************************************************)
(* Proofs about CommandPath for any calls, units and batches, whatever the *)
(* queue's capacity.                                                       *)
(***************************************************************************)
EXTENDS CommandPath, FiniteSetTheorems, SequenceTheorems, TLAPS

USE Zenon

Stages == {"kCreated", "kReading", "kFinishing", "wedged", "deleted"}

\* The worker, its calls and the AI slot.
CallInv ==
  /\ wpc \in {"next", "push"}
  /\ wpc = "push" => /\ cur \in Calls /\ stage[cur] = "kReading"
                     /\ incoming \in Batches /\ incoming.len > 0
                     /\ incoming.seq > lastSeen[cur]
  /\ stage \in [Calls -> Stages] /\ lastSeen \in [Calls -> 0..MaxSeq]
  /\ claimed \in [Calls -> BOOLEAN] /\ aiSlot \in BOOLEAN
  /\ aiSlot = \E c \in Calls : claimed[c]
  /\ \A c, d \in Calls : claimed[c] /\ claimed[d] => c = d
  /\ \A c \in Calls : /\ stage[c] = "kReading" => claimed[c]
                      /\ claimed[c] => stage[c] \notin {"kCreated", "deleted"}

\* The queue and the engine's loop over what it drained.
QueueInv ==
  /\ queue \in Seq(Command) /\ Len(queue) <= Capacity
  /\ drained \in Seq(Command) /\ Len(drained) <= Capacity
  /\ epc \in {"frame", "drain", "dispatch"}
  /\ drained # <<>> => epc = "dispatch"
  /\ state \in {"Healthy", "Disabled"}

\* The units and their orders.
UnitInv ==
  /\ unit \in [Units -> {"own", "gone"}]
  /\ orders \in [Units -> {"busy", "idle"}]
  /\ BusyUnitsAreOurs

(***************************************************************************)
(* The calls                                                               *)
(***************************************************************************)

\* Whatever happens to one call, if it ends no reader without the slot and no
\* second holder.
LEMMA CallInvStep ==
  ASSUME CallInv, [Next]_vars PROVE CallInv'
<1>1. CASE UNCHANGED <<workerVars, callVars>>
  BY <1>1 DEF CallInv, workerVars, callVars
<1>2. ASSUME NEW c \in Calls, HandleCreated(c) PROVE CallInv'
  <2>1. /\ wpc = "next" /\ stage[c] = "kCreated" /\ UNCHANGED <<wpc, cur, incoming, lastSeen>>
        /\ stage' = [stage EXCEPT ![c] = IF aiSlot THEN "kFinishing" ELSE "kReading"]
        /\ claimed' = [claimed EXCEPT ![c] = ~aiSlot] /\ aiSlot' = TRUE
    BY <1>2 DEF HandleCreated, workerVars
  <2>2. ~claimed[c]
    BY <2>1 DEF CallInv
  <2>3. CASE aiSlot
    <3>1. claimed' = claimed
      BY <2>1, <2>2, <2>3 DEF CallInv
    <3>2. stage' = [stage EXCEPT ![c] = "kFinishing"]
      BY <2>1, <2>3
    <3>3. aiSlot' = \E d \in Calls : claimed'[d]
      BY <2>1, <2>3, <3>1 DEF CallInv
    <3> QED
      BY <2>1, <2>2, <3>1, <3>2, <3>3, SMT DEF CallInv, Stages
  <2>4. CASE ~aiSlot
    <3>1. \A d \in Calls : ~claimed[d]
      BY <2>4 DEF CallInv
    <3>2. stage' = [stage EXCEPT ![c] = "kReading"] /\ claimed' = [claimed EXCEPT ![c] = TRUE]
      BY <2>1, <2>4
    <3>3. \A d \in Calls : claimed'[d] <=> d = c
      BY <3>1, <3>2 DEF CallInv
    <3>4. claimed' \in [Calls -> BOOLEAN]
      BY <3>2 DEF CallInv
    <3> QED
      BY <2>1, <3>2, <3>3, <3>4, SMT DEF CallInv, Stages
  <2> QED
    BY <2>3, <2>4
<1>3. ASSUME NEW c \in Calls, Destroy(c) PROVE CallInv'
  <2>1. /\ wpc = "next" /\ stage[c] = "kFinishing" /\ UNCHANGED <<wpc, cur, incoming, lastSeen>>
        /\ stage' = [stage EXCEPT ![c] = "deleted"]
        /\ claimed' = [claimed EXCEPT ![c] = FALSE] /\ aiSlot' = (aiSlot /\ ~claimed[c])
    BY <1>3 DEF Destroy, workerVars
  <2>2. \A d \in Calls : claimed'[d] <=> claimed[d] /\ d # c
    BY <2>1 DEF CallInv
  <2>3. aiSlot' = \E d \in Calls : claimed'[d]
    <3>1. CASE claimed[c]
      BY <2>1, <2>2, <3>1 DEF CallInv
    <3>2. CASE ~claimed[c]
      BY <2>1, <2>2, <3>2 DEF CallInv
    <3> QED
      BY <3>1, <3>2
  <2>4. claimed' \in [Calls -> BOOLEAN] /\ aiSlot' \in BOOLEAN
    BY <2>1 DEF CallInv
  <2>5. /\ stage' \in [Calls -> Stages]
        /\ \A d \in Calls : /\ stage'[d] = "kReading" => claimed'[d]
                            /\ claimed'[d] => stage'[d] \notin {"kCreated", "deleted"}
    BY <2>1, <2>2, SMT DEF CallInv, Stages
  <2>6. \A d, e \in Calls : claimed'[d] /\ claimed'[e] => d = e
    BY <2>2 DEF CallInv
  <2> QED
    BY <2>1, <2>3, <2>4, <2>5, <2>6 DEF CallInv
<1>4. ASSUME NEW c \in Calls, stage[c] = "kReading",
             stage' = [stage EXCEPT ![c] = "kFinishing"] \/ stage' = [stage EXCEPT ![c] = "wedged"],
             UNCHANGED <<claimed, aiSlot, lastSeen>>,
             wpc' = "next"
      PROVE  CallInv'
  <2>1. /\ stage' \in [Calls -> Stages]
        /\ \A d \in Calls : stage'[d] = stage[d]
                            \/ (d = c /\ stage'[d] \in {"kFinishing", "wedged"})
    BY <1>4 DEF CallInv, Stages
  <2>2. aiSlot' = \E d \in Calls : claimed'[d]
    BY <1>4 DEF CallInv
  <2> QED
    BY <1>4, <2>1, <2>2 DEF CallInv
<1>5. ASSUME NEW c \in Calls, ReadEnded(c) \/ HandlerThrows(c) PROVE CallInv'
  <2>1. stage[c] = "kReading"
    BY <1>5 DEF ReadEnded, HandlerThrows, CallInv
  <2> QED
    BY <1>4, <1>5, <2>1 DEF ReadEnded, HandlerThrows, Finish, workerVars
<1>6. ASSUME NEW c \in Calls, NEW b \in Batches, ReadBatch(c, b) PROVE CallInv'
  <2>1. /\ wpc = "next" /\ stage[c] = "kReading" /\ UNCHANGED <<claimed, lastSeen, aiSlot>>
    BY <1>6 DEF ReadBatch
  <2>2. CASE Finish(c) /\ UNCHANGED workerVars
    BY <1>4, <2>1, <2>2 DEF Finish, workerVars
  <2>3. CASE /\ b.seq > lastSeen[c] /\ Validated(b)
             /\ wpc' = "push" /\ cur' = c /\ incoming' = b
             /\ UNCHANGED stage
    <3>1. aiSlot' = \E d \in Calls : claimed'[d]
      BY <2>1 DEF CallInv
    <3> QED
      BY <2>1, <2>3, <3>1 DEF CallInv, Validated
  <2> QED
    BY <1>6, <2>2, <2>3 DEF ReadBatch
<1>7. CASE PushBatch
  <2>1. wpc = "push" /\ wpc' = "next" /\ UNCHANGED <<claimed, aiSlot>> /\ cur \in Calls
    BY <1>7 DEF PushBatch, CallInv
  <2>2. CASE lastSeen' = [lastSeen EXCEPT ![cur] = incoming.seq] /\ UNCHANGED stage
    <3>1. aiSlot' = \E d \in Calls : claimed'[d]
      BY <2>1 DEF CallInv
    <3>2. incoming.seq \in 0..MaxSeq
      BY <2>1, BatchesAssumption DEF CallInv
    <3> QED
      BY <2>1, <2>2, <3>1, <3>2 DEF CallInv
  <2>3. CASE Finish(cur) /\ UNCHANGED lastSeen
    BY <1>4, <2>1, <2>3 DEF Finish, CallInv
  <2> QED
    BY <1>7, <2>2, <2>3 DEF PushBatch
<1>8. CASE Next
  <2>1. CASE \E b \in Batches : CoordinatorBatch(b)
    BY <1>1, <2>1 DEF CoordinatorBatch
  <2>2. CASE Engine \/ HookThrows
    BY <1>1, <2>2 DEF Engine, HookThrows, TickTop, Drain, Apply, Skip, DispatchThrows, TickEnds
  <2>3. CASE \E u \in Units : UnitIdle(u) \/ UnitLost(u) \/ UnitGiven(u)
    BY <1>1, <2>3 DEF UnitIdle, UnitLost, UnitGiven, unitEvent
  <2>4. CASE Worker \/ Clients
    BY <1>2, <1>3, <1>5, <1>6, <1>7, <2>4 DEF Worker, Clients
  <2> QED
    BY <1>8, <2>1, <2>2, <2>3, <2>4 DEF Next
<1> QED
  BY <1>1, <1>8 DEF vars

(***************************************************************************)
(* Sequences                                                               *)
(***************************************************************************)

\* Taking the front of a concatenation.
LEMMA TailOfConcat ==
  ASSUME NEW S, NEW s \in Seq(S), s # <<>>, NEW t \in Seq(S)
  PROVE  s \o t # <<>> /\ Tail(s \o t) = Tail(s) \o t
<1>1. /\ s \o t \in Seq(S) /\ Len(s \o t) = Len(s) + Len(t) /\ Len(s) \in Nat \ {0}
      /\ Len(t) \in Nat
      /\ \A i \in 1..(Len(s) + Len(t)) :
           (s \o t)[i] = IF i <= Len(s) THEN s[i] ELSE t[i - Len(s)]
  BY ConcatProperties, EmptySeq, LenProperties
<1>2. s \o t # <<>>
  BY <1>1, SMT
<1>3. /\ Tail(s) \in Seq(S) /\ Len(Tail(s)) = Len(s) - 1
      /\ \A i \in 1..(Len(s) - 1) : Tail(s)[i] = s[i + 1]
  BY HeadTailProperties
<1>4. /\ Tail(s \o t) \in Seq(S) /\ Len(Tail(s \o t)) = Len(s) + Len(t) - 1
      /\ \A i \in 1..(Len(s) + Len(t) - 1) : Tail(s \o t)[i] = (s \o t)[i + 1]
  BY <1>1, <1>2, HeadTailProperties, SMT
<1>5. /\ Tail(s) \o t \in Seq(S) /\ Len(Tail(s) \o t) = Len(s) + Len(t) - 1
      /\ \A i \in 1..(Len(s) + Len(t) - 1) :
           (Tail(s) \o t)[i] = IF i <= Len(s) - 1 THEN Tail(s)[i] ELSE t[i - (Len(s) - 1)]
  BY <1>1, <1>3, ConcatProperties, SMT
<1>6. ASSUME NEW i \in 1..(Len(s) + Len(t) - 1)
      PROVE  Tail(s \o t)[i] = (Tail(s) \o t)[i]
  BY <1>1, <1>3, <1>4, <1>5, SMT
<1>7. Tail(s \o t) = Tail(s) \o t
  BY <1>4, <1>5, <1>6, SeqEqual
<1> QED
  BY <1>2, <1>7

\* Dropping the first part of a concatenation.
LEMMA SuffixOfConcat ==
  ASSUME NEW S, NEW s \in Seq(S), NEW t \in Seq(S)
  PROVE  SubSeq(s \o t, Len(s) + 1, Len(s \o t)) = t
<1>1. /\ s \o t \in Seq(S) /\ Len(s \o t) = Len(s) + Len(t) /\ Len(s) \in Nat
      /\ Len(t) \in Nat
      /\ \A i \in 1..(Len(s) + Len(t)) :
           (s \o t)[i] = IF i <= Len(s) THEN s[i] ELSE t[i - Len(s)]
  BY ConcatProperties, LenProperties
<1> DEFINE r == SubSeq(s \o t, Len(s) + 1, Len(s \o t))
<1>2. \A i \in (Len(s) + 1)..(Len(s) + Len(t)) : (s \o t)[i] \in S
  BY <1>1, ElementOfSeq, SMT
<1>3. /\ r \in Seq(S) /\ Len(r) = Len(t)
      /\ \A i \in 1..Len(t) : r[i] = (s \o t)[Len(s) + i]
  BY <1>1, <1>2, SubSeqProperties, SMT
<1>4. \A i \in 1..Len(t) : r[i] = t[i]
  BY <1>1, <1>3, SMT
<1> HIDE DEF r
<1>5. r = t
  BY <1>3, <1>4, SeqEqual
<1> QED
  BY <1>5 DEF r

\* The elements of a concatenation, by their place in its two parts.
LEMMA PlacesOfConcat ==
  ASSUME NEW S, NEW s \in Seq(S), NEW t \in Seq(S)
  PROVE  /\ Len(s \o t) = Len(s) + Len(t)
         /\ \A i \in 1..Len(s) : (s \o t)[i] = s[i]
         /\ \A i \in 1..Len(t) : (s \o t)[i + Len(s)] = t[i]
<1> DEFINE q == s \o t
<1>1. /\ Len(q) = Len(s) + Len(t) /\ Len(s) \in Nat /\ Len(t) \in Nat
      /\ \A i \in 1..(Len(s) + Len(t)) :
           q[i] = IF i <= Len(s) THEN s[i] ELSE t[i - Len(s)]
  BY ConcatProperties, LenProperties
<1> HIDE DEF q
<1>2. \A i \in 1..Len(s) : q[i] = s[i]
  BY <1>1, SMT
<1>3. ASSUME NEW i \in 1..Len(t) PROVE q[i + Len(s)] = t[i]
  <2>1. /\ i + Len(s) \in 1..(Len(s) + Len(t)) /\ ~(i + Len(s) <= Len(s))
        /\ (i + Len(s)) - Len(s) = i
    BY <1>1, SMT
  <2> QED
    BY <1>1, <2>1
<1> QED
  BY <1>1, <1>2, <1>3 DEF q

(***************************************************************************)
(* The queue                                                               *)
(***************************************************************************)

\* The commands of a batch.
LEMMA BlockType ==
  ASSUME NEW s \in Sessions, NEW b \in Batches, b.len > 0
  PROVE  /\ b.len \in 1..MaxBatch /\ CommandsOf(s, b) \in Seq(Command)
         /\ Len(CommandsOf(s, b)) = b.len
<1>1. b.seq \in 0..MaxSeq /\ b.len \in 1..MaxBatch /\ b.target \in Targets
  BY BatchesAssumption, BoundAssumption, SMT DEF Targets
<1> DEFINE e(i) == [src |-> s, seq |-> b.seq, idx |-> i, len |-> b.len, target |-> b.target]
<1>2. \A i \in 1..b.len : e(i) \in Command
  <2> SUFFICES ASSUME NEW i \in 1..b.len PROVE e(i) \in Command
    OBVIOUS
  <2>1. i \in 1..MaxBatch
    BY <1>1, BoundAssumption, SMT
  <2> QED
    BY <1>1, <2>1 DEF Command
<1> HIDE DEF e
<1>3. CommandsOf(s, b) = [i \in 1..b.len |-> e(i)]
  BY DEF CommandsOf, e
<1>4. CommandsOf(s, b) \in [1..b.len -> Command] /\ b.len \in Nat
  BY <1>1, <1>2, <1>3, BoundAssumption, SMT
<1> QED
  BY <1>1, <1>4, SMT

\* TryPushBatch keeps the queue within its capacity and puts a whole block at its end.
LEMMA PushBlock ==
  ASSUME QueueInv, NEW s \in Sessions, NEW b \in Batches, b.len > 0,
         TryPushBatch(CommandsOf(s, b)), UNCHANGED <<epc, drained, state>>
  PROVE  QueueInv' /\ pending' = pending \o CommandsOf(s, b) /\ Len(pending') <= 2 * Capacity
<1> DEFINE c == CommandsOf(s, b)
<1>1. c \in Seq(Command) /\ Len(c) \in Nat
  BY BlockType, BoundAssumption, SMT
<1>2. queue' = queue \o c /\ Len(c) <= Capacity - Len(queue)
  BY DEF TryPushBatch
<1>3. queue \in Seq(Command) /\ drained \in Seq(Command)
  BY DEF QueueInv
<1> HIDE DEF c
<1>4. queue' \in Seq(Command) /\ Len(queue') = Len(queue) + Len(c)
  BY <1>1, <1>2, <1>3, ConcatProperties
<1>5. Len(queue) \in Nat /\ Len(drained) \in Nat /\ Len(drained) <= Capacity
  BY <1>3, SMT DEF QueueInv
<1>6. Len(queue') <= Capacity
  BY <1>1, <1>2, <1>4, <1>5, CapacityAssumption, SMT
<1>7. QueueInv'
  BY <1>4, <1>6 DEF QueueInv
<1>8. pending' = pending \o c
  <2>1. (drained \o queue) \o c = drained \o (queue \o c)
    BY <1>1, <1>3, ConcatAssociative, SMTT(30)
  <2> QED
    BY <1>2, <2>1 DEF pending
<1>9. Len(pending') = Len(drained) + Len(queue')
  BY <1>3, <1>4, ConcatProperties DEF pending
<1>10. Len(pending') <= 2 * Capacity
  BY <1>1, <1>4, <1>5, <1>6, <1>9, CapacityAssumption, SMT
<1> QED
  BY <1>7, <1>8, <1>10 DEF c

\* What a step may do to the accepted commands that wait.
Accepts == \E s \in Sessions, b \in {d \in Batches : d.len > 0} :
             /\ pending' = pending \o CommandsOf(s, b) /\ Len(pending') <= 2 * Capacity
             /\ UNCHANGED <<state, epc>>
             /\ \/ s \in Calls /\ b.seq > lastSeen[s]
                   /\ lastSeen' = [lastSeen EXCEPT ![s] = b.seq]
                \/ s = Coordinator /\ UNCHANGED lastSeen
TakesUp == /\ epc = "dispatch" /\ pending # <<>> /\ pending' = Tail(pending)
           /\ UNCHANGED <<epc, lastSeen>>
Closes == /\ ~Closed /\ Closed' /\ UNCHANGED lastSeen
          /\ \E k \in 0..Len(pending) : pending' = SubSeq(pending, k + 1, Len(pending))
Leaves == UNCHANGED <<pending, lastSeen>> /\ (Closed' <=> Closed)

\* Every step keeps the queue in bounds and is one of the four.
LEMMA QueueStep ==
  ASSUME CallInv, QueueInv, [Next]_vars
  PROVE  QueueInv' /\ (Accepts \/ TakesUp \/ Closes \/ Leaves)
<1> DEFINE Goal == QueueInv' /\ (Accepts \/ TakesUp \/ Closes \/ Leaves)
<1> SUFFICES Goal
  OBVIOUS
<1>1. ASSUME UNCHANGED <<queue, epc, drained, state, lastSeen>> PROVE Goal
  <2>1. QueueInv'
    BY <1>1 DEF QueueInv
  <2>2. Leaves
    BY <1>1 DEF Leaves, pending, Closed
  <2> QED
    BY <2>1, <2>2
<1>2. /\ queue \in Seq(Command) /\ drained \in Seq(Command) /\ Len(queue) \in Nat
      /\ Len(drained) \in Nat /\ pending \in Seq(Command)
      /\ Len(pending) = Len(drained) + Len(queue) /\ <<>> \in Seq(Command)
  BY ConcatProperties, LenProperties, EmptySeq DEF QueueInv, pending
<1>3. CASE PushBatch
  <2>1. /\ wpc = "push" /\ cur \in Calls /\ incoming \in Batches /\ incoming.len > 0
        /\ incoming.seq > lastSeen[cur] /\ UNCHANGED <<epc, drained, state>>
    BY <1>3 DEF PushBatch, CallInv, engineVars
  <2>2. CASE /\ TryPushBatch(CommandsOf(cur, incoming))
             /\ lastSeen' = [lastSeen EXCEPT ![cur] = incoming.seq]
    <3>1. /\ QueueInv' /\ pending' = pending \o CommandsOf(cur, incoming)
          /\ Len(pending') <= 2 * Capacity
      BY <2>1, <2>2, PushBlock DEF Sessions
    <3>2. Accepts
      BY <2>1, <2>2, <3>1 DEF Accepts, Sessions
    <3> QED
      BY <3>1, <3>2
  <2>3. CASE UNCHANGED <<queue, lastSeen>>
    BY <1>1, <2>1, <2>3
  <2> QED
    BY <1>3, <2>2, <2>3 DEF PushBatch
<1>4. ASSUME NEW b \in Batches, CoordinatorBatch(b) PROVE Goal
  <2>1. /\ b.len > 0 /\ TryPushBatch(CommandsOf(Coordinator, b))
        /\ UNCHANGED <<epc, drained, state, lastSeen>>
    BY <1>4 DEF CoordinatorBatch, engineVars, callVars
  <2>2. /\ QueueInv' /\ pending' = pending \o CommandsOf(Coordinator, b)
        /\ Len(pending') <= 2 * Capacity
    BY <2>1, PushBlock DEF Sessions
  <2>3. Accepts
    BY <2>1, <2>2 DEF Accepts, Sessions
  <2> QED
    BY <2>2, <2>3
<1>5. ASSUME ~Closed, state' = "Disabled", epc' = "frame", drained = <<>>,
             UNCHANGED <<queue, drained, lastSeen>>
      PROVE  Goal
  <2>1. QueueInv'
    BY <1>5 DEF QueueInv
  <2>2. 0 \in 0..Len(pending) /\ pending' = SubSeq(pending, 0 + 1, Len(pending))
    BY <1>2, <1>5, SubSeqFull, SMT DEF pending
  <2>3. Closes
    BY <1>5, <2>2 DEF Closes, Closed
  <2> QED
    BY <2>1, <2>3
<1>6. ASSUME ~Closed, ~Closed', epc' \in {"frame", "drain", "dispatch"},
             state' \in {"Healthy", "Disabled"}, UNCHANGED <<queue, drained, lastSeen>>,
             drained = <<>> \/ epc' = "dispatch"
      PROVE  Goal
  <2>1. QueueInv'
    BY <1>6 DEF QueueInv
  <2>2. Leaves
    BY <1>6 DEF Leaves, pending
  <2> QED
    BY <2>1, <2>2
<1>7. CASE TickTop
  <2>1. /\ epc = "frame" /\ state = "Healthy" /\ UNCHANGED <<queue, drained, lastSeen>>
        /\ drained = <<>> /\ ~Closed
    BY <1>7 DEF TickTop, callVars, QueueInv, Closed
  <2>2. CASE state' = "Disabled" /\ epc' = "frame"
    BY <1>5, <2>1, <2>2
  <2>3. CASE epc' = "drain" /\ state' \in {"Healthy", "Disabled"}
    <3>1. ~Closed'
      BY <2>3 DEF Closed
    <3> QED
      BY <1>6, <2>1, <2>3, <3>1
  <2> QED
    BY <1>7, <2>1, <2>2, <2>3 DEF TickTop, BeforeCommands
<1>14. CASE TickEnds
  <2>1. /\ epc = "dispatch" /\ drained = <<>> /\ state' \in {state, "Disabled"}
        /\ epc' = "frame" /\ UNCHANGED <<queue, drained, lastSeen>> /\ ~Closed
    BY <1>14 DEF TickEnds, callVars, Closed
  <2>2. CASE state' = "Disabled"
    BY <1>5, <2>1, <2>2
  <2>3. CASE state' # "Disabled"
    <3>1. ~Closed' /\ state' \in {"Healthy", "Disabled"}
      BY <2>1, <2>3 DEF Closed, QueueInv
    <3> QED
      BY <1>6, <2>1, <3>1
  <2> QED
    BY <2>2, <2>3
<1>15. CASE HookThrows
  <2>1. /\ state = "Healthy" /\ state' = "Disabled" /\ ~Closed
        /\ UNCHANGED <<epc, queue, drained, lastSeen>>
    BY <1>15 DEF HookThrows, callVars, engineVars, Closed
  <2>2. CASE epc = "frame"
    BY <1>5, <2>1, <2>2 DEF QueueInv
  <2>3. CASE epc # "frame"
    <3>1. ~Closed' /\ epc' \in {"frame", "drain", "dispatch"}
      BY <2>1, <2>3 DEF Closed, QueueInv
    <3>2. drained = <<>> \/ epc' = "dispatch"
      BY <2>1 DEF QueueInv
    <3> QED
      BY <1>6, <2>1, <3>1, <3>2
  <2> QED
    BY <2>2, <2>3
<1>8. CASE Drain
  <2>1. /\ epc = "drain" /\ drained' = queue /\ queue' = <<>> /\ UNCHANGED <<state, lastSeen>>
        /\ epc' = "dispatch"
    BY <1>8 DEF Drain, callVars
  <2>2. drained = <<>>
    BY <2>1 DEF QueueInv
  <2>3. QueueInv'
    BY <1>2, <2>1, <2>2, CapacityAssumption DEF QueueInv
  <2>4. queue \o <<>> = queue /\ <<>> \o queue = queue
    BY <1>2, ConcatEmptySeq
  <2>5. pending' = pending
    BY <2>1, <2>2, <2>4 DEF pending
  <2>6. Leaves
    BY <2>1, <2>5 DEF Leaves, Closed
  <2> QED
    BY <2>3, <2>6
<1>9. CASE Apply \/ Skip
  <2>1. /\ epc = "dispatch" /\ drained # <<>> /\ drained' = Tail(drained)
        /\ UNCHANGED <<queue, state, epc, lastSeen>>
    BY <1>9 DEF Apply, Skip, Dispatching, Advance, callVars
  <2>2. /\ Tail(drained) \in Seq(Command) /\ Len(Tail(drained)) = Len(drained) - 1
    BY <1>2, <2>1, HeadTailProperties
  <2>3. Len(drained) <= Capacity
    BY DEF QueueInv
  <2>4. Len(Tail(drained)) <= Capacity
    BY <1>2, <2>2, <2>3, CapacityAssumption, SMT
  <2>5. QueueInv'
    BY <2>1, <2>2, <2>4 DEF QueueInv
  <2>6. pending # <<>> /\ pending' = Tail(pending)
    BY <1>2, <2>1, TailOfConcat DEF pending
  <2>7. TakesUp
    BY <2>1, <2>6 DEF TakesUp
  <2> QED
    BY <2>5, <2>7
<1>10. CASE DispatchThrows
  <2>1. /\ epc = "dispatch" /\ drained' = <<>> /\ epc' = "frame" /\ state' = "Disabled"
        /\ UNCHANGED <<queue, lastSeen>>
    BY <1>10 DEF DispatchThrows, Dispatching, callVars
  <2>2. QueueInv'
    BY <1>2, <2>1, CapacityAssumption, SMT DEF QueueInv
  <2>3. pending' = SubSeq(pending, Len(drained) + 1, Len(pending))
    <3>1. <<>> \o queue = queue
      BY <1>2, ConcatEmptySeq
    <3>2. SubSeq(drained \o queue, Len(drained) + 1, Len(drained \o queue)) = queue
      BY <1>2, SuffixOfConcat
    <3> QED
      BY <2>1, <3>1, <3>2 DEF pending
  <2>4. Len(drained) \in 0..Len(pending)
    BY <1>2, SMT
  <2>5. Closes
    BY <2>1, <2>3, <2>4 DEF Closes, Closed
  <2> QED
    BY <2>2, <2>5
<1>11. CASE \E c \in Calls : HandleCreated(c) \/ ReadEnded(c) \/ HandlerThrows(c) \/ Destroy(c)
                            \/ \E b \in Batches : ReadBatch(c, b)
  BY <1>1, <1>11 DEF HandleCreated, ReadEnded, HandlerThrows, Destroy, ReadBatch, engineVars
<1>12. CASE \E u \in Units : UnitIdle(u) \/ UnitLost(u) \/ UnitGiven(u)
  BY <1>1, <1>12 DEF UnitIdle, UnitLost, UnitGiven, unitEvent, callVars
<1>13. CASE UNCHANGED vars
  BY <1>1, <1>13 DEF vars, engineVars, callVars
<1> HIDE DEF Goal
<1> QED
  BY <1>3, <1>4, <1>7, <1>8, <1>9, <1>10, <1>11, <1>12, <1>13, <1>14, <1>15
     DEF Next, Worker, Clients, Engine

(***************************************************************************)
(* What waits                                                              *)
(***************************************************************************)

\* WholeBatches and StreamSeqsIncrease of any sequence; the latter with what
\* makes it inductive: no command is ahead of its call's last_seen_batch_seq_.
Whole(p) ==
  \A i \in 1..Len(p) :
    /\ p[i].idx < p[i].len => i < Len(p) /\ p[i + 1] = Successor(p[i])
    /\ p[i].idx > 1 => i = 1 \/ p[i] = Successor(p[i - 1])
Seen(p, seen) ==
  \A i \in 1..Len(p) : p[i].src \in Calls => p[i].seq <= seen[p[i].src]
Increasing(p) ==
  \A i, j \in 1..Len(p) :
    i < j /\ p[i].src = p[j].src /\ p[i].src \in Calls =>
      \/ p[i].seq < p[j].seq
      \/ p[i].seq = p[j].seq /\ p[i].idx < p[j].idx
Suffix(p, r) ==
  \E k \in 0..Len(p) : /\ Len(r) = Len(p) - k
                       /\ \A i \in 1..Len(r) : r[i] = p[i + k]

\* All three survive the loss of commands at the front.
LEMMA SuffixKeeps ==
  ASSUME NEW p \in Seq(Command), NEW r \in Seq(Command), NEW seen, Suffix(p, r)
  PROVE  /\ Whole(p) => Whole(r)
         /\ Seen(p, seen) => Seen(r, seen)
         /\ Increasing(p) => Increasing(r)
<1>1. PICK k \in 0..Len(p) : Len(r) = Len(p) - k /\ \A i \in 1..Len(r) : r[i] = p[i + k]
  BY DEF Suffix
<1>2. Len(p) \in Nat /\ Len(r) \in Nat /\ k \in Nat
  BY <1>1, LenProperties, SMT
<1>3. \A i \in 1..Len(r) : i + k \in 1..Len(p) /\ r[i] = p[i + k]
  BY <1>1, <1>2, SMT
<1>4. ASSUME Whole(p), NEW i \in 1..Len(r)
      PROVE  /\ r[i].idx < r[i].len => i < Len(r) /\ r[i + 1] = Successor(r[i])
             /\ r[i].idx > 1 => i = 1 \/ r[i] = Successor(r[i - 1])
  <2>1. /\ p[i + k].idx < p[i + k].len =>
             i + k < Len(p) /\ p[(i + k) + 1] = Successor(p[i + k])
        /\ p[i + k].idx > 1 => i + k = 1 \/ p[i + k] = Successor(p[(i + k) - 1])
    BY <1>3, <1>4 DEF Whole
  <2>2. (i + k) + 1 = (i + 1) + k /\ (i + k) - 1 = (i - 1) + k
    BY <1>2, SMT
  <2>3. ASSUME r[i].idx < r[i].len PROVE i < Len(r) /\ r[i + 1] = Successor(r[i])
    <3>1. i < Len(r) /\ i + 1 \in 1..Len(r)
      BY <1>1, <1>2, <1>3, <2>1, <2>3, SMTT(30)
    <3> QED
      BY <1>3, <2>1, <2>2, <2>3, <3>1
  <2>4. ASSUME r[i].idx > 1, i # 1 PROVE r[i] = Successor(r[i - 1])
    <3>1. i - 1 \in 1..Len(r) /\ i + k # 1
      BY <1>2, <2>4, SMT
    <3> QED
      BY <1>3, <2>1, <2>2, <2>4, <3>1
  <2> QED
    BY <2>3, <2>4
<1>5. Seen(p, seen) => Seen(r, seen)
  BY <1>3 DEF Seen
<1>6. ASSUME Increasing(p), NEW i \in 1..Len(r), NEW j \in 1..Len(r),
             i < j, r[i].src = r[j].src, r[i].src \in Calls
      PROVE  \/ r[i].seq < r[j].seq
             \/ r[i].seq = r[j].seq /\ r[i].idx < r[j].idx
  <2>1. /\ i + k \in 1..Len(p) /\ j + k \in 1..Len(p) /\ i + k < j + k
        /\ r[i] = p[i + k] /\ r[j] = p[j + k]
    BY <1>2, <1>3, <1>6, SMT
  <2> QED
    <3>1. \/ p[i + k].seq < p[j + k].seq
          \/ p[i + k].seq = p[j + k].seq /\ p[i + k].idx < p[j + k].idx
      <4> DEFINE x == i + k
                 y == j + k
      <4>1. x \in 1..Len(p) /\ y \in 1..Len(p) /\ x < y
        BY <2>1
      <4>2. p[x].src = p[y].src /\ p[x].src \in Calls
        BY <1>6, <2>1
      <4> HIDE DEF x, y
      <4>3. p[x].seq < p[y].seq \/ (p[x].seq = p[y].seq /\ p[x].idx < p[y].idx)
        BY <1>6, <4>1, <4>2 DEF Increasing
      <4> QED
        BY <4>3 DEF x, y
    <3> QED
      BY <2>1, <3>1
<1> QED
  BY <1>4, <1>5, <1>6 DEF Whole, Increasing

\* A step that takes up or closes leaves a suffix of what waited.
LEMMA SuffixLeft ==
  ASSUME QueueInv, QueueInv', TakesUp \/ Closes
  PROVE  /\ pending \in Seq(Command) /\ pending' \in Seq(Command)
         /\ Suffix(pending, pending')
<1>1. pending \in Seq(Command) /\ pending' \in Seq(Command) /\ Len(pending) \in Nat
  BY ConcatProperties, LenProperties DEF QueueInv, pending
<1> HIDE DEF pending
<1>2. CASE TakesUp
  <2>1. /\ pending # <<>> /\ pending' = Tail(pending)
    BY <1>2 DEF TakesUp
  <2>2. /\ Len(pending') = Len(pending) - 1 /\ Len(pending) \in Nat \ {0}
        /\ \A i \in 1..(Len(pending) - 1) : pending'[i] = pending[i + 1]
    BY <1>1, <2>1, HeadTailProperties, EmptySeq
  <2>3. 1 \in 0..Len(pending)
    BY <2>2, SMT
  <2> QED
    BY <1>1, <2>2, <2>3 DEF Suffix
<1>3. CASE Closes
  <2>1. PICK k \in 0..Len(pending) : pending' = SubSeq(pending, k + 1, Len(pending))
    BY <1>3 DEF Closes
  <2>2. \A i \in (k + 1)..Len(pending) : pending[i] \in Command
    BY <1>1, ElementOfSeq, SMT
  <2>3. /\ Len(pending') = Len(pending) - k
        /\ \A i \in 1..(Len(pending) - k) : pending'[i] = pending[i + k]
    BY <1>1, <2>1, <2>2, SubSeqProperties, SMT
  <2> QED
    BY <1>1, <2>3 DEF Suffix
<1> QED
  BY <1>1, <1>2, <1>3

\* The commands of one batch, one after the other.
LEMMA BlockContent ==
  ASSUME NEW s \in Sessions, NEW b \in Batches, b.len > 0
  PROVE  \A i \in 1..b.len :
           LET cmd == CommandsOf(s, b)[i]
           IN  /\ cmd.src = s /\ cmd.seq = b.seq /\ cmd.idx = i /\ cmd.len = b.len
               /\ i < b.len => CommandsOf(s, b)[i + 1] = Successor(cmd)
<1>1. b.len \in Nat
  BY BlockType, BoundAssumption, SMT
<1> SUFFICES ASSUME NEW i \in 1..b.len
             PROVE  LET cmd == CommandsOf(s, b)[i]
                    IN  /\ cmd.src = s /\ cmd.seq = b.seq /\ cmd.idx = i /\ cmd.len = b.len
                        /\ i < b.len => CommandsOf(s, b)[i + 1] = Successor(cmd)
  OBVIOUS
<1>2. CommandsOf(s, b)[i] = [src |-> s, seq |-> b.seq, idx |-> i, len |-> b.len,
                             target |-> b.target]
  BY DEF CommandsOf
<1>3. ASSUME i < b.len PROVE CommandsOf(s, b)[i + 1] = Successor(CommandsOf(s, b)[i])
  <2>1. i + 1 \in 1..b.len
    BY <1>1, <1>3, SMT
  <2>2. CommandsOf(s, b)[i + 1] = [src |-> s, seq |-> b.seq, idx |-> i + 1, len |-> b.len,
                                   target |-> b.target]
    BY <2>1 DEF CommandsOf
  <2> QED
    BY <1>2, <2>2, SMT DEF Successor
<1> QED
  BY <1>2, <1>3, SMT

\* Whole batches stay whole behind an accepted one.
LEMMA AppendWhole ==
  ASSUME NEW p \in Seq(Command), Whole(p), NEW s \in Sessions, NEW b \in Batches, b.len > 0
  PROVE  Whole(p \o CommandsOf(s, b))
<1> DEFINE c == CommandsOf(s, b)
           q == p \o c
<1>1. c \in Seq(Command) /\ Len(c) = b.len /\ b.len \in Nat \ {0} /\ Len(p) \in Nat
  BY BlockType, BoundAssumption, LenProperties, SMT
<1>2. \A i \in 1..b.len : /\ c[i].idx = i /\ c[i].len = b.len
                          /\ i < b.len => c[i + 1] = Successor(c[i])
  BY BlockContent, SMT
<1> HIDE DEF c
<1>3. /\ Len(q) = Len(p) + b.len /\ \A i \in 1..Len(p) : q[i] = p[i]
      /\ \A i \in 1..b.len : q[i + Len(p)] = c[i]
  BY <1>1, PlacesOfConcat, SMT
<1> HIDE DEF q
<1>4. ASSUME NEW i \in 1..Len(p)
      PROVE  /\ q[i].idx < q[i].len => i < Len(q) /\ q[i + 1] = Successor(q[i])
             /\ q[i].idx > 1 => i = 1 \/ q[i] = Successor(q[i - 1])
  <2>1. /\ p[i].idx < p[i].len => i < Len(p) /\ p[i + 1] = Successor(p[i])
        /\ p[i].idx > 1 => i = 1 \/ p[i] = Successor(p[i - 1])
    BY DEF Whole
  <2>2. q[i] = p[i] /\ (i < Len(p) => q[i + 1] = p[i + 1]) /\ (i # 1 => q[i - 1] = p[i - 1])
    <3>1. /\ i < Len(p) => i + 1 \in 1..Len(p)
          /\ i # 1 => i - 1 \in 1..Len(p)
      BY <1>1, SMT
    <3> QED
      BY <1>3, <3>1
  <2>3. i < Len(p) => i < Len(q)
    BY <1>1, <1>3, SMT
  <2> QED
    BY <2>1, <2>2, <2>3
<1>5. ASSUME NEW i \in 1..Len(q), i > Len(p)
      PROVE  /\ q[i].idx < q[i].len => i < Len(q) /\ q[i + 1] = Successor(q[i])
             /\ q[i].idx > 1 => i = 1 \/ q[i] = Successor(q[i - 1])
  <2> DEFINE j == i - Len(p)
  <2>1. j \in 1..b.len /\ i = j + Len(p)
    BY <1>1, <1>3, <1>5, SMT
  <2> HIDE DEF j
  <2>2. q[i] = c[j]
    BY <1>3, <2>1
  <2>3. c[j].idx = j /\ c[j].len = b.len
    BY <1>2, <2>1
  <2>4. ASSUME q[i].idx < q[i].len PROVE i < Len(q) /\ q[i + 1] = Successor(q[i])
    <3>1. j < b.len /\ i < Len(q)
      BY <1>1, <1>3, <2>1, <2>3, <2>4, <2>2, SMT
    <3>2. j + 1 \in 1..b.len /\ i + 1 = (j + 1) + Len(p)
      BY <1>1, <2>1, <3>1, SMT
    <3>3. q[i + 1] = c[j + 1]
      BY <1>3, <3>2, SMT
    <3> QED
      BY <1>2, <2>1, <2>2, <3>1, <3>3
  <2>5. ASSUME q[i].idx > 1 PROVE q[i] = Successor(q[i - 1])
    <3>1. j > 1 /\ j - 1 \in 1..b.len /\ j - 1 < b.len /\ (j - 1) + 1 = j
      BY <1>1, <2>1, <2>3, <2>5, <2>2, SMT
    <3>2. i - 1 = (j - 1) + Len(p)
      BY <1>1, <2>1, <3>1, SMT
    <3>3. q[i - 1] = c[j - 1]
      BY <1>3, <3>1, <3>2
    <3> QED
      BY <1>2, <2>1, <2>2, <3>1, <3>3
  <2> QED
    BY <2>4, <2>5
<1>6. Whole(q)
  BY <1>1, <1>3, <1>4, <1>5, SMT DEF Whole
<1> QED
  BY <1>6 DEF q, c

\* Nothing of an accepted batch is behind what its call sent before.
LEMMA AppendOrdered ==
  ASSUME NEW p \in Seq(Command), Seen(p, lastSeen), Increasing(p),
         lastSeen \in [Calls -> 0..MaxSeq], lastSeen' \in [Calls -> 0..MaxSeq],
         NEW s \in Sessions, NEW b \in Batches, b.len > 0,
         \/ s \in Calls /\ b.seq > lastSeen[s] /\ lastSeen' = [lastSeen EXCEPT ![s] = b.seq]
         \/ s = Coordinator /\ UNCHANGED lastSeen
  PROVE  Seen(p \o CommandsOf(s, b), lastSeen') /\ Increasing(p \o CommandsOf(s, b))
<1> DEFINE c == CommandsOf(s, b)
           q == p \o c
<1>1. /\ c \in Seq(Command) /\ Len(c) = b.len /\ b.len \in Nat \ {0} /\ Len(p) \in Nat
      /\ b.seq \in 0..MaxSeq
  BY BlockType, BoundAssumption, LenProperties, BatchesAssumption, SMT
<1>2. \A i \in 1..b.len : c[i].src = s /\ c[i].seq = b.seq /\ c[i].idx = i
  BY BlockContent, SMT
<1> HIDE DEF c
<1>3. /\ Len(q) = Len(p) + b.len /\ \A i \in 1..Len(p) : q[i] = p[i]
      /\ \A i \in 1..b.len : q[i + Len(p)] = c[i]
  BY <1>1, PlacesOfConcat, SMT
<1> HIDE DEF q
<1>4. \A i \in 1..Len(p) : q[i] = p[i] /\ i \in 1..Len(q)
  BY <1>1, <1>3, SMT
<1>5. \A i \in 1..Len(q) : i > Len(p) => q[i].src = s /\ q[i].seq = b.seq /\ q[i].idx = i - Len(p)
  <2> SUFFICES ASSUME NEW i \in 1..Len(q), i > Len(p)
               PROVE  q[i].src = s /\ q[i].seq = b.seq /\ q[i].idx = i - Len(p)
    OBVIOUS
  <2>1. i - Len(p) \in 1..b.len /\ (i - Len(p)) + Len(p) = i
    BY <1>1, <1>3, SMT
  <2>2. q[i] = c[i - Len(p)]
    BY <1>3, <2>1
  <2> QED
    BY <1>2, <2>1, <2>2, SMT
<1>6. \A i \in 1..Len(q) : i \in 1..Len(p) \/ i > Len(p)
  BY <1>1, <1>3, SMT
<1>7. \A x \in Calls : /\ lastSeen[x] \in Int /\ lastSeen'[x] \in Int
                       /\ lastSeen[x] <= lastSeen'[x]
                       /\ x = s => lastSeen'[x] = b.seq /\ lastSeen[x] < b.seq
  BY <1>1, BoundAssumption, NamesAssumption, SMT
<1>8. \A i \in 1..Len(p) : p[i].seq \in Int
  <2>1. \A i \in 1..Len(p) : p[i] \in Command
    BY ElementOfSeq
  <2>2. \A cmd \in Command : cmd.seq \in Int
    BY BoundAssumption, SMT DEF Command
  <2> QED
    BY <2>1, <2>2
<1>9. ASSUME NEW i \in 1..Len(q), q[i].src \in Calls PROVE q[i].seq <= lastSeen'[q[i].src]
  <2>1. CASE i \in 1..Len(p)
    <3>1. p[i].seq <= lastSeen[p[i].src] /\ q[i] = p[i] /\ p[i].seq \in Int
      BY <1>4, <1>8, <1>9, <2>1 DEF Seen
    <3> QED
      BY <1>7, <1>9, <3>1, SMT
  <2>2. CASE i > Len(p)
    BY <1>1, <1>5, <1>7, <1>9, <2>2, SMT
  <2> QED
    BY <1>6, <2>1, <2>2
<1>10. ASSUME NEW i \in 1..Len(q), NEW j \in 1..Len(q), i < j, q[i].src = q[j].src,
              q[i].src \in Calls
       PROVE  \/ q[i].seq < q[j].seq
              \/ q[i].seq = q[j].seq /\ q[i].idx < q[j].idx
  <2>1. CASE i \in 1..Len(p) /\ j \in 1..Len(p)
    <3>1. q[i] = p[i] /\ q[j] = p[j]
      BY <1>4, <2>1
    <3>2. \/ p[i].seq < p[j].seq
          \/ p[i].seq = p[j].seq /\ p[i].idx < p[j].idx
      BY <1>10, <2>1, <3>1 DEF Increasing
    <3> QED
      BY <3>1, <3>2
  <2>2. CASE i \in 1..Len(p) /\ j > Len(p)
    <3>1. p[i].seq <= lastSeen[p[i].src] /\ q[i] = p[i] /\ p[i].seq \in Int
      BY <1>4, <1>8, <1>10, <2>2 DEF Seen
    <3>2. q[j].src = s /\ q[j].seq = b.seq
      BY <1>5, <2>2
    <3>3. p[i].src = s /\ s \in Calls
      BY <1>10, <3>1, <3>2
    <3>4. lastSeen[s] < b.seq /\ lastSeen[s] \in Int /\ b.seq \in Int
      BY <1>1, <1>7, <3>3
    <3> QED
      BY <3>1, <3>2, <3>3, <3>4, SMT
  <2>3. CASE i > Len(p)
    <3>1. j > Len(p)
      BY <1>1, <1>3, <1>10, <2>3, SMT
    <3>2. q[i].seq = b.seq /\ q[j].seq = b.seq /\ q[i].idx = i - Len(p) /\ q[j].idx = j - Len(p)
      BY <1>5, <2>3, <3>1
    <3> QED
      BY <1>1, <1>3, <1>10, <3>2, SMT
  <2>4. i \in 1..Len(p) \/ i > Len(p)
    BY <1>6
  <2>5. j \in 1..Len(p) \/ j > Len(p)
    BY <1>6
  <2> QED
    BY <2>1, <2>2, <2>3, <2>4, <2>5
<1>11. Seen(q, lastSeen')
  BY <1>9 DEF Seen
<1>12. Increasing(q)
  BY <1>10 DEF Increasing
<1> QED
  BY <1>11, <1>12 DEF q, c

\* What waits stays whole and in order.
WaitInv == Whole(pending) /\ Seen(pending, lastSeen) /\ Increasing(pending)

LEMMA WaitStep ==
  ASSUME CallInv, CallInv', QueueInv, WaitInv, [Next]_vars
  PROVE  WaitInv'
<1>1. QueueInv' /\ (Accepts \/ TakesUp \/ Closes \/ Leaves)
  BY QueueStep
<1>2. pending \in Seq(Command) /\ lastSeen \in [Calls -> 0..MaxSeq]
      /\ lastSeen' \in [Calls -> 0..MaxSeq]
  BY ConcatProperties DEF QueueInv, CallInv, pending
<1> HIDE DEF pending
<1>3. CASE Accepts
  <2>1. PICK s \in Sessions, b \in {d \in Batches : d.len > 0} :
          /\ pending' = pending \o CommandsOf(s, b)
          /\ \/ s \in Calls /\ b.seq > lastSeen[s]
                /\ lastSeen' = [lastSeen EXCEPT ![s] = b.seq]
             \/ s = Coordinator /\ UNCHANGED lastSeen
    BY <1>3 DEF Accepts
  <2>2. Whole(pending')
    BY <1>2, <2>1, AppendWhole DEF WaitInv
  <2>3. Seen(pending', lastSeen') /\ Increasing(pending')
    BY <1>2, <2>1, AppendOrdered DEF WaitInv
  <2> QED
    BY <2>2, <2>3 DEF WaitInv, Whole, Seen, Increasing
<1>4. CASE TakesUp \/ Closes
  <2>1. UNCHANGED lastSeen
    BY <1>4 DEF TakesUp, Closes
  <2>2. /\ pending' \in Seq(Command) /\ Suffix(pending, pending')
    BY <1>1, <1>4, SuffixLeft
  <2>3. Whole(pending') /\ Seen(pending', lastSeen) /\ Increasing(pending')
    BY <1>2, <2>2, SuffixKeeps DEF WaitInv
  <2> QED
    BY <2>1, <2>3 DEF WaitInv, Whole, Seen, Increasing
<1>5. CASE Leaves
  BY <1>5, SMT DEF Leaves, WaitInv, Whole, Seen, Increasing
<1> QED
  BY <1>1, <1>3, <1>4, <1>5

(***************************************************************************)
(* The units                                                               *)
(***************************************************************************)

\* Only a unit of the team is made busy, and the hooks end its orders when it goes.
LEMMA UnitStep ==
  ASSUME QueueInv, UnitInv, [Next]_vars
  PROVE  UnitInv'
<1>1. ASSUME UNCHANGED <<unit, orders>>, state' = "Healthy" => state = "Healthy" PROVE UnitInv'
  BY <1>1 DEF UnitInv, BusyUnitsAreOurs
<1>2. CASE Apply
  <2> DEFINE cmd == Head(drained)
  <2>1. /\ drained # <<>> /\ Runnable(cmd) /\ UNCHANGED <<unit, state>>
        /\ IF cmd.target = Game THEN UNCHANGED orders
           ELSE orders' = [orders EXCEPT ![cmd.target] = "busy"]
    BY <1>2 DEF Apply, Dispatching, MarkAccepted
  <2>2. cmd \in Command
    <3>1. drained \in Seq(Command) /\ drained # <<>>
      BY <2>1 DEF QueueInv
    <3> QED
      BY <3>1, HeadTailProperties
  <2> HIDE DEF cmd
  <2>3. CASE cmd.target = Game
    BY <1>1, <2>1, <2>3
  <2>4. CASE cmd.target # Game
    <3>1. cmd.target \in Units
      BY <2>2, <2>4 DEF Command, Targets
    <3>2. unit[cmd.target] = "own"
      BY <2>1, <2>4 DEF Runnable
    <3>3. /\ orders' = [orders EXCEPT ![cmd.target] = "busy"]
          /\ orders \in [Units -> {"busy", "idle"}]
      BY <2>1, <2>4 DEF UnitInv
    <3>4. orders' \in [Units -> {"busy", "idle"}]
      BY <3>1, <3>3
    <3>5. \A u \in Units : orders'[u] = orders[u] \/ u = cmd.target
      BY <3>1, <3>3
    <3> QED
      BY <2>1, <3>2, <3>4, <3>5 DEF UnitInv, BusyUnitsAreOurs
  <2> QED
    BY <2>3, <2>4
<1>3. ASSUME NEW u \in Units, Release(u), UNCHANGED state,
             unit' = unit \/ \E w \in {"own", "gone"} : unit' = [unit EXCEPT ![u] = w]
      PROVE  UnitInv'
  <2>1. /\ unit' \in [Units -> {"own", "gone"}]
        /\ \A v \in Units : v # u => unit'[v] = unit[v]
    BY <1>3 DEF UnitInv
  <2>2. orders \in [Units -> {"busy", "idle"}]
    BY DEF UnitInv
  <2>3. CASE state = "Healthy"
    <3>1. orders' = [orders EXCEPT ![u] = "idle"]
      BY <1>3, <2>3 DEF Release
    <3>2. orders' \in [Units -> {"busy", "idle"}]
      BY <2>2, <3>1
    <3>3. \A v \in Units : orders'[v] = orders[v] \/ (v = u /\ orders'[v] = "idle")
      BY <2>2, <3>1
    <3>4. ASSUME NEW v \in Units, orders'[v] = "busy" PROVE unit'[v] = "own"
      <4>1. v # u
        BY <3>1, <2>2, <3>4
      <4>2. orders[v] = "busy"
        BY <3>3, <3>4, <4>1
      <4> QED
        BY <2>1, <2>3, <4>1, <4>2 DEF UnitInv, BusyUnitsAreOurs
    <3>5. BusyUnitsAreOurs'
      BY <3>4 DEF BusyUnitsAreOurs
    <3> QED
      BY <2>1, <3>2, <3>5 DEF UnitInv
  <2>4. CASE state # "Healthy"
    BY <1>3, <2>1, <2>2, <2>4 DEF Release, UnitInv, BusyUnitsAreOurs
  <2> QED
    BY <2>3, <2>4
<1>5. ASSUME NEW u \in Units, UnitIdle(u) \/ UnitLost(u) \/ UnitGiven(u) PROVE UnitInv'
  BY <1>3, <1>5 DEF UnitIdle, UnitLost, UnitGiven, unitEvent
<1>6. CASE Worker \/ Clients
  <2>1. UNCHANGED <<unit, orders, state>>
    BY <1>6 DEF Worker, Clients, PushBatch, Destroy, HandleCreated, ReadEnded, HandlerThrows,
                ReadBatch, engineVars
  <2> QED
    BY <1>1, <2>1
<1>7. CASE \E b \in Batches : CoordinatorBatch(b)
  BY <1>1, <1>7 DEF CoordinatorBatch, engineVars
<1>8. CASE TickTop \/ Drain \/ Skip \/ DispatchThrows \/ TickEnds \/ HookThrows
  <2>1. UNCHANGED <<unit, orders>> /\ (state' = "Healthy" => state = "Healthy")
    BY <1>8 DEF TickTop, BeforeCommands, Drain, Skip, DispatchThrows, TickEnds, HookThrows,
                engineVars
  <2> QED
    BY <1>1, <2>1
<1>9. CASE UNCHANGED vars
  BY <1>1, <1>9 DEF vars, engineVars
<1> QED
  BY <1>2, <1>5, <1>6, <1>7, <1>8, <1>9 DEF Next, Engine

(***************************************************************************)
(* The theorems                                                            *)
(***************************************************************************)

IInv == CallInv /\ QueueInv /\ WaitInv /\ UnitInv

LEMMA PathInit == Init => IInv
<1> SUFFICES ASSUME Init PROVE IInv
  OBVIOUS
<1>1. CallInv
  <2>1. /\ stage \in [Calls -> Stages] /\ lastSeen \in [Calls -> 0..MaxSeq]
        /\ claimed \in [Calls -> BOOLEAN]
    BY BoundAssumption, SMT DEF Init, Stages
  <2>2. \A c \in Calls : claimed[c] = FALSE /\ stage[c] = "kCreated"
    BY DEF Init
  <2>3. aiSlot = \E c \in Calls : claimed[c]
    BY <2>2 DEF Init
  <2> QED
    BY <2>1, <2>2, <2>3 DEF CallInv, Init
<1>2. QueueInv
  BY CapacityAssumption, EmptySeq, SMT DEF QueueInv, Init
<1>3. pending = <<>>
  BY SMT DEF pending, Init
<1>4. WaitInv
  BY <1>3, SMT DEF WaitInv, Whole, Seen, Increasing
<1>5. UnitInv
  BY BoundAssumption, SMT DEF UnitInv, BusyUnitsAreOurs, Init
<1> QED
  BY <1>1, <1>2, <1>4, <1>5 DEF IInv

\* The invariant is inductive: every action of the worker, the coordinator, the
\* engine thread and the hooks keeps it.
THEOREM PathStep == IInv /\ [Next]_vars => IInv'
  BY CallInvStep, QueueStep, WaitStep, UnitStep DEF IInv

LEMMA PathAlways == Spec => []IInv
  BY PathInit, PathStep, PTL DEF Spec

\* The AI slot is taken exactly while one call holds it, every reading call holds
\* it and no deleted one does, whatever order the clients come, leave and fault in.
THEOREM SlotHeldByOneAlways == Spec => []SlotHeldByOne
<1>1. IInv => SlotHeldByOne
  <2> SUFFICES ASSUME IInv PROVE SlotHeldByOne
    OBVIOUS
  <2> DEFINE H == {c \in Calls : claimed[c]}
  <2>1. Cardinality(H) = IF aiSlot THEN 1 ELSE 0
    <3>1. CASE aiSlot
      <4>1. PICK c \in Calls : claimed[c]
        BY <3>1 DEF IInv, CallInv
      <4>2. H = {c}
        BY <4>1 DEF IInv, CallInv
      <4> QED
        BY <3>1, <4>2, FS_Singleton
    <3>2. CASE ~aiSlot
      <4>1. H = {}
        BY <3>2 DEF IInv, CallInv
      <4> QED
        BY <3>2, <4>1, FS_EmptySet
    <3> QED
      BY <3>1, <3>2
  <2>2. \A c \in Calls : /\ stage[c] = "kReading" => claimed[c]
                         /\ claimed[c] => stage[c] # "deleted"
    BY DEF IInv, CallInv
  <2> QED
    BY <2>1, <2>2 DEF SlotHeldByOne
<1> QED
  BY <1>1, PathAlways, PTL

\* A batch is queued whole or not at all, and stays in one piece until the
\* dispatcher has worked through it, for every capacity and every mix of batches.
THEOREM WholeBatchesAlways == Spec => []WholeBatches
<1>1. IInv => WholeBatches
  BY DEF IInv, WaitInv, Whole, WholeBatches
<1> QED
  BY <1>1, PathAlways, PTL

\* Within one SubmitCommands stream batch_seq increases among all that waits, so
\* no retransmitted batch is executed twice.
THEOREM StreamSeqsIncreaseAlways == Spec => []StreamSeqsIncrease
<1>1. IInv => StreamSeqsIncrease
  BY DEF IInv, WaitInv, Increasing, StreamSeqsIncrease
<1> QED
  BY <1>1, PathAlways, PTL

\* While the gateway is healthy only a unit of the team is busy, although units
\* are lost between the worker's validation and the engine's dispatch.
THEOREM BusyUnitsAreOursAlways == Spec => []BusyUnitsAreOurs
<1>1. IInv => BusyUnitsAreOurs
  BY DEF IInv, UnitInv
<1> QED
  BY <1>1, PathAlways, PTL

\* The three threads and the bounded queue implement CommandContract: blocks in,
\* one command out at a time, in order, each once, none lost but by the dispatch
\* that throws and none taken up in a frame after the one that disabled the gateway.
THEOREM CommandContractKept == Spec => KeepsCommandContract
<1>1. Init => Contract!Init
  BY SMT DEF Init, Contract!Init, pending, Closed
<1>2. IInv /\ [Next]_vars => [Contract!Next]_(Contract!vars)
  <2> SUFFICES ASSUME IInv, [Next]_vars PROVE [Contract!Next]_(Contract!vars)
    OBVIOUS
  <2>1. Accepts \/ TakesUp \/ Closes \/ Leaves
    BY QueueStep DEF IInv
  <2>2. CASE Accepts
    <3>1. PICK s \in Sessions, b \in {d \in Batches : d.len > 0} :
            pending' = pending \o CommandsOf(s, b) /\ Len(pending') <= 2 * Capacity
      BY <2>2 DEF Accepts
    <3>2. UNCHANGED Closed
      BY <2>2 DEF Accepts, Closed
    <3>3. CommandsOf(s, b) \in Blocks
      BY SMT DEF Blocks
    <3>4. Contract!Accept
      BY <3>1, <3>2, <3>3 DEF Contract!Accept
    <3> QED
      BY <3>4 DEF Contract!Next
  <2>3. CASE TakesUp
    <3>1. Contract!TakeUp
      BY <2>3 DEF TakesUp, Contract!TakeUp, Closed
    <3> QED
      BY <3>1 DEF Contract!Next
  <2>4. CASE Closes
    <3>1. Contract!Close
      BY <2>4 DEF Closes, Contract!Close
    <3> QED
      BY <3>1 DEF Contract!Next
  <2>5. CASE Leaves
    BY <2>5 DEF Leaves, Contract!vars
  <2> QED
    BY <2>1, <2>2, <2>3, <2>4, <2>5
<1> QED
  BY <1>1, <1>2, PathAlways, PTL DEF Spec, KeepsCommandContract, Contract!Spec
================================================================================
