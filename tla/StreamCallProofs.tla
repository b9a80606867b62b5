-------------------------- MODULE StreamCallProofs --------------------------
(***************************************************************************)
(* Proofs about StreamCall for any call objects, any observer cap and slot *)
(* capacity, and however the worker, the pumps and the engine interleave.  *)
(***************************************************************************)
EXTENDS StreamCall, FiniteSetTheorems, TLAPS

USE Zenon

(***************************************************************************)
(* The inductive invariant                                                 *)
(***************************************************************************)

Streaming == {"baseline", "arm", "write", "wait", "loop", "pop", "parking", "parked", "finish"}
Ending == {"disarm", "finishOp", "finishWait", "exited"}
Destroying == {"evict", "remove", "join"}

\* Where the worker is says what it knows of its call: nothing the pump does on
\* the way takes that back.
WorkerInv ==
  /\ wpc \in {"next", "stopped"} <=> cur = None
  /\ wpc \in {"reserve", "subscribe"} => stage[cur] = "kCreated"
  /\ wpc = "check" => stage[cur] \in {"kStreaming", "kFinishing"}
  /\ wpc \in Destroying => stage[cur] = "kFinishing" /\ pump[cur] \in Ending

\* How far the pump is and what stage_ says, and that stop_ is set after both.
StageInv(c) ==
  /\ stage[c] \in {"unborn", "kCreated"} => pump[c] = "none"
  /\ stage[c] = "kStreaming" <=> pump[c] \in Streaming
  /\ pump[c] \in Ending => stage[c] \in {"kFinishing", "deleted"}
  /\ stop[c] => stage[c] = "deleted" \/ (stage[c] = "kFinishing" /\ pump[c] \in Ending)
  /\ stage[c] = "deleted" => pump[c] \in {"none", "exited"}
  /\ pump[c] = "arm" => backlog[c] > 0

\* What gRPC has of call c.
OpsInv(c) ==
  /\ stage[c] \in {"unborn", "deleted"} => inflight[c] = <<>>
  /\ stage[c] = "kCreated" =>
       inflight[c] = IF cur = c THEN <<>> ELSE <<"request">>
  /\ stage[c] = "kFinishing" /\ pump[c] = "none" =>
       inflight[c] = IF cur = c THEN <<>> ELSE <<"finish">>
  /\ pump[c] = "wait" => inflight[c] = IF opDone[c] THEN <<>> ELSE <<"write">>
  /\ pump[c] = "finishWait" => inflight[c] = IF opDone[c] THEN <<>> ELSE <<"finish">>
  /\ pump[c] \notin {"none", "wait", "finishWait"} => inflight[c] = <<>>
  /\ pump[c] \in {"write", "finishOp"} => ~opDone[c]

\* Who holds an observer slot.
Holders == {c \in Calls : reserved[c]}

HoldInv(c) ==
  reserved[c] <=> \/ wpc = "subscribe" /\ cur = c
                  \/ pump[c] # "none" /\ stage[c] # "deleted"

CountInv ==
  /\ IsFiniteSet(Holders) /\ observers = Cardinality(Holders)
  /\ IsFiniteSet(slots)

CallInv(c) == StageInv(c) /\ OpsInv(c) /\ HoldInv(c)

IInv == TypeOK /\ WorkerInv /\ CountInv /\ \A c \in Calls : CallInv(c)

(***************************************************************************)
(* Sequences of at most one operation, and numbers                         *)
(***************************************************************************)

\* An operation that is started or reported is the only one.
LEMMA OneOp ==
  ASSUME NEW op \in {"request", "write", "finish"}
  PROVE  /\ Append(<<>>, op) = <<op>> /\ Tail(<<op>>) = <<>> /\ Head(<<op>>) = op
         /\ <<op>> # <<>> /\ Len(<<op>>) = 1 /\ Len(<<>>) = 0
         /\ <<op>> \in Seq({"request", "write", "finish"})
         /\ <<>> \in Seq({"request", "write", "finish"})
BY SMT

\* A uint32 stays one.
LEMMA U32Type == \A k \in Int : k % U32 \in 0..(U32 - 1)
BY U32Assumption, ObserverCapAssumption, SMT

\* The worker has a call in hand between two turns of its loop.
LEMMA CurType ==
  ASSUME TypeOK, WorkerInv, wpc \notin {"next", "stopped"}
  PROVE  cur \in Calls
BY DEF TypeOK, WorkerInv

(***************************************************************************)
(* Types                                                                   *)
(***************************************************************************)

\* The worker.
LEMMA TypeWorker ==
  ASSUME TypeOK, WorkerInv, CountInv, \A c \in Calls : CallInv(c), Worker
  PROVE  TypeOK'
<1>1. ASSUME NEW c \in Calls, NEW ok \in BOOLEAN, Arrive(c, ok) PROVE TypeOK'
  <2>1. inflight[c] = <<"request">>
    BY <1>1, NoneAssumption DEF Arrive, WorkerInv, CallInv, OpsInv
  <2>2. Tail(inflight[c]) \in Seq({"request", "write", "finish"})
    BY <2>1, OneOp
  <2>3. <<"request">> \in Seq({"request", "write", "finish"})
    BY OneOp
  <2>4. inflight' \in [Calls -> Seq({"request", "write", "finish"})]
    <3>1. CASE ok
      <4>1. PICK d \in Calls :
               inflight' = [inflight EXCEPT ![c] = Tail(inflight[c]), ![d] = <<"request">>]
        BY <1>1, <3>1 DEF Arrive
      <4>2. inflight \in [Calls -> Seq({"request", "write", "finish"})]
        BY DEF TypeOK
      <4> QED
        BY <2>2, <2>3, <4>1, <4>2
    <3>2. CASE ~ok
      BY <1>1, <2>2, <3>2 DEF Arrive, TypeOK
    <3> QED
      BY <3>1, <3>2
  <2>5. /\ stage' \in [Calls -> {"unborn", "kCreated", "kStreaming", "kFinishing", "deleted"}]
        /\ wpc' \in {"next", "reserve"} /\ cur' \in Calls \cup {None}
    BY <1>1 DEF Arrive, TypeOK, workerVars
  <2> QED
    BY <1>1, <2>4, <2>5 DEF Arrive, TypeOK, handVars, slotVars, countVars, engineVars
<1>2. ASSUME NEW c \in Calls, NEW ok \in BOOLEAN, Signal(c, ok) PROVE TypeOK'
  <2>1. Tail(inflight[c]) \in Seq({"request", "write", "finish"})
    BY <1>2, SMT DEF Signal, TypeOK
  <2> QED
    BY <1>2, <2>1 DEF Signal, TypeOK, slotVars, countVars, engineVars
<1>3. CASE Reserve
  <2>1. cur \in Calls
    BY <1>3, CurType DEF Reserve
  <2>2. Append(inflight[cur], "finish") \in Seq({"request", "write", "finish"})
    BY <2>1, SMT DEF TypeOK
  <2>3. observers' \in 0..ObserverCap /\ subscribers' \in 0..(U32 - 1)
    BY <1>3, U32Assumption, ObserverCapAssumption, SMT DEF Reserve, TypeOK, countVars
  <2>4. /\ inflight' \in [Calls -> Seq({"request", "write", "finish"})]
        /\ stage' \in [Calls -> {"unborn", "kCreated", "kStreaming", "kFinishing", "deleted"}]
    <3>1. CASE observers >= ObserverCap
      <4>1. /\ stage' = [stage EXCEPT ![cur] = "kFinishing"]
            /\ inflight' = [inflight EXCEPT ![cur] = Append(inflight[cur], "finish")]
        BY <1>3, <2>1, <3>1, SMT DEF Reserve, TypeOK
      <4> QED
        BY <2>1, <2>2, <4>1 DEF TypeOK
    <3>2. CASE ~(observers >= ObserverCap)
      BY <1>3, <3>2 DEF Reserve, TypeOK
    <3> QED
      BY <3>1, <3>2
  <2>5. /\ reserved' \in [Calls -> BOOLEAN] /\ cur' \in Calls \cup {None}
        /\ wpc' \in {"next", "subscribe"}
    BY <1>3, <2>1 DEF Reserve, TypeOK
  <2> QED
    BY <1>3, <2>3, <2>4, <2>5 DEF Reserve, TypeOK, handVars, slotVars, engineVars
<1>4. CASE Subscribe
  <2>1. cur \in Calls
    BY <1>4, CurType DEF Subscribe
  <2>2. subscribers' \in 0..(U32 - 1)
    <3>1. subscribers + 1 \in Int
      BY SMT DEF TypeOK
    <3> QED
      BY <1>4, <3>1, U32Type DEF Subscribe
  <2> QED
    BY <1>4, <2>1, <2>2 DEF Subscribe, TypeOK, handVars, slotVars, engineVars
<1>5. CASE Check
  BY <1>5 DEF Check, TypeOK, handVars, slotVars, countVars, engineVars
<1>6. CASE Unsubscribe
  BY <1>6 DEF Unsubscribe, Evict, Woken, TypeOK, handVars, countVars, engineVars
<1>7. CASE Remove
  <2>1. subscribers' \in 0..(U32 - 1)
    <3>1. subscribers - 1 \in Int
      BY SMT DEF TypeOK
    <3> QED
      BY <1>7, <3>1, U32Type DEF Remove, TypeOK
  <2> QED
    BY <1>7, <2>1 DEF Remove, TypeOK, slotVars, engineVars
<1>8. CASE Join
  <2>1. cur \in Calls
    BY <1>8, CurType DEF Join
  <2>2. cur \in Holders
    BY <1>8, <2>1 DEF Join, WorkerInv, Destroying, CallInv, HoldInv, Holders
  <2>3. observers # 0
    BY <2>2, FS_EmptySet DEF CountInv
  <2>4. observers' \in 0..ObserverCap
    BY <1>8, <2>3, ObserverCapAssumption, SMT DEF Join, TypeOK
  <2>5. subscribers' \in 0..(U32 - 1)
    <3>1. observers - 1 \in Int
      BY SMT DEF TypeOK
    <3> QED
      BY <1>8, <3>1, U32Type DEF Join
  <2> QED
    BY <1>8, <2>4, <2>5 DEF Join, TypeOK, handVars, slotVars, engineVars
<1>9. CASE Drained
  BY <1>9 DEF Drained, TypeOK, handVars, slotVars, countVars, engineVars
<1> QED
  BY <1>1, <1>2, <1>3, <1>4, <1>5, <1>6, <1>7, <1>8, <1>9 DEF Worker, Handle

\* The pumps.
LEMMA TypePump ==
  ASSUME TypeOK, NEW c \in Calls, CallInv(c), Pump(c)
  PROVE  TypeOK'
<1> USE DEF PumpFrame, Goto, workerVars, countVars, engineVars
<1>1. CASE Baseline(c)
  <2>1. backlog' \in [Calls -> Nat]
    <3>1. \A m \in 0..MaxReplay : m \in Nat
      BY BoundAssumption, SMT
    <3>2. backlog' = backlog \/ \E m \in Nat : backlog' = [backlog EXCEPT ![c] = m]
      BY <1>1, <3>1 DEF Baseline
    <3> QED
      BY <3>2 DEF TypeOK
  <2>2. pump' = [pump EXCEPT ![c] = "loop"] \/ pump' = [pump EXCEPT ![c] = "arm"]
        \/ pump' = [pump EXCEPT ![c] = "finish"]
    BY <1>1 DEF Baseline
  <2>3. pump' \in [Calls -> {"none", "baseline", "arm", "write", "wait", "loop", "pop", "parking",
                            "parked", "finish", "disarm", "finishOp", "finishWait", "exited"}]
    BY <2>2 DEF TypeOK
  <2>4. UNCHANGED <<inflight, stage, opDone, opOk, queue>> /\ PumpFrame
    BY <1>1 DEF Baseline
  <2> QED
    BY <2>1, <2>3, <2>4 DEF TypeOK
<1>2. CASE Arm(c)
  <2>1. backlog[c] - 1 \in Nat
    BY <1>2, SMT DEF Arm, TypeOK, CallInv, StageInv
  <2> QED
    BY <1>2, <2>1 DEF Arm, TypeOK
<1>3. CASE Write(c)
  <2>1. Append(inflight[c], "write") \in Seq({"request", "write", "finish"})
    BY SMT DEF TypeOK
  <2> QED
    BY <1>3, <2>1 DEF Write, TypeOK
<1>4. CASE Wait(c)
  <2>1. pump' \in [Calls -> {"none", "baseline", "arm", "write", "wait", "loop", "pop", "parking",
                            "parked", "finish", "disarm", "finishOp", "finishWait", "exited"}]
    BY <1>4 DEF Wait, TypeOK
  <2> QED
    BY <1>4, <2>1 DEF Wait, TypeOK
<1>5. CASE Loop(c)
  BY <1>5 DEF Loop, TypeOK
<1>6. CASE Pop(c)
  <2>1. queue' \in [Calls -> 0..SlotCapacity]
    <3>1. queue[c] \in 0..SlotCapacity
      BY DEF TypeOK
    <3>2. queue[c] > 0 => queue[c] - 1 \in 0..SlotCapacity
      BY <3>1, SlotAssumption, SMT
    <3> QED
      BY <1>6, <3>2 DEF Pop, TypeOK
  <2>2. backlog' \in [Calls -> Nat]
    <3>1. 1 \in Nat
      BY SMT
    <3>2. backlog' = backlog \/ backlog' = [backlog EXCEPT ![c] = 1]
      BY <1>6 DEF Pop
    <3> QED
      BY <3>1, <3>2 DEF TypeOK
  <2>3. \E pc \in {"arm", "loop", "finish", "parking"} : pump' = [pump EXCEPT ![c] = pc]
    BY <1>6 DEF Pop
  <2>4. pump' \in [Calls -> {"none", "baseline", "arm", "write", "wait", "loop", "pop", "parking",
                            "parked", "finish", "disarm", "finishOp", "finishWait", "exited"}]
    BY <2>3 DEF TypeOK
  <2>5. UNCHANGED <<inflight, stage, opDone, opOk>> /\ PumpFrame
    BY <1>6 DEF Pop
  <2> QED
    BY <2>1, <2>2, <2>4, <2>5 DEF TypeOK
<1>7. CASE Park(c) \/ Announce(c) \/ Disarm(c) \/ Exit(c)
  <2>1. CASE Park(c) \/ Exit(c)
    <3>1. pump' = [pump EXCEPT ![c] = "parked"] \/ pump' = [pump EXCEPT ![c] = "exited"]
      BY <2>1 DEF Park, Exit
    <3>2. UNCHANGED <<inflight, stage, opDone, opOk, backlog, queue>> /\ PumpFrame
      BY <2>1 DEF Park, Exit
    <3> QED
      BY <3>1, <3>2 DEF TypeOK
  <2>2. CASE Announce(c)
    BY <2>2 DEF Announce, TypeOK
  <2>3. CASE Disarm(c)
    BY <2>3 DEF Disarm, TypeOK
  <2> QED
    BY <1>7, <2>1, <2>2, <2>3
<1>8. CASE FinishOp(c)
  <2>1. Append(inflight[c], "finish") \in Seq({"request", "write", "finish"})
    BY SMT DEF TypeOK
  <2> QED
    BY <1>8, <2>1 DEF FinishOp, TypeOK
<1> QED
  BY <1>1, <1>2, <1>3, <1>4, <1>5, <1>6, <1>7, <1>8 DEF Pump

\* The engine thread.
LEMMA TypeEngine ==
  ASSUME TypeOK, CountInv, Engine
  PROVE  TypeOK'
<1> USE DEF EngineFrame, workerVars, handVars, slotVars
<1>1. CASE Close
  <2>1. taken' \in Nat
    BY <1>1, FS_CardinalityType DEF Close, CountInv
  <2> QED
    BY <1>1, <2>1 DEF Close, TypeOK
<1>2. CASE Discount
  <2>1. subscribers - taken \in Int
    BY SMT DEF TypeOK
  <2>2. subscribers' \in 0..(U32 - 1)
    BY <1>2, <2>1, U32Type DEF Discount
  <2> QED
    BY <1>2, <2>2 DEF Discount, TypeOK
<1>3. CASE ServerShutdown
  BY <1>3 DEF ServerShutdown, TypeOK
<1>4. ASSUME NEW c \in Calls, Push(c) PROVE TypeOK'
  <2>1. queue' \in [Calls -> 0..SlotCapacity]
    <3>1. queue[c] \in 0..SlotCapacity
      BY DEF TypeOK
    <3>2. queue[c] < SlotCapacity => queue[c] + 1 \in 0..SlotCapacity
      BY <3>1, SlotAssumption, SMT
    <3> QED
      BY <1>4, <3>2 DEF Push, TypeOK
  <2>2. pushed' \in 0..MaxPush
    BY <1>4, BoundAssumption, SMT DEF Push, TypeOK
  <2>3. /\ Woken(c) \/ pump' = pump
        /\ evicted' = evicted \/ evicted' = [evicted EXCEPT ![c] = TRUE]
    BY <1>4 DEF Push, Evict
  <2>4. pump' \in [Calls -> {"none", "baseline", "arm", "write", "wait", "loop", "pop", "parking",
                            "parked", "finish", "disarm", "finishOp", "finishWait", "exited"}]
    <3>1. CASE Woken(c)
      BY <3>1 DEF Woken, TypeOK
    <3>2. CASE pump' = pump
      BY <3>2 DEF TypeOK
    <3> QED
      BY <2>3, <3>1, <3>2
  <2>5. evicted' \in [Calls -> BOOLEAN]
    BY <2>3 DEF TypeOK
  <2>6. UNCHANGED <<slots, subscribers, taken, cancelled>> /\ EngineFrame
    BY <1>4 DEF Push
  <2>7. /\ epc' = epc \/ epc' = "notify"
        /\ live' = live \/ live' = {c}
    BY <1>4 DEF Push
  <2> QED
    BY <2>1, <2>2, <2>4, <2>5, <2>6, <2>7 DEF TypeOK
<1>5. ASSUME NEW c \in Calls, EvictOne(c) PROVE TypeOK'
  BY <1>5 DEF EvictOne, Evict, Woken, TypeOK
<1>6. ASSUME NEW c \in Calls, Notify(c) PROVE TypeOK'
  BY <1>6 DEF Notify, Woken, TypeOK
<1> QED
  BY <1>1, <1>2, <1>3, <1>4, <1>5, <1>6 DEF Engine

(***************************************************************************)
(* Calls                                                                   *)
(***************************************************************************)

\* A step that does nothing for call d, or wakes its pump.
Same(d) ==
  /\ pump'[d] = pump[d] \/ (pump[d] = "parked" /\ pump'[d] = "pop")
  /\ stage'[d] = stage[d] /\ inflight'[d] = inflight[d]
  /\ opDone'[d] = opDone[d] /\ stop'[d] = stop[d] /\ backlog'[d] = backlog[d]
  /\ reserved'[d] = reserved[d]

\* It is the worker's business with another call, or none of the worker's.
LEMMA CallFrame ==
  ASSUME NEW d \in Calls, CallInv(d), Same(d),
         \/ cur' = cur /\ (wpc = "subscribe" <=> wpc' = "subscribe")
         \/ cur # d /\ cur' # d
  PROVE  CallInv(d)'
<1>1. StageInv(d)'
  BY DEF CallInv, StageInv, Same, Streaming, Ending
<1>2. (cur = d <=> cur' = d) /\ (wpc = "subscribe" /\ cur = d <=> wpc' = "subscribe" /\ cur' = d)
  OBVIOUS
<1>3. OpsInv(d)'
  BY <1>2 DEF CallInv, OpsInv, Same
<1>4. HoldInv(d)'
  BY <1>2 DEF CallInv, HoldInv, Same
<1> QED
  BY <1>1, <1>3, <1>4 DEF CallInv

\* An event of the queue: a new call, or a result for the pump.
LEMMA CallEvent ==
  ASSUME TypeOK, WorkerInv, \A d \in Calls : CallInv(d), NEW c \in Calls, Handle(c)
  PROVE  WorkerInv' /\ \A d \in Calls : CallInv(d)'
<1> USE DEF workerVars, handVars, slotVars, countVars, engineVars
<1>1. PICK ok \in BOOLEAN : Arrive(c, ok) \/ Signal(c, ok)
  BY DEF Handle
<1>2. wpc = "next" /\ cur = None /\ c # None /\ inflight[c] # <<>> /\ \A d \in Calls : cur # d
  BY <1>1, NoneAssumption DEF Arrive, Signal, WorkerInv
<1>3. CASE Arrive(c, ok) /\ ok
  <2>1. PICK d \in Calls :
          /\ stage[d] = "unborn"
          /\ stage' = [stage EXCEPT ![d] = "kCreated"]
          /\ inflight' = [inflight EXCEPT ![c] = Tail(@), ![d] = <<"request">>]
    BY <1>3 DEF Arrive
  <2>2. /\ wpc' = "reserve" /\ cur' = c /\ stage[c] = "kCreated" /\ d # c
        /\ UNCHANGED <<reserved, opDone, stop, pump, backlog>>
    BY <1>3, <2>1 DEF Arrive
  <2>3. /\ stage'[c] = "kCreated" /\ stage'[d] = "kCreated"
        /\ \A e \in Calls \ {c, d} : stage'[e] = stage[e] /\ inflight'[e] = inflight[e]
        /\ inflight'[c] = <<>> /\ inflight'[d] = <<"request">>
    <3>1. Tail(inflight[c]) = <<>>
      BY <1>2, <2>2, OneOp DEF CallInv, OpsInv
    <3> QED
      BY <2>1, <2>2, <3>1 DEF TypeOK
  <2>4. CallInv(c)'
    BY <1>2, <2>2, <2>3 DEF CallInv, StageInv, OpsInv, HoldInv
  <2>5. CallInv(d)'
    BY <1>2, <2>1, <2>2, <2>3 DEF CallInv, StageInv, OpsInv, HoldInv
  <2>6. ASSUME NEW e \in Calls \ {c, d} PROVE CallInv(e)'
    BY <1>2, <2>2, <2>3, CallFrame DEF Same
  <2>7. WorkerInv'
    BY <1>2, <2>2, <2>3 DEF WorkerInv, Destroying
  <2> QED
    BY <2>4, <2>5, <2>6, <2>7
<1>4. CASE Arrive(c, ok) /\ ~ok
  <2>1. /\ stage[c] = "kCreated" /\ stage' = [stage EXCEPT ![c] = "deleted"]
        /\ inflight' = [inflight EXCEPT ![c] = Tail(@)]
        /\ UNCHANGED <<wpc, cur, reserved, opDone, stop, pump, backlog>>
    BY <1>4 DEF Arrive
  <2>2. /\ stage'[c] = "deleted" /\ inflight'[c] = <<>>
        /\ \A e \in Calls \ {c} : stage'[e] = stage[e] /\ inflight'[e] = inflight[e]
    <3>1. Tail(inflight[c]) = <<>>
      BY <1>2, <2>1, OneOp DEF CallInv, OpsInv
    <3> QED
      BY <2>1, <3>1 DEF TypeOK
  <2>3. CallInv(c)'
    BY <1>2, <2>1, <2>2 DEF CallInv, StageInv, OpsInv, HoldInv
  <2>4. ASSUME NEW e \in Calls \ {c} PROVE CallInv(e)'
    BY <1>2, <2>1, <2>2, CallFrame DEF Same
  <2>5. WorkerInv'
    BY <1>2, <2>1 DEF WorkerInv, Destroying
  <2> QED
    BY <2>3, <2>4, <2>5
<1>5. CASE Signal(c, ok)
  <2>1. /\ stage[c] # "kCreated" /\ wpc' = "check" /\ cur' = c
        /\ inflight' = [inflight EXCEPT ![c] = Tail(@)] /\ opDone' = [opDone EXCEPT ![c] = TRUE]
        /\ UNCHANGED <<stage, reserved, stop, pump, backlog>>
    BY <1>5 DEF Signal
  <2>2. /\ stage[c] \in {"kStreaming", "kFinishing"}
        /\ pump[c] \in {"none", "wait", "finishWait"}
        /\ inflight[c] \in {<<"write">>, <<"finish">>}
    <3>1. stage[c] \in {"kStreaming", "kFinishing"}
      BY <1>2, <2>1 DEF CallInv, OpsInv, TypeOK
    <3>2. pump[c] \in {"none", "wait", "finishWait"}
      BY <1>2 DEF CallInv, OpsInv
    <3>3. pump[c] = "none" => inflight[c] = <<"finish">>
      BY <1>2, <3>1 DEF CallInv, StageInv, OpsInv, Streaming
    <3>4. pump[c] # "none" => inflight[c] \in {<<"write">>, <<"finish">>}
      BY <1>2, <3>2 DEF CallInv, OpsInv
    <3> QED
      BY <3>1, <3>2, <3>3, <3>4
  <2>3. /\ inflight'[c] = <<>> /\ opDone'[c]
        /\ \A e \in Calls \ {c} : inflight'[e] = inflight[e] /\ opDone'[e] = opDone[e]
    <3>1. Tail(inflight[c]) = <<>>
      BY <2>2, OneOp
    <3> QED
      BY <2>1, <3>1 DEF TypeOK
  <2>4. CallInv(c)'
    BY <1>2, <2>1, <2>2, <2>3 DEF CallInv, StageInv, OpsInv, HoldInv
  <2>5. ASSUME NEW e \in Calls \ {c} PROVE CallInv(e)'
    BY <1>2, <2>1, <2>3, CallFrame DEF Same
  <2>6. WorkerInv'
    BY <1>2, <2>1, <2>2 DEF WorkerInv, Destroying
  <2> QED
    BY <2>4, <2>5, <2>6
<1> QED
  BY <1>1, <1>3, <1>4, <1>5

\* The worker with a call in hand, up to the destructor.
LEMMA CallAdmission ==
  ASSUME TypeOK, WorkerInv, \A d \in Calls : CallInv(d), Reserve \/ Subscribe \/ Check
  PROVE  WorkerInv' /\ \A d \in Calls : CallInv(d)'
<1> USE DEF workerVars, handVars, slotVars, countVars, engineVars
<1>1. wpc \in {"reserve", "subscribe", "check"} /\ cur \in Calls /\ cur # None
  BY CurType, NoneAssumption DEF Reserve, Subscribe, Check
<1>2. CASE Reserve /\ observers >= ObserverCap
  <2>1. /\ stage[cur] = "kCreated" /\ wpc' = "next" /\ cur' = None
        /\ stage' = [stage EXCEPT ![cur] = "kFinishing"]
        /\ inflight' = [inflight EXCEPT ![cur] = Append(@, "finish")]
        /\ UNCHANGED <<reserved, opDone, stop, pump, backlog>>
    BY <1>2 DEF Reserve, WorkerInv
  <2>2. /\ stage'[cur] = "kFinishing" /\ inflight'[cur] = <<"finish">>
        /\ \A e \in Calls \ {cur} : stage'[e] = stage[e] /\ inflight'[e] = inflight[e]
    <3>1. Append(inflight[cur], "finish") = <<"finish">>
      BY <1>1, <2>1, OneOp DEF CallInv, OpsInv
    <3> QED
      BY <1>1, <2>1, <3>1 DEF TypeOK
  <2>3. ASSUME NEW e \in Calls, e = cur PROVE CallInv(e)'
    <3>1. wpc # "subscribe"
      BY <1>2 DEF Reserve
    <3> QED
      BY <1>1, <2>1, <2>2, <2>3, <3>1 DEF CallInv, StageInv, OpsInv, HoldInv, Streaming, Ending
  <2>4. ASSUME NEW e \in Calls \ {cur} PROVE CallInv(e)'
    BY <2>1, <2>2, NoneAssumption, CallFrame DEF Same
  <2>5. WorkerInv'
    BY <2>1 DEF WorkerInv, Destroying
  <2> QED
    BY <2>3, <2>4, <2>5
<1>3. CASE Reserve /\ ~(observers >= ObserverCap)
  <2>1. /\ stage[cur] = "kCreated" /\ wpc' = "subscribe" /\ cur' = cur
        /\ reserved' = [reserved EXCEPT ![cur] = TRUE]
        /\ UNCHANGED <<stage, inflight, opDone, stop, pump, backlog>>
    BY <1>3 DEF Reserve, WorkerInv
  <2>2. reserved'[cur] /\ \A e \in Calls \ {cur} : reserved'[e] = reserved[e]
    BY <1>1, <2>1 DEF TypeOK
  <2>3. ASSUME NEW e \in Calls, e = cur PROVE CallInv(e)'
    BY <2>1, <2>2, <2>3 DEF CallInv, StageInv, OpsInv, HoldInv
  <2>4. ASSUME NEW e \in Calls \ {cur} PROVE CallInv(e)'
    BY <2>1, <2>2, CallFrame DEF Same
  <2>5. WorkerInv'
    BY <1>1, <2>1 DEF WorkerInv, Destroying
  <2> QED
    BY <2>3, <2>4, <2>5
<1>4. CASE Subscribe
  <2>1. /\ stage[cur] = "kCreated" /\ wpc = "subscribe" /\ wpc' = "next" /\ cur' = None
        /\ stage' = [stage EXCEPT ![cur] = "kStreaming"]
        /\ pump' = [pump EXCEPT ![cur] = "baseline"]
        /\ UNCHANGED <<inflight, reserved, opDone, stop, backlog>>
    BY <1>4 DEF Subscribe, WorkerInv
  <2>2. /\ stage'[cur] = "kStreaming" /\ pump'[cur] = "baseline"
        /\ \A e \in Calls \ {cur} : stage'[e] = stage[e] /\ pump'[e] = pump[e]
    BY <1>1, <2>1 DEF TypeOK
  <2>3. ASSUME NEW e \in Calls, e = cur PROVE CallInv(e)'
    BY <1>1, <2>1, <2>2, <2>3 DEF CallInv, StageInv, OpsInv, HoldInv, Streaming, Ending
  <2>4. ASSUME NEW e \in Calls \ {cur} PROVE CallInv(e)'
    BY <2>1, <2>2, NoneAssumption, CallFrame DEF Same
  <2>5. WorkerInv'
    BY <2>1 DEF WorkerInv, Destroying
  <2> QED
    BY <2>3, <2>4, <2>5
<1>5. CASE Check /\ stage[cur] # "kFinishing"
  <2>1. /\ stage[cur] = "kStreaming" /\ wpc = "check" /\ wpc' = "next" /\ cur' = None
        /\ UNCHANGED <<inflight, stage, reserved, opDone, stop, pump, backlog>>
    BY <1>5 DEF Check, WorkerInv
  <2>2. ASSUME NEW e \in Calls, e = cur PROVE CallInv(e)'
    BY <2>1, <2>2 DEF CallInv, StageInv, OpsInv, HoldInv
  <2>3. ASSUME NEW e \in Calls \ {cur} PROVE CallInv(e)'
    BY <2>1, NoneAssumption, CallFrame DEF Same
  <2>4. WorkerInv'
    BY <2>1 DEF WorkerInv, Destroying
  <2> QED
    BY <2>2, <2>3, <2>4
<1>6. CASE Check /\ stage[cur] = "kFinishing" /\ pump[cur] = "none"
  <2>1. /\ wpc = "check" /\ wpc' = "next" /\ cur' = None
        /\ stage' = [stage EXCEPT ![cur] = "deleted"]
        /\ UNCHANGED <<inflight, reserved, opDone, stop, pump, backlog>>
    BY <1>6 DEF Check
  <2>2. stage'[cur] = "deleted" /\ \A e \in Calls \ {cur} : stage'[e] = stage[e]
    BY <1>1, <2>1 DEF TypeOK
  <2>3. ASSUME NEW e \in Calls, e = cur PROVE CallInv(e)'
    BY <1>6, <2>1, <2>2, <2>3 DEF CallInv, StageInv, OpsInv, HoldInv, Streaming, Ending
  <2>4. ASSUME NEW e \in Calls \ {cur} PROVE CallInv(e)'
    BY <2>1, <2>2, NoneAssumption, CallFrame DEF Same
  <2>5. WorkerInv'
    BY <2>1 DEF WorkerInv, Destroying
  <2> QED
    BY <2>3, <2>4, <2>5
<1>7. CASE Check /\ stage[cur] = "kFinishing" /\ pump[cur] # "none"
  <2>1. /\ wpc = "check" /\ wpc' = "evict" /\ cur' = cur
        /\ UNCHANGED <<inflight, stage, reserved, opDone, stop, pump, backlog>>
    BY <1>7 DEF Check
  <2>2. pump[cur] \in Ending
    BY <1>1, <1>7 DEF TypeOK, CallInv, StageInv, Streaming, Ending
  <2>3. ASSUME NEW e \in Calls PROVE CallInv(e)'
    BY <2>1, <2>3 DEF CallInv, StageInv, OpsInv, HoldInv
  <2>4. WorkerInv'
    BY <1>1, <1>7, <2>1, <2>2 DEF WorkerInv, Destroying
  <2> QED
    BY <2>3, <2>4
<1> QED
  BY <1>2, <1>3, <1>4, <1>5, <1>6, <1>7

\* The destructor, and the end of the worker.
LEMMA CallDestructor ==
  ASSUME TypeOK, WorkerInv, \A d \in Calls : CallInv(d),
         Unsubscribe \/ Remove \/ Join \/ Drained
  PROVE  WorkerInv' /\ \A d \in Calls : CallInv(d)'
<1> USE DEF workerVars, handVars, slotVars, countVars, engineVars
<1>1. CASE Unsubscribe
  <2>1. /\ wpc = "evict" /\ wpc' = "remove" /\ cur' = cur /\ cur \in Calls
        /\ pump' = [pump EXCEPT ![cur] = IF @ = "parked" THEN "pop" ELSE @]
        /\ UNCHANGED <<inflight, stage, reserved, opDone, stop, backlog>>
    BY <1>1, CurType DEF Unsubscribe, Evict, Woken
  <2>2. \A e \in Calls : pump'[e] = pump[e] \/ (pump[e] = "parked" /\ pump'[e] = "pop")
    BY <2>1 DEF TypeOK
  <2>3. ASSUME NEW e \in Calls PROVE CallInv(e)'
    BY <2>1, <2>2, CallFrame DEF Same
  <2>4. stage[cur] = "kFinishing" /\ pump[cur] \in Ending /\ cur # None
    BY <2>1, NoneAssumption DEF WorkerInv, Destroying
  <2>5. pump'[cur] = pump[cur]
    BY <2>1, <2>2, <2>4 DEF Ending
  <2> QED
    BY <2>1, <2>3, <2>4, <2>5 DEF WorkerInv
<1>2. CASE Remove
  <2>1. /\ wpc = "remove" /\ wpc' = "join" /\ cur' = cur /\ cur \in Calls
        /\ stop' = [stop EXCEPT ![cur] = TRUE]
        /\ UNCHANGED <<inflight, stage, reserved, opDone, pump, backlog>>
    BY <1>2, CurType DEF Remove
  <2>2. \A e \in Calls \ {cur} : stop'[e] = stop[e]
    BY <2>1 DEF TypeOK
  <2>3. stage[cur] = "kFinishing" /\ pump[cur] \in Ending /\ cur # None
    BY <2>1, NoneAssumption DEF WorkerInv, Destroying
  <2>4. ASSUME NEW e \in Calls, e = cur PROVE CallInv(e)'
    BY <2>1, <2>3, <2>4 DEF CallInv, StageInv, OpsInv, HoldInv
  <2>5. ASSUME NEW e \in Calls \ {cur} PROVE CallInv(e)'
    BY <2>1, <2>2, CallFrame DEF Same
  <2> QED
    BY <2>1, <2>3, <2>4, <2>5 DEF WorkerInv
<1>3. CASE Join
  <2>1. /\ wpc = "join" /\ wpc' = "next" /\ cur' = None /\ cur \in Calls
        /\ pump[cur] = "exited"
        /\ reserved' = [reserved EXCEPT ![cur] = FALSE]
        /\ stage' = [stage EXCEPT ![cur] = "deleted"]
        /\ UNCHANGED <<inflight, opDone, stop, pump, backlog>>
    BY <1>3, CurType DEF Join
  <2>2. /\ ~reserved'[cur] /\ stage'[cur] = "deleted"
        /\ \A e \in Calls \ {cur} : reserved'[e] = reserved[e] /\ stage'[e] = stage[e]
    BY <2>1 DEF TypeOK
  <2>3. ASSUME NEW e \in Calls, e = cur PROVE CallInv(e)'
    BY <2>1, <2>2, <2>3 DEF CallInv, StageInv, OpsInv, HoldInv, Streaming
  <2>4. ASSUME NEW e \in Calls \ {cur} PROVE CallInv(e)'
    BY <2>1, <2>2, NoneAssumption, CallFrame DEF Same
  <2> QED
    BY <2>1, <2>3, <2>4 DEF WorkerInv, Destroying
<1>4. CASE Drained
  <2>1. /\ wpc = "next" /\ wpc' = "stopped" /\ cur' = cur
        /\ UNCHANGED <<inflight, stage, reserved, opDone, stop, pump, backlog>>
    BY <1>4 DEF Drained
  <2>2. ASSUME NEW e \in Calls PROVE CallInv(e)'
    BY <2>1, CallFrame DEF Same
  <2> QED
    BY <2>1, <2>2 DEF WorkerInv, Destroying
<1> QED
  BY <1>1, <1>2, <1>3, <1>4

\* A step of call c's pump that leaves the worker what it knows of c.
LEMMA CallPumpFrame ==
  ASSUME TypeOK, WorkerInv, NEW c \in Calls, \A d \in Calls : CallInv(d), CallInv(c)',
         \A d \in Calls \ {c} : Same(d), UNCHANGED <<wpc, cur>>,
         stage[c] = "kStreaming" => stage'[c] \in {"kStreaming", "kFinishing"},
         stage[c] # "kStreaming" => stage'[c] = stage[c],
         pump[c] \in Ending => pump'[c] \in Ending
  PROVE  WorkerInv' /\ \A d \in Calls : CallInv(d)'
<1>1. ASSUME NEW d \in Calls \ {c} PROVE CallInv(d)'
  BY CallFrame
<1>2. ASSUME wpc \in Destroying PROVE stage'[cur] = "kFinishing" /\ pump'[cur] \in Ending
  <2>1. cur \in Calls /\ stage[cur] = "kFinishing" /\ pump[cur] \in Ending
    BY <1>2, CurType DEF WorkerInv, Destroying
  <2> QED
    BY <2>1 DEF Same, Ending
<1>3. wpc = "check" => stage'[cur] \in {"kStreaming", "kFinishing"}
  BY CurType DEF WorkerInv, Same
<1>4. wpc \in {"reserve", "subscribe"} => stage'[cur] = "kCreated"
  BY CurType DEF WorkerInv, Same
<1> QED
  BY <1>1, <1>2, <1>3, <1>4 DEF WorkerInv

\* The pump moves on within its stream, with nothing in flight.
LEMMA CallPumpMoves ==
  ASSUME NEW c \in Calls, CallInv(c), pump[c] \in Streaming, pump'[c] \in Streaming \ {"wait"},
         inflight[c] = <<>>, pump'[c] = "write" => ~opDone'[c],
         pump'[c] = "arm" => backlog'[c] > 0, UNCHANGED <<inflight, stage, reserved, stop, wpc, cur>>
  PROVE  CallInv(c)'
<1>1. stage[c] = "kStreaming" /\ ~stop[c]
  BY DEF CallInv, StageInv
<1>2. StageInv(c)'
  BY <1>1 DEF StageInv, Streaming, Ending
<1>3. OpsInv(c)'
  BY <1>1 DEF OpsInv, Streaming
<1>4. HoldInv(c)'
  BY <1>1 DEF CallInv, HoldInv, Streaming
<1> QED
  BY <1>2, <1>3, <1>4 DEF CallInv

\* The pumps.
LEMMA CallPump ==
  ASSUME TypeOK, WorkerInv, \A d \in Calls : CallInv(d), NEW c \in Calls, Pump(c)
  PROVE  WorkerInv' /\ \A d \in Calls : CallInv(d)'
<1> USE DEF PumpFrame, Goto, workerVars
<1>1. UNCHANGED <<wpc, cur, reserved, stop>>
  BY DEF Pump, Baseline, Arm, Write, Wait, Loop, Pop, Park, Announce, Disarm, FinishOp, Exit
<1>2. \A d \in Calls \ {c} : Same(d)
  <2>1. \A d \in Calls \ {c} : pump'[d] = pump[d] /\ stage'[d] = stage[d]
    <3>1. \E pc : pump' = [pump EXCEPT ![c] = pc]
      BY DEF Pump, Baseline, Arm, Write, Wait, Loop, Pop, Park, Announce, Disarm, FinishOp, Exit
    <3>2. stage' = stage \/ stage' = [stage EXCEPT ![c] = "kFinishing"]
      BY DEF Pump, Baseline, Arm, Write, Wait, Loop, Pop, Park, Announce, Disarm, FinishOp, Exit
    <3> QED
      BY <3>1, <3>2 DEF TypeOK
  <2>2. \A d \in Calls \ {c} : inflight'[d] = inflight[d] /\ opDone'[d] = opDone[d]
    BY DEF Pump, Baseline, Arm, Write, Wait, Loop, Pop, Park, Announce, Disarm, FinishOp, Exit,
           TypeOK
  <2>3. \A d \in Calls \ {c} : backlog'[d] = backlog[d]
    BY DEF Pump, Baseline, Arm, Write, Wait, Loop, Pop, Park, Announce, Disarm, FinishOp, Exit,
           TypeOK
  <2> QED
    BY <1>1, <2>1, <2>2, <2>3 DEF Same
<1> DEFINE Stays == UNCHANGED <<inflight, stage>>
<1>3. ASSUME Stays, pump[c] \in Streaming, pump'[c] \in Streaming \ {"wait"}, inflight[c] = <<>>,
             pump'[c] = "write" => ~opDone'[c], pump'[c] = "arm" => backlog'[c] > 0
      PROVE  WorkerInv' /\ \A d \in Calls : CallInv(d)'
  <2>1. CallInv(c)'
    BY <1>1, <1>3, CallPumpMoves
  <2>2. pump[c] \notin Ending
    BY <1>3 DEF Streaming, Ending
  <2> QED
    BY <1>1, <1>2, <1>3, <2>1, <2>2, CallPumpFrame
<1>4. CASE Baseline(c)
  <2>1. Stays /\ pump[c] = "baseline" /\ inflight[c] = <<>>
    BY <1>4 DEF Baseline, CallInv, OpsInv
  <2>2. CASE Goto(c, "finish")
    <3>1. pump'[c] = "finish"
      BY <2>2 DEF TypeOK
    <3> QED
      BY <1>3, <2>1, <3>1 DEF Streaming
  <2>3. ASSUME NEW m \in 0..MaxReplay, backlog' = [backlog EXCEPT ![c] = m],
               pump' = [pump EXCEPT ![c] = IF m = 0 THEN "loop" ELSE "arm"]
        PROVE  WorkerInv' /\ \A d \in Calls : CallInv(d)'
    <3>1. m # 0 => m > 0
      BY BoundAssumption, SMT
    <3>2. backlog'[c] = m /\ pump'[c] = IF m = 0 THEN "loop" ELSE "arm"
      BY <2>3 DEF TypeOK
    <3> QED
      BY <1>3, <2>1, <3>1, <3>2 DEF Streaming
  <2> QED
    BY <1>4, <2>2, <2>3 DEF Baseline
<1>5. CASE Arm(c)
  <2>1. Stays /\ pump[c] = "arm" /\ inflight[c] = <<>> /\ pump'[c] = "write" /\ ~opDone'[c]
    BY <1>5 DEF Arm, CallInv, OpsInv, TypeOK
  <2> QED
    BY <1>3, <2>1 DEF Streaming
<1>6. CASE Loop(c) \/ Park(c)
  <2>1. /\ Stays /\ pump[c] \in {"loop", "parking"} /\ inflight[c] = <<>>
        /\ pump'[c] \in {"finish", "pop", "parked"}
    BY <1>6 DEF Loop, Park, CallInv, OpsInv, TypeOK
  <2> QED
    BY <1>3, <2>1 DEF Streaming
<1>7. CASE Pop(c)
  <2>1. /\ Stays /\ pump[c] = "pop" /\ inflight[c] = <<>>
        /\ pump'[c] \in {"arm", "loop", "finish", "parking"}
    BY <1>7 DEF Pop, CallInv, OpsInv, TypeOK
  <2>2. pump'[c] = "arm" => backlog'[c] = 1
    BY <1>7 DEF Pop, TypeOK
  <2>3. 1 > 0
    BY SMT
  <2> QED
    BY <1>3, <2>1, <2>2, <2>3 DEF Streaming
<1>8. CASE Wait(c)
  <2>1. Stays /\ pump[c] = "wait" /\ UNCHANGED backlog
    BY <1>8 DEF Wait
  <2>2. ~stop[c] /\ opDone[c] /\ inflight[c] = <<>>
    BY <1>8 DEF Wait, CallInv, StageInv, OpsInv, Streaming, Ending
  <2>3. pump'[c] \in {"finish", "arm", "loop"} /\ (pump'[c] = "arm" => backlog[c] > 0)
    BY <1>8 DEF Wait, TypeOK
  <2> QED
    BY <1>3, <2>1, <2>2, <2>3 DEF Streaming
<1>9. CASE Write(c)
  <2>1. /\ pump[c] = "write" /\ inflight[c] = <<>> /\ ~opDone[c] /\ stage[c] = "kStreaming"
        /\ UNCHANGED <<stage, opDone, backlog>>
    BY <1>9 DEF Write, CallInv, StageInv, OpsInv, Streaming
  <2>2. pump'[c] = "wait" /\ inflight'[c] = <<"write">>
    BY <1>9, <2>1, OneOp DEF Write, TypeOK
  <2>3. CallInv(c)'
    BY <1>1, <2>1, <2>2 DEF CallInv, StageInv, OpsInv, HoldInv, Streaming, Ending
  <2> QED
    BY <1>1, <1>2, <2>1, <2>3, CallPumpFrame DEF Ending
<1>10. CASE Announce(c)
  <2>1. /\ pump[c] = "finish" /\ inflight[c] = <<>> /\ stage[c] = "kStreaming"
        /\ UNCHANGED <<inflight, opDone, backlog>>
    BY <1>10 DEF Announce, CallInv, StageInv, OpsInv, Streaming
  <2>2. pump'[c] = "disarm" /\ stage'[c] = "kFinishing"
    BY <1>10 DEF Announce, TypeOK
  <2>3. CallInv(c)'
    BY <1>1, <2>1, <2>2 DEF CallInv, StageInv, OpsInv, HoldInv, Streaming, Ending
  <2> QED
    BY <1>1, <1>2, <2>1, <2>2, <2>3, CallPumpFrame DEF Ending
<1>11. CASE Disarm(c)
  <2>1. /\ pump[c] = "disarm" /\ inflight[c] = <<>> /\ stage[c] = "kFinishing"
        /\ UNCHANGED <<inflight, stage, backlog>>
    BY <1>11 DEF Disarm, CallInv, StageInv, OpsInv, Ending
  <2>2. pump'[c] = "finishOp" /\ ~opDone'[c]
    BY <1>11 DEF Disarm, TypeOK
  <2>3. CallInv(c)'
    BY <1>1, <2>1, <2>2 DEF CallInv, StageInv, OpsInv, HoldInv, Streaming, Ending
  <2> QED
    BY <1>1, <1>2, <2>1, <2>2, <2>3, CallPumpFrame DEF Ending
<1>12. CASE FinishOp(c)
  <2>1. /\ pump[c] = "finishOp" /\ inflight[c] = <<>> /\ stage[c] = "kFinishing" /\ ~opDone[c]
        /\ UNCHANGED <<opDone, stage, backlog>>
    BY <1>12 DEF FinishOp, CallInv, StageInv, OpsInv, Ending
  <2>2. pump'[c] = "finishWait" /\ inflight'[c] = <<"finish">>
    BY <1>12, <2>1, OneOp DEF FinishOp, TypeOK
  <2>3. CallInv(c)'
    BY <1>1, <2>1, <2>2 DEF CallInv, StageInv, OpsInv, HoldInv, Streaming, Ending
  <2> QED
    BY <1>1, <1>2, <2>1, <2>2, <2>3, CallPumpFrame DEF Ending
<1>13. CASE Exit(c)
  <2>1. /\ pump[c] = "finishWait" /\ inflight[c] = <<>> /\ stage[c] = "kFinishing"
        /\ UNCHANGED <<inflight, opDone, stage, backlog>>
    BY <1>13 DEF Exit, CallInv, StageInv, OpsInv, Ending
  <2>2. pump'[c] = "exited"
    BY <1>13 DEF Exit, TypeOK
  <2>3. CallInv(c)'
    BY <1>1, <2>1, <2>2 DEF CallInv, StageInv, OpsInv, HoldInv, Streaming, Ending
  <2> QED
    BY <1>1, <1>2, <2>1, <2>2, <2>3, CallPumpFrame DEF Ending
<1> QED
  BY <1>4, <1>5, <1>6, <1>7, <1>8, <1>9, <1>10, <1>11, <1>12, <1>13 DEF Pump

\* The engine thread.
LEMMA CallEngine ==
  ASSUME TypeOK, WorkerInv, \A d \in Calls : CallInv(d), Engine
  PROVE  WorkerInv' /\ \A d \in Calls : CallInv(d)'
<1>1. UNCHANGED <<wpc, cur, inflight, stage, reserved, opDone, stop, backlog>>
  BY DEF Engine, Close, Discount, ServerShutdown, Push, Notify, EvictOne, EngineFrame, workerVars,
         handVars
<1>2. \A d \in Calls : pump'[d] = pump[d] \/ (pump[d] = "parked" /\ pump'[d] = "pop")
  <2>1. pump' = pump \/ \E c \in Calls : Woken(c)
    BY DEF Engine, Close, Discount, ServerShutdown, Push, Notify, EvictOne, Evict
  <2>2. ASSUME NEW c \in Calls, Woken(c), NEW d \in Calls
        PROVE  pump'[d] = pump[d] \/ (pump[d] = "parked" /\ pump'[d] = "pop")
    BY <2>2 DEF Woken, TypeOK
  <2> QED
    BY <2>1, <2>2
<1>3. ASSUME NEW d \in Calls PROVE CallInv(d)'
  BY <1>1, <1>2, CallFrame DEF Same
<1>4. wpc \in Destroying => pump'[cur] \in Ending
  <2>1. wpc \in Destroying => cur \in Calls /\ pump[cur] \in Ending
    BY CurType DEF WorkerInv, Destroying
  <2> QED
    BY <1>2, <2>1 DEF Ending
<1> QED
  BY <1>1, <1>3, <1>4 DEF WorkerInv

(***************************************************************************)
(* The observer count                                                      *)
(***************************************************************************)

\* observer_count_ is the number of calls that hold a slot: TryReserve counts a
\* call that holds none, the destructor one that does.
LEMMA CountStep ==
  ASSUME TypeOK, WorkerInv, CountInv, \A c \in Calls : CallInv(c), Next
  PROVE  CountInv'
<1> USE DEF workerVars, handVars, slotVars, countVars, engineVars
<1>1. ASSUME UNCHANGED <<reserved, observers>> PROVE Holders' = Holders /\ observers' = observers
  BY <1>1 DEF Holders
<1>2. CASE Reserve /\ ~(observers >= ObserverCap)
  <2>1. /\ wpc = "reserve" /\ cur \in Calls /\ observers' = observers + 1
        /\ reserved' = [reserved EXCEPT ![cur] = TRUE] /\ UNCHANGED slots
    BY <1>2, CurType DEF Reserve
  <2>2. cur \notin Holders
    BY <2>1 DEF WorkerInv, CallInv, StageInv, HoldInv, Holders
  <2>3. Holders' = Holders \cup {cur}
    BY <2>1 DEF Holders, TypeOK
  <2> QED
    BY <2>1, <2>2, <2>3, FS_AddElement DEF CountInv
<1>3. CASE Join
  <2>1. /\ wpc = "join" /\ cur \in Calls /\ observers' = observers - 1 /\ pump[cur] = "exited"
        /\ reserved' = [reserved EXCEPT ![cur] = FALSE] /\ UNCHANGED slots
    BY <1>3, CurType DEF Join
  <2>2. cur \in Holders
    BY <2>1 DEF WorkerInv, Destroying, CallInv, HoldInv, Holders
  <2>3. Holders' = Holders \ {cur}
    BY <2>1 DEF Holders, TypeOK
  <2> QED
    BY <2>1, <2>2, <2>3, FS_RemoveElement DEF CountInv
<1>4. ASSUME UNCHANGED <<reserved, observers>>, IsFiniteSet(slots') PROVE CountInv'
  BY <1>1, <1>4 DEF CountInv
<1>5. CASE Subscribe
  <2>1. IsFiniteSet(slots')
    BY <1>5, FS_AddElement DEF Subscribe, CountInv
  <2> QED
    BY <1>4, <1>5, <2>1 DEF Subscribe
<1>6. CASE Remove
  <2>1. IsFiniteSet(slots')
    BY <1>6, FS_RemoveElement DEF Remove, CountInv
  <2> QED
    BY <1>4, <1>6, <2>1 DEF Remove
<1>7. CASE Close
  <2>1. IsFiniteSet(slots')
    BY <1>7, FS_EmptySet DEF Close
  <2> QED
    BY <1>4, <1>7, <2>1 DEF Close, EngineFrame
<1>8. CASE (Reserve /\ observers >= ObserverCap) \/ Check \/ Unsubscribe \/ Drained
  <2>1. UNCHANGED <<reserved, observers, slots>>
    BY <1>8 DEF Reserve, Check, Unsubscribe, Drained
  <2> QED
    BY <1>4, <2>1 DEF CountInv
<1>9. ASSUME NEW c \in Calls, Handle(c) \/ Pump(c) PROVE CountInv'
  <2>1. UNCHANGED <<reserved, observers, slots>>
    BY <1>9 DEF Handle, Arrive, Signal, Pump, Baseline, Arm, Write, Wait, Loop, Pop, Park,
                Announce, Disarm, FinishOp, Exit, PumpFrame
  <2> QED
    BY <1>4, <2>1 DEF CountInv
<1>10. CASE Discount \/ ServerShutdown \/ \E c \in Calls : Push(c) \/ Notify(c) \/ EvictOne(c)
  <2>1. UNCHANGED <<reserved, observers, slots>>
    BY <1>10 DEF Discount, ServerShutdown, Push, Notify, EvictOne, EngineFrame
  <2> QED
    BY <1>4, <2>1 DEF CountInv
<1> QED
  BY <1>2, <1>3, <1>5, <1>6, <1>7, <1>8, <1>9, <1>10 DEF Next, Worker, Engine

(***************************************************************************)
(* The theorems                                                            *)
(***************************************************************************)

\* The seeded call object, and nothing else.
LEMMA InitHolds == Init => IInv
<1> SUFFICES ASSUME Init PROVE IInv
  OBVIOUS
<1>1. PICK c \in Calls :
        /\ stage = [d \in Calls |-> IF d = c THEN "kCreated" ELSE "unborn"]
        /\ inflight = [d \in Calls |-> IF d = c THEN <<"request">> ELSE <<>>]
  BY DEF Init
<1>2. TypeOK
  <2>1. inflight \in [Calls -> Seq({"request", "write", "finish"})]
    BY <1>1, OneOp
  <2>2. /\ 0 \in Nat /\ 0 \in 0..SlotCapacity /\ 0 \in 0..ObserverCap /\ 0 \in 0..(U32 - 1)
        /\ 0 \in 0..MaxPush
    BY SlotAssumption, ObserverCapAssumption, U32Assumption, BoundAssumption, SMT
  <2> QED
    BY <1>1, <2>1, <2>2 DEF Init, TypeOK
<1>3. WorkerInv
  BY DEF Init, WorkerInv, Destroying
<1>4. CountInv
  <2>1. Holders = {} /\ slots = {} /\ observers = 0
    BY DEF Init, Holders
  <2> QED
    BY <2>1, FS_EmptySet DEF CountInv
<1>5. ASSUME NEW d \in Calls PROVE CallInv(d)
  <2>1. /\ pump[d] = "none" /\ ~stop[d] /\ ~reserved[d] /\ cur = None /\ wpc = "next"
        /\ stage[d] \in {"kCreated", "unborn"}
        /\ inflight[d] = IF stage[d] = "kCreated" THEN <<"request">> ELSE <<>>
    BY <1>1 DEF Init
  <2> QED
    BY <2>1, NoneAssumption DEF CallInv, StageInv, OpsInv, HoldInv, Streaming, Ending
<1> QED
  BY <1>2, <1>3, <1>4, <1>5 DEF IInv

\* Every step keeps the invariant.
LEMMA StepHolds == IInv /\ [Next]_vars => IInv'
<1> SUFFICES ASSUME IInv, [Next]_vars PROVE IInv'
  OBVIOUS
<1>1. TypeOK /\ WorkerInv /\ CountInv /\ \A c \in Calls : CallInv(c)
  BY DEF IInv
<1>2. CASE Worker
  <2>1. TypeOK'
    BY <1>1, <1>2, TypeWorker
  <2>2. WorkerInv' /\ \A c \in Calls : CallInv(c)'
    BY <1>1, <1>2, CallEvent, CallAdmission, CallDestructor DEF Worker
  <2>3. CountInv'
    BY <1>1, <1>2, CountStep DEF Next
  <2> QED
    BY <2>1, <2>2, <2>3 DEF IInv
<1>3. CASE Engine
  <2>1. TypeOK'
    BY <1>1, <1>3, TypeEngine
  <2>2. WorkerInv' /\ \A c \in Calls : CallInv(c)'
    BY <1>1, <1>3, CallEngine
  <2>3. CountInv'
    BY <1>1, <1>3, CountStep DEF Next
  <2> QED
    BY <2>1, <2>2, <2>3 DEF IInv
<1>4. ASSUME NEW c \in Calls, Pump(c) PROVE IInv'
  <2>1. TypeOK'
    BY <1>1, <1>4, TypePump
  <2>2. WorkerInv' /\ \A d \in Calls : CallInv(d)'
    BY <1>1, <1>4, CallPump
  <2>3. CountInv'
    BY <1>1, <1>4, CountStep DEF Next
  <2> QED
    BY <2>1, <2>2, <2>3 DEF IInv
<1>5. CASE UNCHANGED vars
  <2> USE DEF vars, workerVars, handVars, slotVars, countVars, engineVars
  <2>1. TypeOK'
    BY <1>1, <1>5 DEF TypeOK
  <2>2. WorkerInv'
    BY <1>1, <1>5 DEF WorkerInv
  <2>3. CountInv'
    BY <1>1, <1>5 DEF CountInv, Holders
  <2>4. ASSUME NEW d \in Calls PROVE CallInv(d)'
    BY <1>1, <1>5, CallFrame DEF Same
  <2> QED
    BY <2>1, <2>2, <2>3, <2>4 DEF IInv
<1> QED
  BY <1>2, <1>3, <1>4, <1>5 DEF Next

\* All of it holds always.
LEMMA Invariance == Spec => []IInv
BY InitHolds, StepHolds, PTL DEF Spec

\* The variables of HighBarService's worker, pumps and slots keep their types; in
\* particular subscriber_count never leaves its 32 bits and the count of observers
\* never goes below zero or over the cap.
THEOREM TypeCorrect == Spec => []TypeOK
<1>1. IInv => TypeOK
  BY DEF IInv
<1> QED
  BY <1>1, Invariance, PTL

\* However worker and pumps interleave, ServerAsyncWriter has at most one operation
\* of a call, and none of an object whose destructor has run.
THEOREM OneOpInFlightAlways == Spec => []OneOpInFlight
<1>1. ASSUME IInv, NEW c \in Calls PROVE inflight[c] \in {<<>>, <<"request">>, <<"write">>, <<"finish">>}
  <2>1. stage[c] \in {"unborn", "kCreated", "kStreaming", "kFinishing", "deleted"} /\ CallInv(c)
    BY <1>1 DEF IInv, TypeOK
  <2>2. CASE pump[c] = "none"
    BY <2>1, <2>2 DEF CallInv, StageInv, OpsInv, Streaming
  <2>3. CASE pump[c] # "none"
    BY <2>1, <2>3 DEF CallInv, OpsInv
  <2> QED
    BY <2>2, <2>3
<1>2. Len(<<>>) <= 1 /\ Len(<<"request">>) <= 1 /\ Len(<<"write">>) <= 1 /\ Len(<<"finish">>) <= 1
  BY SMT
<1>3. IInv => OneOpInFlight
  BY <1>1, <1>2 DEF OneOpInFlight, IInv, CallInv, OpsInv
<1> QED
  BY <1>3, Invariance, PTL

\* No pump thread outlives its call object, and never more calls than
\* kObserverHardCap hold an observer slot, also while destructors run.
THEOREM PumpsWithinCapAlways == Spec => []PumpsWithinCap
<1>1. ASSUME IInv, NEW c \in Calls, Running(c) PROVE reserved[c] /\ stage[c] # "deleted"
  BY <1>1 DEF IInv, CallInv, StageInv, HoldInv, Running
<1>2. IInv => observers = Cardinality({c \in Calls : reserved[c]})
  BY DEF IInv, CountInv, Holders
<1>3. IInv => observers <= ObserverCap
  BY ObserverCapAssumption, SMT DEF IInv, TypeOK
<1>4. IInv => PumpsWithinCap
  BY <1>1, <1>2, <1>3 DEF PumpsWithinCap
<1> QED
  BY <1>4, Invariance, PTL

\* A pump that finds op_done_ set has its own operation's result: what Write or
\* Finish it waits for is no longer with gRPC, and never the other way round.
THEOREM OwnCompletionAlways == Spec => []OwnCompletion
<1>1. <<"write">> # <<>> /\ <<"finish">> # <<>>
  BY OneOp
<1>2. IInv => OwnCompletion
  BY <1>1 DEF OwnCompletion, IInv, TypeOK, CallInv, OpsInv
<1> QED
  BY <1>2, Invariance, PTL

\* A pump sleeps in SubscriberSlot::BlockingPop on an empty queue, or TryPush has
\* still to notify it: no update falls between the predicate and the sleep.
THEOREM UpdatesWakeAlways == Spec => []UpdatesWake
<1> DEFINE Asleep == {"parking", "parked"}
           Wakes(c) == /\ pump[c] = "parking" => queue[c] = 0
                       /\ pump[c] = "parked" /\ queue[c] # 0 => epc = "notify" /\ live = {c}
<1>1. ASSUME Init PROVE UpdatesWake
  BY <1>1 DEF Init, UpdatesWake
<1>2. ASSUME IInv, UpdatesWake, Next \/ UNCHANGED vars, NEW c \in Calls PROVE Wakes(c)'
  <2> USE DEF workerVars, slotVars, engineVars
  <2>1. pump \in [Calls -> {"none", "baseline", "arm", "write", "wait", "loop", "pop", "parking",
                            "parked", "finish", "disarm", "finishOp", "finishWait", "exited"}]
        /\ queue \in [Calls -> 0..SlotCapacity] /\ Wakes(c)
    BY <1>2 DEF IInv, TypeOK, UpdatesWake
  <2>2. ASSUME pump'[c] = pump[c] \/ pump'[c] \notin Asleep, queue'[c] = queue[c],
               UNCHANGED <<epc, live>> \/ epc # "notify"
        PROVE  Wakes(c)'
    BY <2>1, <2>2
  <2>3. ASSUME NEW d, Woken(d)
        PROVE  /\ pump'[c] = pump[c] \/ pump'[c] \notin Asleep
               /\ d = c => pump'[c] # "parked"
    BY <2>1, <2>3 DEF Woken
  <2>4. CASE Worker \/ UNCHANGED vars
    <3>1. UNCHANGED <<queue, epc, live>>
      BY <2>4 DEF Worker, Handle, Arrive, Signal, Reserve, Subscribe, Check, Unsubscribe, Remove,
                  Join, Drained, vars
    <3>2. pump' = pump \/ Woken(cur) \/ pump' = [pump EXCEPT ![cur] = "baseline"]
      BY <2>4 DEF Worker, Handle, Arrive, Signal, Reserve, Subscribe, Check, Unsubscribe, Evict,
                  Remove, Join, Drained, vars
    <3>3. pump'[c] = pump[c] \/ pump'[c] \notin Asleep
      BY <2>1, <2>3, <3>2
    <3> QED
      BY <2>2, <3>1, <3>3
  <2>5. CASE Close \/ Discount \/ ServerShutdown
    <3>1. UNCHANGED <<pump, queue>> /\ epc # "notify"
      BY <2>5 DEF Close, Discount, ServerShutdown
    <3> QED
      BY <2>2, <3>1
  <2>6. ASSUME NEW d \in Calls, EvictOne(d) PROVE Wakes(c)'
    <3>1. Woken(d) /\ UNCHANGED queue /\ epc # "notify"
      BY <2>6 DEF EvictOne, Evict
    <3> QED
      BY <2>2, <2>3, <3>1
  <2>7. ASSUME NEW d \in Calls, Push(d) PROVE Wakes(c)'
    <3>1. epc = "open" /\ pump[d] # "parking"
      BY <2>7 DEF Push
    <3>2. CASE queue[d] < SlotCapacity
      <4>1. /\ queue' = [queue EXCEPT ![d] = queue[d] + 1] /\ UNCHANGED pump
            /\ epc' = "notify" /\ live' = {d}
        BY <2>7, <3>2 DEF Push
      <4>2. CASE c = d
        BY <3>1, <4>1, <4>2
      <4>3. CASE c # d
        <5>1. queue'[c] = queue[c]
          BY <2>1, <4>1, <4>3
        <5> QED
          BY <2>2, <3>1, <4>1, <5>1
      <4> QED
        BY <4>2, <4>3
    <3>3. CASE ~(queue[d] < SlotCapacity)
      <4>1. Woken(d) /\ UNCHANGED queue
        BY <2>7, <3>3 DEF Push, Evict
      <4> QED
        BY <2>2, <2>3, <3>1, <4>1
    <3> QED
      BY <3>2, <3>3
  <2>8. ASSUME NEW d \in Calls, Notify(d) PROVE Wakes(c)'
    <3>1. Woken(d) /\ UNCHANGED queue /\ live = {d}
      BY <2>8 DEF Notify
    <3>2. /\ pump'[c] = pump[c] \/ pump'[c] \notin Asleep
          /\ d = c => pump'[c] # "parked"
      BY <2>3, <3>1
    <3>3. pump[c] = "parked" /\ c # d => queue[c] = 0
      BY <2>1, <3>1
    <3> QED
      BY <2>1, <3>1, <3>2, <3>3
  <2>9. ASSUME NEW d \in Calls, Pump(d), d # c PROVE Wakes(c)'
    <3> USE DEF Goto, PumpFrame
    <3>1. \E pc : pump' = [pump EXCEPT ![d] = pc]
      BY <2>9 DEF Pump, Baseline, Arm, Write, Wait, Loop, Pop, Park, Announce, Disarm, FinishOp,
                  Exit
    <3>2. /\ queue' = queue \/ queue' = [queue EXCEPT ![d] = queue[d] - 1]
          /\ UNCHANGED <<epc, live>>
      BY <2>9 DEF Pump, Baseline, Arm, Write, Wait, Loop, Pop, Park, Announce, Disarm, FinishOp,
                  Exit
    <3>3. pump'[c] = pump[c] /\ queue'[c] = queue[c]
      BY <2>1, <2>9, <3>1, <3>2
    <3> QED
      BY <2>2, <3>2, <3>3
  <2>10. CASE Pump(c)
    <3> USE DEF Goto, PumpFrame
    <3>1. CASE Pop(c) /\ queue[c] > 0
      <4>1. \E pc \in {"arm", "loop", "finish"} : pump' = [pump EXCEPT ![c] = pc]
        BY <3>1 DEF Pop
      <4> QED
        BY <2>1, <4>1
    <3>2. CASE Pop(c) /\ ~(queue[c] > 0)
      <4>1. queue[c] \in 0..SlotCapacity
        BY <2>1
      <4>2. queue[c] = 0
        BY <3>2, <4>1, SlotAssumption, SMT
      <4>3. UNCHANGED queue
        BY <3>2 DEF Pop
      <4> QED
        BY <4>2, <4>3
    <3>3. CASE Park(c)
      BY <2>1, <3>3 DEF Park
    <3>4. CASE Baseline(c) \/ Arm(c) \/ Write(c) \/ Wait(c) \/ Loop(c)
      <4>1. \E pc \in {"arm", "loop", "finish", "write", "wait", "pop"} :
              pump' = [pump EXCEPT ![c] = pc]
        BY <3>4 DEF Baseline, Arm, Write, Wait, Loop
      <4> QED
        BY <2>1, <4>1
    <3>5. CASE Announce(c) \/ Disarm(c) \/ FinishOp(c) \/ Exit(c)
      <4>1. \E pc \in {"disarm", "finishOp", "finishWait", "exited"} :
              pump' = [pump EXCEPT ![c] = pc]
        BY <3>5 DEF Announce, Disarm, FinishOp, Exit
      <4> QED
        BY <2>1, <4>1
    <3> QED
      BY <2>10, <3>1, <3>2, <3>3, <3>4, <3>5 DEF Pump
  <2> QED
    BY <1>2, <2>4, <2>5, <2>6, <2>7, <2>8, <2>9, <2>10 DEF Next, Engine
<1>3. ASSUME IInv, UpdatesWake, [Next]_vars PROVE UpdatesWake'
  BY <1>2, <1>3 DEF UpdatesWake
<1> QED
  BY <1>1, <1>3, Invariance, PTL DEF Spec
==============================================================================
