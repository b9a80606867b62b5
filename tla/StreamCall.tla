------------------------------ MODULE StreamCall ------------------------------
(***************************************************************************)
(* The life of StreamState calls under the one completion-queue worker:    *)
(* admission under the observer cap, the handshake between worker and pump *)
(* (op_done_, op_ok_, stop_), the pump's sleep on its SubscriberSlot, the  *)
(* destructor that runs on the worker, and the closing of the service.     *)
(*                                                                         *)
(* StateStream says which updates a pump sends; here an update is just one *)
(* unit in a slot.  gRPC is external: an operation that was started comes  *)
(* back on the queue once, with ok true or false.                          *)
(***************************************************************************)
EXTENDS Integers, Sequences, FiniteSets

CONSTANTS Calls,         \* StreamStateCallData objects
          ObserverCap,   \* kObserverHardCap
          SlotCapacity,  \* SubscriberSlot::kDefaultCapacity
          MaxReplay,     \* bound: messages of a baseline
          MaxPush,       \* bound: updates the engine publishes
          U32,           \* the modulus of subscriber_count, 2^32 in the code
          None           \* "no call": not a member of Calls

ASSUME ObserverCapAssumption == ObserverCap \in Nat \ {0}
ASSUME SlotAssumption == SlotCapacity \in Nat \ {0}
ASSUME BoundAssumption == MaxReplay \in Nat /\ MaxPush \in Nat
ASSUME U32Assumption == U32 \in Nat /\ U32 > ObserverCap
ASSUME NoneAssumption == None \notin Calls

VARIABLES
  \* The worker thread.
  wpc,        \* where CqWorker is
  cur,        \* the call whose event it handles, or None
  inflight,   \* operations of each call that gRPC has not completed yet
  \* The call objects.
  stage,      \* stage_, with "unborn" and "deleted"
  reserved,   \* observer_slot_reserved_
  opDone, opOk, stop,
  pump,       \* where the pump thread is
  backlog,    \* baseline messages the pump has still to write
  \* The slots and the counters.
  slots, queue, evicted,
  observers,    \* observer_count_
  subscribers,  \* counters_->subscriber_count, a uint32
  \* The engine thread.
  epc,        \* "open", "notify" (after TryPush), "evicting", "shutdown", "closed"
  live,       \* the slots it has in hand
  pushed,
  taken,      \* how many slots EvictAll took off the bus
  cancelled   \* server_->Shutdown and cq_->Shutdown have been called

workerVars == <<wpc, cur>>
handVars == <<opDone, opOk, stop>>
slotVars == <<queue, evicted>>
countVars == <<observers, subscribers>>
engineVars == <<epc, live, pushed, taken, cancelled>>
vars == <<workerVars, inflight, stage, reserved, handVars, pump, backlog,
          slots, slotVars, countVars, engineVars>>

Init ==
  /\ wpc = "next" /\ cur = None
  /\ \E c \in Calls :
       /\ stage = [d \in Calls |-> IF d = c THEN "kCreated" ELSE "unborn"]
       /\ inflight = [d \in Calls |-> IF d = c THEN <<"request">> ELSE <<>>]
  /\ reserved = [c \in Calls |-> FALSE]
  /\ opDone = [c \in Calls |-> FALSE]
  /\ opOk = [c \in Calls |-> FALSE]
  /\ stop = [c \in Calls |-> FALSE]
  /\ pump = [c \in Calls |-> "none"]
  /\ backlog = [c \in Calls |-> 0]
  /\ slots = {}
  /\ queue = [c \in Calls |-> 0]
  /\ evicted = [c \in Calls |-> FALSE]
  /\ observers = 0 /\ subscribers = 0
  /\ epc = "open" /\ live = {} /\ pushed = 0 /\ taken = 0
  /\ cancelled = FALSE

(***************************************************************************)
(* The slot's condition variable.  A pump that found its slot empty is     *)
(* "parking" while it still holds the slot's mutex, then "parked".         *)
(***************************************************************************)

Woken(c) == pump' = [pump EXCEPT ![c] = IF @ = "parked" THEN "pop" ELSE @]

\* SubscriberSlot::Evict: compare-exchange and notify, without the mutex.
Evict(c) == evicted' = [evicted EXCEPT ![c] = TRUE] /\ Woken(c)

(***************************************************************************)
(* The worker                                                              *)
(***************************************************************************)

\* What gRPC may report for an operation.  A new call needs an object left.
Possible(op, ok) ==
  CASE op = "request" -> IF ok THEN /\ ~cancelled
                                    /\ \E d \in Calls : stage[d] = "unborn"
                         ELSE cancelled
    [] op = "write" -> ok => ~cancelled
    [] op = "finish" -> TRUE

\* Proceed on kCreated: queue a replacement, or delete when shutting down.
Arrive(c, ok) ==
  /\ wpc = "next" /\ inflight[c] # <<>> /\ stage[c] = "kCreated"
  /\ Possible(Head(inflight[c]), ok)
  /\ IF ok
     THEN /\ \E d \in Calls :
               /\ stage[d] = "unborn"
               /\ stage' = [stage EXCEPT ![d] = "kCreated"]
               /\ inflight' = [inflight EXCEPT ![c] = Tail(@),
                                               ![d] = <<"request">>]
          /\ wpc' = "reserve" /\ cur' = c
     ELSE /\ stage' = [stage EXCEPT ![c] = "deleted"]
          /\ inflight' = [inflight EXCEPT ![c] = Tail(@)]
          /\ UNCHANGED workerVars
  /\ UNCHANGED <<reserved, handVars, pump, backlog, slots, slotVars,
                 countVars, engineVars>>

\* TryReserveObserverSlot: refuse at the cap, else count, and overwrite the
\* published subscriber count.
Reserve ==
  /\ wpc = "reserve"
  /\ IF observers >= ObserverCap
     THEN /\ stage' = [stage EXCEPT ![cur] = "kFinishing"]
          /\ inflight' = [inflight EXCEPT ![cur] = Append(@, "finish")]
          /\ wpc' = "next" /\ cur' = None
          /\ UNCHANGED <<reserved, countVars>>
     ELSE /\ observers' = observers + 1
          /\ subscribers' = observers + 1
          /\ reserved' = [reserved EXCEPT ![cur] = TRUE]
          /\ wpc' = "subscribe"
          /\ UNCHANGED <<stage, inflight, cur>>
  /\ UNCHANGED <<handVars, pump, backlog, slots, slotVars, engineVars>>

\* DeltaBus::Subscribe, then start the pump.
Subscribe ==
  /\ wpc = "subscribe"
  /\ slots' = slots \cup {cur}
  /\ subscribers' = (subscribers + 1) % U32
  /\ stage' = [stage EXCEPT ![cur] = "kStreaming"]
  /\ pump' = [pump EXCEPT ![cur] = "baseline"]
  /\ wpc' = "next" /\ cur' = None
  /\ UNCHANGED <<inflight, reserved, handVars, backlog, slotVars, observers,
                 engineVars>>

\* Proceed for a Write or Finish that came back: hand the result over.
Signal(c, ok) ==
  /\ wpc = "next" /\ inflight[c] # <<>> /\ stage[c] # "kCreated"
  /\ Possible(Head(inflight[c]), ok)
  /\ inflight' = [inflight EXCEPT ![c] = Tail(@)]
  /\ opOk' = [opOk EXCEPT ![c] = ok]
  /\ opDone' = [opDone EXCEPT ![c] = TRUE]
  /\ wpc' = "check" /\ cur' = c
  /\ UNCHANGED <<stage, reserved, stop, pump, backlog, slots, slotVars,
                 countVars, engineVars>>

\* Mutant: the worker never looks at stage_ again.
CheckForgotten ==
  /\ wpc = "check"
  /\ wpc' = "next" /\ cur' = None
  /\ UNCHANGED <<inflight, stage, reserved, handVars, pump, backlog, slots,
                 slotVars, countVars, engineVars>>

\* The second half of Proceed reads stage_ again, after the notification, and
\* deletes the object on kFinishing.  A refused call has no slot to give back.
Check ==
  /\ wpc = "check"
  /\ \/ /\ stage[cur] # "kFinishing"
        /\ wpc' = "next" /\ cur' = None
        /\ UNCHANGED stage
     \/ /\ stage[cur] = "kFinishing" /\ pump[cur] = "none"
        /\ stage' = [stage EXCEPT ![cur] = "deleted"]
        /\ wpc' = "next" /\ cur' = None
     \/ /\ stage[cur] = "kFinishing" /\ pump[cur] # "none"
        /\ wpc' = "evict"
        /\ UNCHANGED <<stage, cur>>
  /\ UNCHANGED <<inflight, reserved, handVars, pump, backlog, slots, slotVars,
                 countVars, engineVars>>

\* The destructor: DeltaBus::Unsubscribe evicts the slot ...
Unsubscribe ==
  /\ wpc = "evict"
  /\ Evict(cur)
  /\ wpc' = "remove"
  /\ UNCHANGED <<cur, inflight, stage, reserved, handVars, backlog, slots,
                 queue, countVars, engineVars>>

\* ... and takes it off the bus, counting it once; then stop_ is set.
Remove ==
  /\ wpc = "remove"
  /\ slots' = slots \ {cur}
  /\ subscribers' = IF cur \in slots THEN (subscribers - 1) % U32
                    ELSE subscribers
  /\ stop' = [stop EXCEPT ![cur] = TRUE]
  /\ wpc' = "join"
  /\ UNCHANGED <<cur, inflight, stage, reserved, opDone, opOk, pump, backlog,
                 slotVars, observers, engineVars>>

\* Mutant: the destructor does not join the pump.
JoinSkipped ==
  /\ wpc = "join"
  /\ observers' = observers - 1
  /\ subscribers' = (observers - 1) % U32
  /\ reserved' = [reserved EXCEPT ![cur] = FALSE]
  /\ stage' = [stage EXCEPT ![cur] = "deleted"]
  /\ wpc' = "next" /\ cur' = None
  /\ UNCHANGED <<inflight, handVars, pump, backlog, slots, slotVars,
                 engineVars>>

\* pump_.join(), then ReleaseObserverSlot.
Join ==
  /\ wpc = "join" /\ pump[cur] = "exited"
  /\ observers' = observers - 1
  /\ subscribers' = (observers - 1) % U32
  /\ reserved' = [reserved EXCEPT ![cur] = FALSE]
  /\ stage' = [stage EXCEPT ![cur] = "deleted"]
  /\ wpc' = "next" /\ cur' = None
  /\ UNCHANGED <<inflight, handVars, pump, backlog, slots, slotVars,
                 engineVars>>

\* cq_->Next returns false once the queue is shut down and empty.
Drained ==
  /\ wpc = "next" /\ cancelled /\ \A c \in Calls : inflight[c] = <<>>
  /\ wpc' = "stopped"
  /\ UNCHANGED <<cur, inflight, stage, reserved, handVars, pump, backlog,
                 slots, slotVars, countVars, engineVars>>

Handle(c) == \E ok \in BOOLEAN : Arrive(c, ok) \/ Signal(c, ok)

Worker ==
  \/ \E c \in Calls : Handle(c)
  \/ Reserve \/ Subscribe \/ Check \/ Unsubscribe \/ Remove \/ Join \/ Drained

(***************************************************************************)
(* The pump of call c                                                      *)
(***************************************************************************)

PumpFrame == UNCHANGED <<workerVars, reserved, stop, slots, evicted,
                         countVars, engineVars>>

Goto(c, pc) == pump' = [pump EXCEPT ![c] = pc]

\* A replay of any length, or one snapshot; building it may throw.
Baseline(c) ==
  /\ pump[c] = "baseline"
  /\ \/ \E n \in 0..MaxReplay :
          /\ backlog' = [backlog EXCEPT ![c] = n]
          /\ Goto(c, IF n = 0 THEN "loop" ELSE "arm")
     \/ Goto(c, "finish") /\ UNCHANGED backlog
  /\ UNCHANGED <<inflight, stage, opDone, opOk, queue>> /\ PumpFrame

\* WriteAndWait: reset the handshake, ...
Arm(c) ==
  /\ pump[c] = "arm"
  /\ opDone' = [opDone EXCEPT ![c] = FALSE]
  /\ opOk' = [opOk EXCEPT ![c] = FALSE]
  /\ backlog' = [backlog EXCEPT ![c] = @ - 1]
  /\ Goto(c, "write")
  /\ UNCHANGED <<inflight, stage, queue>> /\ PumpFrame

\* ... start the Write, ...
Write(c) ==
  /\ pump[c] = "write"
  /\ inflight' = [inflight EXCEPT ![c] = Append(@, "write")]
  /\ Goto(c, "wait")
  /\ UNCHANGED <<stage, opDone, opOk, backlog, queue>> /\ PumpFrame

\* Mutant: the pump goes on without waiting.
WaitSkipped(c) ==
  /\ pump[c] = "wait"
  /\ Goto(c, IF backlog[c] > 0 THEN "arm" ELSE "loop")
  /\ UNCHANGED <<inflight, stage, opDone, opOk, backlog, queue>> /\ PumpFrame

\* ... and wait for the worker's signal.
Wait(c) ==
  /\ pump[c] = "wait" /\ (opDone[c] \/ stop[c])
  /\ Goto(c, CASE ~(opOk[c] /\ ~stop[c]) -> "finish"
               [] opOk[c] /\ ~stop[c] /\ backlog[c] > 0 -> "arm"
               [] OTHER -> "loop")
  /\ UNCHANGED <<inflight, stage, opDone, opOk, backlog, queue>> /\ PumpFrame

\* The head of the live loop.
Loop(c) ==
  /\ pump[c] = "loop"
  /\ Goto(c, IF stop[c] THEN "finish" ELSE "pop")
  /\ UNCHANGED <<inflight, stage, opDone, opOk, backlog, queue>> /\ PumpFrame

\* BlockingPop with the slot's mutex held.  A payload the baseline covers is
\* skipped, one that does not parse ends the stream.
Pop(c) ==
  /\ pump[c] = "pop"
  /\ IF queue[c] > 0
     THEN /\ queue' = [queue EXCEPT ![c] = @ - 1]
          /\ \/ Goto(c, "arm") /\ backlog' = [backlog EXCEPT ![c] = 1]
             \/ \E pc \in {"loop", "finish"} : Goto(c, pc) /\ UNCHANGED backlog
     ELSE /\ Goto(c, IF evicted[c] THEN "finish" ELSE "parking")
          /\ UNCHANGED <<queue, backlog>>
  /\ UNCHANGED <<inflight, stage, opDone, opOk>> /\ PumpFrame

\* cv_.wait releases the mutex and sleeps in one step, but the predicate was
\* evaluated before.
Park(c) ==
  /\ pump[c] = "parking"
  /\ Goto(c, "parked")
  /\ UNCHANGED <<inflight, stage, opDone, opOk, backlog, queue>> /\ PumpFrame

\* FinishWithStatus: announce the end to Proceed, ...
Announce(c) ==
  /\ pump[c] = "finish"
  /\ stage' = [stage EXCEPT ![c] = "kFinishing"]
  /\ Goto(c, "disarm")
  /\ UNCHANGED <<inflight, opDone, opOk, backlog, queue>> /\ PumpFrame

\* Mutant: op_done_ keeps the value of the last Write.
DisarmForgotten(c) ==
  /\ pump[c] = "disarm"
  /\ Goto(c, "finishOp")
  /\ UNCHANGED <<inflight, stage, opDone, opOk, backlog, queue>> /\ PumpFrame

\* ... reset op_done_, ...
Disarm(c) ==
  /\ pump[c] = "disarm"
  /\ opDone' = [opDone EXCEPT ![c] = FALSE]
  /\ Goto(c, "finishOp")
  /\ UNCHANGED <<inflight, stage, opOk, backlog, queue>> /\ PumpFrame

\* ... start the Finish, ...
FinishOp(c) ==
  /\ pump[c] = "finishOp"
  /\ inflight' = [inflight EXCEPT ![c] = Append(@, "finish")]
  /\ Goto(c, "finishWait")
  /\ UNCHANGED <<stage, opDone, opOk, backlog, queue>> /\ PumpFrame

\* ... and leave when the worker signals.
Exit(c) ==
  /\ pump[c] = "finishWait" /\ opDone[c]
  /\ Goto(c, "exited")
  /\ UNCHANGED <<inflight, stage, opDone, opOk, backlog, queue>> /\ PumpFrame

Pump(c) ==
  \/ Baseline(c) \/ Arm(c) \/ Write(c) \/ Wait(c) \/ Loop(c) \/ Pop(c)
  \/ Park(c) \/ Announce(c) \/ Disarm(c) \/ FinishOp(c) \/ Exit(c)

(***************************************************************************)
(* The engine thread                                                       *)
(***************************************************************************)

EngineFrame == UNCHANGED <<workerVars, inflight, stage, reserved, handVars,
                           backlog, observers>>

\* Publish to one slot: TryPush needs the slot's mutex; a full slot is
\* evicted.
Push(c) ==
  /\ epc = "open" /\ pushed < MaxPush
  /\ c \in slots /\ ~evicted[c] /\ pump[c] # "parking"
  /\ pushed' = pushed + 1
  /\ IF queue[c] < SlotCapacity
     THEN /\ queue' = [queue EXCEPT ![c] = @ + 1]
          /\ epc' = "notify" /\ live' = {c}
          /\ UNCHANGED <<evicted, pump>>
     ELSE Evict(c) /\ UNCHANGED <<queue, epc, live>>
  /\ UNCHANGED <<slots, subscribers, taken, cancelled>>
  /\ EngineFrame

\* TryPush notifies once it has released the mutex.
Notify(c) ==
  /\ epc = "notify" /\ live = {c}
  /\ Woken(c)
  /\ epc' = "open" /\ live' = {}
  /\ UNCHANGED <<slots, slotVars, subscribers, pushed, taken, cancelled>>
  /\ EngineFrame

\* FaultCloseAllStreams and Shutdown begin with EvictAll: take the slots, ...
Close ==
  /\ epc = "open"
  /\ live' = slots
  /\ taken' = Cardinality(slots)
  /\ slots' = {}
  /\ epc' = "evicting"
  /\ UNCHANGED <<slotVars, subscribers, pump, pushed, cancelled>> /\ EngineFrame

\* ... evict each, ...
EvictOne(c) ==
  /\ epc = "evicting" /\ c \in live
  /\ Evict(c)
  /\ live' = live \ {c}
  /\ UNCHANGED <<slots, queue, subscribers, epc, pushed, taken, cancelled>>
  /\ EngineFrame

\* ... subtract as many from the counter ...
Discount ==
  /\ epc = "evicting" /\ live = {}
  /\ subscribers' = (subscribers - taken) % U32
  /\ epc' = "shutdown"
  /\ UNCHANGED <<slots, slotVars, pump, live, pushed, taken, cancelled>>
  /\ EngineFrame

\* ... and shut the server and the completion queue down.
ServerShutdown ==
  /\ epc = "shutdown"
  /\ cancelled' = TRUE
  /\ epc' = "closed"
  /\ UNCHANGED <<slots, slotVars, subscribers, pump, live, pushed, taken>>
  /\ EngineFrame

Engine ==
  \/ Close \/ Discount \/ ServerShutdown
  \/ \E c \in Calls : Push(c) \/ Notify(c) \/ EvictOne(c)

Next == Worker \/ Engine \/ \E c \in Calls : Pump(c)

Spec == Init /\ [][Next]_vars

(***************************************************************************)
(* Fairness: the worker serves the queue and finishes what it began, each  *)
(* pump thread runs, and the engine thread finishes a TryPush and a        *)
(* closing it began.  That a started operation comes back is gRPC's        *)
(* promise.  Clients, updates and the decision to close are free.          *)
(***************************************************************************)
Serving ==
  \/ \E c \in Calls : \E ok \in BOOLEAN : Signal(c, ok)
  \/ Reserve \/ Subscribe \/ Check \/ Unsubscribe \/ Remove \/ Join

GoingOn == Discount \/ ServerShutdown \/ \E c \in Calls : Notify(c) \/ EvictOne(c)

FairSpec ==
  /\ Spec /\ WF_vars(Serving) /\ WF_vars(GoingOn)
  /\ \A c \in Calls : WF_vars(Pump(c))

-----------------------------------------------------------------------------
(* Properties *)

Running(c) == pump[c] \notin {"none", "exited"}

TypeOK ==
  /\ wpc \in {"next", "reserve", "subscribe", "check", "evict", "remove",
              "join", "stopped"}
  /\ cur \in Calls \cup {None}
  /\ inflight \in [Calls -> Seq({"request", "write", "finish"})]
  /\ stage \in [Calls -> {"unborn", "kCreated", "kStreaming", "kFinishing",
                          "deleted"}]
  /\ reserved \in [Calls -> BOOLEAN]
  /\ opDone \in [Calls -> BOOLEAN] /\ opOk \in [Calls -> BOOLEAN]
  /\ stop \in [Calls -> BOOLEAN]
  /\ pump \in [Calls -> {"none", "baseline", "arm", "write", "wait", "loop",
                         "pop", "parking", "parked", "finish", "disarm",
                         "finishOp", "finishWait", "exited"}]
  /\ backlog \in [Calls -> Nat]
  /\ slots \subseteq Calls /\ live \subseteq Calls
  /\ queue \in [Calls -> 0..SlotCapacity] /\ evicted \in [Calls -> BOOLEAN]
  /\ observers \in 0..ObserverCap /\ subscribers \in 0..(U32 - 1)
  /\ epc \in {"open", "notify", "evicting", "shutdown", "closed"} /\ taken \in Nat
  /\ pushed \in 0..MaxPush /\ cancelled \in BOOLEAN

\* "At most one writer_.Write() / writer_.Finish() in flight at a time", and
\* none for an object that is gone: ServerAsyncWriter allows no second one.
OneOpInFlight ==
  \A c \in Calls :
    /\ Len(inflight[c]) <= 1
    /\ stage[c] = "deleted" => inflight[c] = <<>>

\* No pump outlives its object, and the observer cap bounds the pump threads:
\* an observer slot is given back only after the join.
PumpsWithinCap ==
  /\ \A c \in Calls : Running(c) => reserved[c] /\ stage[c] # "deleted"
  /\ Cardinality({c \in Calls : reserved[c]}) <= ObserverCap

\* A pump never mistakes an older completion for its own: when it is told its
\* operation is done, the operation is.
OwnCompletion ==
  \A c \in Calls :
    pump[c] \in {"wait", "finishWait"} => (opDone[c] <=> inflight[c] = <<>>)

\* TryPush notifies after it has released the mutex, and no wake-up is lost: a
\* pump about to sleep has an empty slot, and one that sleeps on an update is one
\* that TryPush is about to notify.
UpdatesWake ==
  \A c \in Calls :
    /\ pump[c] = "parking" => queue[c] = 0
    /\ pump[c] = "parked" /\ queue[c] # 0 => epc = "notify" /\ live = {c}

\* The worker waits in a join for a Finish that only it could report.
WorkerStuck == wpc = "join" /\ pump[cur] = "finishWait" /\ ~opDone[cur]

\* While the service is open, a stream that ends is reclaimed with its observer
\* slot, unless the worker has blocked itself in a destructor.
EndedCallsAreReclaimed ==
  \A c \in Calls :
    pump[c] = "finish" ~> (stage[c] = "deleted" \/ WorkerStuck \/ cancelled)

\* "On kFinishing the pump has exited; reclaim the CallData": the destructor
\* never waits for ever in pump_.join().
DestructorReturns == wpc = "join" ~> wpc # "join"

\* "Explicit eviction. Wakes the consumer.": a pump asleep on its slot does
\* not sleep through the slot's eviction.
EvictionWakes ==
  \A c \in Calls : evicted[c] /\ pump[c] = "parked" ~> pump[c] # "parked"
=============================================================================
