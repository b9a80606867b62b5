------------------------------ MODULE CommandPath ------------------------------
(***************************************************************************)
(* The way of a command: SubmitCommands calls on the completion-queue      *)
(* worker, the coordinator's reader thread beside it, the bounded          *)
(* CommandQueue between them and the engine thread, and the engine thread  *)
(* that drains, rechecks and dispatches and keeps the per-unit orders.     *)
(*                                                                         *)
(* A batch is its sequence number, its target and its length; what one     *)
(* command says is CommandContent's matter, so whether the validator likes *)
(* it is a choice here.                                                    *)
(***************************************************************************)
EXTENDS Integers, Sequences, FiniteSets

CONSTANTS Calls,      \* SubmitCommandsCallData objects
          Coordinator,\* the session of the coordinator's command channel
          Units,      \* unit ids (all positive in the code)
          Game,       \* the target of a game-wide command
          Capacity,   \* capacity_ of the CommandQueue
          MaxBatch,   \* bound: commands of a batch
          MaxSeq,     \* bound: batch_seq
          Batches,    \* the batches clients and the coordinator may send
          None        \* "no call", "no batch"

ASSUME CapacityAssumption == Capacity \in Nat \ {0}
ASSUME BoundAssumption == MaxBatch \in Nat \ {0} /\ MaxSeq \in Nat \ {0}
ASSUME NamesAssumption == /\ Coordinator \notin Calls
                          /\ None \notin Calls
                          /\ Game \notin Units
ASSUME BatchesAssumption ==
  Batches \subseteq [seq : 0..MaxSeq, len : 0..MaxBatch,
                     target : Units \cup {Game}]

VARIABLES
  \* The worker and its calls.
  wpc,        \* "next" event, or "push": a batch passed the validator
  cur,        \* the call whose read is handled, or None
  incoming,   \* the batch it validated, or None
  stage,      \* stage_, with "kCreated" before a client came, "wedged"
              \*   after its handler threw, and "deleted"
  claimed,    \* ai_slot_claimed_
  lastSeen,   \* last_seen_batch_seq_ = last_accepted_batch_seq_
  aiSlot,     \* ai_slot_taken_
  faultPending,  \* RequestDisable was called
  \* Shared.
  queue,
  \* The engine thread.
  epc,        \* "frame": between frames; "drain" and "dispatch": at and
              \*   in DrainCommandQueue
  drained,    \* what is left of the vector it drained
  unit,       \* "own": in teamUnits, or "gone"
  orders,     \* OrderStateTracker: "busy" or "idle"
  state       \* GatewayState

workerVars == <<wpc, cur, incoming>>
callVars == <<stage, claimed, lastSeen, aiSlot>>
engineVars == <<epc, drained, unit, orders>>
vars == <<workerVars, callVars, faultPending, queue, engineVars, state>>

Sessions == Calls \cup {Coordinator}
Targets == Units \cup {Game}

\* QueuedCommand, with its place in its batch.
Command == [src : Sessions, seq : 0..MaxSeq, idx : 1..MaxBatch,
            len : 1..MaxBatch, target : Targets]

Init ==
  /\ wpc = "next" /\ cur = None /\ incoming = None
  /\ stage = [c \in Calls |-> "kCreated"]
  /\ claimed = [c \in Calls |-> FALSE]
  /\ lastSeen = [c \in Calls |-> 0]
  /\ aiSlot = FALSE /\ faultPending = FALSE
  /\ queue = <<>>
  /\ epc = "frame" /\ drained = <<>>
  /\ unit = [u \in Units |-> "own"]
  /\ orders = [u \in Units |-> "idle"]
  /\ state = "Healthy"

(***************************************************************************)
(* CommandQueue                                                            *)
(***************************************************************************)

\* The commands a batch is expanded to.
CommandsOf(s, b) ==
  [i \in 1..b.len |-> [src |-> s, seq |-> b.seq, idx |-> i, len |-> b.len,
                       target |-> b.target]]

\* Mutant: the loop of TryPush before batches were made atomic.
TryPushBatchPartly(cmds) ==
  /\ Len(queue) < Capacity
  /\ LET room == Capacity - Len(queue)
         fit == IF Len(cmds) < room THEN Len(cmds) ELSE room
     IN  queue' = queue \o SubSeq(cmds, 1, fit)

\* TryPushBatch when it returns true.
TryPushBatch(cmds) ==
  /\ Len(cmds) <= Capacity - Len(queue)
  /\ queue' = queue \o cmds

(***************************************************************************)
(* SubmitCommands.  Handlers run to their end before the next begins; the  *)
(* engine thread and the coordinator run between the validation of a batch *)
(* and its push.                                                           *)
(***************************************************************************)

\* Mutant: the claim is not exclusive.
HandleCreatedShared(c) ==
  /\ wpc = "next" /\ stage[c] = "kCreated"
  /\ stage' = [stage EXCEPT ![c] = "kReading"]
  /\ claimed' = [claimed EXCEPT ![c] = TRUE]
  /\ aiSlot' = TRUE
  /\ UNCHANGED <<workerVars, lastSeen, faultPending, queue, engineVars, state>>

\* HandleCreated: claim the AI slot and read, or finish with ALREADY_EXISTS.
HandleCreated(c) ==
  /\ wpc = "next" /\ stage[c] = "kCreated"
  /\ stage' = [stage EXCEPT ![c] = IF aiSlot THEN "kFinishing" ELSE "kReading"]
  /\ claimed' = [claimed EXCEPT ![c] = ~aiSlot]
  /\ aiSlot' = TRUE
  /\ UNCHANGED <<workerVars, lastSeen, faultPending, queue, engineVars, state>>

Finish(c) == stage' = [stage EXCEPT ![c] = "kFinishing"]

\* HandleReadDone(false): EOF, a vanished client or a cancelled server.
ReadEnded(c) ==
  /\ wpc = "next" /\ stage[c] = "kReading"
  /\ Finish(c)
  /\ UNCHANGED <<workerVars, claimed, lastSeen, aiSlot, faultPending, queue,
                 engineVars, state>>

\* ValidateBatch: the count, the content (any), and for a batch with a
\* unit-bound command OwnsLiveUnit, read from the worker thread.
Validated(b) == b.len > 0 /\ (b.target \in Units => unit[b.target] = "own")

\* HandleReadDone(true) up to the push: refuse a batch_seq that does not
\* increase, refuse what the validator refuses; both end the stream.
ReadBatch(c, b) ==
  /\ wpc = "next" /\ stage[c] = "kReading"
  /\ \/ /\ b.seq > lastSeen[c] /\ Validated(b)
        /\ wpc' = "push" /\ cur' = c /\ incoming' = b
        /\ UNCHANGED stage
     \/ Finish(c) /\ UNCHANGED workerVars
  /\ UNCHANGED <<claimed, lastSeen, aiSlot, faultPending, queue, engineVars,
                 state>>

\* HandleReadDone from TryPushBatch on: remember batch_seq and read on, or
\* finish with RESOURCE_EXHAUSTED.
PushBatch ==
  /\ wpc = "push"
  /\ LET cmds == CommandsOf(cur, incoming)
     IN  \/ /\ TryPushBatch(cmds)
            /\ lastSeen' = [lastSeen EXCEPT ![cur] = incoming.seq]
            /\ UNCHANGED stage
         \/ /\ Len(cmds) > Capacity - Len(queue)
            /\ Finish(cur)
            /\ UNCHANGED <<queue, lastSeen>>
  /\ wpc' = "next" /\ cur' = None /\ incoming' = None
  /\ UNCHANGED <<claimed, aiSlot, faultPending, engineVars, state>>

\* CqWorker's catch: the fault is posted; nothing is started for the call,
\* so no event ever names it again.
HandlerThrows(c) ==
  /\ \/ wpc = "next" /\ stage[c] = "kReading"
     \/ wpc = "push" /\ cur = c
  /\ stage' = [stage EXCEPT ![c] = "wedged"]
  /\ wpc' = "next" /\ cur' = None /\ incoming' = None
  /\ faultPending' = TRUE
  /\ UNCHANGED <<claimed, lastSeen, aiSlot, queue, engineVars, state>>

\* The completion of Finish: delete, and the destructor releases the slot.
Destroy(c) ==
  /\ wpc = "next" /\ stage[c] = "kFinishing"
  /\ stage' = [stage EXCEPT ![c] = "deleted"]
  /\ aiSlot' = (aiSlot /\ ~claimed[c])
  /\ claimed' = [claimed EXCEPT ![c] = FALSE]
  /\ UNCHANGED <<workerVars, lastSeen, faultPending, queue, engineVars, state>>

(***************************************************************************)
(* The coordinator's reader thread                                         *)
(***************************************************************************)

\* CommandReaderLoop with AdmitCommandBatch: no validator, no order among
\* batch_seqs, only that they are not zero.  A refused batch is dropped.
CoordinatorBatch(b) ==
  /\ b.len > 0 /\ b.seq > 0
  /\ TryPushBatch(CommandsOf(Coordinator, b))
  /\ UNCHANGED <<workerVars, callVars, faultPending, engineVars, state>>

(***************************************************************************)
(* The engine thread                                                       *)
(***************************************************************************)

\* What OnFrameTick does before the commands.  A fault of the initial
\* coordinator snapshot is caught in BroadcastSnapshot and the tick goes on,
\* disabled; any other fault leaves the tick.
BeforeCommands ==
  \/ epc' = "drain" /\ state' \in {state, "Disabled"}
  \/ epc' = "frame" /\ state' = "Disabled"

\* Mutant: a frame without an AI client is taken to have no commands.
TickTopNeedsAi ==
  /\ epc = "frame" /\ state = "Healthy" /\ aiSlot
  /\ IF faultPending
     THEN state' = "Disabled" /\ faultPending' = FALSE /\ UNCHANGED epc
     ELSE BeforeCommands /\ UNCHANGED faultPending
  /\ UNCHANGED <<workerVars, callVars, queue, drained, unit, orders>>

\* Mutant: only a fault posted since the last frame keeps the tick out.
TickTopAnyState ==
  /\ epc = "frame"
  /\ IF faultPending
     THEN state' = "Disabled" /\ faultPending' = FALSE /\ UNCHANGED epc
     ELSE BeforeCommands /\ UNCHANGED faultPending
  /\ UNCHANGED <<workerVars, callVars, queue, drained, unit, orders>>

\* The top of OnFrameTick: a posted fault first, then the frame's work.  The
\* state is not tested again before the tick ends.
TickTop ==
  /\ epc = "frame" /\ state = "Healthy"
  /\ IF faultPending
     THEN state' = "Disabled" /\ faultPending' = FALSE /\ UNCHANGED epc
     ELSE BeforeCommands /\ UNCHANGED faultPending
  /\ UNCHANGED <<workerVars, callVars, queue, drained, unit, orders>>

\* CommandQueue::Drain of everything that is queued.
Drain ==
  /\ epc = "drain"
  /\ drained' = queue /\ queue' = <<>>
  /\ epc' = "dispatch"
  /\ UNCHANGED <<workerVars, callVars, faultPending, unit, orders, state>>

\* The rechecks before DispatchCommand.
Runnable(cmd) ==
  IF cmd.target = Game THEN \E u \in Units : unit[u] = "own"
                       ELSE unit[cmd.target] = "own"

\* The loop of DrainCommandQueue, which does not test the state.
Dispatching == epc = "dispatch" /\ drained # <<>>

Advance == drained' = Tail(drained) /\ UNCHANGED epc

\* OrderStateTracker::MarkAccepted
MarkAccepted(u) == orders' = [orders EXCEPT ![u] = "busy"]

\* Mutant: what the validator saw is trusted.
ApplyUnchecked ==
  /\ Dispatching
  /\ IF Head(drained).target = Game
     THEN UNCHANGED orders
     ELSE MarkAccepted(Head(drained).target)
  /\ Advance
  /\ UNCHANGED <<workerVars, callVars, faultPending, queue, unit, state>>

\* DispatchCommand returned true.
Apply ==
  /\ Dispatching /\ Runnable(Head(drained))
  /\ IF Head(drained).target = Game
     THEN UNCHANGED orders
     ELSE MarkAccepted(Head(drained).target)
  /\ Advance
  /\ UNCHANGED <<workerVars, callVars, faultPending, queue, unit, state>>

\* A failed recheck, or an arm the dispatcher does not know.
Skip ==
  /\ Dispatching
  /\ Advance
  /\ UNCHANGED <<workerVars, callVars, faultPending, queue, unit, orders, state>>

\* DispatchCommand threw: disable and leave; the rest of the vector is lost.
DispatchThrows ==
  /\ Dispatching /\ Runnable(Head(drained))
  /\ state' = "Disabled"
  /\ drained' = <<>> /\ epc' = "frame"
  /\ UNCHANGED <<workerVars, callVars, faultPending, queue, unit, orders>>

\* The rest of OnFrameTick: the snapshot, economy and flush steps may fail.
TickEnds ==
  /\ epc = "dispatch" /\ drained = <<>>
  /\ state' \in {state, "Disabled"}
  /\ epc' = "frame"
  /\ UNCHANGED <<workerVars, callVars, faultPending, queue, drained, unit,
                 orders>>

\* A hook that threw under HB_HOOK_GUARD, or whose initial snapshot did:
\* between frames, or called from within an admin action (GiveUnits) or a
\* dispatched command, after which the tick goes on.
HookThrows ==
  /\ epc \in {"frame", "drain", "dispatch"} /\ state = "Healthy"
  /\ state' = "Disabled"
  /\ UNCHANGED <<workerVars, callVars, faultPending, queue, engineVars>>

\* What the hooks do to the tracker, unless the gateway is disabled.
Release(u) ==
  orders' = IF state = "Healthy" THEN [orders EXCEPT ![u] = "idle"]
                                 ELSE orders

unitEvent == <<workerVars, callVars, faultPending, queue, epc, drained, state>>

\* UnitIdle
UnitIdle(u) ==
  /\ epc = "frame" /\ unit[u] = "own"
  /\ Release(u)
  /\ UNCHANGED <<unitEvent, unit>>

\* UnitDestroyed or UnitCaptured, and UnregisterTeamUnit: the unit leaves the
\* team, then is marked dead, so that no unit of the team ever is.  Between
\* frames, or by GiveUnits in an admin action.
UnitLost(u) ==
  /\ epc \in {"frame", "drain"} /\ unit[u] = "own"
  /\ unit' = [unit EXCEPT ![u] = "gone"]
  /\ Release(u)
  /\ UNCHANGED unitEvent

\* UnitGiven
UnitGiven(u) ==
  /\ epc = "frame" /\ unit[u] = "gone"
  /\ unit' = [unit EXCEPT ![u] = "own"]
  /\ Release(u)
  /\ UNCHANGED unitEvent

Worker ==
  \/ PushBatch
  \/ \E c \in Calls : Destroy(c)

Clients ==
  \E c \in Calls : \/ HandleCreated(c) \/ ReadEnded(c) \/ HandlerThrows(c)
                   \/ \E b \in Batches : ReadBatch(c, b)

Engine ==
  TickTop \/ Drain \/ Apply \/ Skip \/ DispatchThrows \/ TickEnds

Next ==
  \/ Worker \/ Clients \/ Engine \/ HookThrows
  \/ \E b \in Batches : CoordinatorBatch(b)
  \/ \E u \in Units : UnitIdle(u) \/ UnitLost(u) \/ UnitGiven(u)

Spec == Init /\ [][Next]_vars

\* The worker serves its queue and the engine keeps calling OnFrameTick.
FairSpec == Spec /\ WF_vars(Worker) /\ WF_vars(Engine)

(***************************************************************************)
(* Properties                                                              *)
(***************************************************************************)

pending == drained \o queue

\* The command that follows cmd in its batch.
Successor(cmd) == [cmd EXCEPT !.idx = @ + 1]

\* A batch is queued whole or not at all: in front of the dispatcher every
\* command is followed by the rest of its batch, with nothing in between,
\* and none but the first is without the one before it (TryPushBatch under
\* the mutex, against the worker, the coordinator and Drain).
WholeBatches ==
  \A i \in 1..Len(pending) :
    /\ pending[i].idx < pending[i].len =>
         i < Len(pending) /\ pending[i + 1] = Successor(pending[i])
    /\ pending[i].idx > 1 =>
         i = 1 \/ pending[i] = Successor(pending[i - 1])

\* Within one SubmitCommands stream batch_seq increases, also among what
\* waits for dispatch, so no retransmitted batch is executed twice
\* (HandleReadDone's check of last_seen_batch_seq_).
StreamSeqsIncrease ==
  \A i, j \in 1..Len(pending) :
    i < j /\ pending[i].src = pending[j].src /\ pending[i].src \in Calls =>
      \/ pending[i].seq < pending[j].seq
      \/ pending[i].seq = pending[j].seq /\ pending[i].idx < pending[j].idx

\* The AI slot is taken exactly while one call holds it, every call that
\* reads batches holds it, and no finished call keeps it (TryClaimAiSlot,
\* ReleaseAiSlot in the destructor).
SlotHeldByOne ==
  /\ Cardinality({c \in Calls : claimed[c]}) = IF aiSlot THEN 1 ELSE 0
  /\ \A c \in Calls : /\ stage[c] = "kReading" => claimed[c]
                      /\ claimed[c] => stage[c] # "deleted"

\* While the gateway is healthy only a unit of the team can be busy with an
\* order, although a unit may be lost between the validation of a batch on
\* the worker and its dispatch (the rechecks of DrainCommandQueue and the
\* hooks that call MarkUnitRemoved).
BusyUnitsAreOurs ==
  state = "Healthy" => \A u \in Units : orders[u] = "busy" => unit[u] = "own"

\* The frame in which the gateway was disabled is over.
Closed == state = "Disabled" /\ epc = "frame"

\* What a batch may stand for in the queue.
Blocks ==
  {CommandsOf(s, b) : s \in Sessions, b \in {d \in Batches : d.len > 0}}

Contract == INSTANCE CommandContract WITH
  Bound <- 2 * Capacity,
  closed <- Closed

\* The queue between three threads is an ordered hand-over: blocks in, one
\* command out at a time in the same order, each once, none lost but by the
\* dispatch that throws, and none taken up in a frame after the one in which
\* the gateway was disabled.  In that frame commands are still dispatched
\* after a fault that OnFrameTick does not see (the initial snapshot's).
KeepsCommandContract == Contract!Spec

Waiting(c, n) == \E i \in 1..Len(pending) : /\ pending[i].src = c
                                           /\ pending[i].seq = n

\* An accepted batch is worked off, unless the gateway is disabled: neither
\* the coordinator's traffic nor later clients can hold it up (Drain takes
\* all, in order, every frame).
AcceptedIsWorkedOff ==
  \A c \in Calls, n \in 1..MaxSeq :
    Waiting(c, n) ~> (~Waiting(c, n) \/ state = "Disabled")
================================================================================
