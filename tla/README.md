# TLA+ models and proofs of the HighBarV3 gateway

HighBarV3 is a Skirmish AI plugin for the Recoil engine. Its gateway lets
external clients follow the game state and send commands over gRPC. This
directory models the gateway in TLA+, with the two concurrent parts of the AI it
lives in, checks the models with TLC and proves the main results with TLAPS.

## The system

| Part | Source | Thread | Module |
|---|---|---|---|
| Numbering and fan-out of updates, ring, bus, slots, stream pumps | `GrpcGatewayModule.cpp`, `RingBuffer`, `DeltaBus`, `SubscriberSlot`, `HighBarService` | engine writes, one pump per stream reads | `StateStream` |
| `StreamState` call objects, worker, observer cap | `HighBarService.cpp` | completion-queue worker, pumps | `StreamCall` |
| Command admission, queue, dispatch loop, order state | `HighBarService`, `CommandQueue`, `OrderStateTracker`, module | worker and coordinator reader push, engine drains | `CommandPath` |
| Snapshot scheduler, `RequestSnapshot` | `SnapshotTick`, service, module | engine; requests from the worker | `SnapshotTick` |
| `InvokeCallback`, admin actions, leases, audit log | module, `AdminService`, `AdminController` | worker waits for engine | `EngineBridge` |
| Coordinator client | `CoordinatorClient` | push thread, reader thread | `CoordinatorLink` |
| Construction, hooks, frame tick, faults, health file, end | module, service, `GrpcLog`, `AuthToken`, `CircuitAI.cpp` | engine, worker | `GatewayHealth` |
| Content of a command: validation, admission, dispatch arms, what is announced | `CommandValidator`, `CommandQueue`, `CommandDispatch`, `CapabilityProvider`, module | worker or coordinator reader judge, engine dispatches | `CommandContent` |
| Work queue and worker pool all AIs share, release of a scheduler (inherited) | `Scheduler`, `MultiQueue` | engine, pool threads | `WorkerPool` |
| Threaded update of the terrain areas and the frame tasks it rides on (inherited) | `TerrainData`, `TerrainManager`, `PathFinder`, `Scheduler`, `CircuitAI` | engine, one pool thread | `AreaUpdate` |
| Snapshot building, configuration, authentication per call | `SnapshotBuilder`, `Config`, `AuthInterceptor` | | verdicts only, or not modelled |
| The rest of CircuitAI (inherited), libraries, clients, tests | rest of the repository | | not modelled |

The threads: the engine calls hooks and one frame tick per frame; one worker
thread serves the completion queue; every open `StreamState` has a pump thread;
in client mode the coordinator client adds a push and a reader thread. Below the
gateway, all AIs of the process share one pool of worker threads.

The modules share no variables. They meet at places each of them models from
its own side: the tick order, the transition to Disabled, the slot's eviction.
`GatewayHealth` has the tick with every step, and says which steps a fault
leaves running; the others have the part of the tick that touches their state.
`CommandPath` and `CommandContent` divide one path between them: the first has the
threads, the queue and the order, with any verdict on content; the second follows
one batch through every verdict. `AreaUpdate` takes from `WorkerPool` that a queued
task is run (`TasksGetDone`) and that a release waits for the running one
(`NothingAfterRelease`).

## Modules

**StateStream.** An update is its sequence number. The engine numbers an update,
pushes it to the ring under the state lock, and fans it out to the bus's slots
one by one; a full slot evicts its call. A call takes its baseline (a snapshot,
or a replay from the ring), subscribes, and pumps. Faults and shutdown may come
between any two steps. `StreamContract` is the promise: what a client has
received is a contiguous run of numbers from a base, and it ends with a reason.
`KeepsContract` is the refinement.

**StreamCall.** The objects rather than the data: one operation in flight per
call, the handshake of worker and pump through `stage_` and the write condition,
the slot's condition variable with its window between predicate and sleep, the
destructor that joins the pump on the worker, the observer cap, the counters.

**CommandPath.** A handler reads a batch, validates it, and pushes it whole or
not at all; the coordinator's reader does the same without the AI slot; the
engine drains the queue once a frame and dispatches. Commands are tagged with
batch and position. A hook may throw between frames, before the drain or inside
the dispatch loop (a dispatched command or an admin action calls hooks), and the
initial snapshot contains its own fault: after these the tick goes on.
`CommandContract` promises that commands enter in whole batches and are taken up
one at a time, in order, each once; that only the dispatch that throws loses
some; and that none is taken up in a frame after the one that disabled the gateway.

**SnapshotTick.** The scheduler's cadence with its doubling and cap, the request
flag set by the worker, the published frame, and faults in the tick. The
coordinator's initial snapshot goes out past the scheduler, from a hook or the top
of a tick, stamped 1; `sent` is the scheduler's last snapshot, `seen` the last of
either kind.

**EngineBridge.** The two deques, the futures with their timeouts, the drains,
and the admin controller, which both threads use without a lock. An action is
its caller, role, kind, policy and basis frame. Each thread reads the frame,
validates and writes the lease in steps of its own, so that the other may act in
between: the ghost `raced` has the threads whose lease the other one granted since
their `Validate`, `late` the leases the worker granted from a frame gone by.

**CoordinatorLink.** The bounded push queue, the push thread's loop with stream
and context, the reader's connect, read, finish and backoff, and the destructor. An
update takes its number first and may throw before it is queued, which burns the
number (`burnt`). `received` has what a `Write` that returned true handed to a stream;
what the network then does to a stream that breaks is the server's to see.

**GatewayHealth.** Constructor, guarded hooks, `OnFrameTick` step by step, the six
ordered effects of `TransitionToDisabled`, the worker's `RequestDisable`, deferred
bind and coordinator start, `CCircuitAI::Release` and the destructors. A fault is
its subsystem. Files exist or not; a health file may fail to be written.

**CommandContent.** Every arm of `AICommand` with the fields the checks read:
target, options, position, one value, a custom id. The validator with its
settings, the coordinator's admission, the rechecks of the dispatch loop and
`DispatchCommand` are operators over eight lists of arms that three files keep by
hand; the actions admit a batch, take it up, and let units leave and come in
between (`UnregisterTeamUnit` erases a unit before it marks it dead, so that the
rechecks for a dead unit never fire). Unit ids are unsigned on the wire and signed in the engine
(`HalfRange` stands for 2^31).

**WorkerPool.** `RunParallelJob`, the workers' loop with its pause, `ProcessJobs` for
the completions, and `Release` statement by statement: bump the pause id, push
dummies, wait for the pool to park, remove the tasks, let go, or stop the pool
with the last scheduler. Workers may wake spuriously. The ghosts `late` and
`missed` record the two races named below.

**AreaUpdate.** Who enqueues the update, which buffer a worker fills, how every AI
and then its team's path finder moves over, who swaps, and what AIs that join,
fail, resign or are released do to that, on `ProcessJobs`' passes over once and
repeat tasks. The ghosts `upset` and `orphaned` record the disturbances named
below.

`MC*` modules give the constants small values; `*Proofs` modules hold the proofs.
Each module has its own, but that `FrameProofs` is about `SnapshotTick` and
`AreaUpdate`, and `CoordinatorProofs` about `CoordinatorLink` and `CommandContent`; for
that reason `SnapshotTick` and `CoordinatorLink` have `TickInit`, `TickNext`, ... and
`LinkInit`, `LinkNext`, ... where the others have `Init` and `Next`.
Operators named after a mistake (`PopUnfiltered`, `CheckAfterBind`, ...) are
variants of a definition with a plausible bug in it. Each property is broken by
one of them, which `PROJECT.json` names.

## Runs

| Run | Shows | Bounds |
|---|---|---|
| `stream_one` | gap-free streams, the inductive invariant, losses are reported, refinement of the contract, every update reaches a healthy stream | one call, ring 2, slot 2, 5 updates: the ring wraps twice and every resume point occurs |
| `call_all` | one operation in flight, cap respected, no stale completion, ended calls are reclaimed | three call objects for one observer slot |
| `cmd_all` | whole batches, exclusive AI slot, only own units are busy, refinement, accepted batches are worked off | two clients and the coordinator, queue of 2, batches of 0 to 2 |
| `tick_all` | snapshots keep coming, requests are served, also with a frame not before the promised one | cadence 1, cap 3, 6 frames: the doubling passes 2 and is cut at the cap |
| `bridge_all` | leases live and not stolen, promises that tell the effect, calls answered, queues drained | three calls, the first over one request per branch, leases of 2 frames, 3 frames: with three one lease can expire while two threads race for the next |
| `coord_all` | updates accounted for, gaps counted, cancel finds the push stream, updates taken, reader reconnects | queue of 2, 4 numbers: overflow, burnt numbers, broken and unopened streams |
| `health_all` | one fault reported, nothing to connect to once reported, nothing sent after the tick of the fault, a handler's exception disables | both modes, both transports |
| `pool_all` | a release leaves nothing of its scheduler and takes nothing of the others, it returns but for two races, tasks get done | three schedulers, two workers, two jobs, spurious wakeups: releases follow each other and the last one stops the pool |
| `areas_all` | nobody reads the buffer a worker fills, rounds do not overlap, updates end | three AIs on two teams, three joins, an update every 3 frames |
| `content_all` | a command acts on its own target, what was accepted has one, what is announced arrives with its options | every arm, plain and with one field off, six pairs of targets, three settings, both ways in |
| `call_join` | disagreement: `Proceed` deletes a call on a Write's completion; its destructor joins a pump that waits for the same worker | two calls |
| `health_clean` | disagreement: after a fault the worker is never joined and destroying the service ends the process | as `health_all` |

The bounds are small because the code compares counts with capacities and
positions with heads: the cases are empty, partly full, full and wrapped, and
the runs reach those. Ring, slot and queue sizes of 1 and 2 are the least that
separate "full" from "not empty". Where a run has only one or two calls, the
proofs (below) cover any number. No run uses symmetry; `pool_all` has schedulers, which differ in nothing but their name,
released in one order.

`CHECK_DEADLOCK FALSE` stands where a run ends by its own bounds (the sequence
numbers are used up), with the destructor, or with the last scheduler.
`GatewayHealth` and `CommandPath` check deadlock.

Two disagreements with a comment or a specification are runs of their own and in
`findings` of `PROJECT.json`. Nine more are stated as definitions no run checks;
added to the `_all` configuration of their module, each yields a trace:

* `EvictionWakes` (`StreamCall`): `Evict` notifies without the mutex, and a pump about
  to sleep misses it (`SubscriberSlot.cpp:43`); `SubscriberSlot.h:50` says "Explicit
  eviction. Wakes the consumer."
* `ExecutedWasApplied` (`EngineBridge`): a rejected action goes through `Execute`,
  which validates again; if the lease in its way has expired it is answered
  EXECUTED and never applied (`AdminService.cpp:138`; spec 020,
  `admin-control-contract-delta.md:75`).
* `LeaseIsExclusive` (`EngineBridge`): a thread that validated before the other one
  granted a lease overwrites it (`AdminService.cpp:138`); "Conflicting admin actions are
  rejected until explicit release or heartbeat expiry" (spec 019,
  `admin-control-service.md:95`; also spec 020, `spec.md:43`). `LeaseNotStolen` excepts
  exactly that window.
* `NotDispatchedDidNothing` (`EngineBridge`): a unit that was spawned and cannot be
  registered or handed on, a grant whose cheat setting cannot be put back, and a
  speed that is in force without the widget's "ok" are answered NOT_DISPATCHED (`GrpcGatewayModule.cpp:1284`), against the spirit of "the
  request is rejected and no new unit appears" (spec 020, `spec.md:42`).
  `PromiseTellsEffect` excepts these actions by kind.
* `ZeroWhileDisabled` (`GatewayHealth`): a tick disabled on its way still pumps a
  snapshot and flushes; "Emission count is **zero** while gateway is `Disabled`" (spec
  003, `snapshot-tick.md:172`; also `gateway-fault.md:35` of spec 002).
  `QuietAfterFaultTick` states that this tick is the last to send.
* `ReleaseReturns` (`WorkerPool`): a worker that reads `gWorkerPauseId` for the first
  time after a pause began never parks (`Scheduler.cpp:202`), and one that wakes
  spuriously may miss the proceed notification (`Scheduler.cpp:109`); the comment at
  `Scheduler.cpp:96` pushes dummies "in case worker stuck at Pop()".
  `ReleaseReturnsUnless` names both.
* `DoubleBuffered` (`AreaUpdate`): an AI that leaves after it reported is counted
  twice (`TerrainData.cpp:1011`, `CircuitAI.cpp:782`), so that the buffers swap under an
  AI that still reads (`TerrainData.h:204`). `WriterIsAlone` excepts it with `upset`.
* `OptionsArrive` (`CommandContent`): "Each unit-order command carries its own
  options" (`CommandDispatch.cpp:39`), but `OptionsOf` returns 0 for the arms it does not
  list (`CommandDispatch.cpp:65`), and `wait`, `self_destruct`, `set_wanted_max_speed`,
  `set_fire_state` and `set_move_state` are announced with an option mask
  (`CapabilityProvider.cpp:71`) and call methods that take no options
  (`CommandDispatch.cpp:182`, `:233`). `AnnouncedArrives` is about what the service
  announces and excepts these five by name.
* `DriftIsRejected` (`CommandContent`): a unit-bound command "must either match
  `target_unit_id` exactly or be rejected as `target_drift`" (spec 010,
  `dispatch-target-invariant.md:13`); `AdmitCommandBatch` does not compare, and a command
  of the coordinator that names another unit acts on the batch's target.
  `ActsOnItsTarget` has the comparison for validated batches.

While modelling we met more; the models contain them and the properties make
room for them:

* One stream is published as two subscribers: `TryReserveObserverSlot` stores
  the observer count and `DeltaBus::Subscribe` adds one. `quickstart.md:272` (spec
  001) says the count "matches the number of clients you have connected".
* A `StreamState` call served after `EvictAll` subscribes a slot nobody evicts.
* `OrderStateTracker::CheckAcceptedBatch` is called from nowhere, so a busy unit's
  order is replaced unasked (spec 019, `spec.md:108`).
* A forced snapshot may come a frame before `scheduled_frame`, or later
  (`request-snapshot.md:51`): a client that waits for that frame, as
  `request-snapshot.md:108` does, gets the next periodic one. `RequestsAreServed` states
  what does hold.
* The coordinator's initial snapshot carries the stamp 1 and moves no schedule
  (`GrpcGatewayModule.cpp:450`), so a subscriber may see a periodic snapshot sooner than
  its stamp says. `StampIsInterval` is about the scheduler's snapshots.
* After a fault the tick does not see, commands are still dispatched in that frame;
  `spec.md:127` of spec 003 says "all subsequent dispatches will fail".
  `KeepsCommandContract` promises it of the frames after.
* An admin action answered NOT_DISPATCHED after its timeout stays queued and is
  applied in a later frame. `PromiseTellsEffect` is about the drain's own verdicts.
* An admin action the engine's `Validate` rejects, and a lease that expires, leave
  no audit record (spec 019, `spec.md:115`). `AnswersAreAudited` excepts the first.
* The admin queue is drained by frames only, so a paused game is not resumed
  through it (spec 020, `spec.md:21`). `QueuesAreDrained` excepts the paused game.
* `~CoordinatorClient` notifies without the mutex: a push thread between its test
  and its sleep is joined for ever. `CancelReachesPush` is about the other waits.
* The coordinator's reader replaces `cmd_ctx_` without a lock, so the destructor
  may cancel the context before the one that is read.
* A command channel the server ends with CANCELLED is never opened again
  (`CoordinatorClient.cpp:240`). `ReaderReconnects` is about the other ends.
* A full push queue leaves a gap inside a stream (`GrpcGatewayModule.cpp:872`), and so
  does an update that throws after `++seq_`, which nothing counts. `GapsAreCounted`
  states what does hold.
* The healthy marker is written before `Bind`, which may fail; a health file that
  cannot be written leaves a disabled gateway reported healthy
  (`GrpcGatewayModule.cpp:277`, `data-model.md:71` of spec 002).
* `CCircuitAI::Release` clears the modules, but the member `grpcGateway` keeps the
  gateway and its open server (`CircuitAI.cpp:669`).

* When the AI with the authority leaves while its update is queued, no further
  update begins (`orphaned`); an AI that joins during an update keeps the old buffer.
* `command_validation` is parsed (`Config.cpp:166`), but `SetUs2Handles` builds the
  validator with its defaults (`HighBarService.cpp:1244`; spec 019, `data-model.md:19`).
* A recheck that fails for an engine that is not ready reports no issue
  (`GrpcGatewayModule.cpp:1371`; spec 019, `command-capabilities-and-dispatch.md`).
* `CommandDispatch.h:12` says that drawing, chat and Lua arms are "logged and
  skipped"; they are dispatched. The rejection "command arm is not dispatched by
  this gateway" (`CommandValidator.cpp:306`) is untrue of 51 arms.
* `batch_options` (`commands.proto:611`) is read nowhere, and arms missing from
  `TimeoutOf` lose their timeout.
* Batches from the coordinator skip the position check whose result `CmdMoveTo`
  asserts (`CircuitUnit.cpp:288`).

## Fairness

Weak fairness only, on what a running thread does next: the engine's steps inside
a tick or an update it hands over, the worker's steps on a call it holds, each pump, the coordinator's
threads. The tick itself is fair where the property is about a running game: the
scheduler runs `OnFrameTick` on every frame (`RunJobEvery(..., 1, 0)`). `EngineBridge`
does without it, because timeouts answer the caller; `QueuesAreDrained` names the
running engine as its premise. In `WorkerPool` every thread that can run does, a
job ends, and every AI that is up gets its frames; in `AreaUpdate` frames follow
each other and the pool runs what is queued. `CommandContent` checks no liveness. No
fairness is given to clients, the network, faults or the end of the match. The one
strong fairness is in `CoordinatorLink`: an endpoint that is tried again and again is
reached at some time, without which no retry loop could be judged.

## Proofs

TLAPS checks the following for every value of the constants.

* `StateStreamProofs`: types; `StreamInv`; `GapFree`; `LossIsReported`;
  `SlowMeansFull`; and `ContractKept`, the refinement of `StreamContract`. `GapFree`
  speaks of what was sent; it is kept because the backlog continues what was
  sent, the queue continues the backlog, and the bus continues the queue.
  `StreamInv` states these three joints for every call (`BacklogJoins`,
  `QueueJoins`) with the bounds between ring, counter and slots (`Background`).
  Losses rest on a second invariant, `BlameInv`, on who was evicted and why.
* `StreamCallProofs`: types, `OneOpInFlight`, `PumpsWithinCap`, `OwnCompletion`,
  `UpdatesWake`, for any number of call objects and any cap. `StageInv` ties the place of a pump to
  `stage_`, `OpsInv` says what gRPC has of a call at each place of pump and worker,
  `WorkerInv` what the worker may rely on while the pump goes on, and `HoldInv` and
  `CountInv` who holds an observer slot and that `observers` counts them. None of
  the three properties is inductive alone: that a pump about to start an operation
  has none open rests on its stage and on what the worker has in hand.
* `FrameProofs`, on `SnapshotTick`: types, `SnapshotsKeepComing`, `FlagMeansAsked`,
  `StampIsInterval`. The next due frame is one interval after the scheduler's last
  emission (`Planned`), also in a tick that is disabled on its way, and the frame has
  not passed it (`Schedule`), which bounds the wait by the cap on the cadence. The
  initial snapshot touches neither; `LastSeen` says that only it can come after the
  scheduler's last.
* `FrameProofs`, on `AreaUpdate`: `WriterIsAlone`, `RoundsDoNotOverlap`, for any AIs and
  teams. Both are about an update; what keeps them is the round before it, in
  which AIs move over. `Reports` says that `aiToUpdate` is the number of AIs that
  still have a task, so that the buffers are swapped when nobody has, and that
  outside a round it is not positive, where a report of an AI that leaves can do no
  harm. `Buffers` says of each AI and its path finder which buffer they read at each
  stage of it. Neither survives the disturbances that `upset` records.
* `CommandPathProofs`: `WholeBatches`, `SlotHeldByOne`, `StreamSeqsIncrease`,
  `BusyUnitsAreOurs`, and `CommandContractKept`, the refinement of `CommandContract`.
  The invariant has a part per place: the calls and the slot (`CallInv`), the queue
  and the engine's loop (`QueueInv`), what waits in either (`WaitInv`) and the units
  (`UnitInv`). To what waits, each of the many actions does one of four things
  (`QueueStep`): it appends a whole batch, takes off the first command, drops
  what the engine has drained, or leaves it; the contract and the order follow from
  these four.
* `CoordinatorProofs`, on `CommandContent`: `ActsOnItsTarget`, `AcceptedHasTarget`, `AnnouncedArrives`,
  for any units, batches and settings. The invariant says that every command in the
  queue and in the hands of the loop is one that its way in lets through; the rest
  is how the lists of arms lie in each other.
* `EngineBridgeProofs`: types, `LeasesAreLive`, `LeaseNotStolen`, `PromiseTellsEffect`,
  `AnswersAreAudited`. `BridgeInv` has what the worker and the engine hold in hand
  between their steps, that the worker's frame is not ahead of the clock (`ClockInv`),
  and that after `ExpireLeases` every lease but a late one has a frame left. On it
  rests `RaceInv`: a thread about to write a lease is either in `raced` or its action
  conflicts with no lease now, so that what changes hands unasked is the race. A
  promise and its effect are tied by `EffectInv`: where an entry is and what has
  happened to it there, no place holding it twice (`PlaceInv`), what its two
  validations on the engine thread can still differ in (`PassInv`), and what has been
  audited by then (`AuditInv`).
* `CoordinatorProofs`, on `CoordinatorLink`: `UpdatesAccounted`, `ReceivedInOrder`,
  `CancelReachesPush`, `GapsAreCounted`, `UpdatesAreSignalled`. The invariant adds
  when the push thread has an update in hand, that what was received precedes it and it precedes the queue,
  and where a cancellation stands. A gap shows only when a later update arrives,
  but it is made when the queue drops or an update throws: `GapInv` therefore bounds,
  by `push_dropped_count_` and the burnt numbers, the numbers that are missing
  together with those that will be if the stream goes on. The latter (`Pending`) are
  those not on their way (`Ahead`) but after the first that is, or after the last
  received; only a drop or a throw adds to the two, by one.
* `GatewayHealthProofs`: types, `OneFaultReported`, `ClosedWhenReported`,
  `QuietAfterFaultTick`. `HealthInv` says what each place of the transition has behind
  it, that only a healthy gateway binds, and that a tick that is under way began
  Healthy (`TickBegan`).
* `WorkerPoolProofs`: `NothingAfterRelease`, `OthersKeepTheirTasks`, `DummiesAreNotRun`,
  `ReleaseNotStuck`.
  The invariant says which steps of a release find which workers parked
  (`PauseInv`), whose tasks can be queued or held at each of them (`LifeInv`,
  `OwnInv`), and that a dummy names a scheduler that has stopped (`DummyInv`).
  `ReleaseNotStuck` needs that the dummies suffice: `HeadInv` says that for each worker
  that comes to `Pop` before it looks at the pause again (`Heading`) there is a task
  in the queue or a dummy still to be pushed, although workers take tasks meanwhile
  and push new ones. `LateInv` and `MissedInv` say what the two races leave out, and
  `UpInv` which workers exist.

`SlowMeansFull`, `StreamSeqsIncrease`, `FlagMeansAsked`, `StampIsInterval`,
`AnswersAreAudited`, `ReceivedInOrder` and `DummiesAreNotRun` are proved and in no run.
So are `ReleaseNotStuck`, `UpdatesWake` (on `StreamCall`) and `UpdatesAreSignalled` (on
`CoordinatorLink`), the part of `ReleaseReturnsUnless`, of the delivery of updates and of
`UpdatesAreTaken` that is within the prover's reach: `Release` waits for no worker that
itself waits, and no thread sleeps over an update, though `TryPush` and
`PushStateUpdate` notify only after they have released the lock. That the threads
then go on is a matter of fairness.
The inductive invariants also hold on the instances of the runs, where TLC checks
them in a few minutes.

The assumptions are those named in the modules: positive capacities and cadences,
bounds and rates that are naturals, `None` outside the sets it is compared with, settings
that are Booleans.

Only model-checked: liveness (`UpdatesReachStreams`, `EndedCallsAreReclaimed`,
`AcceptedIsWorkedOff`, `RequestsAreServed`, `CallsAreAnswered`, `QueuesAreDrained`,
`UpdatesAreTaken`, `ReaderReconnects`, `HandlerFaultDisables`, `TasksGetDone`,
`ReleaseReturnsUnless`, `UpdateCompletes`), since the prover handles neither fairness
nor ENABLED, and the two disagreements. Every safety property and refinement a
passing run checks is proved. No module declares a recursive operator.

## Not modelled

* What a callback or a snapshot contains, beyond the verdict its caller acts on,
  and what the engine does with an order.
* Authentication and the parsing of the configuration: the verdict is an input.
  The RPCs that keep no state (Hello, schema, capabilities, counters, Save, Load);
  Hello claims the AI slot and releases it within one handler of the one worker.
* Data races below the interleaving of the steps modelled: torn reads of the
  inherited AI's unit tables by the worker, and use of an object after its
  owner destroyed it.
* An exception that escapes an admin or callback handler (`EngineBridge`): `CqWorker`
  swallows it and the call stays unanswered; `GatewayHealth` and `CommandPath` have
  what it does to the gateway and to the call. An exception out of
  `FaultCloseAllStreams`, which the transition swallows, and files that cannot be
  unlinked.
* Jobs an AI pushes in an `Init` that fails afterwards (`WorkerPool`): its release
  removes them as it removes any others.
* Readers of the area buffers besides the AIs and their path finders (`AreaUpdate`):
  path queries in flight, which hold the sectors they began with
  (`PathFinder.cpp:396`), and the pointer `CThreatMap` keeps (`ThreatMap.cpp:153`).
  `WriterIsAlone` says nothing of these.
* Starvation among the tasks of the pool (`WorkerPool`): two jobs cannot show it.
* gRPC itself, except for the completions, cancellations and ends its users see.
* The length of time: timeouts may fire at any moment they are pending; the
  hour-long deadlines of the coordinator's streams do not fire.
* Pausing, which happens in the engine: a paused game is one with no tick.
* The inherited AI apart from its worker pool and its area update (managers,
  scripts, terrain and path search, which are sequential), the bundled libraries,
  generated code, the clients and the test drivers. They are nearly all of the
  repository's lines: the definitions map to 43% of the gateway's own code, and to
  about 1% of everything under `src/`.

## Plan

1. An abstract specification of the area update (two buffers, a writer, readers)
   that `AreaUpdate` refines, and one of the push stream for `CoordinatorLink`.
2. The interceptor's decision as an operator, over roles, methods and the state
   of the token file.
3. `EngineBridge`: the expiry of a lease against the audit log.
4. A composition of `GatewayHealth` with `CommandPath`, for what becomes of queued
   commands and AI slots when the gateway is disabled or released.
