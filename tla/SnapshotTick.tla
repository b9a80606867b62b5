------------------------------ MODULE SnapshotTick ------------------------------
(***************************************************************************)
(* The scheduler of full snapshots: SnapshotTick::Pump, called once per    *)
(* frame from OnFrameTick on the engine thread, and the RequestSnapshot    *)
(* handler on the worker, which share the atomics pending_request_,        *)
(* current_frame_ and state_.  One snapshot of a match goes out past the   *)
(* scheduler: the initial one for the coordinator.                         *)
(***************************************************************************)
EXTENDS Integers

CONSTANTS Requests,    \* RequestSnapshot calls that can be under way at once
          Cadence,     \* snapshot_cadence_frames_
          MaxCadence,  \* kMaxEffectiveCadenceFrames
          MaxFrame     \* bound: engine frames

ASSUME CadenceAssumption ==
  /\ Cadence \in Nat \ {0} /\ MaxCadence \in Nat /\ Cadence <= MaxCadence
ASSUME MaxFrameAssumption == MaxFrame \in Nat

VARIABLES
  \* The engine thread.
  epc,       \* "idle", or the next thing OnFrameTick does
  frame,     \* FrameForWire(circuit)
  effective, \* effective_cadence_frames_
  next,      \* next_snapshot_frame_
  sent,      \* the last snapshot of the scheduler: its frame, its cadence stamp
             \*   and whether a request forced it
  initial,   \* coordinator_initial_snapshot_sent_
  seen,      \* the frame of the last snapshot broadcast, of either kind
  \* Shared with the worker.
  currentFrame, pending, state,
  \* The worker.
  rpc,       \* where each request is; "asked" until a Pump took its flag
  promised   \* scheduled_frame of its response, 0 when it was served

snapVars == <<sent, initial, seen>>
frameVars == <<epc, frame, effective, next, snapVars>>
rpcVars == <<rpc, promised>>
tickVars == <<frameVars, currentFrame, pending, state, rpcVars>>

\* Configure, and no snapshot yet.
TickInit ==
  /\ epc = "idle" /\ frame = 0
  /\ effective = Cadence /\ next = Cadence
  /\ sent = [frame |-> 0, cadence |-> Cadence, forced |-> FALSE]
  /\ initial = FALSE /\ seen = 0
  /\ currentFrame = 0 /\ pending = FALSE /\ state = "Healthy"
  /\ rpc = [r \in Requests |-> "idle"]
  /\ promised = [r \in Requests |-> 0]

(***************************************************************************)
(* The engine thread                                                       *)
(***************************************************************************)

\* A tick begins, one frame on (at the bound the clock stands still).
TickBegins ==
  /\ epc = "idle" /\ state = "Healthy"
  /\ frame' = IF frame < MaxFrame THEN frame + 1 ELSE frame
  /\ epc' = "commands"
  /\ UNCHANGED <<effective, next, snapVars, currentFrame, pending, state, rpcVars>>

\* MaybeEmitInitialCoordinatorSnapshot, from a unit hook or at the top of a tick,
\* as soon as the coordinator is known and there are units: once, stamped 1,
\* whatever the scheduler plans.  When it throws the tick goes on, Disabled.
InitialSnapshot ==
  /\ epc \in {"idle", "commands"} /\ state = "Healthy"
  /\ ~initial /\ initial' = TRUE
  /\ \/ seen' = frame /\ UNCHANGED state
     \/ state' = "Disabled" /\ UNCHANGED seen
  /\ UNCHANGED <<epc, frame, effective, next, sent, currentFrame, pending, rpcVars>>

\* DrainCommandQueue returns, with the gateway disabled if a dispatch threw;
\* the tick goes on either way.  Then current_frame_ is stored.
CommandsDone ==
  /\ epc = "commands"
  /\ state' \in {state, "Disabled"}
  /\ currentFrame' = frame
  /\ epc' = "pump"
  /\ UNCHANGED <<frame, effective, next, snapVars, pending, rpcVars>>

\* Mutant: the doubling is not capped.
AfterEmissionUncapped(over) ==
  IF over THEN 2 * effective
          ELSE IF effective > Cadence THEN Cadence ELSE effective

\* The cadence after an emission with or without too many units.  Below the
\* cap twice a uint32 cadence does not wrap.
AfterEmission(over) ==
  IF over THEN IF 2 * effective > MaxCadence THEN MaxCadence ELSE 2 * effective
          ELSE IF effective > Cadence THEN Cadence ELSE effective

\* The exchange on pending_request_: every request that raised it is served.
TakeFlag ==
  /\ pending' = FALSE
  /\ rpc' = [r \in Requests |-> IF rpc[r] = "asked" THEN "idle" ELSE rpc[r]]
  /\ promised' = [r \in Requests |-> IF rpc[r] = "asked" THEN 0
                                                       ELSE promised[r]]

\* BroadcastSnapshot; one that throws disables the gateway.
Broadcast(cadence) ==
  \/ /\ sent' = [frame |-> frame, cadence |-> cadence, forced |-> pending]
     /\ seen' = frame
     /\ UNCHANGED state
  \/ state' = "Disabled" /\ UNCHANGED <<sent, seen>>

Due == pending \/ frame >= next

pumpDone == epc' = "idle" /\ UNCHANGED <<frame, initial, currentFrame>>

\* Mutant: with too many units a request is put off.
PumpPutsOff(over) ==
  /\ epc = "pump"
  /\ IF over THEN UNCHANGED <<pending, rpcVars>> ELSE TakeFlag
  /\ IF (pending /\ ~over) \/ frame >= next
     THEN /\ effective' = AfterEmission(over)
          /\ next' = frame + effective'
          /\ Broadcast(effective)
     ELSE UNCHANGED <<effective, next, sent, seen, state>>
  /\ pumpDone

\* Pump: take the flag, and if forced or due emit with the cadence in force,
\* then choose the next interval and count it from this frame.
Pump(over) ==
  /\ epc = "pump" /\ TakeFlag
  /\ IF Due
     THEN /\ effective' = AfterEmission(over)
          /\ next' = frame + effective'
          /\ Broadcast(effective)
     ELSE UNCHANGED <<effective, next, sent, seen, state>>
  /\ pumpDone

\* A fault outside the tick's drain and pump.
Fault ==
  /\ epc = "idle" /\ state = "Healthy"
  /\ state' = "Disabled"
  /\ UNCHANGED <<frameVars, currentFrame, pending, rpcVars>>

(***************************************************************************)
(* The RequestSnapshot handler                                             *)
(***************************************************************************)

\* Health gating: a disabled gateway answers FAILED_PRECONDITION.
Check(r) ==
  /\ rpc[r] = "idle" /\ state = "Healthy"
  /\ rpc' = [rpc EXCEPT ![r] = "checked"]
  /\ UNCHANGED <<frameVars, currentFrame, pending, state, promised>>

\* CurrentFrame() + 1
Promise(r) ==
  /\ rpc[r] = "checked"
  /\ promised' = [promised EXCEPT ![r] = currentFrame + 1]
  /\ rpc' = [rpc EXCEPT ![r] = "promised"]
  /\ UNCHANGED <<frameVars, currentFrame, pending, state>>

\* Raise the flag and answer.
Ask(r) ==
  /\ rpc[r] = "promised"
  /\ pending' = TRUE
  /\ rpc' = [rpc EXCEPT ![r] = "asked"]
  /\ UNCHANGED <<frameVars, currentFrame, state, promised>>

Engine == TickBegins \/ CommandsDone \/ \E over \in BOOLEAN : Pump(over)

Worker == \E r \in Requests : Promise(r) \/ Ask(r)

TickNext == Engine \/ InitialSnapshot \/ Worker \/ Fault \/ \E r \in Requests : Check(r)

TickSpec == TickInit /\ [][TickNext]_tickVars

\* The engine keeps calling OnFrameTick.
TickFairSpec == TickSpec /\ WF_tickVars(Engine)

(***************************************************************************)
(* Properties                                                              *)
(***************************************************************************)

\* Besides the types: the interval in force is never shorter than configured.
TickTypeOK ==
  /\ epc \in {"idle", "commands", "pump"} /\ frame \in Nat
  /\ effective \in Nat /\ effective >= Cadence /\ next \in Nat
  /\ sent \in [frame : Nat, cadence : Nat, forced : BOOLEAN]
  /\ initial \in BOOLEAN /\ seen \in Nat
  /\ currentFrame \in Nat /\ pending \in BOOLEAN
  /\ state \in {"Healthy", "Disabled"}
  /\ rpc \in [Requests -> {"idle", "checked", "promised", "asked"}]
  /\ promised \in [Requests -> Nat]

\* While the gateway is healthy a subscriber never waits longer than the cap
\* for the next snapshot, whatever the unit counts and requests do (Pump), and
\* with or without the initial one.
SnapshotsKeepComing ==
  state = "Healthy" => frame - seen <= MaxCadence

\* Pump stamps the value in force before it changes it, over doublings and
\* snap-backs: the stamp of a periodic snapshot is the number of frames since the
\* one the scheduler sent before it, forced or not.  For a subscriber, who also
\* sees the initial snapshot, it is never less than the frames it waited, and
\* exactly those unless that one came between.
StampIsInterval ==
  [][sent' # sent /\ ~sent'.forced =>
       /\ sent'.cadence = sent'.frame - sent.frame
       /\ sent'.cadence >= sent'.frame - seen
       /\ sent'.cadence = sent'.frame - seen \/ initial]_tickVars

\* The flag is up exactly while an answered request waits for its snapshot:
\* no request is forgotten and none gets two (the exchange at Pump's top).
FlagMeansAsked == pending = (\E r \in Requests : rpc[r] = "asked")

\* A request that was answered OK gets a snapshot of its own, or sees the gateway
\* disabled; and so does a client that waits, as the documented one does, for a
\* snapshot of the frame it was promised or a later one, although the forced one
\* may come a frame early.  (Frames whose next snapshot lies past the bound on
\* frames are left out.)
RequestsAreServed ==
  /\ \A r \in Requests : rpc[r] = "asked" ~> (rpc[r] # "asked" \/ state = "Disabled")
  /\ \A r \in Requests, f \in 1..(MaxFrame - MaxCadence) :
       rpc[r] = "asked" /\ promised[r] = f ~> (seen >= f \/ state = "Disabled")
================================================================================
