----------------------------- MODULE GatewayHealth -----------------------------
(***************************************************************************)
(* The life of CGrpcGatewayModule: construction, the event hooks and the   *)
(* frame tick on the engine thread, the fault requests of the completion   *)
(* queue's worker, the ordered transition to Disabled, and the end of the  *)
(* match.                                                                  *)
(*                                                                         *)
(* A fault is the name of its subsystem; reason codes and details follow   *)
(* it everywhere the code passes it.  What an update holds is StateStream's*)
(* matter, here it only matters whether one leaves the gateway.            *)
(***************************************************************************)
EXTENDS Integers, Sequences

VARIABLES
  \* Environment and configuration, which do not change.
  clientMode, \* HIGHBAR_COORDINATOR is set, for this AI
  uds,        \* the transport is a Unix domain socket
  \* The engine thread.
  pc,         \* where it is, see Places
  ret,        \* where TransitionToDisabled returns to
  cause,      \* the fault TransitionToDisabled was called with
  delta,      \* current_frame_delta_ has events
  live,       \* GetLastFrame() >= 0
  units,      \* GetTeamUnits() is not empty
  coord,      \* coordinator_client_ exists
  sent,       \* coordinator_initial_snapshot_sent_
  \* Shared with the worker.
  state,      \* state_
  pending,    \* pending_fault_
  server,     \* server_: "none", "open", or "closed" once shut down
  shutting,   \* HighBarService::shutting_down_
  worker,     \* the thread of cq_workers_: "none", "run", "request" (in
              \*   RequestDisable, past its test), "exited", "joined"
  faulted,    \* HighBarService::faulted_
  \* What is seen from outside.
  lines,      \* the fault lines in the engine's log
  health,     \* highbar.health: "none", "healthy" or the fault it names
  token,      \* the token file exists
  socket,     \* the socket file exists
  began,      \* state_ when the last tick began
  late        \* when updates were sent by a gateway that was not Healthy: in the
              \*   rest of the tick it left Healthy in, or later

configVars == <<clientMode, uds>>
engineVars == <<pc, ret, cause, configVars>>
matchVars == <<delta, live, units, coord, sent>>
serviceVars == <<server, shutting, worker, faulted>>
fileVars == <<health, token, socket>>
sendVars == <<began, late>>
vars == <<engineVars, matchVars, state, pending, serviceVars, lines, fileVars, sendVars>>

Subsystems == {"callback", "serialization", "dispatch", "handler"}

Building == {"load", "makeToken", "firstHealth", "firstBind"}
Ticking == {"drain", "check", "bind", "coord", "initial", "serve", "pump", "economy", "flush"}
Disabling == {"log", "close", "socket", "token", "health", "store"}
Ending == {"released", "join", "unlink", "members"}
Ended == {"failed", "dead", "terminated"}
Places == Building \cup {"idle"} \cup Ticking \cup Disabling \cup Ending \cup Ended

\* One type invariant for the engine thread, the worker and the files.
TypeOK ==
  /\ clientMode \in BOOLEAN /\ uds \in BOOLEAN
  /\ pc \in Places
  /\ ret \in {"idle"} \cup Ticking
  /\ cause \in Subsystems \cup {"none"}
  /\ delta \in BOOLEAN /\ live \in BOOLEAN /\ units \in BOOLEAN
  /\ coord \in BOOLEAN /\ sent \in BOOLEAN
  /\ state \in {"Healthy", "Disabling", "Disabled"}
  /\ pending \in Subsystems \cup {"none"}
  /\ server \in {"none", "open", "closed"}
  /\ shutting \in BOOLEAN /\ faulted \in BOOLEAN
  /\ worker \in {"none", "run", "request", "exited", "joined"}
  /\ lines \in Seq(Subsystems)
  /\ health \in Subsystems \cup {"none", "healthy"}
  /\ token \in BOOLEAN /\ socket \in BOOLEAN
  /\ began \in {"Healthy", "Disabling", "Disabled"}
  /\ late \subseteq {"tick", "later"}

Init ==
  /\ clientMode \in BOOLEAN /\ uds \in BOOLEAN
  /\ pc = "load" /\ ret = "idle" /\ cause = "none"
  /\ delta = FALSE /\ live = FALSE /\ units = FALSE /\ coord = FALSE /\ sent = FALSE
  /\ state = "Healthy" /\ pending = "none"
  /\ server = "none" /\ shutting = FALSE /\ worker = "none" /\ faulted = FALSE
  /\ lines = <<>> /\ health = "none" /\ token = FALSE /\ socket = FALSE
  /\ began = "Healthy" /\ late = {}

Goto(p) == pc' = p /\ UNCHANGED <<ret, cause, configVars>>

-----------------------------------------------------------------------------
(* The constructor.  A throw ends the AI slot: the destructor does not run. *)

LoadConfig ==
  /\ pc = "load"
  /\ Goto("makeToken") \/ Goto("failed")
  /\ UNCHANGED <<matchVars, state, pending, serviceVars, lines, fileVars, sendVars>>

GenerateToken ==
  /\ pc = "makeToken"
  /\ \/ token' = TRUE /\ Goto("firstHealth")
     \/ token' = FALSE /\ Goto("failed")
  /\ UNCHANGED <<matchVars, state, pending, serviceVars, lines, health, socket, sendVars>>

\* WriteHealthFile writes a sibling and renames it; its result is not read.
WriteHealthFile(h) == health' \in {h, health}

FirstHealth ==
  /\ pc = "firstHealth"
  /\ WriteHealthFile("healthy")
  /\ Goto(IF clientMode THEN "idle" ELSE "firstBind")
  /\ UNCHANGED <<matchVars, state, pending, serviceVars, lines, token, socket, sendVars>>

Bind ==
  /\ server' = "open" /\ worker' = "run" /\ socket' = uds
  /\ UNCHANGED <<shutting, faulted>>

FirstBind ==
  /\ pc = "firstBind"
  /\ \/ Bind /\ Goto("idle")
     \/ UNCHANGED <<serviceVars, socket>> /\ Goto("failed")
  /\ UNCHANGED <<matchVars, state, pending, lines, health, token, sendVars>>

-----------------------------------------------------------------------------
(* TransitionToDisabled, called at any place p of the engine thread.  Each  *)
(* step is seen by the worker and by whoever reads the files.               *)

Fault(f, p) == pc' = "log" /\ cause' = f /\ ret' = p /\ UNCHANGED configVars

\* Forgetting that the gateway is already disabled.
LogFaultAgain ==
  /\ pc = "log"
  /\ state' = "Disabling" /\ lines' = Append(lines, cause)
  /\ Goto("close")
  /\ UNCHANGED <<matchVars, pending, serviceVars, fileVars, sendVars>>

LogFault ==
  /\ pc = "log"
  /\ \/ /\ state = "Healthy"
        /\ state' = "Disabling" /\ lines' = Append(lines, cause)
        /\ Goto("close")
     \/ /\ state # "Healthy"
        /\ Goto(ret)
        /\ UNCHANGED <<state, lines>>
  /\ UNCHANGED <<matchVars, pending, serviceVars, fileVars, sendVars>>

\* Closing the listening socket may remove its file, as gRPC does for Unix sockets.
CloseServer == server' = "closed" /\ shutting' = TRUE /\ socket' \in {socket, FALSE}

FaultCloseAllStreams ==
  /\ pc = "close"
  /\ IF server # "none" /\ ~shutting
       THEN CloseServer
       ELSE UNCHANGED <<server, shutting, socket>>
  /\ Goto("socket")
  /\ UNCHANGED <<matchVars, state, pending, worker, faulted, lines, health, token, sendVars>>

UnlinkSocket ==
  /\ pc = "socket"
  /\ socket' = FALSE
  /\ Goto("token")
  /\ UNCHANGED <<matchVars, state, pending, serviceVars, lines, health, token, sendVars>>

UnlinkToken ==
  /\ pc = "token"
  /\ token' = FALSE
  /\ Goto("health")
  /\ UNCHANGED <<matchVars, state, pending, serviceVars, lines, health, socket, sendVars>>

ReportFault ==
  /\ pc = "health"
  /\ WriteHealthFile(cause)
  /\ Goto("store")
  /\ UNCHANGED <<matchVars, state, pending, serviceVars, lines, token, socket, sendVars>>

StoreDisabled ==
  /\ pc = "store"
  /\ state' = "Disabled"
  /\ Goto(ret)
  /\ UNCHANGED <<matchVars, pending, serviceVars, lines, fileVars, sendVars>>

TransitionToDisabled ==
  LogFault \/ FaultCloseAllStreams \/ UnlinkSocket \/ UnlinkToken \/ ReportFault \/ StoreDisabled

-----------------------------------------------------------------------------
(* An update leaves for the ring, the bus and the coordinator. *)

Sends ==
  late' = IF state = "Healthy" THEN late
          ELSE late \cup {IF pc \in Ticking /\ began = "Healthy" THEN "tick" ELSE "later"}

\* FlushDelta, EmitKeepAlive and BroadcastSnapshot: the update is sent, or
\* the serializer throws and the transition returns to p.
Emit(p) ==
  \/ Sends /\ Goto(p)
  \/ Fault("serialization", p) /\ UNCHANGED late

\* EnsureCoordinatorClientStarted and the one snapshot that follows it.
MaybeEmitInitialCoordinatorSnapshot(p) ==
  IF ~sent /\ clientMode /\ live /\ units
    THEN coord' = TRUE /\ sent' = TRUE /\ Emit(p)
    ELSE UNCHANGED <<coord, sent, late>> /\ Goto(p)

-----------------------------------------------------------------------------
(* The hooks: HB_HOOK_GUARD around an append to the frame's delta. *)

Hook ==
  /\ pc = "idle" /\ state = "Healthy"
  /\ \/ delta' = TRUE /\ Goto("idle")
     \/ delta' \in {delta, TRUE} /\ Fault("callback", "idle")
  /\ UNCHANGED <<live, units, coord, sent, state, pending, serviceVars,
                 lines, fileVars, sendVars>>

\* UnitCreated and UnitFinished also try the initial snapshot.
UnitHook ==
  /\ pc = "idle" /\ state = "Healthy" /\ units
  /\ delta' = TRUE
  /\ MaybeEmitInitialCoordinatorSnapshot("idle")
  /\ UNCHANGED <<live, units, state, pending, serviceVars, lines, fileVars, began>>

\* Units come and go whether or not the gateway is told.
UnitsChange ==
  /\ pc = "idle"
  /\ units' = ~units
  /\ UNCHANGED <<engineVars, delta, live, coord, sent, state, pending, serviceVars,
                 lines, fileVars, sendVars>>

-----------------------------------------------------------------------------
(* OnFrameTick. *)

\* CCircuitAI::Update stores the frame, then runs the scheduler's jobs.
StartTick ==
  /\ pc = "idle"
  /\ live' \in {live, TRUE} /\ began' = state
  /\ Goto("drain")
  /\ UNCHANGED <<delta, units, coord, sent, state, pending, serviceVars, lines, fileVars, late>>

\* Taking the request and not acting on it.
DrainAndForget ==
  /\ pc = "drain"
  /\ pending' = "none"
  /\ Goto("check")
  /\ UNCHANGED <<matchVars, state, serviceVars, lines, fileVars, sendVars>>

DrainPendingFault ==
  /\ pc = "drain"
  /\ pending' = "none"
  /\ IF pending # "none" THEN Fault(pending, "check") ELSE Goto("check")
  /\ UNCHANGED <<matchVars, state, serviceVars, lines, fileVars, sendVars>>

\* A test that guards the bind and the queues only.
CheckQueuesOnly ==
  /\ pc = "check"
  /\ Goto(IF state = "Healthy" THEN "bind" ELSE "pump")
  /\ UNCHANGED <<matchVars, state, pending, serviceVars, lines, fileVars, sendVars>>

\* A test that lets a disabled gateway bind its deferred service.
CheckAfterBind ==
  /\ pc = "check"
  /\ Goto("bind")
  /\ UNCHANGED <<matchVars, state, pending, serviceVars, lines, fileVars, sendVars>>

CheckHealthy ==
  /\ pc = "check"
  /\ Goto(IF state = "Healthy" THEN "bind" ELSE "idle")
  /\ UNCHANGED <<matchVars, state, pending, serviceVars, lines, fileVars, sendVars>>

EnsureLocalServiceBound ==
  /\ pc = "bind"
  /\ IF live /\ server = "none"
       THEN \/ Bind /\ Goto("coord")
            \/ Fault("callback", "idle") /\ UNCHANGED <<serviceVars, socket>>
       ELSE Goto("coord") /\ UNCHANGED <<serviceVars, socket>>
  /\ UNCHANGED <<matchVars, state, pending, lines, health, token, sendVars>>

EnsureCoordinatorClientStarted ==
  /\ pc = "coord"
  /\ \/ coord' = (coord \/ (clientMode /\ live)) /\ Goto("initial")
     \/ ~coord /\ clientMode /\ live /\ coord' = FALSE /\ Fault("callback", "idle")
  /\ UNCHANGED <<delta, live, units, sent, state, pending, serviceVars,
                 lines, fileVars, sendVars>>

InitialSnapshot ==
  /\ pc = "initial"
  /\ MaybeEmitInitialCoordinatorSnapshot("serve")
  /\ UNCHANGED <<delta, live, units, state, pending, serviceVars, lines, fileVars, began>>

\* The heartbeat, the callback and admin queues, the leases and the command
\* queue.  Dispatches append events; a command that throws is caught in
\* DrainCommandQueue and the tick goes on, anything else leaves the tick.
ServeQueues ==
  /\ pc = "serve"
  /\ delta' \in {delta, TRUE}
  /\ Goto("pump") \/ Fault("dispatch", "pump") \/ Fault("callback", "idle")
  /\ UNCHANGED <<live, units, coord, sent, state, pending, serviceVars,
                 lines, fileVars, sendVars>>

PumpSnapshot ==
  /\ pc = "pump"
  /\ Emit("economy") \/ (Goto("economy") /\ UNCHANGED late)
  /\ UNCHANGED <<matchVars, state, pending, serviceVars, lines, fileVars, began>>

OnEconomyTick ==
  /\ pc = "economy"
  /\ \/ delta' \in {delta} \cup {state = "Healthy" \/ delta} /\ Goto("flush")
     \/ state = "Healthy" /\ delta' = TRUE /\ Fault("callback", "flush")
  /\ UNCHANGED <<live, units, coord, sent, state, pending, serviceVars,
                 lines, fileVars, sendVars>>

Flush ==
  /\ pc = "flush"
  /\ IF delta
       THEN /\ Emit("idle")
            /\ delta' \in (IF pc' = "log" THEN BOOLEAN ELSE {FALSE})
       ELSE /\ Emit("idle") \/ (Goto("idle") /\ UNCHANGED late)
            /\ UNCHANGED delta
  /\ UNCHANGED <<live, units, coord, sent, state, pending, serviceVars, lines, fileVars, began>>

Tick ==
  \/ DrainPendingFault \/ CheckHealthy \/ EnsureLocalServiceBound
  \/ EnsureCoordinatorClientStarted \/ InitialSnapshot \/ ServeQueues
  \/ PumpSnapshot \/ OnEconomyTick \/ Flush

-----------------------------------------------------------------------------
(* The completion queue's worker. *)

\* The first handler that throws: the exchange of faulted_, then
\* RequestDisable's test of the state.
HandlerThrows ==
  /\ worker = "run" /\ ~faulted
  /\ faulted' = TRUE
  /\ worker' = IF state = "Healthy" THEN "request" ELSE "run"
  /\ UNCHANGED <<engineVars, matchVars, state, pending, server, shutting,
                 lines, fileVars, sendVars>>

RequestDisable ==
  /\ worker = "request"
  /\ pending' = IF pending = "none" THEN "handler" ELSE pending
  /\ worker' = "run"
  /\ UNCHANGED <<engineVars, matchVars, state, server, shutting, faulted,
                 lines, fileVars, sendVars>>

\* Next returns false once the queue is shut down and drained.
WorkerExits ==
  /\ worker = "run" /\ shutting
  /\ worker' = "exited"
  /\ UNCHANGED <<engineVars, matchVars, state, pending, server, shutting, faulted,
                 lines, fileVars, sendVars>>

Worker == HandlerThrows \/ RequestDisable \/ WorkerExits

-----------------------------------------------------------------------------
(* The end of the match: CCircuitAI::Release drops its modules, the scheduler *)
(* and with them the frame tick; the AI's own handle keeps the gateway until  *)
(* the AI object is deleted.                                                  *)

Release ==
  /\ pc = "idle"
  /\ Goto("released")
  /\ UNCHANGED <<matchVars, state, pending, serviceVars, lines, fileVars, sendVars>>

Shutdown ==
  /\ pc = "released"
  /\ IF shutting
       THEN Goto("unlink") /\ UNCHANGED <<server, shutting, socket>>
       ELSE /\ shutting' = TRUE /\ Goto("join")
            /\ IF server = "open"
                 THEN server' = "closed" /\ socket' \in {socket, FALSE}
                 ELSE UNCHANGED <<server, socket>>
  /\ UNCHANGED <<matchVars, state, pending, worker, faulted, lines, health, token, sendVars>>

JoinWorkers ==
  /\ pc = "join" /\ worker \in {"none", "exited"}
  /\ worker' = IF worker = "none" THEN "none" ELSE "joined"
  /\ Goto("unlink")
  /\ UNCHANGED <<matchVars, state, pending, server, shutting, faulted,
                 lines, fileVars, sendVars>>

FinalUnlink ==
  /\ pc = "unlink"
  /\ token' = FALSE
  /\ Goto("members")
  /\ UNCHANGED <<matchVars, state, pending, serviceVars, lines, health, socket, sendVars>>

\* The members go; a thread object destroyed before it is joined ends the process.
DestroyMembers ==
  /\ pc = "members"
  /\ Goto(IF worker \in {"none", "joined"} THEN "dead" ELSE "terminated")
  /\ UNCHANGED <<matchVars, state, pending, serviceVars, lines, fileVars, sendVars>>

Destructor == Shutdown \/ JoinWorkers \/ FinalUnlink \/ DestroyMembers

-----------------------------------------------------------------------------
Construct == LoadConfig \/ GenerateToken \/ FirstHealth \/ FirstBind

Match == Hook \/ UnitHook \/ UnitsChange \/ Release

\* Nothing happens after the end.
Over == pc \in Ended /\ UNCHANGED vars

Next ==
  Construct \/ Match \/ StartTick \/ Tick \/ TransitionToDisabled \/ Worker \/ Destructor \/ Over

Spec == Init /\ [][Next]_vars

\* The engine thread runs on, the scheduler calls the tick at every frame, and
\* a worker in RequestDisable leaves it.
Fairness ==
  /\ WF_vars(Construct) /\ WF_vars(Tick \/ TransitionToDisabled \/ Destructor)
  /\ WF_vars(StartTick)
  /\ WF_vars(RequestDisable) /\ WF_vars(WorkerExits)

FairSpec == Init /\ [][Next]_vars /\ Fairness

-----------------------------------------------------------------------------
(* Properties *)

\* TransitionToDisabled runs at most once: one fault line, however many faults
\* hooks, tick and worker meet, and the health file names the fault of that line.
OneFaultReported ==
  /\ Len(lines) <= 1
  /\ health \in Subsystems => lines = <<health>>
  /\ state = "Healthy" <=> lines = <<>>

\* Whoever reads a fault in the health file finds nothing left to connect to:
\* the token and socket files are gone and no server listens, nor will a
\* deferred bind of client mode open one afterwards.
ClosedWhenReported ==
  health \in Subsystems => ~socket /\ ~token /\ server # "open"

\* OnFrameTick and the hook guards: what a gateway sends after it left Healthy is
\* sent by the tick it left Healthy in.  No later tick and no hook sends anything,
\* whichever place of the tick the fault was caught at and returned to.
QuietAfterFaultTick == "later" \notin late

\* specs/003-snapshot-arm-coverage/contracts/snapshot-tick.md:172 asks for more:
\* "Emission count is **zero** while gateway is `Disabled`."  The tick that
\* faulted goes on to the pump and the flush, and no run checks this.
ZeroWhileDisabled == late = {}

\* The first exception that escapes an RPC handler disables the gateway, unless
\* the match ends before: RequestDisable's request reaches the engine thread.
HandlerFaultDisables ==
  faulted ~> (state = "Disabled" \/ pc \in Ending \cup Ended)

\* FR-023: a fault never crashes the process; the gateway's end is a normal one.
EndsCleanly == pc # "terminated"
================================================================================
