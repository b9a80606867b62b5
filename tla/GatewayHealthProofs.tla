-------------------------- MODULE GatewayHealthProofs --------------------------
(***************************************************************************)
(* The properties of GatewayHealth's fault transition, for both modes and  *)
(* both transports.                                                        *)
(*                                                                         *)
(* OneFaultReported and ClosedWhenReported are not inductive: they say     *)
(* nothing about the middle of the transition.  HealthInv adds what each   *)
(* place of it has already done (Progress), that the two guards the code   *)
(* relies on, the state test of the tick and the flag of the service, keep *)
(* a server from opening again (NoReopening), and that a tick gets past    *)
(* its state test only when it began Healthy (TickBegan).                  *)
(***************************************************************************)
EXTENDS GatewayHealth, TLAPS

\* Where TransitionToDisabled is called with a return address.
Returns == {"idle", "check", "serve", "pump", "economy", "flush"}

\* The place of the tick the engine thread is at or will return to.
At == IF pc \in Disabling THEN ret ELSE pc

\* The transition's own state, the fault line and the health file.
Reporting ==
  /\ state = "Disabling" <=> pc \in Disabling \ {"log"}
  /\ state = "Healthy" => lines = <<>> /\ health \notin Subsystems
  /\ state # "Healthy" => \E f \in Subsystems : lines = <<f>>
  /\ state = "Disabling" => lines = <<cause>>
  /\ health \in Subsystems => lines = <<health>> /\ (pc = "store" \/ state = "Disabled")

\* What the places of the transition have behind them.
Progress ==
  /\ pc \in {"socket", "token", "health", "store"} \/ state = "Disabled" => server # "open"
  /\ pc \in {"token", "health", "store"} \/ state = "Disabled" => ~socket
  /\ pc \in {"health", "store"} \/ state = "Disabled" => ~token

\* Only a healthy gateway builds, binds or starts anything.
NoReopening ==
  /\ pc \in Building => server = "none"
  /\ pc \in Building \cup {"bind", "coord", "initial"} => state = "Healthy"
  /\ pc \in Disabling => ret \in Returns /\ cause \in Subsystems
  /\ shutting => server # "open" /\ (server = "closed" \/ pc \in Ending \cup Ended)

\* A gateway that is Healthy was so when the tick began, and so was one that is
\* past the test of the tick.
TickBegan ==
  /\ "later" \notin late
  /\ state = "Healthy" => began = "Healthy"
  /\ At \in Ticking \ {"drain", "check"} => began = "Healthy"

HealthInv == TypeOK /\ Reporting /\ Progress /\ NoReopening /\ TickBegan

-----------------------------------------------------------------------------

\* The type invariant in two parts: the flags, and everything else.
Flags ==
  /\ clientMode \in BOOLEAN /\ uds \in BOOLEAN
  /\ delta \in BOOLEAN /\ live \in BOOLEAN /\ units \in BOOLEAN
  /\ coord \in BOOLEAN /\ sent \in BOOLEAN
  /\ shutting \in BOOLEAN /\ faulted \in BOOLEAN
  /\ token \in BOOLEAN /\ socket \in BOOLEAN

\* The rest of the type invariant.
Fields ==
  /\ pc \in Places
  /\ ret \in {"idle"} \cup Ticking
  /\ cause \in Subsystems \cup {"none"}
  /\ state \in {"Healthy", "Disabling", "Disabled"}
  /\ pending \in Subsystems \cup {"none"}
  /\ server \in {"none", "open", "closed"}
  /\ worker \in {"none", "run", "request", "exited", "joined"}
  /\ lines \in Seq(Subsystems)
  /\ health \in Subsystems \cup {"none", "healthy"}
  /\ began \in {"Healthy", "Disabling", "Disabled"}
  /\ late \subseteq {"tick", "later"}

\* The constructor starts in the invariant.
LEMMA InitHealth == Init => HealthInv
<1> SUFFICES ASSUME Init PROVE HealthInv
    OBVIOUS
<1> USE DEF Init
<1>1. Flags
      BY Zenon DEF Flags
<1>2. Fields
      BY DEF Fields, Subsystems, Building, Places
<1>3. TypeOK
      BY <1>1, <1>2, Zenon DEF TypeOK, Flags, Fields
<1>4. Reporting
      BY DEF Reporting, Disabling, Subsystems
<1>5. Progress
      BY DEF Progress
<1>6. NoReopening
      BY DEF NoReopening, Disabling
<1>7. TickBegan
      BY DEF TickBegan, At, Disabling
<1> QED BY <1>3, <1>4, <1>5, <1>6, <1>7 DEF HealthInv

\* The invariant without the flags, which are a matter of their own.
Rest == Fields /\ Reporting /\ Progress /\ NoReopening /\ TickBegan

\* Every step of constructor, hooks, tick, transition, worker and destructor keeps it.
LEMMA StepHealth == HealthInv /\ [Next]_vars => HealthInv'
<1> SUFFICES ASSUME HealthInv, [Next]_vars PROVE HealthInv'
    OBVIOUS
<1> USE DEF configVars, engineVars, matchVars, serviceVars, fileVars, sendVars
<1>f. Flags /\ Rest
      BY Zenon DEF HealthInv, TypeOK, Flags, Fields, Rest
<1>q. SUFFICES Flags' /\ Rest'
      BY <1>q, Zenon DEF HealthInv, TypeOK, Flags, Fields, Rest
<1> USE DEF Rest
<1>1. CASE LoadConfig
  <2>1. Flags'
        BY <1>f, <1>1, ZenonT(60) DEF LoadConfig, Goto, Flags
  <2>2. Rest'
        BY <1>f, <1>1 DEF LoadConfig, Goto, Flags, Fields, Reporting, Progress,
           NoReopening, TickBegan, At, Subsystems, Building, Ticking, Disabling, Ending,
           Ended, Places, Returns
  <2> QED BY <2>1, <2>2
<1>2. CASE GenerateToken
  <2>1. Flags'
        BY <1>f, <1>2, ZenonT(60) DEF GenerateToken, Goto, Flags
  <2>2. Rest'
        BY <1>f, <1>2 DEF GenerateToken, Goto, Flags, Fields, Reporting, Progress,
           NoReopening, TickBegan, At, Subsystems, Building, Ticking, Disabling, Ending,
           Ended, Places, Returns
  <2> QED BY <2>1, <2>2
<1>3. CASE FirstHealth
  <2>1. Flags'
        BY <1>f, <1>3, ZenonT(60) DEF FirstHealth, WriteHealthFile, Goto, Flags
  <2>2. Rest'
        BY <1>f, <1>3 DEF FirstHealth, WriteHealthFile, Goto, Flags, Fields, Reporting, Progress,
           NoReopening, TickBegan, At, Subsystems, Building, Ticking, Disabling, Ending,
           Ended, Places, Returns
  <2> QED BY <2>1, <2>2
<1>4. CASE FirstBind
  <2>1. Flags'
        BY <1>f, <1>4, ZenonT(60) DEF FirstBind, Bind, Goto, Flags
  <2>2. Rest'
        BY <1>f, <1>4 DEF FirstBind, Bind, Goto, Flags, Fields, Reporting, Progress,
           NoReopening, TickBegan, At, Subsystems, Building, Ticking, Disabling, Ending,
           Ended, Places, Returns
  <2> QED BY <2>1, <2>2
<1>5. CASE LogFault
  <2>1. Flags'
        BY <1>f, <1>5, ZenonT(60) DEF LogFault, Goto, Flags
  <2>2. Append(<<>>, cause) = <<cause>>
        OBVIOUS
  <2>3. CASE state = "Healthy"
    <3>1. cause \in Subsystems /\ lines = <<>>
          BY <1>f, <2>3, <1>5 DEF LogFault, NoReopening, Reporting, Disabling
    <3>2. lines' = <<cause>>
          BY <1>5, <2>2, <2>3, <3>1, Zenon DEF LogFault
    <3>3. lines' \in Seq(Subsystems)
          BY <3>1, <3>2
    <3> QED
        BY <1>f, <1>5, <2>1, <2>3, <3>1, <3>2, <3>3 DEF LogFault, Goto, Fields, Reporting, Progress,
           NoReopening, TickBegan, At, Subsystems, Building, Ticking, Disabling, Ending,
           Ended, Places, Returns
  <2>4. CASE state # "Healthy"
        BY <1>f, <1>5, <2>1, <2>4 DEF LogFault, Goto, Fields, Reporting, Progress,
           NoReopening, TickBegan, At, Subsystems, Building, Ticking, Disabling, Ending,
           Ended, Places, Returns
  <2> QED BY <2>3, <2>4
<1>6. CASE FaultCloseAllStreams
  <2>1. Flags'
        BY <1>f, <1>6, ZenonT(60) DEF FaultCloseAllStreams, CloseServer, Goto, Flags
  <2>2. /\ pc = "close" /\ Goto("socket")
        /\ \/ server' = "closed" /\ shutting'
           \/ (server = "none" \/ shutting) /\ UNCHANGED <<server, shutting>>
        /\ UNCHANGED <<state, pending, worker, lines, health, token, sendVars>>
        BY <1>f, <1>6, Zenon DEF FaultCloseAllStreams, CloseServer, Flags
  <2>3. Rest'
        BY <1>f, <2>2 DEF Goto, Flags, Fields, Reporting, Progress,
           NoReopening, TickBegan, At, Subsystems, Building, Ticking, Disabling, Ending,
           Ended, Places, Returns
  <2> QED BY <2>1, <2>3
<1>7. CASE UnlinkSocket
  <2>1. Flags'
        BY <1>f, <1>7, ZenonT(60) DEF UnlinkSocket, Goto, Flags
  <2>2. Rest'
        BY <1>f, <1>7 DEF UnlinkSocket, Goto, Flags, Fields, Reporting, Progress,
           NoReopening, TickBegan, At, Subsystems, Building, Ticking, Disabling, Ending,
           Ended, Places, Returns
  <2> QED BY <2>1, <2>2
<1>8. CASE UnlinkToken
  <2>1. Flags'
        BY <1>f, <1>8, ZenonT(60) DEF UnlinkToken, Goto, Flags
  <2>2. Rest'
        BY <1>f, <1>8 DEF UnlinkToken, Goto, Flags, Fields, Reporting, Progress,
           NoReopening, TickBegan, At, Subsystems, Building, Ticking, Disabling, Ending,
           Ended, Places, Returns
  <2> QED BY <2>1, <2>2
<1>9. CASE ReportFault
  <2>1. Flags'
        BY <1>f, <1>9, ZenonT(60) DEF ReportFault, WriteHealthFile, Goto, Flags
  <2>2. Rest'
        BY <1>f, <1>9 DEF ReportFault, WriteHealthFile, Goto, Flags, Fields, Reporting, Progress,
           NoReopening, TickBegan, At, Subsystems, Building, Ticking, Disabling, Ending,
           Ended, Places, Returns
  <2> QED BY <2>1, <2>2
<1>10. CASE StoreDisabled
  <2>1. Flags'
        BY <1>f, <1>10, ZenonT(60) DEF StoreDisabled, Goto, Flags
  <2>2. Rest'
        BY <1>f, <1>10 DEF StoreDisabled, Goto, Flags, Fields, Reporting, Progress,
           NoReopening, TickBegan, At, Subsystems, Building, Ticking, Disabling, Ending,
           Ended, Places, Returns
  <2> QED BY <2>1, <2>2
<1>11. CASE Hook
  <2>1. Flags'
        BY <1>f, <1>11, ZenonT(60) DEF Hook, Goto, Fault, Flags
  <2>2. /\ pc = "idle" /\ state = "Healthy"
        /\ Goto("idle") \/ Fault("callback", "idle")
        /\ UNCHANGED <<state, pending, serviceVars, lines, fileVars, sendVars>>
        BY <1>11, Zenon DEF Hook
  <2>3. Rest'
        BY <1>f, <2>2 DEF Goto, Fault, Fields, Reporting, Progress,
           NoReopening, TickBegan, At, Subsystems, Building, Ticking, Disabling, Ending,
           Ended, Places, Returns
  <2> QED BY <2>1, <2>3
<1>12. CASE UnitHook
  <2>1. Flags'
        BY <1>f, <1>12, ZenonT(60) DEF UnitHook, MaybeEmitInitialCoordinatorSnapshot, Emit, Sends, Fault, Goto, Flags
  <2>2. /\ pc = "idle" /\ state = "Healthy"
        /\ Goto("idle") \/ Fault("serialization", "idle")
        /\ UNCHANGED <<state, pending, serviceVars, lines, fileVars, sendVars>>
        BY <1>12, Zenon DEF UnitHook, MaybeEmitInitialCoordinatorSnapshot, Emit, Sends
  <2>3. Rest'
        BY <1>f, <2>2 DEF Goto, Fault, Fields, Reporting, Progress,
           NoReopening, TickBegan, At, Subsystems, Building, Ticking, Disabling, Ending,
           Ended, Places, Returns
  <2> QED BY <2>1, <2>3
<1>13. CASE UnitsChange
  <2>1. Flags'
        BY <1>f, <1>13, ZenonT(60) DEF UnitsChange, Flags
  <2>2. Rest'
        BY <1>f, <1>13 DEF UnitsChange, Flags, Fields, Reporting, Progress,
           NoReopening, TickBegan, At, Subsystems, Building, Ticking, Disabling, Ending,
           Ended, Places, Returns
  <2> QED BY <2>1, <2>2
<1>14. CASE Release
  <2>1. Flags'
        BY <1>f, <1>14, ZenonT(60) DEF Release, Goto, Flags
  <2>2. Rest'
        BY <1>f, <1>14 DEF Release, Goto, Flags, Fields, Reporting, Progress,
           NoReopening, TickBegan, At, Subsystems, Building, Ticking, Disabling, Ending,
           Ended, Places, Returns
  <2> QED BY <2>1, <2>2
<1>15. CASE StartTick
  <2>1. Flags'
        BY <1>f, <1>15, ZenonT(60) DEF StartTick, Goto, Flags
  <2>2. Rest'
        BY <1>f, <1>15 DEF StartTick, Goto, Flags, Fields, Reporting, Progress,
           NoReopening, TickBegan, At, Subsystems, Building, Ticking, Disabling, Ending,
           Ended, Places, Returns
  <2> QED BY <2>1, <2>2
<1>16. CASE DrainPendingFault
  <2>1. Flags'
        BY <1>f, <1>16, ZenonT(60) DEF DrainPendingFault, Fault, Goto, Flags
  <2>2. Rest'
        BY <1>f, <1>16 DEF DrainPendingFault, Fault, Goto, Flags, Fields, Reporting, Progress,
           NoReopening, TickBegan, At, Subsystems, Building, Ticking, Disabling, Ending,
           Ended, Places, Returns
  <2> QED BY <2>1, <2>2
<1>17. CASE CheckHealthy
  <2>1. Flags'
        BY <1>f, <1>17, ZenonT(60) DEF CheckHealthy, Goto, Flags
  <2>2. Rest'
        BY <1>f, <1>17 DEF CheckHealthy, Goto, Flags, Fields, Reporting, Progress,
           NoReopening, TickBegan, At, Subsystems, Building, Ticking, Disabling, Ending,
           Ended, Places, Returns
  <2> QED BY <2>1, <2>2
<1>18. CASE EnsureLocalServiceBound
  <2>1. Flags'
        BY <1>f, <1>18, ZenonT(60) DEF EnsureLocalServiceBound, Bind, Fault, Goto, Flags
  <2>2. Rest'
        BY <1>f, <1>18 DEF EnsureLocalServiceBound, Bind, Fault, Goto, Flags, Fields, Reporting, Progress,
           NoReopening, TickBegan, At, Subsystems, Building, Ticking, Disabling, Ending,
           Ended, Places, Returns
  <2> QED BY <2>1, <2>2
<1>19. CASE EnsureCoordinatorClientStarted
  <2>1. Flags'
        BY <1>f, <1>19, ZenonT(60) DEF EnsureCoordinatorClientStarted, Fault, Goto, Flags
  <2>2. Rest'
        BY <1>f, <1>19 DEF EnsureCoordinatorClientStarted, Fault, Goto, Flags, Fields, Reporting, Progress,
           NoReopening, TickBegan, At, Subsystems, Building, Ticking, Disabling, Ending,
           Ended, Places, Returns
  <2> QED BY <2>1, <2>2
<1>20. CASE InitialSnapshot
  <2>1. Flags'
        BY <1>f, <1>20, ZenonT(60) DEF InitialSnapshot, MaybeEmitInitialCoordinatorSnapshot, Emit, Sends, Fault, Goto, Flags
  <2>2. pc = "initial" /\ state = "Healthy"
        BY <1>f, <1>20, Zenon DEF InitialSnapshot, NoReopening
  <2>3. /\ Goto("serve") \/ Fault("serialization", "serve")
        /\ UNCHANGED <<state, pending, serviceVars, lines, fileVars, sendVars>>
        BY <1>20, <2>2, Zenon DEF InitialSnapshot, MaybeEmitInitialCoordinatorSnapshot, Emit,
                                  Sends
  <2>4. Rest'
        BY <1>f, <2>2, <2>3 DEF Goto, Fault, Fields, Reporting, Progress,
           NoReopening, TickBegan, At, Subsystems, Building, Ticking, Disabling, Ending,
           Ended, Places, Returns
  <2> QED BY <2>1, <2>4
<1>21. CASE ServeQueues
  <2>1. Flags'
        BY <1>f, <1>21, ZenonT(60) DEF ServeQueues, Fault, Goto, Flags
  <2>2. Rest'
        BY <1>f, <1>21 DEF ServeQueues, Fault, Goto, Flags, Fields, Reporting, Progress,
           NoReopening, TickBegan, At, Subsystems, Building, Ticking, Disabling, Ending,
           Ended, Places, Returns
  <2> QED BY <2>1, <2>2
<1>22. CASE PumpSnapshot
  <2>1. Flags'
        BY <1>f, <1>22, ZenonT(60) DEF PumpSnapshot, Emit, Sends, Fault, Goto, Flags
  <2>2. /\ pc = "pump"
        /\ Goto("economy") \/ Fault("serialization", "economy")
        /\ Sends \/ UNCHANGED late
        /\ UNCHANGED <<state, pending, serviceVars, lines, fileVars, began>>
        BY <1>22, Zenon DEF PumpSnapshot, Emit
  <2>3. pc \in Ticking /\ began = "Healthy"
        BY <1>f, <2>2, Zenon DEF TickBegan, At, Ticking, Disabling
  <2>4. late' \subseteq {"tick", "later"} /\ "later" \notin late'
    <3>1. late' = late \/ late' = late \cup {"tick"}
          BY <2>2, <2>3, Zenon DEF Sends
    <3>2. late \subseteq {"tick", "later"} /\ "later" \notin late
          BY <1>f, Zenon DEF Fields, TickBegan
    <3> QED BY <3>1, <3>2
  <2>5. Rest'
        BY <1>f, <2>2, <2>3, <2>4 DEF Goto, Fault, Fields, Reporting, Progress,
           NoReopening, TickBegan, At, Subsystems, Building, Ticking, Disabling, Ending,
           Ended, Places, Returns
  <2> QED BY <2>1, <2>5
<1>23. CASE OnEconomyTick
  <2>1. Flags'
        BY <1>f, <1>23, ZenonT(60) DEF OnEconomyTick, Fault, Goto, Flags
  <2>2. Rest'
        BY <1>f, <1>23 DEF OnEconomyTick, Fault, Goto, Flags, Fields, Reporting, Progress,
           NoReopening, TickBegan, At, Subsystems, Building, Ticking, Disabling, Ending,
           Ended, Places, Returns
  <2> QED BY <2>1, <2>2
<1>24. CASE Flush
  <2>1. Flags'
        BY <1>f, <1>24, ZenonT(60) DEF Flush, Emit, Goto, Fault, Flags
  <2>2. /\ pc = "flush"
        /\ Goto("idle") \/ Fault("serialization", "idle")
        /\ Sends \/ UNCHANGED late
        /\ UNCHANGED <<state, pending, serviceVars, lines, fileVars, began>>
        BY <1>24, Zenon DEF Flush, Emit
  <2>3. pc \in Ticking /\ began = "Healthy"
        BY <1>f, <2>2, Zenon DEF TickBegan, At, Ticking, Disabling
  <2>4. late' \subseteq {"tick", "later"} /\ "later" \notin late'
    <3>1. late' = late \/ late' = late \cup {"tick"}
          BY <2>2, <2>3, Zenon DEF Sends
    <3>2. late \subseteq {"tick", "later"} /\ "later" \notin late
          BY <1>f, Zenon DEF Fields, TickBegan
    <3> QED BY <3>1, <3>2
  <2>5. Rest'
        BY <1>f, <2>2, <2>3, <2>4 DEF Goto, Fault, Fields, Reporting, Progress,
           NoReopening, TickBegan, At, Subsystems, Building, Ticking, Disabling, Ending,
           Ended, Places, Returns
  <2> QED BY <2>1, <2>5
<1>25. CASE HandlerThrows
  <2>1. Flags'
        BY <1>f, <1>25, ZenonT(60) DEF HandlerThrows, Flags
  <2>2. Rest'
        BY <1>f, <1>25 DEF HandlerThrows, Flags, Fields, Reporting, Progress,
           NoReopening, TickBegan, At, Subsystems, Building, Ticking, Disabling, Ending,
           Ended, Places, Returns
  <2> QED BY <2>1, <2>2
<1>26. CASE RequestDisable
  <2>1. Flags'
        BY <1>f, <1>26, ZenonT(60) DEF RequestDisable, Flags
  <2>2. Rest'
        BY <1>f, <1>26 DEF RequestDisable, Flags, Fields, Reporting, Progress,
           NoReopening, TickBegan, At, Subsystems, Building, Ticking, Disabling, Ending,
           Ended, Places, Returns
  <2> QED BY <2>1, <2>2
<1>27. CASE WorkerExits
  <2>1. Flags'
        BY <1>f, <1>27, ZenonT(60) DEF WorkerExits, Flags
  <2>2. Rest'
        BY <1>f, <1>27 DEF WorkerExits, Flags, Fields, Reporting, Progress,
           NoReopening, TickBegan, At, Subsystems, Building, Ticking, Disabling, Ending,
           Ended, Places, Returns
  <2> QED BY <2>1, <2>2
<1>28. CASE Shutdown
  <2>1. Flags'
        BY <1>f, <1>28, ZenonT(60) DEF Shutdown, Goto, Flags
  <2>2. /\ pc = "released" /\ (Goto("unlink") \/ Goto("join"))
        /\ server' = server \/ server' = "closed"
        /\ shutting' => server' # "open"
        /\ ~socket => ~socket'
        /\ UNCHANGED <<state, pending, worker, lines, health, token, sendVars>>
        BY <1>f, <1>28, Zenon DEF Shutdown, Flags, NoReopening
  <2>3. Rest'
        BY <1>f, <2>2 DEF Goto, Flags, Fields, Reporting, Progress,
           NoReopening, TickBegan, At, Subsystems, Building, Ticking, Disabling, Ending,
           Ended, Places, Returns
  <2> QED BY <2>1, <2>3
<1>29. CASE JoinWorkers
  <2>1. Flags'
        BY <1>f, <1>29, ZenonT(60) DEF JoinWorkers, Goto, Flags
  <2>2. Rest'
        BY <1>f, <1>29 DEF JoinWorkers, Goto, Flags, Fields, Reporting, Progress,
           NoReopening, TickBegan, At, Subsystems, Building, Ticking, Disabling, Ending,
           Ended, Places, Returns
  <2> QED BY <2>1, <2>2
<1>30. CASE FinalUnlink
  <2>1. Flags'
        BY <1>f, <1>30, ZenonT(60) DEF FinalUnlink, Goto, Flags
  <2>2. Rest'
        BY <1>f, <1>30 DEF FinalUnlink, Goto, Flags, Fields, Reporting, Progress,
           NoReopening, TickBegan, At, Subsystems, Building, Ticking, Disabling, Ending,
           Ended, Places, Returns
  <2> QED BY <2>1, <2>2
<1>31. CASE DestroyMembers
  <2>1. Flags'
        BY <1>f, <1>31, ZenonT(60) DEF DestroyMembers, Goto, Flags
  <2>2. Rest'
        BY SMTT(30), <1>f, <1>31 DEF DestroyMembers, Goto, Flags, Fields, Reporting, Progress,
           NoReopening, TickBegan, At, Subsystems, Building, Ticking, Disabling, Ending,
           Ended, Places, Returns
  <2> QED BY <2>1, <2>2
<1>32. CASE UNCHANGED vars
      BY <1>f, <1>32 DEF vars, Flags, Fields, Reporting, Progress, NoReopening,
         TickBegan, At
<1> QED
    BY <1>1, <1>2, <1>3, <1>4, <1>5, <1>6, <1>7, <1>8, <1>9, <1>10, <1>11, <1>12, <1>13,
       <1>14, <1>15, <1>16, <1>17, <1>18, <1>19, <1>20, <1>21, <1>22, <1>23, <1>24, <1>25,
       <1>26, <1>27, <1>28, <1>29, <1>30, <1>31, <1>32, Zenon
       DEF Next, Construct, Match, Tick, TransitionToDisabled, Worker, Destructor, Over

-----------------------------------------------------------------------------

\* The inductive invariant holds in every behaviour.
THEOREM HealthInvariant == Spec => []HealthInv
BY InitHealth, StepHealth, PTL DEF Spec

\* TypeOK: the gateway keeps its types in both modes and on both transports.
THEOREM HealthTypeCorrect == Spec => []TypeOK
<1>1. HealthInv => TypeOK
      BY DEF HealthInv
<1> QED BY <1>1, HealthInvariant, PTL

\* OneFaultReported: TransitionToDisabled runs at most once, and the health file
\* names the fault of the one line it logged.
THEOREM FaultReportedOnce == Spec => []OneFaultReported
<1>1. HealthInv => OneFaultReported
  <2> SUFFICES ASSUME HealthInv PROVE OneFaultReported
      OBVIOUS
  <2>1. lines = <<>> \/ \E f \in Subsystems : lines = <<f>>
        BY DEF HealthInv, Reporting
  <2>2. Len(lines) <= 1
    <3>1. CASE lines = <<>>
      <4>1. Len(<<>>) = 0
            OBVIOUS
      <4> QED BY <3>1, <4>1
    <3>2. ASSUME NEW f \in Subsystems, lines = <<f>> PROVE Len(lines) <= 1
      <4>1. Len(<<f>>) = 1
            OBVIOUS
      <4> QED BY <3>2, <4>1
    <3> QED BY <2>1, <3>1, <3>2
  <2>3. state = "Healthy" <=> lines = <<>>
        BY DEF HealthInv, Reporting
  <2> QED BY <2>2, <2>3 DEF HealthInv, Reporting, OneFaultReported
<1> QED BY <1>1, HealthInvariant, PTL

\* ClosedWhenReported: whoever reads a fault in the health file finds no token,
\* no socket and no open server, also when the bind was deferred.
THEOREM ReportedIsClosed == Spec => []ClosedWhenReported
<1>1. HealthInv => ClosedWhenReported
      BY DEF HealthInv, Reporting, Progress, ClosedWhenReported
<1> QED BY <1>1, HealthInvariant, PTL

\* QuietAfterFaultTick: a gateway that left Healthy finishes the tick it is in;
\* the test of every later tick and the guards of the hooks keep it silent.
THEOREM QuietAfterFaultTickAlways == Spec => []QuietAfterFaultTick
<1>1. HealthInv => QuietAfterFaultTick
      BY DEF HealthInv, TickBegan, QuietAfterFaultTick
<1> QED BY <1>1, HealthInvariant, PTL
================================================================================
