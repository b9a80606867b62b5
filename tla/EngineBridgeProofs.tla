--------------------------- MODULE EngineBridgeProofs ---------------------------
(***************************************************************************)
(* For any calls, callers, requests, settings and time to live: no lease   *)
(* outlives its frame but a late grant of the worker, none that stood when *)
(* an action was validated passes to another caller without being asked    *)
(* for, an action is applied at most once and its promise tells what was   *)
(* done, and what Execute decided is audited.                              *)
(***************************************************************************)
EXTENDS EngineBridge, TLAPS

USE Zenon

\* Every entry of a deque is a call that came.
Came(q) == \A i \in 1..Len(q) : req[q[i]] # None

\* Where the threads stand: the worker has a call in hand, the engine an entry.
InHand ==
  /\ wpc # "next" => cur \in Calls /\ req[cur] # None
  /\ epc \in {"apply", "execute", "write"} => batch # <<>>
  /\ Came(adminQ) /\ Came(callbackQ) /\ Came(batch)

\* The worker's frame is not ahead of the clock.
ClockInv == wframe <= frame

\* Between ExpireLeases and the end of the tick every lease has a frame left but
\* the late ones, and no lease carries the 0 that ExpireLeases takes for "never".
FrameLeft ==
  /\ \A k \in Leased : leases[k] # None => leases[k].expires # 0
  /\ epc \in {"expired", "admin", "apply", "execute", "write"} =>
       \A k \in Leased : leases[k] # None /\ k \notin late => leases[k].expires > frame

LeaseInv == TypeOK /\ InHand /\ LeasesAreLive /\ FrameLeft
BridgeInv == LeaseInv /\ ClockInv

\* Validate answers one of its verdicts, whatever the request.
LEMMA ValidateVerdict ==
  ASSUME NEW r, NEW f PROVE Validate(r, f) \in Verdicts
BY DEF Validate, Verdicts, Rejections

\* A request for a leased control is an admin action.
LEMMA LeasedIsAdmin ==
  ASSUME NEW r \in Request, r.kind \in Leased
  PROVE  r \in AdminRequest
<1>1. r \in CallbackRequest => r.kind = "callback"
  BY DEF CallbackRequest
<1> QED
  BY <1>1 DEF Leased, Request

\* Deques lose their head, take an entry that came, and stay deques of calls.
LEMMA DequeOps ==
  ASSUME NEW q \in Seq(Calls), Came(q), NEW c \in Calls
  PROVE  /\ q # <<>> => /\ Head(q) \in Calls /\ req[Head(q)] # None
                        /\ Tail(q) \in Seq(Calls) /\ Came(Tail(q))
         /\ Append(q, c) \in Seq(Calls)
         /\ req[c] # None => Came(Append(q, c))
<1>1. ASSUME q # <<>>
      PROVE  /\ Head(q) \in Calls /\ req[Head(q)] # None
             /\ Tail(q) \in Seq(Calls) /\ Came(Tail(q))
  <2>1. Head(q) = q[1] /\ 1 \in 1..Len(q)
    BY <1>1, SMT
  <2>2. Tail(q) \in Seq(Calls) /\ Len(Tail(q)) = Len(q) - 1
        /\ \A i \in 1..Len(Tail(q)) : Tail(q)[i] = q[i + 1] /\ i + 1 \in 1..Len(q)
    BY <1>1, SMT
  <2> QED
    BY <2>1, <2>2, SMT DEF Came
<1>2. Append(q, c) \in Seq(Calls)
  BY SMT
<1>3. ASSUME req[c] # None PROVE Came(Append(q, c))
  <2>1. \A i \in 1..Len(Append(q, c)) :
          Append(q, c)[i] = c \/ (i \in 1..Len(q) /\ Append(q, c)[i] = q[i])
    BY SMT
  <2> QED
    BY <1>3, <2>1 DEF Came
<1> QED
  BY <1>1, <1>2, <1>3

\* Granting a lease changes this lease only, and keeps the types.
LEMMA GrantKeeps ==
  ASSUME TypeOK, NEW c \in Calls, req[c] # None, NEW f \in Nat, Grant(c, f)
  PROVE  /\ leases' \in [Leased -> Lease \cup {None}]
         /\ audit' \subseteq Calls \X Verdicts
         /\ \A k \in Leased : \/ leases'[k] = leases[k]
                              \/ /\ leases'[k] # None
                                 /\ leases'[k].expires = f + LeaseTtl
                                 /\ leases'[k].owner = req[c].caller
                                 /\ k = req[c].kind
         /\ \A k \in Leased : k = req[c].kind => leases'[k] # None
                                               /\ leases'[k].expires = f + LeaseTtl
<1> DEFINE r == req[c]
           new == [owner |-> r.caller, expires |-> f + LeaseTtl]
<1>1. r \in Request
  BY DEF TypeOK
<1>2. audit' \subseteq Calls \X Verdicts
  <2>1. audit' = audit \cup {<<c, "executed">>} /\ "executed" \in Verdicts
    BY DEF Grant, Audit, Verdicts
  <2>2. <<c, "executed">> \in Calls \X Verdicts /\ audit \subseteq Calls \X Verdicts
    BY <2>1 DEF TypeOK
  <2> QED
    BY <2>1, <2>2
<1>3. CASE r.kind \in Leased
  <2>1. r.caller \in Callers
    BY <1>1, <1>3, LeasedIsAdmin DEF AdminRequest
  <2>2. f + LeaseTtl \in Nat
    BY FramesAssumption, SMT
  <2>3. new \in Lease /\ new # None
    BY <2>1, <2>2, NoneAssumption, SMT DEF Lease
  <2>4. leases' = [leases EXCEPT ![r.kind] = new]
    BY <1>3 DEF Grant
  <2>5. leases' \in [Leased -> Lease \cup {None}]
    BY <2>3, <2>4 DEF TypeOK
  <2>6. \A k \in Leased : leases'[k] = IF k = r.kind THEN new ELSE leases[k]
    BY <2>4 DEF TypeOK
  <2> QED
    BY <1>2, <2>3, <2>5, <2>6, SMT
<1>4. CASE r.kind \notin Leased
  <2>1. leases' = leases
    BY <1>4 DEF Grant
  <2> QED
    BY <1>2, <1>4, <2>1 DEF TypeOK
<1> QED
  BY <1>3, <1>4

\* The engine grants from the frame of the tick: the lease is live and has a
\* frame left.
LEMMA GrantEntryLive ==
  ASSUME LeaseInv, NEW c \in Calls, req[c] # None, Grant(c, frame),
         late' = late \ {req[c].kind}, frame' = frame, epc = "write"
  PROVE  LeasesAreLive' /\ FrameLeft'
<1> USE DEF LeaseInv
<1>1. frame \in Nat
  BY FramesAssumption, SMT DEF TypeOK
<1>0. \A k \in Leased : \/ leases'[k] = leases[k] /\ k # req[c].kind
                        \/ leases'[k].expires = frame + LeaseTtl
  BY <1>1, GrantKeeps
<1>2. \A k \in Leased : \/ leases'[k] = leases[k] /\ (k \in late' <=> k \in late)
                        \/ leases'[k].expires = frame + LeaseTtl
  BY <1>0
<1>3. /\ frame + LeaseTtl <= frame + LeaseTtl /\ frame + LeaseTtl >= frame
      /\ frame + LeaseTtl > frame /\ frame + LeaseTtl # 0
  BY <1>1, FramesAssumption, SMT
<1>4. LeasesAreLive'
  BY <1>2, <1>3 DEF LeasesAreLive
<1>5. FrameLeft'
  BY <1>2, <1>3 DEF FrameLeft
<1> QED
  BY <1>4, <1>5

\* The worker grants from the frame it read: the lease is live and has a frame
\* left, or the clock has moved and the lease is late.
LEMMA GrantRejectedLive ==
  ASSUME LeaseInv, ClockInv, NEW c \in Calls, req[c] # None, Grant(c, wframe),
         late' = IF wframe # frame THEN late \cup (Leased \cap {req[c].kind}) ELSE late,
         frame' = frame, epc' = epc
  PROVE  LeasesAreLive' /\ FrameLeft'
<1> USE DEF LeaseInv
<1>1. frame \in Nat /\ wframe \in Nat /\ wframe <= frame
  BY FramesAssumption, SMT DEF TypeOK, ClockInv
<1>2. \A k \in Leased : \/ leases'[k] = leases[k] /\ (k \in late => k \in late')
                        \/ /\ leases'[k].expires = wframe + LeaseTtl
                           /\ wframe # frame => k \in late'
  BY <1>1, GrantKeeps
<1>3. /\ wframe + LeaseTtl <= frame + LeaseTtl /\ wframe + LeaseTtl # 0
      /\ wframe = frame => wframe + LeaseTtl >= frame /\ wframe + LeaseTtl > frame
  BY <1>1, FramesAssumption, SMT
<1>4. LeasesAreLive'
  BY <1>2, <1>3 DEF LeasesAreLive
<1>5. FrameLeft'
  BY <1>2, <1>3 DEF FrameLeft
<1> QED
  BY <1>4, <1>5

\* Reaching the game keeps the types.
LEMMA ActsTyped ==
  ASSUME TypeOK, NEW c \in Calls, req[c] # None, Acts(c)
  PROVE  applied' \in [Calls -> Nat] /\ paused' \in BOOLEAN
<1>1. req[c] \in Request
  BY DEF TypeOK
<1>2. req[c].kind = "pause" => req[c].on \in BOOLEAN
  BY <1>1, LeasedIsAdmin DEF AdminRequest, Leased
<1>3. paused' \in BOOLEAN
  BY <1>2 DEF Acts, TypeOK
<1>4. applied' \in [Calls -> Nat]
  BY SMT DEF Acts, TypeOK
<1> QED
  BY <1>3, <1>4

\* The empty controller and the empty deques are in order.
LEMMA InitBridge == Init => BridgeInv
<1> SUFFICES ASSUME Init PROVE BridgeInv
  OBVIOUS
<1>1. TypeOK
  <2>1. <<>> \in Seq(Calls) /\ 0 \in 0..MaxFrame /\ 0 \in Nat
    BY FramesAssumption, SMT
  <2>2. /\ req \in [Calls -> Request \cup {None}]
        /\ answer \in [Calls -> Replies \cup {None}]
        /\ promise \in [Calls -> Replies \cup {None}]
        /\ leases \in [Leased -> Lease \cup {None}]
        /\ applied \in [Calls -> Nat]
    BY <2>1 DEF Init
  <2> QED
    BY <2>1, <2>2 DEF Init, TypeOK
<1>2. InHand
  BY SMT DEF Init, InHand, Came
<1>3. LeasesAreLive /\ FrameLeft
  BY DEF Init, LeasesAreLive, FrameLeft
<1>4. ClockInv
  BY SMT DEF Init, ClockInv
<1> QED
  BY <1>1, <1>2, <1>3, <1>4 DEF BridgeInv, LeaseInv

\* The worker reads the clock, which does not go back.
LEMMA ClockStep == TypeOK /\ ClockInv /\ [Next]_vars => ClockInv'
<1> SUFFICES ASSUME TypeOK, ClockInv, [Next]_vars PROVE ClockInv'
  OBVIOUS
<1>1. frame' = frame \/ (frame' = frame + 1 /\ wframe' = wframe)
  BY DEF Next, Worker, Tick, vars, Receive, ValidateAdmin, RejectAdmin, ExecuteRejected,
     GrantRejected, CheckHealthy, Push, Woken, TimeOut, StartTick, AnswerCallback,
     ExpireLeases, SwapAdminQueue, ValidateEntry, Apply, ApplyRefused, ExecuteEntry,
     GrantEntry, EndTick, ApplyThrows, Fault, ResumedElsewhere, workerVars
<1>2. wframe' \in {wframe, frame, 0}
  BY DEF Next, Worker, Tick, vars, Receive, ValidateAdmin, RejectAdmin, ExecuteRejected,
     GrantRejected, CheckHealthy, Push, Woken, TimeOut, StartTick, AnswerCallback,
     ExpireLeases, SwapAdminQueue, ValidateEntry, Apply, ApplyRefused, ExecuteEntry,
     GrantEntry, EndTick, ApplyThrows, Fault, ResumedElsewhere, workerVars, Finish
<1> QED
  BY <1>1, <1>2, SMT DEF TypeOK, ClockInv

\* Every step of the worker, of the engine and of the game keeps LeaseInv.
LEMMA StepLease == LeaseInv /\ ClockInv /\ [Next]_vars => LeaseInv'
<1> SUFFICES ASSUME LeaseInv, ClockInv, [Next]_vars PROVE LeaseInv'
  OBVIOUS
<1> USE DEF LeaseInv
<1>1. ASSUME NEW c \in Calls, NEW r \in Requests[c], Receive(c, r) PROVE LeaseInv'
  <2>0. r \in Request
    BY RequestsAssumption
  <2>1. TypeOK'
    BY <1>1, <2>0 DEF Receive, TypeOK, engineVars, controllerVars
  <2>2. InHand'
    <3>1. r # None /\ \A d \in Calls : req[d] # None => req'[d] # None
      BY <1>1, <2>0, NoneAssumption DEF Receive, TypeOK
    <3>2. ASSUME NEW q \in Seq(Calls), Came(q), q' = q PROVE Came(q)'
      BY <3>1, <3>2, SMT DEF Came
    <3> QED
      BY <1>1, <3>1, <3>2 DEF Receive, TypeOK, InHand, engineVars, controllerVars
  <2>3. LeasesAreLive' /\ FrameLeft'
    BY <1>1 DEF Receive, LeasesAreLive, FrameLeft, engineVars, controllerVars
  <2> QED
    BY <2>1, <2>2, <2>3
<1>2. CASE ExecuteRejected
  <2>1. cur \in Calls /\ Validate(req[cur], wframe) \in Verdicts
    BY <1>2, ValidateVerdict DEF ExecuteRejected, InHand
  <2>2. audit' \subseteq Calls \X Verdicts
    <3>1. audit' \subseteq audit \cup {<<cur, Validate(req[cur], wframe)>>}
      BY <1>2 DEF ExecuteRejected, ExecuteStatus, Audit
    <3>2. <<cur, Validate(req[cur], wframe)>> \in Calls \X Verdicts
      BY <2>1
    <3> QED
      BY <3>1, <3>2 DEF TypeOK
  <2>3. TypeOK'
    <3>1. /\ answer' \in [Calls -> Replies \cup {None}] /\ cur' \in Calls \cup {None}
          /\ wpc' \in {"next", "write"} /\ wframe' \in {wframe, 0}
      BY <1>2, <2>1 DEF ExecuteRejected, ExecuteStatus, Finish, TypeOK, Replies
    <3>2. wframe' \in 0..MaxFrame
      BY <3>1, FramesAssumption, SMT DEF TypeOK
    <3> QED
      BY <1>2, <2>2, <3>1, <3>2 DEF ExecuteRejected, TypeOK, engineVars
  <2>4. InHand'
    BY <1>2 DEF ExecuteRejected, Finish, InHand, Came, engineVars
  <2>5. LeasesAreLive' /\ FrameLeft'
    BY <1>2 DEF ExecuteRejected, LeasesAreLive, FrameLeft, engineVars
  <2> QED
    BY <2>3, <2>4, <2>5
<1>19. CASE ValidateAdmin \/ RejectAdmin
  <2>0. /\ wpc' \in {"dispatch", "rejecting", "execute"} /\ wframe' \in {0, frame}
        /\ wpc # "next"
        /\ UNCHANGED <<cur, req, answer, callbackQ, adminQ, promise, state, frame,
                       leases, audit, raced, late, epc, batch, applied, paused>>
    BY <1>19 DEF ValidateAdmin, RejectAdmin, engineVars, controllerVars
  <2>1. wframe' \in 0..MaxFrame
    BY <2>0, FramesAssumption, SMT DEF TypeOK
  <2>2. TypeOK'
    BY <2>0, <2>1 DEF TypeOK
  <2>3. InHand'
    BY <2>0 DEF InHand, Came
  <2>4. LeasesAreLive' /\ FrameLeft'
    BY <2>0 DEF LeasesAreLive, FrameLeft
  <2> QED
    BY <2>2, <2>3, <2>4
<1>20. CASE GrantRejected
  <2>1. /\ cur \in Calls /\ req[cur] # None /\ Grant(cur, wframe) /\ wframe \in Nat
        /\ 0 \in 0..MaxFrame
    BY <1>20, FramesAssumption, SMT DEF GrantRejected, InHand, TypeOK
  <2>2. TypeOK'
    <3>1. leases' \in [Leased -> Lease \cup {None}] /\ audit' \subseteq Calls \X Verdicts
      BY <2>1, GrantKeeps
    <3>2. raced' \subseteq {"worker", "engine"} /\ late' \subseteq Leased
      BY <1>20 DEF GrantRejected, TypeOK
    <3>3. "executed" \in Replies
      BY DEF Replies, Verdicts
    <3> QED
      BY <1>20, <2>1, <3>1, <3>2, <3>3 DEF GrantRejected, Finish, TypeOK, engineVars
  <2>3. InHand'
    BY <1>20 DEF GrantRejected, Finish, InHand, Came, engineVars
  <2>4. LeasesAreLive' /\ FrameLeft'
    <3>1. /\ late' = IF wframe # frame THEN late \cup (Leased \cap {req[cur].kind}) ELSE late
          /\ frame' = frame /\ epc' = epc
      BY <1>20 DEF GrantRejected, engineVars
    <3> QED
      BY <2>1, <3>1, GrantRejectedLive
  <2> QED
    BY <2>2, <2>3, <2>4
<1>3. CASE CheckHealthy
  <2>0. 0 \in 0..MaxFrame
    BY FramesAssumption, SMT
  <2>1. TypeOK'
    BY <1>3, <2>0 DEF CheckHealthy, Finish, TypeOK, workerVars, engineVars, controllerVars, Replies, Verdicts, Rejections
  <2>2. InHand'
    BY <1>3 DEF CheckHealthy, Finish, TypeOK, InHand, Came, workerVars, engineVars, controllerVars
  <2>3. LeasesAreLive' /\ FrameLeft'
    BY <1>3 DEF CheckHealthy, Finish, LeasesAreLive, FrameLeft, workerVars, engineVars, controllerVars
  <2> QED
    BY <2>1, <2>2, <2>3
<1>4. CASE Push
  <2>1. TypeOK'
    <3>1. cur \in Calls /\ req[cur] # None
      BY <1>4 DEF Push, InHand
    <3>2. adminQ \in Seq(Calls) /\ callbackQ \in Seq(Calls)
      BY DEF TypeOK
    <3>3. Append(adminQ, cur) \in Seq(Calls) /\ Append(callbackQ, cur) \in Seq(Calls)
      BY <3>1, <3>2, SMT
    <3>4. adminQ' \in Seq(Calls) /\ callbackQ' \in Seq(Calls)
      BY <1>4, <3>2, <3>3 DEF Push
    <3> QED
      BY <1>4, <3>4 DEF Push, TypeOK, engineVars, controllerVars
  <2>2. InHand'
    <3>1. cur \in Calls /\ req[cur] # None /\ req' = req /\ cur' = cur
      BY <1>4 DEF Push, InHand
    <3>2. /\ adminQ \in Seq(Calls) /\ callbackQ \in Seq(Calls)
          /\ Came(adminQ) /\ Came(callbackQ) /\ Came(batch)
      BY DEF TypeOK, InHand
    <3>3. Came(Append(adminQ, cur)) /\ Came(Append(callbackQ, cur))
      BY <3>1, <3>2, DequeOps
    <3>4. Came(adminQ') /\ Came(callbackQ') /\ Came(batch')
      BY <1>4, <3>2, <3>3 DEF Push, engineVars, controllerVars
    <3> QED
      BY <1>4, <3>1, <3>4 DEF Push, InHand, Came, engineVars, controllerVars
  <2>3. LeasesAreLive' /\ FrameLeft'
    BY <1>4 DEF Push, LeasesAreLive, FrameLeft, workerVars, engineVars, controllerVars
  <2> QED
    BY <2>1, <2>2, <2>3
<1>5. CASE Woken
  <2>0. 0 \in 0..MaxFrame
    BY FramesAssumption, SMT
  <2>1. TypeOK'
    BY <1>5, <2>0 DEF Woken, Finish, TypeOK, workerVars, engineVars, controllerVars, Replies, Verdicts, Rejections
  <2>2. InHand'
    BY <1>5 DEF Woken, Finish, TypeOK, InHand, Came, workerVars, engineVars, controllerVars
  <2>3. LeasesAreLive' /\ FrameLeft'
    BY <1>5 DEF Woken, Finish, LeasesAreLive, FrameLeft, workerVars, engineVars, controllerVars
  <2> QED
    BY <2>1, <2>2, <2>3
<1>6. CASE TimeOut
  <2>0. 0 \in 0..MaxFrame
    BY FramesAssumption, SMT
  <2>1. TypeOK'
    BY <1>6, <2>0 DEF TimeOut, Finish, TypeOK, workerVars, engineVars, controllerVars, Replies, Verdicts, Rejections
  <2>2. InHand'
    BY <1>6 DEF TimeOut, Finish, TypeOK, InHand, Came, workerVars, engineVars, controllerVars
  <2>3. LeasesAreLive' /\ FrameLeft'
    BY <1>6 DEF TimeOut, Finish, LeasesAreLive, FrameLeft, workerVars, engineVars, controllerVars
  <2> QED
    BY <2>1, <2>2, <2>3
<1>7. CASE StartTick
  <2>1. TypeOK'
    BY <1>7, SMT DEF StartTick, TypeOK, workerVars, engineVars, controllerVars, Replies, Verdicts, Rejections
  <2>2. InHand'
    BY <1>7, SMT DEF StartTick, TypeOK, InHand, Came, workerVars, engineVars, controllerVars
  <2>3. LeasesAreLive' /\ FrameLeft'
    BY <1>7 DEF StartTick, LeasesAreLive, FrameLeft, workerVars, engineVars, controllerVars
  <2> QED
    BY <2>1, <2>2, <2>3
<1>8. CASE AnswerCallback
  <2>1. TypeOK'
    BY <1>8, SMT DEF AnswerCallback, TypeOK, workerVars, engineVars, controllerVars, Replies, Verdicts, Rejections
  <2>2. InHand'
    BY <1>8, SMT DEF AnswerCallback, TypeOK, InHand, Came, workerVars, engineVars, controllerVars
  <2>3. LeasesAreLive' /\ FrameLeft'
    BY <1>8 DEF AnswerCallback, LeasesAreLive, FrameLeft, workerVars, engineVars, controllerVars
  <2> QED
    BY <2>1, <2>2, <2>3
<1>9. CASE SwapAdminQueue
  <2>1. TypeOK'
    BY <1>9, SMT DEF SwapAdminQueue, TypeOK, workerVars, engineVars, controllerVars, Replies, Verdicts, Rejections
  <2>2. InHand'
    BY <1>9, SMT DEF SwapAdminQueue, TypeOK, InHand, Came, workerVars, engineVars, controllerVars
  <2>3. LeasesAreLive' /\ FrameLeft'
    BY <1>9 DEF SwapAdminQueue, LeasesAreLive, FrameLeft, workerVars, engineVars, controllerVars
  <2> QED
    BY <2>1, <2>2, <2>3
<1>10. CASE ValidateEntry
  <2>0. /\ batch # <<>> /\ batch \in Seq(Calls) /\ Came(batch)
        /\ Head(batch) \in Calls /\ Tail(batch) \in Seq(Calls) /\ Came(Tail(batch))
        /\ Validate(req[Head(batch)], frame) \in Replies
    BY <1>10, DequeOps, ValidateVerdict, SMT DEF ValidateEntry, InHand, TypeOK, Replies, Verdicts, Rejections
  <2>1. TypeOK'
    <3>1. /\ batch' \in Seq(Calls) /\ promise' \in [Calls -> Replies \cup {None}]
          /\ epc' \in {"admin", "apply"}
      BY <1>10, <2>0 DEF ValidateEntry, Complete, TypeOK
    <3> QED
      BY <1>10, <3>1 DEF ValidateEntry, TypeOK, workerVars, controllerVars
  <2>2. InHand'
    <3>1. Came(batch') /\ batch' \in {batch, Tail(batch)} /\ (epc' = "apply" => batch' = batch)
          /\ epc' \in {"admin", "apply"}
      BY <1>10, <2>0 DEF ValidateEntry, Complete
    <3> QED
      BY <1>10, <2>0, <3>1 DEF ValidateEntry, InHand, Came, workerVars, controllerVars
  <2>3. LeasesAreLive' /\ FrameLeft'
    BY <1>10 DEF ValidateEntry, Complete, LeasesAreLive, FrameLeft, workerVars, engineVars, controllerVars
  <2> QED
    BY <2>1, <2>2, <2>3
<1>11. CASE Apply
  <2>1. TypeOK'
    <3>1. batch # <<>> /\ batch \in Seq(Calls) /\ Came(batch)
      BY <1>11 DEF Apply, InHand, TypeOK
    <3>2. Head(batch) \in Calls /\ req[Head(batch)] # None
      BY <3>1, DequeOps, SMT
    <3>5. applied' \in [Calls -> Nat] /\ paused' \in BOOLEAN
      BY <1>11, <3>2, ActsTyped DEF Apply
    <3> QED
      BY <1>11, <3>5 DEF Apply, TypeOK, workerVars, controllerVars
  <2>2. InHand'
    BY <1>11 DEF Apply, TypeOK, InHand, Came, workerVars, engineVars, controllerVars
  <2>3. LeasesAreLive' /\ FrameLeft'
    BY <1>11 DEF Apply, Acts, LeasesAreLive, FrameLeft, workerVars, engineVars, controllerVars
  <2> QED
    BY <2>1, <2>2, <2>3
<1>12. CASE ApplyRefused
  <2>0. /\ batch # <<>> /\ batch \in Seq(Calls) /\ Came(batch)
        /\ Head(batch) \in Calls /\ Tail(batch) \in Seq(Calls) /\ Came(Tail(batch))
        /\ req[Head(batch)] # None /\ "not_dispatched" \in Replies
    BY <1>12, DequeOps, SMT DEF ApplyRefused, InHand, TypeOK, Replies, Verdicts
  <2>1. TypeOK'
    <3>1. /\ batch' \in Seq(Calls) /\ promise' \in [Calls -> Replies \cup {None}]
          /\ epc' \in {"admin", "apply"}
      BY <1>12, <2>0 DEF ApplyRefused, Complete, TypeOK
    <3>2. applied' \in [Calls -> Nat] /\ paused' \in BOOLEAN
      BY <1>12, <2>0, ActsTyped DEF ApplyRefused, TypeOK
    <3> QED
      BY <1>12, <3>1, <3>2 DEF ApplyRefused, TypeOK, workerVars, controllerVars
  <2>2. InHand'
    <3>1. Came(batch') /\ epc' = "admin"
      BY <1>12, <2>0 DEF ApplyRefused, Complete
    <3> QED
      BY <1>12, <3>1 DEF ApplyRefused, InHand, Came, workerVars
  <2>3. LeasesAreLive' /\ FrameLeft'
    BY <1>12 DEF ApplyRefused, Complete, LeasesAreLive, FrameLeft, controllerVars
  <2> QED
    BY <2>1, <2>2, <2>3
<1>21. CASE ApplyThrows
  <2>0. batch # <<>> /\ Head(batch) \in Calls /\ req[Head(batch)] # None
    <3>1. batch # <<>> /\ batch \in Seq(Calls) /\ Came(batch)
      BY <1>21 DEF ApplyThrows, InHand, TypeOK
    <3> QED
      BY <3>1, DequeOps, SMT
  <2>1. TypeOK'
    <3>1. applied' \in [Calls -> Nat] /\ paused' \in BOOLEAN
      BY <1>21, <2>0, ActsTyped DEF ApplyThrows, TypeOK
    <3>2. batch' = <<>> /\ <<>> \in Seq(Calls)
      <4>1. <<>> \in Seq(Calls)
        BY SMT
      <4> QED
        BY <1>21, <4>1 DEF ApplyThrows, Disable
    <3> QED
      BY <1>21, <3>1, <3>2 DEF ApplyThrows, Disable, TypeOK, workerVars, controllerVars
  <2>2. InHand'
    <3>1. batch' = <<>> /\ epc' = "frame" /\ UNCHANGED <<wpc, cur, req, adminQ, callbackQ>>
      BY <1>21 DEF ApplyThrows, Disable, workerVars
    <3>2. ASSUME NEW q, q = <<>> PROVE \A i \in 1..Len(q) : FALSE
      BY <3>2, SMT
    <3>3. Came(batch)'
      BY <3>1, <3>2 DEF Came
    <3> QED
      BY <3>1, <3>3 DEF InHand, Came
  <2>3. LeasesAreLive' /\ FrameLeft'
    BY <1>21 DEF ApplyThrows, Disable, LeasesAreLive, FrameLeft, controllerVars
  <2> QED
    BY <2>1, <2>2, <2>3
<1>13. CASE Fault
  <2>1. TypeOK'
    BY <1>13, SMT DEF Fault, Disable, TypeOK, workerVars, engineVars, controllerVars, Replies, Verdicts, Rejections
  <2>2. InHand'
    BY <1>13, SMT DEF Fault, Disable, TypeOK, InHand, Came, workerVars, engineVars, controllerVars
  <2>3. LeasesAreLive' /\ FrameLeft'
    BY <1>13 DEF Fault, Disable, LeasesAreLive, FrameLeft, workerVars, engineVars, controllerVars
  <2> QED
    BY <2>1, <2>2, <2>3
<1>14. CASE ResumedElsewhere
  <2>1. TypeOK'
    BY <1>14 DEF ResumedElsewhere, TypeOK, workerVars, engineVars, controllerVars, Replies, Verdicts, Rejections
  <2>2. InHand'
    BY <1>14 DEF ResumedElsewhere, TypeOK, InHand, Came, workerVars, engineVars, controllerVars
  <2>3. LeasesAreLive' /\ FrameLeft'
    BY <1>14 DEF ResumedElsewhere, LeasesAreLive, FrameLeft, workerVars, engineVars, controllerVars
  <2> QED
    BY <2>1, <2>2, <2>3
<1>15. CASE ExpireLeases
  <2>1. TypeOK'
    BY <1>15 DEF ExpireLeases, Expired, TypeOK, workerVars
  <2>2. InHand'
    BY <1>15 DEF ExpireLeases, InHand, Came, workerVars, controllerVars
  <2>3. \A k \in Leased : /\ leases'[k] # None => leases'[k] = leases[k]
                          /\ leases'[k] # None => /\ leases[k].expires > frame
                                                  /\ leases[k].expires >= frame
    <3>1. \A k \in Leased : leases'[k] = Expired(k)
      BY <1>15 DEF ExpireLeases
    <3>2. \A k \in Leased : leases[k] # None => leases[k].expires \in Nat /\ leases[k].expires # 0
      BY DEF TypeOK, FrameLeft, Lease
    <3>3. ASSUME NEW k \in Leased, leases'[k] # None
          PROVE  /\ leases'[k] = leases[k] /\ leases[k].expires > frame
                 /\ leases[k].expires >= frame
      <4>1. leases'[k] = leases[k] /\ ~(leases[k].expires # 0 /\ leases[k].expires <= frame)
        BY <3>1, <3>3 DEF Expired
      <4>2. frame \in Nat /\ leases[k].expires \in Nat /\ leases[k].expires # 0
        BY <3>2, <3>3, <4>1, SMT DEF TypeOK
      <4> QED
        BY <4>1, <4>2, SMT
    <3> QED
      BY <3>3
  <2>4. frame' = frame
    BY <1>15 DEF ExpireLeases
  <2>5. LeasesAreLive' /\ FrameLeft'
    BY <2>3, <2>4 DEF LeasesAreLive, FrameLeft
  <2> QED
    BY <2>1, <2>2, <2>5
<1>16. CASE ExecuteEntry
  <2>1. /\ batch # <<>> /\ batch \in Seq(Calls) /\ Came(batch)
        /\ Head(batch) \in Calls /\ Tail(batch) \in Seq(Calls) /\ Came(Tail(batch))
    BY <1>16, DequeOps, SMT DEF ExecuteEntry, InHand, TypeOK
  <2>2. /\ ExecuteStatus(Head(batch), frame) \in Verdicts
        /\ ExecuteStatus(Head(batch), frame) \in Replies
    BY ValidateVerdict DEF ExecuteStatus, Replies
  <2>3. audit' \subseteq Calls \X Verdicts
    <3>1. audit' \subseteq audit \cup {<<Head(batch), ExecuteStatus(Head(batch), frame)>>}
      BY <1>16 DEF ExecuteEntry, Audit
    <3>2. <<Head(batch), ExecuteStatus(Head(batch), frame)>> \in Calls \X Verdicts
      BY <2>1, <2>2
    <3> QED
      BY <3>1, <3>2 DEF TypeOK
  <2>4. /\ batch' \in Seq(Calls) /\ promise' \in [Calls -> Replies \cup {None}]
        /\ epc' \in {"admin", "write"} /\ Came(batch') /\ (epc' = "write" => batch' = batch)
    BY <1>16, <2>1, <2>2 DEF ExecuteEntry, Complete, TypeOK
  <2>5. TypeOK'
    BY <1>16, <2>3, <2>4 DEF ExecuteEntry, TypeOK, workerVars
  <2>6. InHand'
    BY <1>16, <2>1, <2>4 DEF ExecuteEntry, InHand, Came, workerVars
  <2>7. LeasesAreLive' /\ FrameLeft'
    BY <1>16, <2>4 DEF ExecuteEntry, LeasesAreLive, FrameLeft
  <2> QED
    BY <2>5, <2>6, <2>7
<1>22. CASE GrantEntry
  <2>1. /\ batch # <<>> /\ batch \in Seq(Calls) /\ Came(batch)
        /\ Head(batch) \in Calls /\ Tail(batch) \in Seq(Calls) /\ Came(Tail(batch))
        /\ req[Head(batch)] # None /\ frame \in Nat
    BY <1>22, DequeOps, SMT DEF GrantEntry, InHand, TypeOK
  <2>2. Grant(Head(batch), frame) /\ epc = "write" /\ frame' = frame
        /\ late' = late \ {req[Head(batch)].kind}
    BY <1>22 DEF GrantEntry
  <2>3. leases' \in [Leased -> Lease \cup {None}] /\ audit' \subseteq Calls \X Verdicts
    BY <2>1, <2>2, GrantKeeps
  <2>4. /\ raced' \subseteq {"worker", "engine"} /\ late' \subseteq Leased
        /\ "executed" \in Replies
    BY <1>22 DEF GrantEntry, TypeOK, Replies, Verdicts
  <2>5. TypeOK'
    BY <1>22, <2>1, <2>3, <2>4 DEF GrantEntry, Complete, TypeOK, workerVars
  <2>6. InHand'
    BY <1>22, <2>1 DEF GrantEntry, Complete, InHand, Came, workerVars
  <2>7. LeasesAreLive' /\ FrameLeft'
    BY <2>1, <2>2, GrantEntryLive
  <2> QED
    BY <2>5, <2>6, <2>7
<1>17. CASE EndTick
  <2>1. TypeOK'
    BY <1>17, FramesAssumption, SMT DEF EndTick, TypeOK, workerVars, controllerVars
  <2>2. InHand'
    BY <1>17 DEF EndTick, InHand, Came, workerVars, controllerVars
  <2>3. frame \in Nat /\ frame' \in Nat /\ frame' >= frame /\ frame' <= frame + 1
        /\ leases' = leases /\ late' = late /\ epc = "admin" /\ epc' = "frame"
    BY <1>17, FramesAssumption, SMT DEF EndTick, TypeOK, controllerVars
  <2>4. LeasesAreLive'
    BY <2>3, FramesAssumption, SMT DEF LeasesAreLive, FrameLeft, TypeOK, Lease
  <2>5. FrameLeft'
    BY <2>3 DEF FrameLeft
  <2> QED
    BY <2>1, <2>2, <2>4, <2>5
<1>18. CASE UNCHANGED vars
  <2>1. TypeOK'
    BY <1>18 DEF vars, workerVars, engineVars, controllerVars, TypeOK
  <2>2. InHand' /\ LeasesAreLive' /\ FrameLeft'
    BY <1>18 DEF vars, workerVars, engineVars, controllerVars, InHand, Came, LeasesAreLive, FrameLeft
  <2> QED
    BY <2>1, <2>2
<1> QED
  BY <1>1, <1>2, <1>3, <1>4, <1>5, <1>6, <1>7, <1>8, <1>9, <1>10, <1>11, <1>12, <1>13, <1>14, <1>15,
     <1>16, <1>17, <1>18, <1>19, <1>20, <1>21, <1>22 DEF Next, Worker, Tick

\* BridgeInv holds in every reachable state.
LEMMA BridgeInvariant == Spec => []BridgeInv
<1>1. BridgeInv /\ [Next]_vars => BridgeInv'
  BY StepLease, ClockStep DEF BridgeInv, LeaseInv
<1> QED
  BY <1>1, InitBridge, PTL DEF Spec

\* Type correctness of the worker, the deques, the controller and the engine.
THEOREM BridgeTypeCorrect == Spec => []TypeOK
BY BridgeInvariant, PTL DEF BridgeInv, LeaseInv

\* ExpireLeases and Execute, on a clock stored at the end of the frame: no lease
\* is kept past the frame it expires in, whatever the time to live, but a late
\* grant of the worker until the next ExpireLeases.
THEOREM LeasesLive == Spec => []LeasesAreLive
BY BridgeInvariant, PTL DEF BridgeInv, LeaseInv

\* A thread that has validated an action and not yet granted its lease finds no
\* lease of another caller, unless the other thread has granted one since.
RaceInv ==
  /\ "worker" \in raced => wpc = "write"
  /\ "engine" \in raced => epc = "write"
  /\ wpc = "write" /\ "worker" \notin raced => ~LeaseConflict(req[cur])
  /\ epc = "write" /\ "engine" \notin raced => ~LeaseConflict(req[Head(batch)])

\* RaceInv of the next state, when nobody grants and no thread passes Validate.
LEMMA RaceQuiet ==
  ASSUME RaceInv, raced' = raced,
         \A k \in Leased : leases'[k] = leases[k] \/ leases'[k] = None,
         wpc' = "write" <=> wpc = "write", epc' = "write" <=> epc = "write",
         wpc = "write" => cur' = cur /\ req'[cur] = req[cur],
         epc = "write" => batch' = batch /\ req'[Head(batch)] = req[Head(batch)]
  PROVE  RaceInv'
BY DEF RaceInv, LeaseConflict

LEMMA RaceStep == LeaseInv /\ RaceInv /\ [Next]_vars => RaceInv'
<1> SUFFICES ASSUME LeaseInv, RaceInv, [Next]_vars PROVE RaceInv'
  OBVIOUS
<1> USE DEF LeaseInv
<1>0. /\ frame \in Nat /\ wframe \in Nat
      /\ wpc # "next" => cur \in Calls /\ req[cur] # None
      /\ epc \in {"apply", "execute", "write"} =>
           batch # <<>> /\ Head(batch) \in Calls /\ req[Head(batch)] # None
  <2>1. frame \in Nat /\ wframe \in Nat
    BY FramesAssumption, SMT DEF TypeOK
  <2>2. batch \in Seq(Calls) /\ Came(batch)
    BY DEF TypeOK, InHand
  <2>3. batch # <<>> => Head(batch) \in Calls /\ req[Head(batch)] # None
    BY <2>2, DequeOps, SMT
  <2> QED
    BY <2>1, <2>3 DEF InHand
<1>1. ASSUME NEW c \in Calls, NEW r \in Requests[c], Receive(c, r) PROVE RaceInv'
  <2>1. /\ wpc = "next" /\ wpc' # "write" /\ req[c] = None /\ req' = [req EXCEPT ![c] = r]
        /\ UNCHANGED <<raced, leases, epc, batch>>
    BY <1>1 DEF Receive, controllerVars, engineVars
  <2>2. epc = "write" => req'[Head(batch)] = req[Head(batch)]
    BY <1>0, <2>1 DEF TypeOK
  <2> QED
    BY <2>1, <2>2, RaceQuiet
<1>2. CASE ValidateAdmin \/ RejectAdmin \/ CheckHealthy \/ Push \/ Woken \/ TimeOut
  <2>1. /\ wpc # "write" /\ wpc' # "write"
        /\ UNCHANGED <<raced, leases, epc, batch, req>>
    BY <1>2 DEF ValidateAdmin, RejectAdmin, CheckHealthy, Push, Woken, TimeOut, Finish,
                controllerVars, engineVars
  <2> QED
    BY <2>1, RaceQuiet
<1>3. CASE ExecuteRejected
  <2>1. wpc = "execute" /\ UNCHANGED <<raced, leases, epc, batch, req>>
    BY <1>3 DEF ExecuteRejected, engineVars
  <2>2. CASE wpc' = "next"
    BY <2>1, <2>2, RaceQuiet
  <2>3. CASE wpc' = "write" /\ cur' = cur /\ ExecuteStatus(cur, wframe) = "accepted"
    <3>1. ~LeaseConflict(req[cur])
      BY <2>3 DEF ExecuteStatus, Validate
    <3>2. ~LeaseConflict(req[cur])' /\ "worker" \notin raced'
      BY <2>1, <2>3, <3>1 DEF LeaseConflict, RaceInv
    <3> QED
      BY <2>1, <2>3, <3>2 DEF RaceInv, LeaseConflict
  <2> QED
    BY <1>3, <2>2, <2>3 DEF ExecuteRejected, Finish
<1>4. CASE GrantRejected
  <2>1. /\ wpc = "write" /\ wpc' = "next" /\ Grant(cur, wframe)
        /\ raced' = IF epc = "write" /\ req[Head(batch)].kind = req[cur].kind
                    THEN {"engine"} ELSE raced \ {"worker"}
        /\ UNCHANGED <<epc, batch, req>>
    BY <1>4 DEF GrantRejected, Finish, engineVars
  <2>2. /\ "worker" \in raced' => wpc' = "write"
        /\ "engine" \in raced' => epc' = "write"
    BY <2>1 DEF RaceInv
  <2>3. epc = "write" /\ "engine" \notin raced'
        => req[Head(batch)].kind # req[cur].kind /\ ~LeaseConflict(req[Head(batch)])
    BY <2>1 DEF RaceInv
  <2>4. epc = "write" /\ "engine" \notin raced' => ~LeaseConflict(req[Head(batch)])'
    <3>1. cur \in Calls /\ req[cur] # None /\ wframe \in Nat
      BY <1>0, <2>1
    <3>2. \A k \in Leased : k # req[cur].kind => leases'[k] = leases[k]
      BY <2>1, <3>1, GrantKeeps
    <3> QED
      BY <2>1, <2>3, <3>2 DEF LeaseConflict
  <2> QED
    BY <2>1, <2>2, <2>4 DEF RaceInv, LeaseConflict
<1>5. CASE ExecuteEntry
  <2>1. epc = "execute" /\ UNCHANGED <<raced, leases, wpc, cur, req>>
    BY <1>5 DEF ExecuteEntry, workerVars
  <2>2. CASE epc' = "admin"
    BY <2>1, <2>2, RaceQuiet
  <2>3. CASE epc' = "write" /\ batch' = batch /\ ExecuteStatus(Head(batch), frame) = "accepted"
    <3>1. ~LeaseConflict(req[Head(batch)])
      BY <2>3 DEF ExecuteStatus, Validate
    <3>2. ~LeaseConflict(req[Head(batch)])' /\ "engine" \notin raced'
      BY <2>1, <2>3, <3>1 DEF LeaseConflict, RaceInv
    <3> QED
      BY <2>1, <2>3, <3>2 DEF RaceInv, LeaseConflict
  <2> QED
    BY <1>5, <2>2, <2>3 DEF ExecuteEntry, Complete
<1>6. CASE GrantEntry
  <2>1. /\ epc = "write" /\ epc' = "admin" /\ Grant(Head(batch), frame)
        /\ raced' = IF wpc = "write" /\ req[cur].kind = req[Head(batch)].kind
                    THEN {"worker"} ELSE raced \ {"engine"}
        /\ UNCHANGED <<wpc, cur, req>>
    BY <1>6 DEF GrantEntry, Complete, workerVars
  <2>2. /\ "worker" \in raced' => wpc' = "write"
        /\ "engine" \in raced' => epc' = "write"
    BY <2>1 DEF RaceInv
  <2>3. wpc = "write" /\ "worker" \notin raced'
        => req[cur].kind # req[Head(batch)].kind /\ ~LeaseConflict(req[cur])
    BY <2>1 DEF RaceInv
  <2>4. wpc = "write" /\ "worker" \notin raced' => ~LeaseConflict(req[cur])'
    <3>1. Head(batch) \in Calls /\ req[Head(batch)] # None /\ frame \in Nat
      BY <1>0, <2>1
    <3>2. \A k \in Leased : k # req[Head(batch)].kind => leases'[k] = leases[k]
      BY <2>1, <3>1, GrantKeeps
    <3> QED
      BY <2>1, <2>3, <3>2 DEF LeaseConflict
  <2> QED
    BY <2>1, <2>2, <2>4 DEF RaceInv, LeaseConflict
<1>7. CASE ExpireLeases
  <2>1. /\ epc = "callbacks" /\ epc' = "expired" /\ UNCHANGED <<raced, wpc, cur, req>>
        /\ \A k \in Leased : leases'[k] = leases[k] \/ leases'[k] = None
    BY <1>7 DEF ExpireLeases, Expired, workerVars
  <2> QED
    BY <2>1, RaceQuiet
<1>8. CASE StartTick \/ AnswerCallback \/ SwapAdminQueue \/ EndTick \/ ApplyThrows \/ Fault
  <2>1. /\ epc # "write" /\ epc' # "write" /\ UNCHANGED <<raced, leases, wpc, cur, req>>
    BY <1>8 DEF StartTick, AnswerCallback, SwapAdminQueue, EndTick, ApplyThrows, Fault, Disable,
                workerVars, controllerVars
  <2> QED
    BY <2>1, RaceQuiet
<1>9. CASE ValidateEntry \/ Apply \/ ApplyRefused
  <2>1. /\ epc # "write" /\ epc' # "write" /\ UNCHANGED <<raced, leases, wpc, cur, req>>
    BY <1>9 DEF ValidateEntry, Apply, ApplyRefused, Complete, workerVars, controllerVars
  <2> QED
    BY <2>1, RaceQuiet
<1>10. CASE ResumedElsewhere \/ UNCHANGED vars
  <2>1. UNCHANGED <<raced, leases, wpc, cur, req, epc, batch>>
    BY <1>10 DEF ResumedElsewhere, vars, workerVars, controllerVars, engineVars
  <2> QED
    BY <2>1, RaceQuiet
<1> QED
  BY <1>1, <1>2, <1>3, <1>4, <1>5, <1>6, <1>7, <1>8, <1>9, <1>10 DEF Next, Worker, Tick

\* RaceInv holds in every reachable state.
LEMMA RaceInvariant == Spec => [](LeaseInv /\ RaceInv)
<1>1. Init => RaceInv
  BY DEF Init, RaceInv
<1>2. BridgeInv => LeaseInv
  BY DEF BridgeInv
<1> QED
  BY <1>1, <1>2, RaceStep, BridgeInvariant, PTL DEF Spec

\* The action in whose step the lease of k changes hands.
Taker(c, k) ==
  /\ \/ /\ wpc = "write" /\ c = cur
        /\ req[c].takeover \/ "worker" \in raced
     \/ /\ epc = "write" /\ c = Head(batch)
        /\ req[c].takeover \/ "engine" \in raced
  /\ req[c].kind = k
  /\ req[c].caller = leases'[k].owner

\* A step that gives a lease to another caller is the grant of one of the threads.
LEMMA OwnerChange ==
  ASSUME LeaseInv, RaceInv, [Next]_vars, NEW k \in Leased, ChangesHands(k)
  PROVE  \E c \in Calls : Taker(c, k)
<1> USE DEF LeaseInv
<1>1. ASSUME NEW c \in Calls, req[c] # None, NEW f \in Nat, Grant(c, f)
      PROVE  /\ req[c].kind = k /\ req[c].caller = leases'[k].owner
             /\ ~LeaseConflict(req[c]) => req[c].takeover
  <2>1. leases'[k].owner = req[c].caller /\ k = req[c].kind
    BY <1>1, GrantKeeps DEF ChangesHands
  <2>2. req[c] \in Request
    BY <1>1 DEF TypeOK
  <2>3. req[c].takeover \in BOOLEAN
    BY <2>1, <2>2, LeasedIsAdmin DEF AdminRequest
  <2>4. leases[k] # None /\ leases[k].owner # req[c].caller
    BY <2>1 DEF ChangesHands
  <2> QED
    BY <2>1, <2>3, <2>4 DEF LeaseConflict
<1>2. CASE GrantRejected
  <2>1. /\ wpc = "write" /\ cur \in Calls /\ req[cur] # None /\ Grant(cur, wframe)
        /\ wframe \in Nat
    BY <1>2, FramesAssumption, SMT DEF GrantRejected, InHand, TypeOK
  <2>2. "worker" \in raced \/ req[cur].takeover
    BY <1>1, <2>1 DEF RaceInv
  <2>3. Taker(cur, k)
    BY <1>1, <2>1, <2>2 DEF Taker
  <2> QED
    BY <2>1, <2>3
<1>3. CASE GrantEntry
  <2>1. /\ epc = "write" /\ batch # <<>> /\ batch \in Seq(Calls) /\ Came(batch)
        /\ Grant(Head(batch), frame) /\ frame \in Nat
    BY <1>3, FramesAssumption, SMT DEF GrantEntry, InHand, TypeOK
  <2>2. Head(batch) \in Calls /\ req[Head(batch)] # None
    BY <2>1, DequeOps, SMT
  <2>3. "engine" \in raced \/ req[Head(batch)].takeover
    BY <1>1, <2>1, <2>2 DEF RaceInv
  <2>4. Taker(Head(batch), k)
    BY <1>1, <2>1, <2>2, <2>3 DEF Taker
  <2> QED
    BY <2>2, <2>4
<1>4. CASE ExpireLeases
  <2>1. leases'[k] = Expired(k)
    BY <1>4 DEF ExpireLeases
  <2> QED
    BY <2>1 DEF Expired, ChangesHands
<1>5. ASSUME ~GrantRejected, ~GrantEntry, ~ExpireLeases PROVE leases' = leases
  BY <1>5 DEF Next, Worker, Tick, vars, Receive, ValidateAdmin, RejectAdmin, ExecuteRejected,
     CheckHealthy, Push, Woken, TimeOut, StartTick, AnswerCallback, SwapAdminQueue,
     ValidateEntry, Apply, ApplyRefused, ExecuteEntry, EndTick, ApplyThrows, Fault,
     ResumedElsewhere, controllerVars
<1> QED
  BY <1>2, <1>3, <1>4, <1>5 DEF ChangesHands

\* AdminController::Execute, on two threads without a lock: a lease that stood
\* when an action was validated changes hands only if the action asks for its
\* release, for any number of calls; what a grant of the other thread in between
\* loses is what the exception of LeaseNotStolen names, and no more.
THEOREM LeasesNotStolen == Spec => LeaseNotStolen
<1>1. LeaseInv /\ RaceInv /\ [Next]_vars
      => [\A k \in Leased : ChangesHands(k) => \E c \in Calls : Taker(c, k)]_vars
  BY OwnerChange
<1>2. LeaseInv /\ RaceInv /\ [Next]_vars
      => [\A k \in Leased :
            ChangesHands(k)
            => \E c \in Calls : /\ \/ /\ wpc = "write" /\ c = cur
                                      /\ req[c].takeover \/ "worker" \in raced
                                   \/ /\ epc = "write" /\ c = Head(batch)
                                      /\ req[c].takeover \/ "engine" \in raced
                                /\ req[c].kind = k
                                /\ req[c].caller = leases'[k].owner]_vars
  BY <1>1 DEF Taker
<1> QED
  BY <1>2, RaceInvariant, PTL DEF Spec, LeaseNotStolen

--------------------------------------------------------------------------------
(* What an admin action did to the game and to the audit log.              *)

\* The entries of a deque, and that none is in it twice.
Mem(q) == {q[i] : i \in 1..Len(q)}
Once(q) == \A i, j \in 1..Len(q) : q[i] = q[j] => i = j

\* Nothing was done for the call; the engine has not heard of it; the engine
\* goes through the admin deque.
Idle(c) == promise[c] = None /\ applied[c] = 0
InHandler == {"validate", "rejecting", "execute", "write", "dispatch", "push"}
Unqueued(c) == req[c] = None \/ (c = cur /\ wpc \in InHandler)
Draining == epc \in {"admin", "apply", "execute", "write"}

\* An admin entry is in one place, once, and untouched until the engine takes it
\* up; the two deques never mix.
PlaceInv ==
  /\ Once(adminQ)
  /\ \A c \in Mem(adminQ) : req[c].kind # "callback" /\ Idle(c)
  /\ \A c \in Mem(callbackQ) : req[c].kind = "callback"
  /\ epc = "callbacks" => \A c \in Mem(batch) : req[c].kind = "callback"
  /\ epc \in {"frame", "expired"} => batch = <<>>
  /\ Draining => /\ Once(batch)
                 /\ \A c \in Mem(batch) :
                      /\ req[c].kind # "callback" /\ c \notin Mem(adminQ) /\ promise[c] = None
                      /\ applied[c] = IF epc \in {"execute", "write"} /\ c = Head(batch) THEN 1 ELSE 0
  /\ \A c \in Calls : Unqueued(c) =>
       Idle(c) /\ c \notin Mem(adminQ) /\ c \notin Mem(callbackQ) /\ c \notin Mem(batch)

AuditInv ==
  /\ AnswersAreAudited
  /\ \A c \in Calls : promise[c] = "executed" => <<c, "executed">> \in audit


\* Deques as sets of their entries.
LEMMA DequeMem ==
  ASSUME NEW q \in Seq(Calls), NEW c \in Calls
  PROVE  /\ Mem(<<>>) = {} /\ Once(<<>>) /\ Mem(q) \subseteq Calls
         /\ q # <<>> => /\ Head(q) \in Mem(q) /\ Mem(Tail(q)) \subseteq Mem(q)
                        /\ Once(q) => Once(Tail(q)) /\ Head(q) \notin Mem(Tail(q))
         /\ Mem(Append(q, c)) = Mem(q) \cup {c}
         /\ Once(q) /\ c \notin Mem(q) => Once(Append(q, c))
<1>1. Mem(<<>>) = {} /\ Once(<<>>) /\ Mem(q) \subseteq Calls
  BY SMT DEF Mem, Once
<1>2. ASSUME q # <<>>
      PROVE  /\ Head(q) \in Mem(q) /\ Mem(Tail(q)) \subseteq Mem(q)
             /\ Once(q) => Once(Tail(q)) /\ Head(q) \notin Mem(Tail(q))
  <2>1. Head(q) = q[1] /\ 1 \in 1..Len(q) /\ Len(q) \in Nat
    BY <1>2, SMT
  <2>2. Tail(q) \in Seq(Calls) /\ Len(Tail(q)) = Len(q) - 1
        /\ \A i \in 1..Len(Tail(q)) : Tail(q)[i] = q[i + 1] /\ i + 1 \in 1..Len(q)
    BY <1>2, SMT
  <2>3. Head(q) \in Mem(q) /\ Mem(Tail(q)) \subseteq Mem(q)
    BY <2>1, <2>2, SMT DEF Mem
  <2>4. ASSUME Once(q), NEW i \in 1..Len(Tail(q)), NEW j \in 1..Len(Tail(q)),
               Tail(q)[i] = Tail(q)[j]
        PROVE  i = j
    <3>1. i + 1 = j + 1
      BY <2>2, <2>4 DEF Once
    <3> QED
      BY <2>1, <2>2, <3>1, SMT
  <2>5. ASSUME Once(q), NEW i \in 1..Len(Tail(q)), Tail(q)[i] = Head(q) PROVE FALSE
    <3>1. i + 1 = 1
      BY <2>1, <2>2, <2>5 DEF Once
    <3> QED
      BY <2>1, <2>2, <3>1, SMT
  <2> QED
    BY <2>3, <2>4, <2>5 DEF Once, Mem
<1>3. /\ Len(Append(q, c)) = Len(q) + 1 /\ Append(q, c)[Len(q) + 1] = c
      /\ \A i \in 1..Len(q) : Append(q, c)[i] = q[i]
      /\ 1..(Len(q) + 1) = 1..Len(q) \cup {Len(q) + 1}
  BY SMT
<1>4. Mem(Append(q, c)) = Mem(q) \cup {c}
  BY <1>3, SMT DEF Mem
<1>5. ASSUME Once(q), c \notin Mem(q) PROVE Once(Append(q, c))
  BY <1>3, <1>5, SMT DEF Once, Mem
<1> QED
  BY <1>1, <1>2, <1>4, <1>5

\* PlaceInv of the next state, with its operators applied to primed variables.
LEMMA PlaceNext ==
  ASSUME Once(adminQ'),
         \A c \in Mem(adminQ') :
           req'[c].kind # "callback" /\ promise'[c] = None /\ applied'[c] = 0,
         \A c \in Mem(callbackQ') : req'[c].kind = "callback",
         epc' = "callbacks" => \A c \in Mem(batch') : req'[c].kind = "callback",
         epc' \in {"frame", "expired"} => batch' = <<>>,
         epc' \in {"admin", "apply", "execute", "write"} =>
           /\ Once(batch')
           /\ \A c \in Mem(batch') :
                /\ req'[c].kind # "callback" /\ c \notin Mem(adminQ') /\ promise'[c] = None
                /\ applied'[c] = IF epc' \in {"execute", "write"} /\ c = Head(batch') THEN 1 ELSE 0,
         \A c \in Calls :
           req'[c] = None \/ (c = cur' /\ wpc' \in InHandler) =>
             /\ promise'[c] = None /\ applied'[c] = 0
             /\ c \notin Mem(adminQ') /\ c \notin Mem(callbackQ') /\ c \notin Mem(batch')
  PROVE  PlaceInv'
BY DEF PlaceInv, Mem, Once, Idle, Unqueued, Draining

\* The same for the current state.
LEMMA PlaceNow ==
  ASSUME PlaceInv
  PROVE  /\ Once(adminQ)
         /\ \A c \in Mem(adminQ) :
              req[c].kind # "callback" /\ promise[c] = None /\ applied[c] = 0
         /\ \A c \in Mem(callbackQ) : req[c].kind = "callback"
         /\ epc = "callbacks" => \A c \in Mem(batch) : req[c].kind = "callback"
         /\ epc \in {"frame", "expired"} => batch = <<>>
         /\ epc \in {"admin", "apply", "execute", "write"} =>
              /\ Once(batch)
              /\ \A c \in Mem(batch) :
                   /\ req[c].kind # "callback" /\ c \notin Mem(adminQ) /\ promise[c] = None
                   /\ applied[c] = IF epc \in {"execute", "write"} /\ c = Head(batch) THEN 1 ELSE 0
         /\ \A c \in Calls :
              req[c] = None \/ (c = cur /\ wpc \in InHandler) =>
                /\ promise[c] = None /\ applied[c] = 0
                /\ c \notin Mem(adminQ) /\ c \notin Mem(callbackQ) /\ c \notin Mem(batch)
BY DEF PlaceInv, Idle, Unqueued, Draining

\* Completing the entry in hand, applied or not, leaves the others where they are.
LEMMA CompletePlace ==
  ASSUME TypeOK, PlaceInv, epc \in {"admin", "apply", "execute", "write"}, batch # <<>>,
         NEW st, Complete(Head(batch), st),
         \A c \in Calls : c # Head(batch) => applied'[c] = applied[c],
         UNCHANGED <<adminQ, callbackQ, req, cur, wpc>>
  PROVE  PlaceInv'
<1> DEFINE h == Head(batch)
<1>1. /\ h \in Calls /\ h \in Mem(batch) /\ Mem(Tail(batch)) \subseteq Mem(batch)
      /\ Once(Tail(batch)) /\ h \notin Mem(Tail(batch)) /\ h \notin Mem(adminQ)
  <2>1. batch \in Seq(Calls)
    BY DEF TypeOK
  <2> QED
    BY <2>1, DequeMem, PlaceNow, SMT
<1>2. /\ epc' = "admin" /\ batch' = Tail(batch)
      /\ \A c \in Calls : c # h => promise'[c] = promise[c]
  BY <1>1 DEF Complete, TypeOK
<1>3. Mem(adminQ) \subseteq Calls /\ Mem(batch) \subseteq Calls
  BY DequeMem, SMT DEF TypeOK
<1> HIDE DEF h
<1>4. \A c \in Mem(Tail(batch)) :
        /\ req[c].kind # "callback" /\ c \notin Mem(adminQ) /\ promise'[c] = None
        /\ applied'[c] = 0
  BY <1>1, <1>2, <1>3, PlaceNow DEF h
<1>5. \A c \in Mem(adminQ) : promise'[c] = None /\ applied'[c] = 0
  BY <1>1, <1>2, <1>3, PlaceNow DEF h
<1>6. \A c \in Calls : req[c] = None \/ (c = cur /\ wpc \in InHandler)
        => promise'[c] = None /\ applied'[c] = 0 /\ c \notin Mem(Tail(batch))
  BY <1>1, <1>2, PlaceNow DEF h
<1> QED
  BY <1>1, <1>2, <1>4, <1>5, <1>6, PlaceNow, PlaceNext

\* Every step of either thread keeps the entries in their places.
LEMMA PlaceStep ==
  ASSUME TypeOK, InHand, PlaceInv, [Next]_vars
  PROVE  PlaceInv'
<1>0. /\ adminQ \in Seq(Calls) /\ callbackQ \in Seq(Calls) /\ batch \in Seq(Calls)
      /\ req \in [Calls -> Request \cup {None}]
      /\ promise \in [Calls -> Replies \cup {None}] /\ applied \in [Calls -> Nat]
  BY DEF TypeOK
<1>1. /\ Mem(<<>>) = {} /\ Once(<<>>) /\ Mem(adminQ) \subseteq Calls
      /\ Mem(callbackQ) \subseteq Calls /\ Mem(batch) \subseteq Calls
  <2>1. \A q \in Seq(Calls) : Mem(q) \subseteq Calls
    BY SMT DEF Mem
  <2>2. Mem(<<>>) = {} /\ Once(<<>>)
    BY SMT DEF Mem, Once
  <2> QED
    BY <1>0, <2>1, <2>2
<1>2. ASSUME UNCHANGED <<promise, applied, adminQ, callbackQ, batch, epc, req>>,
             wpc' = "next" \/ (cur' = cur /\ wpc \in InHandler)
      PROVE  PlaceInv'
  <2>1. \A c \in Calls :
          req'[c] = None \/ (c = cur' /\ wpc' \in InHandler) =>
          req[c] = None \/ (c = cur /\ wpc \in InHandler)
    BY <1>2 DEF InHandler
  <2> QED
    BY <1>2, <2>1, PlaceNow, PlaceNext
<1>3. CASE CheckHealthy \/ Woken \/ TimeOut \/ ValidateAdmin \/ RejectAdmin
  BY <1>2, <1>3 DEF CheckHealthy, Woken, TimeOut, ValidateAdmin, RejectAdmin, Finish, InHandler,
                    engineVars
<1>16. CASE ExecuteRejected \/ GrantRejected
  BY <1>2, <1>16 DEF ExecuteRejected, GrantRejected, Finish, InHandler, engineVars
<1>4. ASSUME batch' = <<>>, epc' \in {"frame", "expired"},
             UNCHANGED <<promise, applied, adminQ, callbackQ, req, cur, wpc>>
      PROVE  PlaceInv'
  BY <1>1, <1>4, PlaceNow, PlaceNext
<1>5. CASE ExpireLeases \/ EndTick \/ Fault
  BY <1>4, <1>5 DEF ExpireLeases, EndTick, Fault, Disable, workerVars
<1>6. CASE ResumedElsewhere \/ UNCHANGED vars
  <2>1. UNCHANGED <<promise, applied, adminQ, callbackQ, batch, epc, req, cur, wpc>>
    BY <1>6 DEF ResumedElsewhere, vars, workerVars, engineVars, controllerVars
  <2> QED
    BY <2>1, PlaceNow, PlaceNext
<1>7. ASSUME NEW c \in Calls, NEW r \in Requests[c], Receive(c, r) PROVE PlaceInv'
  <2>1. /\ req[c] = None /\ req' = [req EXCEPT ![c] = r] /\ cur' = c
        /\ UNCHANGED <<promise, applied, adminQ, callbackQ, batch, epc>>
    BY <1>7 DEF Receive, engineVars, controllerVars
  <2>2. /\ c \notin Mem(adminQ) /\ c \notin Mem(callbackQ) /\ c \notin Mem(batch)
        /\ promise[c] = None /\ applied[c] = 0
    BY <2>1, PlaceNow
  <2>3. \A d \in Calls : d # c => req'[d] = req[d]
    BY <1>0, <2>1
  <2> QED
    BY <1>1, <2>1, <2>2, <2>3, PlaceNow, PlaceNext
<1>8. CASE Push
  <2>1. /\ wpc = "push" /\ wpc' = "waiting" /\ cur \in Calls
        /\ UNCHANGED <<cur, req, promise, applied, batch, epc>>
    BY <1>8 DEF Push, InHand, engineVars, controllerVars
  <2>2. /\ cur \notin Mem(adminQ) /\ cur \notin Mem(callbackQ) /\ cur \notin Mem(batch)
        /\ promise[cur] = None /\ applied[cur] = 0 /\ req[cur] # None /\ wpc' \notin InHandler
    BY <2>1, PlaceNow DEF InHand, InHandler
  <2>3. CASE req[cur].kind = "callback"
    <3>1. adminQ' = adminQ /\ callbackQ' = Append(callbackQ, cur)
      BY <1>8, <2>3 DEF Push
    <3>2. Mem(callbackQ') = Mem(callbackQ) \cup {cur}
      BY <1>0, <2>1, <3>1, DequeMem
    <3>3. \A c \in Mem(callbackQ') : req'[c].kind = "callback"
      BY <2>1, <2>3, <3>2, PlaceNow
    <3>4. \A c \in Calls :
            req'[c] = None \/ (c = cur' /\ wpc' \in InHandler) =>
              /\ promise'[c] = None /\ applied'[c] = 0
              /\ c \notin Mem(adminQ') /\ c \notin Mem(callbackQ') /\ c \notin Mem(batch')
      BY <2>1, <2>2, <3>1, <3>2, PlaceNow
    <3> QED
      BY <2>1, <3>1, <3>3, <3>4, PlaceNow, PlaceNext
  <2>4. CASE req[cur].kind # "callback"
    <3>1. callbackQ' = callbackQ /\ adminQ' = Append(adminQ, cur)
      BY <1>8, <2>4 DEF Push
    <3>2. Mem(adminQ') = Mem(adminQ) \cup {cur} /\ Once(adminQ')
      BY <1>0, <2>1, <2>2, <3>1, DequeMem, PlaceNow
    <3> QED
      BY <2>1, <2>2, <2>4, <3>1, <3>2, PlaceNow, PlaceNext
  <2> QED
    BY <2>3, <2>4
<1>9. CASE StartTick
  <2>1. /\ epc = "frame" /\ epc' = "callbacks" /\ batch' = callbackQ /\ callbackQ' = <<>>
        /\ UNCHANGED <<cur, wpc, req, promise, applied, adminQ>>
    BY <1>9 DEF StartTick, workerVars, controllerVars
  <2> QED
    BY <1>1, <2>1, PlaceNow, PlaceNext
<1>10. CASE SwapAdminQueue
  <2>1. /\ epc = "expired" /\ epc' = "admin" /\ batch' = adminQ /\ adminQ' = <<>>
        /\ UNCHANGED <<cur, wpc, req, promise, applied, callbackQ>>
    BY <1>10 DEF SwapAdminQueue, workerVars, controllerVars
  <2> QED
    BY <1>1, <2>1, PlaceNow, PlaceNext
<1>11. CASE AnswerCallback
  <2> DEFINE h == Head(batch)
  <2>1. /\ epc = "callbacks" /\ batch # <<>> /\ epc' = epc /\ batch' = Tail(batch)
        /\ UNCHANGED <<cur, wpc, req, applied, adminQ, callbackQ>>
    BY <1>11 DEF AnswerCallback, workerVars, controllerVars
  <2>2. h \in Mem(batch) /\ Mem(batch') \subseteq Mem(batch)
    BY <1>0, <2>1, DequeMem, SMT
  <2>3. \A c \in Calls : c # h => promise'[c] = promise[c]
    BY <1>0, <1>1, <1>11, <2>2 DEF AnswerCallback
  <2>4. req[h].kind = "callback"
    BY <2>1, <2>2, PlaceNow
  <2> HIDE DEF h
  <2>5. \A c \in Mem(adminQ) : promise'[c] = None
    BY <1>1, <2>3, <2>4, PlaceNow
  <2> QED
    BY <2>1, <2>2, <2>3, <2>4, <2>5, PlaceNow, PlaceNext
<1>12. CASE ValidateEntry
  <2>1. /\ epc = "admin" /\ batch # <<>>
        /\ UNCHANGED <<cur, wpc, req, applied, adminQ, callbackQ>>
    BY <1>12 DEF ValidateEntry, workerVars, controllerVars
  <2>2. CASE epc' = "apply" /\ UNCHANGED <<promise, batch>>
    <3>1. \A c \in Mem(batch) : applied[c] = 0
      BY <2>1, PlaceNow
    <3> QED
      BY <2>1, <2>2, <3>1, PlaceNow, PlaceNext
  <2>3. CASE Complete(Head(batch), Validate(req[Head(batch)], frame))
    BY <2>1, <2>3, CompletePlace
  <2> QED
    BY <1>12, <2>2, <2>3 DEF ValidateEntry
<1>13. CASE ApplyRefused
  <2>1. /\ epc = "apply" /\ batch # <<>> /\ Complete(Head(batch), "not_dispatched")
        /\ UNCHANGED <<cur, wpc, req, adminQ, callbackQ>>
    BY <1>13 DEF ApplyRefused, workerVars, InHand
  <2>2. \A c \in Calls : c # Head(batch) => applied'[c] = applied[c]
    BY <1>0, <1>13 DEF ApplyRefused, Acts
  <2> QED
    BY <2>1, <2>2, CompletePlace
<1>14. CASE ExecuteEntry
  <2>1. /\ epc = "execute" /\ batch # <<>>
        /\ UNCHANGED <<cur, wpc, req, applied, adminQ, callbackQ>>
    BY <1>14 DEF ExecuteEntry, workerVars, InHand
  <2>2. CASE epc' = "write" /\ UNCHANGED <<promise, batch>>
    BY <2>1, <2>2, PlaceNow, PlaceNext
  <2>3. CASE Complete(Head(batch), ExecuteStatus(Head(batch), frame))
    BY <2>1, <2>3, CompletePlace
  <2> QED
    BY <1>14, <2>2, <2>3 DEF ExecuteEntry
<1>17. CASE GrantEntry
  <2>1. /\ epc = "write" /\ batch # <<>> /\ Complete(Head(batch), "executed")
        /\ UNCHANGED <<cur, wpc, req, applied, adminQ, callbackQ>>
    BY <1>17 DEF GrantEntry, workerVars, InHand
  <2> QED
    BY <2>1, CompletePlace
<1>18. CASE ApplyThrows
  <2> DEFINE h == Head(batch)
  <2>1. /\ epc = "apply" /\ batch # <<>> /\ epc' = "frame" /\ batch' = <<>>
        /\ UNCHANGED <<cur, wpc, req, promise, adminQ, callbackQ>>
    BY <1>18 DEF ApplyThrows, Disable, workerVars, InHand
  <2>2. h \in Mem(batch) /\ h \in Calls
    BY <1>0, <1>1, <2>1, DequeMem, SMT
  <2>3. \A c \in Calls : c # h => applied'[c] = applied[c]
    BY <1>0, <1>18 DEF ApplyThrows, Acts
  <2>4. h \notin Mem(adminQ)
    BY <2>1, <2>2, PlaceNow
  <2> HIDE DEF h
  <2>5. \A c \in Mem(adminQ) : applied'[c] = 0
    BY <1>1, <2>3, <2>4, PlaceNow
  <2>6. \A c \in Calls : req[c] = None \/ (c = cur /\ wpc \in InHandler) => applied'[c] = 0
    BY <2>2, <2>3, PlaceNow
  <2> QED
    BY <1>1, <2>1, <2>5, <2>6, PlaceNow, PlaceNext
<1>15. CASE Apply
  <2> DEFINE h == Head(batch)
  <2>1. /\ epc = "apply" /\ batch # <<>> /\ epc' = "execute"
        /\ applied' = [applied EXCEPT ![h] = applied[h] + 1]
        /\ UNCHANGED <<cur, wpc, req, promise, adminQ, callbackQ, batch>>
    BY <1>15 DEF Apply, Acts, workerVars, InHand
  <2>2. h \in Mem(batch) /\ h \in Calls
    BY <1>0, <1>1, <2>1, DequeMem, SMT
  <2>3. applied[h] = 0 /\ h \notin Mem(adminQ)
    BY <2>1, <2>2, PlaceNow
  <2>4. applied'[h] = 1 /\ \A c \in Calls : c # h => applied'[c] = applied[c]
    BY <1>0, <2>1, <2>2, <2>3, SMT
  <2>5. \A c \in Mem(batch) : applied'[c] = IF epc' \in {"execute", "write"} /\ c = Head(batch') THEN 1 ELSE 0
    BY <1>1, <2>1, <2>4, PlaceNow
  <2> HIDE DEF h
  <2>6. \A c \in Mem(adminQ) : applied'[c] = 0
    BY <1>1, <2>3, <2>4, PlaceNow
  <2>7. \A c \in Calls : req[c] = None \/ (c = cur /\ wpc \in InHandler)
          => applied'[c] = 0
    BY <2>2, <2>4, PlaceNow
  <2> QED
    BY <2>1, <2>5, <2>6, <2>7, PlaceNow, PlaceNext
<1> QED
  BY <1>3, <1>5, <1>6, <1>7, <1>8, <1>9, <1>10, <1>11, <1>12, <1>13, <1>14, <1>15, <1>16, <1>17,
     <1>18 DEF Next, Worker, Tick

\* Validate answers with a rejection or lets pass.
LEMMA StatusRange ==
  ASSUME NEW r, NEW f, Validate(r, f) # "accepted"
  PROVE  /\ Validate(r, f) \in Rejections
         /\ Validate(r, f) \notin {None, "executed", "not_dispatched"}
<1>1. Validate(r, f) \in Rejections
  BY DEF Validate, Rejections
<1>2. \A x \in Rejections : x \notin {None, "executed", "not_dispatched"}
  BY NoneAssumption DEF Rejections, Replies, Verdicts
<1> QED
  BY <1>1, <1>2

\* The tests of Validate that do not look at the leases.
Passes(r, f) ==
  /\ r.privileged /\ Enabled
  /\ ~(r.kind = "cheat_policy" /\ ~CheatsAllowed)
  /\ ~(r.kind = "unit_transfer" /\ ~TransferEnabled)
  /\ r.sound
  /\ ~(r.basis # 0 /\ r.basis + StaleAfter < f)

LEMMA PassesVerdict ==
  ASSUME NEW r, NEW f
  PROVE  /\ Passes(r, f) <=> Validate(r, f) \in {"accepted", "conflict"}
BY DEF Passes, Validate

\* Between its two validations on the engine thread the entry in hand can only
\* come to conflict with a lease.
PassInv == epc \in {"apply", "execute"} => Passes(req[Head(batch)], frame)

LEMMA PassStep ==
  ASSUME TypeOK, InHand, PassInv, [Next]_vars
  PROVE  PassInv'
<1>1. ASSUME epc' = epc, UNCHANGED <<frame, batch>>,
             epc \in {"apply", "execute"} => req'[Head(batch)] = req[Head(batch)]
      PROVE  PassInv'
  BY <1>1 DEF PassInv, Passes
<1>2. ASSUME NEW c \in Calls, NEW r \in Requests[c], Receive(c, r) PROVE PassInv'
  <2>1. req[c] = None /\ req' = [req EXCEPT ![c] = r] /\ UNCHANGED <<frame, batch, epc>>
    BY <1>2 DEF Receive, engineVars
  <2>2. ASSUME epc \in {"apply", "execute"} PROVE req'[Head(batch)] = req[Head(batch)]
    <3>1. batch # <<>> /\ batch \in Seq(Calls) /\ Came(batch)
      BY <2>2 DEF InHand, TypeOK
    <3>2. Head(batch) \in Calls /\ req[Head(batch)] # None
      BY <3>1, DequeOps, SMT
    <3> QED
      BY <2>1, <3>2 DEF TypeOK
  <2> QED
    BY <1>1, <2>1, <2>2
<1>3. CASE ValidateAdmin \/ RejectAdmin \/ ExecuteRejected \/ GrantRejected \/ CheckHealthy
           \/ Push \/ Woken \/ TimeOut \/ ResumedElsewhere \/ UNCHANGED vars
  <2>1. UNCHANGED <<epc, frame, batch, req>>
    BY <1>3 DEF ValidateAdmin, RejectAdmin, ExecuteRejected, GrantRejected, CheckHealthy, Push,
                Woken, TimeOut, ResumedElsewhere, vars, workerVars, engineVars
  <2> QED
    BY <1>1, <2>1
<1>4. CASE StartTick \/ AnswerCallback \/ ExpireLeases \/ SwapAdminQueue \/ ApplyRefused
           \/ ExecuteEntry \/ GrantEntry \/ EndTick \/ ApplyThrows \/ Fault
  <2>1. epc' \notin {"apply", "execute"}
    BY <1>4 DEF StartTick, AnswerCallback, ExpireLeases, SwapAdminQueue, ApplyRefused, Complete,
                ExecuteEntry, GrantEntry, EndTick, ApplyThrows, Fault, Disable
  <2> QED
    BY <2>1 DEF PassInv
<1>5. CASE ValidateEntry
  <2>1. UNCHANGED <<frame, req>>
    BY <1>5 DEF ValidateEntry, workerVars
  <2>2. CASE epc' = "admin"
    BY <2>2 DEF PassInv
  <2>3. CASE Validate(req[Head(batch)], frame) = "accepted" /\ batch' = batch
    <3>1. Passes(req[Head(batch)], frame)
      BY <2>3, PassesVerdict
    <3> QED
      BY <2>1, <2>3, <3>1 DEF PassInv, Passes
  <2> QED
    BY <1>5, <2>2, <2>3 DEF ValidateEntry, Complete
<1>6. CASE Apply
  <2>1. UNCHANGED <<frame, batch, req>> /\ epc = "apply"
    BY <1>6 DEF Apply, workerVars
  <2> QED
    BY <2>1 DEF PassInv, Passes
<1> QED
  BY <1>2, <1>3, <1>4, <1>5, <1>6 DEF Next, Worker, Tick

\* The entry in hand, and what was done for it so far.
LEMMA EntryInHand ==
  ASSUME TypeOK, PlaceInv, epc \in {"admin", "apply", "execute", "write"}, batch # <<>>
  PROVE  /\ Head(batch) \in Calls /\ promise[Head(batch)] = None
         /\ applied[Head(batch)] = IF epc \in {"execute", "write"} THEN 1 ELSE 0
<1>1. Head(batch) \in Mem(batch) /\ Head(batch) \in Calls
  BY DequeMem, SMT DEF TypeOK
<1> QED
  BY <1>1, PlaceNow

\* What an entry is completed with is true of the game.
LEMMA EffectStep ==
  ASSUME TypeOK, InHand, PlaceInv, PassInv, PromiseTellsEffect, [Next]_vars
  PROVE  PromiseTellsEffect'
<1> DEFINE h == Head(batch)
           Fits(st, n, r) == /\ n <= 1
                             /\ st = "executed" => n = 1
                             /\ st = "not_dispatched" /\ r.kind \notin HalfDone => n = 0
                             /\ st \in Rejections \ {"conflict"} => n = 0
<1>0. /\ promise \in [Calls -> Replies \cup {None}] /\ applied \in [Calls -> Nat]
      /\ req \in [Calls -> Request \cup {None}]
      /\ None \notin {"executed", "not_dispatched"} /\ None \notin Rejections
  BY NoneAssumption DEF TypeOK, Replies, Verdicts
<1>1. \A c \in Calls : Fits(promise[c], applied[c], req[c])
  BY DEF PromiseTellsEffect
<1>2. ASSUME \A c \in Calls : Fits(promise'[c], applied'[c], req'[c]) PROVE PromiseTellsEffect'
  BY <1>2 DEF PromiseTellsEffect
<1>3. ASSUME UNCHANGED <<promise, applied, req>> PROVE PromiseTellsEffect'
  BY <1>1, <1>2, <1>3
<1>4. ASSUME NEW st, Complete(h, st), h \in Calls, UNCHANGED req,
             \A c \in Calls : c # h => applied'[c] = applied[c],
             Fits(st, applied'[h], req[h])
      PROVE  PromiseTellsEffect'
  <2>1. \A c \in Calls : promise'[c] = IF c = h THEN st ELSE promise[c]
    BY <1>0, <1>4 DEF Complete
  <2> HIDE DEF h, Fits
  <2> QED
    BY <1>1, <1>2, <1>4, <2>1
<1>5. ASSUME h \in Calls, applied[h] = 0, promise[h] = None, Acts(h)
      PROVE  applied'[h] = 1 /\ \A c \in Calls : c # h => applied'[c] = applied[c]
  BY <1>0, <1>5, SMT DEF Acts
<1>6. CASE AnswerCallback
  <2>1. batch # <<>> /\ batch \in Seq(Calls) /\ UNCHANGED <<applied, req>>
    BY <1>6 DEF AnswerCallback, TypeOK, workerVars
  <2>2. h \in Calls
    BY <2>1, SMT
  <2>3. PICK st \in {"ok", "internal", "failure"} : promise' = [promise EXCEPT ![h] = st]
    BY <1>6 DEF AnswerCallback
  <2>4. \A c \in Calls : promise'[c] = promise[c] \/ promise'[c] \in {"ok", "internal", "failure"}
    BY <1>0, <2>2, <2>3
  <2>5. \A x \in {"ok", "internal", "failure"} :
          x \notin Rejections /\ x # "executed" /\ x # "not_dispatched"
    BY DEF Rejections
  <2> QED
    BY <1>1, <1>2, <2>1, <2>4, <2>5
<1>7. CASE ValidateEntry
  <2>1. epc = "admin" /\ batch # <<>> /\ UNCHANGED <<applied, req>>
    BY <1>7 DEF ValidateEntry, workerVars
  <2>2. CASE UNCHANGED promise
    BY <1>3, <2>1, <2>2
  <2>3. CASE Validate(req[h], frame) # "accepted" /\ Complete(h, Validate(req[h], frame))
    <3>1. /\ Validate(req[h], frame) \notin {"executed", "not_dispatched"}
          /\ h \in Calls /\ applied'[h] = 0
      BY <2>1, <2>3, StatusRange, EntryInHand
    <3>2. 0 <= 1
      BY SMT
    <3>3. Fits(Validate(req[h], frame), applied'[h], req[h])
      BY <3>1, <3>2
    <3> HIDE DEF Fits
    <3> QED
      BY <1>4, <2>1, <2>3, <3>1, <3>3
  <2> QED
    BY <1>7, <2>2, <2>3 DEF ValidateEntry
<1>8. CASE ApplyRefused
  <2>1. /\ epc = "apply" /\ batch # <<>> /\ UNCHANGED req /\ Complete(h, "not_dispatched")
        /\ UNCHANGED applied \/ (req[h].kind \in HalfDone /\ Acts(h))
    BY <1>8 DEF ApplyRefused, InHand, workerVars
  <2>2. applied[h] = 0 /\ h \in Calls /\ promise[h] = None
    BY <2>1, EntryInHand
  <2>3. /\ \A c \in Calls : c # h => applied'[c] = applied[c]
        /\ applied'[h] = 0 \/ (req[h].kind \in HalfDone /\ applied'[h] = 1)
    BY <1>5, <2>1, <2>2
  <2>4. 0 <= 1 /\ 1 <= 1 /\ "not_dispatched" \notin Rejections
    BY SMT DEF Rejections
  <2>5. Fits("not_dispatched", applied'[h], req[h])
    BY <2>3, <2>4
  <2> HIDE DEF Fits
  <2> QED
    BY <1>4, <2>1, <2>2, <2>3, <2>5
<1>9. CASE ExecuteEntry
  <2> DEFINE st == ExecuteStatus(h, frame)
  <2>1. epc = "execute" /\ batch # <<>> /\ UNCHANGED <<applied, req>>
    BY <1>9 DEF ExecuteEntry, InHand, workerVars
  <2>2. CASE UNCHANGED promise
    BY <1>3, <2>1, <2>2
  <2>3. CASE st # "accepted" /\ Complete(h, st)
    <3>1. applied[h] = 1 /\ h \in Calls
      BY <2>1, EntryInHand
    <3>2. st \in {"accepted", "conflict"}
      BY <2>1, PassesVerdict DEF PassInv, ExecuteStatus
    <3>3. st = "conflict"
      BY <2>3, <3>2
    <3>4. 1 <= 1
      BY SMT
    <3>5. Fits("conflict", applied'[h], req[h])
      BY <2>1, <3>1, <3>4
    <3> HIDE DEF Fits, st
    <3> QED
      BY <1>4, <2>1, <2>3, <3>1, <3>3, <3>5
  <2> QED
    BY <1>9, <2>2, <2>3 DEF ExecuteEntry
<1>10. CASE GrantEntry
  <2>1. epc = "write" /\ batch # <<>> /\ UNCHANGED <<applied, req>> /\ Complete(h, "executed")
    BY <1>10 DEF GrantEntry, InHand, workerVars
  <2>2. applied'[h] = 1 /\ h \in Calls
    BY <2>1, EntryInHand
  <2>3. 1 <= 1 /\ "executed" \notin Rejections
    BY SMT DEF Rejections
  <2>4. Fits("executed", applied'[h], req[h])
    BY <2>2, <2>3
  <2> HIDE DEF Fits
  <2> QED
    BY <1>4, <2>1, <2>2, <2>4
<1>11. CASE Apply \/ ApplyThrows
  <2>1. /\ epc = "apply" /\ batch # <<>> /\ UNCHANGED <<promise, req>>
        /\ UNCHANGED applied \/ Acts(h)
    BY <1>11 DEF Apply, ApplyThrows, InHand, workerVars
  <2>2. applied[h] = 0 /\ h \in Calls /\ promise[h] = None
    BY <2>1, EntryInHand
  <2>3. CASE UNCHANGED applied
    BY <1>3, <2>1, <2>3
  <2>4. CASE Acts(h)
    <3>1. applied'[h] = 1 /\ \A c \in Calls : c # h => applied'[c] = applied[c]
      BY <1>5, <2>2, <2>4
    <3>2. 1 <= 1
      BY SMT
    <3>3. Fits(promise'[h], applied'[h], req'[h])
      BY <1>0, <2>1, <2>2, <3>1, <3>2
    <3> HIDE DEF Fits, h
    <3> QED
      BY <1>1, <1>2, <2>1, <3>1, <3>3
  <2> QED
    BY <2>1, <2>3, <2>4
<1>12. ASSUME NEW c \in Calls, NEW r \in Requests[c], Receive(c, r) PROVE PromiseTellsEffect'
  <2>1. /\ req[c] = None /\ UNCHANGED <<promise, applied>>
        /\ \A d \in Calls : d # c => req'[d] = req[d]
    BY <1>0, <1>12 DEF Receive, engineVars
  <2>2. promise[c] = None /\ applied[c] = 0
    BY <2>1, PlaceNow
  <2>3. 0 <= 1
    BY SMT
  <2>4. Fits(promise'[c], applied'[c], req'[c])
    BY <1>0, <2>1, <2>2, <2>3
  <2> HIDE DEF Fits
  <2> QED
    BY <1>1, <1>2, <2>1, <2>4
<1>13. CASE ValidateAdmin \/ RejectAdmin \/ ExecuteRejected \/ GrantRejected \/ CheckHealthy
            \/ Push \/ Woken \/ TimeOut \/ Fault \/ ResumedElsewhere \/ UNCHANGED vars
  <2>1. UNCHANGED <<promise, applied, req>>
    BY <1>13 DEF ValidateAdmin, RejectAdmin, ExecuteRejected, GrantRejected, CheckHealthy, Push,
                 Woken, TimeOut, Fault, ResumedElsewhere, vars, workerVars, engineVars
  <2> QED
    BY <1>3, <2>1
<1>14. CASE StartTick \/ ExpireLeases \/ SwapAdminQueue \/ EndTick
  BY <1>3, <1>14 DEF StartTick, ExpireLeases, SwapAdminQueue, EndTick, workerVars
<1> QED
  BY <1>6, <1>7, <1>8, <1>9, <1>10, <1>11, <1>12, <1>13, <1>14 DEF Next, Worker, Tick

\* What Execute decided is written down in the step that decides it.
LEMMA AuditStep ==
  ASSUME TypeOK, InHand, PlaceInv, AuditInv, [Next]_vars
  PROVE  AuditInv'
<1> DEFINE h == Head(batch)
           Said == Rejections \cup {"executed"}
<1>0. /\ promise \in [Calls -> Replies \cup {None}] /\ answer \in [Calls -> Replies \cup {None}]
      /\ "executed" # None
      /\ \A x \in {"internal", "failed_precondition", "not_dispatched"} : x \notin Said
      /\ \A x \in {"ok", "internal", "failure", "not_dispatched"} : x \notin {None, "executed"}
  BY NoneAssumption DEF TypeOK, Rejections, Replies, Verdicts
<1>1. /\ \A c \in Calls : answer[c] \in Said /\ promise[c] \in {None, "executed"}
                          => <<c, answer[c]>> \in audit
      /\ \A c \in Calls : promise[c] = "executed" => <<c, "executed">> \in audit
  BY DEF AuditInv, AnswersAreAudited
<1>2. ASSUME \A c \in Calls : answer'[c] \in Said /\ promise'[c] \in {None, "executed"}
                              => <<c, answer'[c]>> \in audit',
             \A c \in Calls : promise'[c] = "executed" => <<c, "executed">> \in audit'
      PROVE  AuditInv'
  BY <1>2 DEF AuditInv, AnswersAreAudited
<1> HIDE DEF Said
<1>3. ASSUME UNCHANGED <<answer, promise, audit>> PROVE AuditInv'
  BY <1>1, <1>2, <1>3
<1>4. ASSUME NEW st, cur \in Calls, Finish(cur, st), UNCHANGED promise, audit \subseteq audit',
             st \in Said /\ promise[cur] \in {None, "executed"} => <<cur, st>> \in audit'
      PROVE  AuditInv'
  <2>1. \A c \in Calls : answer'[c] = IF c = cur THEN st ELSE answer[c]
    BY <1>0, <1>4 DEF Finish
  <2> QED
    BY <1>1, <1>2, <1>4, <2>1
<1>5. ASSUME NEW st, h \in Calls, promise' = [promise EXCEPT ![h] = st], UNCHANGED answer,
             audit \subseteq audit',
             st = "executed" => promise[h] = None /\ <<h, "executed">> \in audit',
             st # None
      PROVE  AuditInv'
  <2>1. \A c \in Calls : promise'[c] = IF c = h THEN st ELSE promise[c]
    BY <1>0, <1>5
  <2> HIDE DEF h
  <2> QED
    BY <1>1, <1>2, <1>5, <2>1, SMT
<1>6. CASE ExecuteRejected
  <2> DEFINE st == ExecuteStatus(cur, wframe)
  <2>1. cur \in Calls /\ UNCHANGED promise
    BY <1>6 DEF ExecuteRejected, InHand
  <2>2. CASE UNCHANGED <<answer, audit>>
    BY <1>3, <2>1, <2>2
  <2>3. CASE Finish(cur, st) /\ audit' = audit \cup {<<cur, st>>}
    <3>1. audit \subseteq audit' /\ <<cur, st>> \in audit'
      BY <2>3
    <3> HIDE DEF st
    <3> QED
      BY <1>4, <2>1, <2>3, <3>1
  <2> QED
    BY <1>6, <2>2, <2>3 DEF ExecuteRejected, Audit
<1>16. CASE GrantRejected
  <2>1. /\ cur \in Calls /\ Finish(cur, "executed") /\ UNCHANGED promise
        /\ audit' = audit \cup {<<cur, "executed">>}
    BY <1>16 DEF GrantRejected, InHand, Grant, Audit
  <2>2. audit \subseteq audit' /\ <<cur, "executed">> \in audit'
    BY <2>1
  <2> QED
    BY <1>4, <2>1, <2>2
<1>7. CASE CheckHealthy
  <2>1. cur \in Calls /\ UNCHANGED <<promise, audit>>
    BY <1>7 DEF CheckHealthy, InHand, controllerVars
  <2>2. CASE UNCHANGED answer
    BY <1>3, <2>1, <2>2
  <2>3. CASE \E st \in {"failed_precondition", "not_dispatched"} : Finish(cur, st)
    BY <1>0, <1>4, <2>1, <2>3
  <2> QED
    BY <1>7, <2>2, <2>3 DEF CheckHealthy
<1>8. CASE Woken
  <2>1. /\ cur \in Calls /\ UNCHANGED <<promise, audit>> /\ Finish(cur, promise[cur])
        /\ promise[cur] # None
    BY <1>8 DEF Woken, InHand, controllerVars
  <2>2. promise[cur] \in {None, "executed"} => <<cur, promise[cur]>> \in audit
    BY <1>1, <2>1
  <2> QED
    BY <1>4, <2>1, <2>2
<1>9. CASE TimeOut
  <2>1. cur \in Calls /\ UNCHANGED <<promise, audit>>
    BY <1>9 DEF TimeOut, InHand, controllerVars
  <2>2. PICK st \in {"internal", "not_dispatched"} : Finish(cur, st)
    BY <1>9 DEF TimeOut
  <2> QED
    BY <1>0, <1>4, <2>1, <2>2
<1>10. CASE AnswerCallback
  <2>1. batch # <<>> /\ batch \in Seq(Calls) /\ UNCHANGED <<answer, audit>>
    BY <1>10 DEF AnswerCallback, TypeOK, workerVars, controllerVars
  <2>2. h \in Calls
    BY <2>1, SMT
  <2>3. PICK st \in {"ok", "internal", "failure"} : promise' = [promise EXCEPT ![h] = st]
    BY <1>10 DEF AnswerCallback
  <2> QED
    BY <1>0, <1>5, <2>1, <2>2, <2>3
<1>11. CASE ValidateEntry
  <2>1. epc = "admin" /\ batch # <<>> /\ UNCHANGED <<answer, audit>>
    BY <1>11 DEF ValidateEntry, workerVars, controllerVars
  <2>2. CASE UNCHANGED promise
    BY <1>3, <2>1, <2>2
  <2>3. CASE Validate(req[h], frame) # "accepted" /\ Complete(h, Validate(req[h], frame))
    <3>1. Validate(req[h], frame) # "executed" /\ Validate(req[h], frame) # None
      BY <2>3, StatusRange
    <3> QED
      BY <1>5, <2>1, <2>3, <3>1, EntryInHand DEF Complete
  <2> QED
    BY <1>11, <2>2, <2>3 DEF ValidateEntry
<1>12. CASE ApplyRefused
  <2>1. /\ epc = "apply" /\ batch # <<>> /\ UNCHANGED <<answer, audit>>
        /\ promise' = [promise EXCEPT ![h] = "not_dispatched"]
    BY <1>12 DEF ApplyRefused, InHand, workerVars, controllerVars, Complete
  <2> QED
    BY <1>0, <1>5, <2>1, EntryInHand
<1>13. CASE ExecuteEntry
  <2> DEFINE st == ExecuteStatus(h, frame)
  <2>1. epc = "execute" /\ batch # <<>> /\ UNCHANGED answer
    BY <1>13 DEF ExecuteEntry, InHand, workerVars
  <2>2. CASE UNCHANGED <<promise, audit>>
    BY <1>3, <2>1, <2>2
  <2>3. CASE /\ st # "accepted" /\ promise' = [promise EXCEPT ![h] = st]
             /\ audit' = audit \cup {<<h, st>>}
    <3>1. st # None /\ st # "executed"
      BY <2>3, StatusRange DEF ExecuteStatus
    <3>2. audit \subseteq audit' /\ h \in Calls
      BY <2>1, <2>3, EntryInHand
    <3> HIDE DEF st
    <3> QED
      BY <1>5, <2>1, <2>3, <3>1, <3>2
  <2> QED
    BY <1>13, <2>2, <2>3 DEF ExecuteEntry, Complete, Audit
<1>17. CASE GrantEntry
  <2>1. /\ epc = "write" /\ batch # <<>> /\ UNCHANGED answer
        /\ promise' = [promise EXCEPT ![h] = "executed"]
        /\ audit' = audit \cup {<<h, "executed">>}
    BY <1>17 DEF GrantEntry, InHand, workerVars, Complete, Grant, Audit
  <2>2. audit \subseteq audit' /\ <<h, "executed">> \in audit'
    BY <2>1
  <2>3. h \in Calls /\ promise[h] = None
    BY <2>1, EntryInHand
  <2> QED
    BY <1>0, <1>5, <2>1, <2>2, <2>3
<1>14. CASE Push \/ ValidateAdmin \/ RejectAdmin \/ (\E c \in Calls : \E r \in Requests[c] : Receive(c, r))
  <2>1. UNCHANGED <<answer, promise, audit>>
    BY <1>14 DEF Push, ValidateAdmin, RejectAdmin, Receive, controllerVars
  <2> QED
    BY <1>3, <2>1
<1>15. CASE \/ StartTick \/ ExpireLeases \/ SwapAdminQueue \/ EndTick \/ Apply \/ ApplyThrows
            \/ Fault \/ ResumedElsewhere \/ UNCHANGED vars
  <2>1. UNCHANGED <<answer, promise, audit>>
    BY <1>15 DEF StartTick, ExpireLeases, SwapAdminQueue, EndTick, Apply, ApplyThrows, Fault,
                 ResumedElsewhere, vars, workerVars, controllerVars
  <2> QED
    BY <1>3, <2>1
<1> QED
  BY <1>6, <1>7, <1>8, <1>9, <1>10, <1>11, <1>12, <1>13, <1>14, <1>15, <1>16, <1>17
     DEF Next, Worker, Tick

EffectInv == PlaceInv /\ PassInv /\ PromiseTellsEffect /\ AuditInv

\* EffectInv holds in every reachable state.
LEMMA EffectInvariant == Spec => []EffectInv
<1>1. Init => EffectInv
  <2> SUFFICES ASSUME Init PROVE EffectInv
    OBVIOUS
  <2>1. PlaceInv
    BY SMT DEF Init, PlaceInv, Mem, Once, Idle, Unqueued, Draining, InHandler
  <2>2. "executed" # None /\ "not_dispatched" # None
        /\ \A x \in Rejections \cup {"executed"} : x # None
    BY NoneAssumption DEF Replies, Verdicts
  <2>3. PromiseTellsEffect
    BY <2>2, SMT DEF Init, PromiseTellsEffect
  <2>4. AuditInv
    BY <2>2 DEF Init, AuditInv, AnswersAreAudited
  <2>5. PassInv
    BY DEF Init, PassInv
  <2> QED
    BY <2>1, <2>3, <2>4, <2>5 DEF EffectInv
<1>2. BridgeInv /\ EffectInv /\ [Next]_vars => EffectInv'
  BY PlaceStep, PassStep, EffectStep, AuditStep DEF EffectInv, BridgeInv, LeaseInv
<1> QED
  BY <1>1, <1>2, BridgeInvariant, PTL DEF Spec

\* DrainAdminActionQueue, for any number of calls and requests: an action is
\* applied at most once, also when its caller gave up waiting, and what its entry
\* is completed with is true of the game, but for the actions refused half done
\* and the conflict that comes up while the action is applied.
THEOREM PromiseTellsEffectAlways == Spec => []PromiseTellsEffect
BY EffectInvariant, PTL DEF EffectInv

\* AdminController::Execute: whatever it decided and the caller was answered is in
\* the audit log, on either thread.
THEOREM AnswersAuditedAlways == Spec => []AnswersAreAudited
BY EffectInvariant, PTL DEF EffectInv, AuditInv
================================================================================
