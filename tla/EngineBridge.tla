----------------------------- MODULE EngineBridge -----------------------------
(***************************************************************************)
(* The calls that need the engine thread: InvokeCallback and               *)
(* ExecuteAdminAction.  The completion-queue worker pushes the call on a   *)
(* deque and blocks on a future with a timeout; the engine thread answers  *)
(* the deque once a frame.  The admin controller, its leases and its audit *)
(* log are used by both threads without a lock: a thread holds the frame   *)
(* it read and the verdict of its Validate while the other one runs.       *)
(*                                                                         *)
(* An admin action is its caller, its role, its kind, whether its values   *)
(* and targets are in range, its basis frame and its conflict policy.      *)
(***************************************************************************)
EXTENDS Integers, Sequences, FiniteSets

CONSTANTS Calls,          \* calls a client makes, each answered once
          Requests,       \* what each call may ask for
          Callers,        \* client identities
          Enabled,        \* Settings::enabled
          CheatsAllowed,  \* Settings::cheats_allowed
          TransferEnabled,\* Settings::unit_transfer_enabled
          LeaseTtl,       \* Settings::lease_ttl_frames, 90
          StaleAfter,     \* 300 in Validate
          MaxFrame,       \* bound: frames
          None            \* no lease, no request, no answer

Leased == {"pause", "global_speed"}
Kinds == Leased \cup {"cheat_policy", "resource_grant", "unit_spawn",
                      "unit_transfer", "lifecycle", "unknown"}
AdminRequest ==
  [kind : Kinds, caller : Callers, privileged : BOOLEAN, sound : BOOLEAN,
   basis : Nat, takeover : BOOLEAN, on : BOOLEAN]
CallbackRequest == [kind : {"callback"}, sound : BOOLEAN]
Request == AdminRequest \cup CallbackRequest
Rejections == {"permission_denied", "disabled", "run_mode", "invalid", "stale", "conflict"}
Verdicts == Rejections \cup {"accepted", "executed", "not_dispatched"}
Replies == Verdicts \cup {"ok", "failure", "internal", "failed_precondition"}

ASSUME SettingsAssumption == {Enabled, CheatsAllowed, TransferEnabled} \subseteq BOOLEAN
ASSUME FramesAssumption == /\ LeaseTtl \in Nat \ {0}
                           /\ StaleAfter \in Nat
                           /\ MaxFrame \in Nat
ASSUME RequestsAssumption == Requests \in [Calls -> SUBSET Request]
ASSUME NoneAssumption == /\ None \notin Request /\ None \notin Replies
                         /\ None \notin Calls
                         /\ None \notin [owner : Callers, expires : Nat]

VARIABLES
  \* The completion-queue worker.
  wpc,        \* its place in the handler
  cur,        \* the call it handles, or None
  wframe,     \* the frame it read for Validate or Execute
  req,        \* the request of each call, None before it came
  answer,     \* what the call was finished with, None before
  \* Shared: the two deques, the promises, the gateway state, the clock.
  callbackQ,  \* pending_callbacks_
  adminQ,     \* pending_admin_actions_
  promise,    \* completion of each entry, None while unset
  state,      \* GatewayState; Disabling is not told from Disabled here
  frame,      \* current_frame_
  \* Shared without a lock: the AdminController.
  leases,     \* leases_
  audit,      \* audit_log_, as a set of <<call, status>>
  raced,      \* ghost: threads inside Execute whose lease the other thread
              \*        has written since their Validate
  late,       \* ghost: leases the worker granted from a frame gone by, that
              \*        ExpireLeases has not seen yet
  \* The engine thread and the game.
  epc,        \* its place in OnFrameTick
  batch,      \* what is left of the deque it swapped out
  applied,    \* how often ApplyAdminAction took effect for a call
  paused      \* the game stands still (external)

workerVars == <<wpc, cur, wframe, req, answer>>
controllerVars == <<leases, audit, raced, late>>
engineVars == <<epc, batch, applied, paused>>
vars == <<workerVars, callbackQ, adminQ, promise, state, frame,
          controllerVars, engineVars>>

Lease == [owner : Callers, expires : Nat]

\* One type invariant for the worker, the deques, the controller and the engine.
TypeOK ==
  /\ wpc \in {"next", "validate", "rejecting", "execute", "write", "dispatch",
             "push", "waiting"}
  /\ cur \in Calls \cup {None}
  /\ wframe \in 0..MaxFrame
  /\ req \in [Calls -> Request \cup {None}]
  /\ answer \in [Calls -> Replies \cup {None}]
  /\ callbackQ \in Seq(Calls) /\ adminQ \in Seq(Calls) /\ batch \in Seq(Calls)
  /\ promise \in [Calls -> Replies \cup {None}]
  /\ state \in {"Healthy", "Disabled"}
  /\ frame \in 0..MaxFrame
  /\ leases \in [Leased -> Lease \cup {None}]
  /\ audit \subseteq Calls \X Verdicts
  /\ raced \subseteq {"worker", "engine"}
  /\ late \subseteq Leased
  /\ epc \in {"frame", "callbacks", "expired", "admin", "apply", "execute", "write"}
  /\ applied \in [Calls -> Nat]
  /\ paused \in BOOLEAN

Init ==
  /\ wpc = "next" /\ cur = None /\ wframe = 0
  /\ req = [c \in Calls |-> None]
  /\ answer = [c \in Calls |-> None]
  /\ callbackQ = <<>> /\ adminQ = <<>>
  /\ promise = [c \in Calls |-> None]
  /\ state = "Healthy" /\ frame = 0
  /\ leases = [k \in Leased |-> None]
  /\ audit = {} /\ raced = {} /\ late = {}
  /\ epc = "frame" /\ batch = <<>>
  /\ applied = [c \in Calls |-> 0]
  /\ paused = FALSE

--------------------------------------------------------------------------------
(* AdminController.                                                        *)

\* A lease of another caller stands in the way of the action.
LeaseConflict(r) ==
  /\ r.kind \in Leased
  /\ leases[r.kind] # None
  /\ leases[r.kind].owner # r.caller
  /\ ~r.takeover

\* The tests of Validate, in its order; f is the frame its caller read before.
Validate(r, f) ==
  IF ~r.privileged THEN "permission_denied" ELSE
  IF ~Enabled THEN "disabled" ELSE
  IF r.kind = "cheat_policy" /\ ~CheatsAllowed THEN "run_mode" ELSE
  IF r.kind = "unit_transfer" /\ ~TransferEnabled THEN "run_mode" ELSE
  IF ~r.sound THEN "invalid" ELSE
  IF r.basis # 0 /\ r.basis + StaleAfter < f THEN "stale" ELSE
  IF LeaseConflict(r) THEN "conflict" ELSE "accepted"

\* The Audit of Execute.
Audit(c, status) == audit' = audit \cup {<<c, status>>}

\* Mutant: Execute trusts the Validate of its caller.
ExecuteBlindly(c, f) == "accepted"

\* Execute begins with a Validate of its own.
ExecuteStatus(c, f) == Validate(req[c], f)

\* Execute, once its Validate accepted: it takes the lease and writes the audit
\* record.  The other thread may have come in between.
Grant(c, f) ==
  LET r == req[c] IN
  /\ leases' = IF r.kind \in Leased
               THEN [leases EXCEPT ![r.kind] = [owner |-> r.caller, expires |-> f + LeaseTtl]]
               ELSE leases
  /\ Audit(c, "executed")

\* Mutant: a lease is kept through the frame it expires in.
ExpireLate(k) ==
  IF leases[k] # None /\ leases[k].expires < frame THEN None ELSE leases[k]

Expired(k) ==
  IF leases[k] # None /\ leases[k].expires # 0 /\ leases[k].expires <= frame
  THEN None ELSE leases[k]

--------------------------------------------------------------------------------
(* The worker: ExecuteAdminAction and InvokeCallback, one call at a time.  *)

Finish(c, status) ==
  /\ answer' = [answer EXCEPT ![c] = status]
  /\ cur' = None /\ wpc' = "next" /\ wframe' = 0

\* A call arrives; for an admin action the worker reads the clock.
Receive(c, r) ==
  /\ wpc = "next" /\ req[c] = None
  /\ req' = [req EXCEPT ![c] = r]
  /\ cur' = c
  /\ IF r.kind = "callback" THEN wpc' = "dispatch" /\ UNCHANGED wframe
                            ELSE wpc' = "validate" /\ wframe' = frame
  /\ UNCHANGED <<answer, callbackQ, adminQ, promise, state, frame, controllerVars,
                 engineVars>>

\* The worker's own Validate decides where the action goes.
ValidateAdmin ==
  /\ wpc = "validate"
  /\ wpc' = IF Validate(req[cur], wframe) = "accepted" THEN "dispatch" ELSE "rejecting"
  /\ wframe' = 0
  /\ UNCHANGED <<cur, req, answer, callbackQ, adminQ, promise, state, frame,
                 controllerVars, engineVars>>

\* A rejected action goes through Execute too, for its audit record: the worker
\* reads the clock again for its argument.
RejectAdmin ==
  /\ wpc = "rejecting"
  /\ wpc' = "execute" /\ wframe' = frame
  /\ UNCHANGED <<cur, req, answer, callbackQ, adminQ, promise, state, frame,
                 controllerVars, engineVars>>

\* Execute on the worker, up to the verdict of its Validate.
ExecuteRejected ==
  /\ wpc = "execute"
  /\ \/ /\ ExecuteStatus(cur, wframe) = "accepted"
        /\ wpc' = "write"
        /\ UNCHANGED <<cur, wframe, answer, audit>>
     \/ /\ ExecuteStatus(cur, wframe) # "accepted"
        /\ Audit(cur, ExecuteStatus(cur, wframe))
        /\ Finish(cur, ExecuteStatus(cur, wframe))
  /\ UNCHANGED <<req, callbackQ, adminQ, promise, state, frame, leases,
                 raced, late, engineVars>>

\* Execute on the worker accepts what the worker's Validate had rejected.
GrantRejected ==
  /\ wpc = "write"
  /\ Grant(cur, wframe)
  /\ raced' = IF epc = "write" /\ req[Head(batch)].kind = req[cur].kind
              THEN {"engine"} ELSE raced \ {"worker"}
  /\ late' = IF wframe # frame THEN late \cup (Leased \cap {req[cur].kind}) ELSE late
  /\ Finish(cur, "executed")
  /\ UNCHANGED <<req, callbackQ, adminQ, promise, state, frame, engineVars>>

\* The state test at the top of QueueAdminAction and InvokeCallback.
CheckHealthy ==
  /\ wpc = "dispatch"
  /\ \/ /\ state = "Healthy"
        /\ wpc' = "push"
        /\ UNCHANGED <<cur, wframe, answer>>
     \/ /\ state # "Healthy"
        /\ Finish(cur, IF req[cur].kind = "callback"
                       THEN "failed_precondition" ELSE "not_dispatched")
  /\ UNCHANGED <<req, callbackQ, adminQ, promise, state, frame, controllerVars,
                 engineVars>>

\* The entry is pushed under the mutex; from here the worker waits.
Push ==
  /\ wpc = "push"
  /\ wpc' = "waiting"
  /\ IF req[cur].kind = "callback"
     THEN callbackQ' = Append(callbackQ, cur) /\ UNCHANGED adminQ
     ELSE adminQ' = Append(adminQ, cur) /\ UNCHANGED callbackQ
  /\ UNCHANGED <<cur, wframe, req, answer, promise, state, frame, controllerVars,
                 engineVars>>

\* The future became ready in time.
Woken ==
  /\ wpc = "waiting" /\ promise[cur] # None
  /\ Finish(cur, promise[cur])
  /\ UNCHANGED <<req, callbackQ, adminQ, promise, state, frame, controllerVars,
                 engineVars>>

\* Mutant: the worker waits for a healthy gateway without a limit.
TimeOutWhileDown ==
  /\ wpc = "waiting" /\ promise[cur] = None /\ state # "Healthy"
  /\ Finish(cur, IF req[cur].kind = "callback" THEN "internal" ELSE "not_dispatched")
  /\ UNCHANGED <<req, callbackQ, adminQ, promise, state, frame, controllerVars,
                 engineVars>>

\* wait_for gives up; the entry stays where it is.
TimeOut ==
  /\ wpc = "waiting" /\ promise[cur] = None
  /\ Finish(cur, IF req[cur].kind = "callback" THEN "internal" ELSE "not_dispatched")
  /\ UNCHANGED <<req, callbackQ, adminQ, promise, state, frame, controllerVars,
                 engineVars>>

Worker == \/ \E c \in Calls : \E r \in Requests[c] : Receive(c, r)
          \/ ValidateAdmin \/ RejectAdmin \/ ExecuteRejected \/ GrantRejected
          \/ CheckHealthy \/ Push \/ Woken \/ TimeOut

--------------------------------------------------------------------------------
(* The engine thread: OnFrameTick down to the end of the admin drain.      *)

\* Mutant: a tick that finds no callback returns early.
StartTickForCallbacks ==
  /\ epc = "frame" /\ ~paused /\ state = "Healthy" /\ callbackQ # <<>>
  /\ epc' = "callbacks"
  /\ batch' = callbackQ /\ callbackQ' = <<>>
  /\ UNCHANGED <<workerVars, adminQ, promise, state, frame, controllerVars,
                 applied, paused>>

\* The engine calls OnFrameTick only for frames the game plays.
StartTick ==
  /\ epc = "frame" /\ ~paused /\ state = "Healthy"
  /\ epc' = "callbacks"
  /\ batch' = callbackQ /\ callbackQ' = <<>>
  /\ UNCHANGED <<workerVars, adminQ, promise, state, frame, controllerVars,
                 applied, paused>>

AnswerCallback ==
  /\ epc = "callbacks" /\ batch # <<>>
  /\ \E status \in (IF req[Head(batch)].sound THEN {"ok", "internal"} ELSE {"failure"}) :
       promise' = [promise EXCEPT ![Head(batch)] = status]
  /\ batch' = Tail(batch)
  /\ UNCHANGED <<workerVars, callbackQ, adminQ, state, frame, controllerVars,
                 epc, applied, paused>>

ExpireLeases ==
  /\ epc = "callbacks" /\ batch = <<>>
  /\ epc' = "expired"
  /\ leases' = [k \in Leased |-> Expired(k)]
  /\ late' = {}
  /\ UNCHANGED <<workerVars, callbackQ, adminQ, promise, state, frame, audit, raced,
                 batch, applied, paused>>

\* The swap at the top of DrainAdminActionQueue.
SwapAdminQueue ==
  /\ epc = "expired"
  /\ epc' = "admin"
  /\ batch' = adminQ /\ adminQ' = <<>>
  /\ UNCHANGED <<workerVars, callbackQ, promise, state, frame, controllerVars,
                 applied, paused>>

Complete(c, status) ==
  /\ promise' = [promise EXCEPT ![c] = status]
  /\ batch' = Tail(batch)
  /\ epc' = "admin"

\* Every entry is validated again on the engine thread.
ValidateEntry ==
  /\ epc = "admin" /\ batch # <<>>
  /\ \/ /\ Validate(req[Head(batch)], frame) = "accepted"
        /\ epc' = "apply"
        /\ UNCHANGED <<promise, batch>>
     \/ /\ Validate(req[Head(batch)], frame) # "accepted"
        /\ Complete(Head(batch), Validate(req[Head(batch)], frame))
  /\ UNCHANGED <<workerVars, callbackQ, adminQ, state, frame, controllerVars,
                 applied, paused>>

\* ApplyAdminAction reaches the game.
Acts(c) ==
  /\ applied' = [applied EXCEPT ![c] = @ + 1]
  /\ paused' = IF req[c].kind = "pause" THEN req[c].on ELSE paused

Apply ==
  /\ epc = "apply"
  /\ req[Head(batch)].kind # "unknown"
  /\ Acts(Head(batch))
  /\ epc' = "execute"
  /\ UNCHANGED <<workerVars, callbackQ, adminQ, promise, state, frame, controllerVars,
                 batch>>

\* The actions that can reach the game and still be refused: a unit given that
\* cannot be registered or handed on, a grant that throws after it was given, a
\* speed sent in several datagrams or executed without the "ok" of the widget.
HalfDone == {"unit_spawn", "resource_grant", "global_speed"}

\* Mutant: an action the game refused is handed to Execute all the same.
ApplyIgnored ==
  /\ epc = "apply"
  /\ req[Head(batch)].kind # "lifecycle"
  /\ epc' = "execute"
  /\ UNCHANGED <<workerVars, callbackQ, adminQ, promise, state, frame, controllerVars,
                 batch, applied, paused>>

\* ApplyAdminAction returns false.
ApplyRefused ==
  LET c == Head(batch) IN
  /\ epc = "apply"
  /\ req[c].kind # "lifecycle"
  /\ \/ UNCHANGED <<applied, paused>>
     \/ req[c].kind \in HalfDone /\ Acts(c)
  /\ Complete(c, "not_dispatched")
  /\ UNCHANGED <<workerVars, callbackQ, adminQ, state, frame, controllerVars>>

\* Execute on the engine thread, up to the verdict of its Validate.
ExecuteEntry ==
  LET c == Head(batch) IN
  /\ epc = "execute"
  /\ \/ /\ ExecuteStatus(c, frame) = "accepted"
        /\ epc' = "write"
        /\ UNCHANGED <<promise, batch, audit>>
     \/ /\ ExecuteStatus(c, frame) # "accepted"
        /\ Audit(c, ExecuteStatus(c, frame))
        /\ Complete(c, ExecuteStatus(c, frame))
  /\ UNCHANGED <<workerVars, callbackQ, adminQ, state, frame, leases, raced, late,
                 applied, paused>>

GrantEntry ==
  LET c == Head(batch) IN
  /\ epc = "write"
  /\ Grant(c, frame)
  /\ raced' = IF wpc = "write" /\ req[cur].kind = req[c].kind
              THEN {"worker"} ELSE raced \ {"engine"}
  /\ late' = late \ {req[c].kind}
  /\ Complete(c, "executed")
  /\ UNCHANGED <<workerVars, callbackQ, adminQ, state, frame, applied, paused>>

\* The rest of OnFrameTick; current_frame_ is stored after the drains.
EndTick ==
  /\ epc = "admin" /\ batch = <<>>
  /\ epc' = "frame"
  /\ frame' = IF frame < MaxFrame THEN frame + 1 ELSE frame
  /\ UNCHANGED <<workerVars, callbackQ, adminQ, promise, state, controllerVars,
                 batch, applied, paused>>

\* TransitionToDisabled; what was swapped out is dropped.
Disable ==
  /\ state = "Healthy"
  /\ state' = "Disabled"
  /\ epc' = "frame" /\ batch' = <<>>

\* ApplyAdminAction throws, before or after it reached the game.
ApplyThrows ==
  /\ epc = "apply"
  /\ req[Head(batch)].kind \notin {"unit_spawn", "lifecycle", "unknown"}
  /\ UNCHANGED <<applied, paused>> \/ Acts(Head(batch))
  /\ Disable
  /\ UNCHANGED <<workerVars, callbackQ, adminQ, promise, frame, controllerVars>>

\* An exception in the rest of the tick, or a fault of another thread drained at
\* its top.
Fault ==
  /\ \/ epc = "frame" /\ ~paused
     \/ epc = "admin" /\ batch = <<>>
  /\ Disable
  /\ UNCHANGED <<workerVars, callbackQ, adminQ, promise, frame, controllerVars,
                 applied, paused>>

\* The game is resumed by other means than this gateway (external).
ResumedElsewhere ==
  /\ paused
  /\ paused' = FALSE
  /\ UNCHANGED <<workerVars, callbackQ, adminQ, promise, state, frame, controllerVars,
                 epc, batch, applied>>

Tick == \/ StartTick \/ AnswerCallback \/ ExpireLeases \/ SwapAdminQueue
        \/ ValidateEntry \/ Apply \/ ApplyRefused \/ ExecuteEntry
        \/ GrantEntry \/ EndTick

Next == Worker \/ Tick \/ ApplyThrows \/ Fault \/ ResumedElsewhere

Spec == Init /\ [][Next]_vars

\* The worker thread runs, and wait_for has a deadline.
FairSpec == Spec /\ WF_vars(\/ ValidateAdmin \/ RejectAdmin \/ ExecuteRejected
                            \/ GrantRejected \/ CheckHealthy \/ Push \/ Woken
                            \/ TimeOut)

--------------------------------------------------------------------------------
(* What must hold.                                                         *)

\* The step grants control k to another caller than its lease names.
ChangesHands(k) ==
  leases[k] # None /\ leases'[k] # None /\ leases'[k].owner # leases[k].owner

\* AdminController::Execute, used by two threads without a lock: the lease of a
\* control passes from one caller to another only in the step that executes an
\* action of the new owner for this control, and that action either asks for the
\* release or had its Validate pass before the other thread granted the lease it
\* overwrites.  A lease that stood when the action was validated is never lost.
LeaseNotStolen ==
  [][\A k \in Leased :
       ChangesHands(k)
       => \E c \in Calls : /\ \/ /\ wpc = "write" /\ c = cur
                                 /\ req[c].takeover \/ "worker" \in raced
                              \/ /\ epc = "write" /\ c = Head(batch)
                                 /\ req[c].takeover \/ "engine" \in raced
                           /\ req[c].kind = k
                           /\ req[c].caller = leases'[k].owner]_vars

\* ExpireLeases runs once a frame on a clock that is stored at the end of the
\* frame: no lease is longer than its time to live, and none is kept past the
\* frame it expires in, but for one the worker granted from a frame it had read
\* before, until the next ExpireLeases.
LeasesAreLive ==
  \A k \in Leased :
    leases[k] # None => /\ leases[k].expires <= frame + LeaseTtl
                        /\ k \notin late => leases[k].expires >= frame

\* DrainAdminActionQueue: an action is applied at most once, also when its caller
\* gave up waiting, and what its entry is completed with is true of the game:
\* "executed" was applied; "not dispatched" was not, unless it is one of the
\* actions that can be refused half done; a rejection was not, unless it is the
\* conflict with a lease the worker granted while the engine applied the action.
PromiseTellsEffect ==
  \A c \in Calls :
    /\ applied[c] <= 1
    /\ promise[c] = "executed" => applied[c] = 1
    /\ promise[c] = "not_dispatched" /\ req[c].kind \notin HalfDone => applied[c] = 0
    /\ promise[c] \in Rejections \ {"conflict"} => applied[c] = 0

\* QueueAdminAction and InvokeCallback: every call gets its answer and frees the
\* worker, whether the gateway is disabled under it or the game stands still.
CallsAreAnswered == \A c \in Calls : (req[c] # None) ~> (answer[c] # None)

\* OnFrameTick: while the engine keeps ticking, what was queued for it is taken
\* up, unless the gateway is disabled or the game stands still.
QueuesAreDrained ==
  WF_vars(Tick) =>
    \A c \in Calls :
      (wpc = "waiting" /\ cur = c) ~> (promise[c] # None \/ state # "Healthy" \/ paused)

\* AdminController::Execute: what it decided, for the worker or for the engine,
\* and the caller was answered, is in the audit log (a rejection by the engine's
\* own Validate is not, see the README).
AnswersAreAudited ==
  \A c \in Calls :
    answer[c] \in Rejections \cup {"executed"} /\ promise[c] \in {None, "executed"}
    => <<c, answer[c]>> \in audit

--------------------------------------------------------------------------------
(* What a document says and the code does not do.                          *)

\* Conflicting admin actions are rejected until the lease is released or expires.
LeaseIsExclusive ==
  [][\A k \in Leased :
       ChangesHands(k)
       => \E c \in Calls : /\ req[c] # None /\ req[c].kind = k
                           /\ req[c].takeover
                           /\ req[c].caller = leases'[k].owner]_vars

\* What is answered "not dispatched" did not reach the game.
NotDispatchedDidNothing ==
  \A c \in Calls : promise[c] = "not_dispatched" => applied[c] = 0

\* ExecuteAdminAction answers "executed" only for actions the engine applied.
ExecutedWasApplied == \A c \in Calls : answer[c] = "executed" => applied[c] = 1
================================================================================
