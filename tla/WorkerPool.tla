------------------------------- MODULE WorkerPool -------------------------------
(***************************************************************************)
(* The parallel half of CScheduler: one queue of work tasks and one pool   *)
(* of worker threads for all the AIs of the process, the completions each  *)
(* scheduler runs on the engine thread, and Release, which takes a         *)
(* scheduler away: it parks every worker, removes the scheduler's tasks    *)
(* and lets the workers go on, or stops the pool with the last scheduler.  *)
(*                                                                         *)
(* Every scheduler is one AI's and lives once.  A work task is its         *)
(* scheduler and a number, Null for the dummies Release pushes.            *)
(***************************************************************************)
EXTENDS Integers, FiniteSets, Sequences

CONSTANTS
  Schedulers,  \* the schedulers ever made
  Workers,     \* gWorkThreads
  MaxJobs,     \* bound: the jobs ever given to the pool
  Spurious     \* gProceedCV may wake a worker that was not notified

ASSUME PoolAssumption ==
  /\ IsFiniteSet(Workers) /\ Workers # {}
  /\ MaxJobs \in Nat
  /\ Spurious \in BOOLEAN

VARIABLES
  \* The engine thread.
  life,             \* scheduler -> "none", "live" or "gone"
  at,               \* where the thread is: "idle", or in Release
  target,           \* the scheduler Release is for
  n,                \* Release's loop variable
  gInstanceCount,
  \* Shared with the workers.
  isRunning,        \* scheduler -> isRunning
  gIsWorkerRunning,
  gWorkerPauseId,
  gPauseCount,
  gWorkTasks,
  finishTasks,      \* scheduler -> the completions to run on the engine thread
  jobs,             \* how many jobs there have been
  \* The workers.
  pc,               \* worker -> where it is
  workerPauseId,    \* worker -> its workerPauseId
  pauseId,          \* worker -> the pause it parks for
  container,        \* worker -> the work task it holds
  \* Ghosts.
  late,             \* a pause began before a worker had read gWorkerPauseId
  missed            \* notify_all came while a worker was about to sleep again

lifeVars == <<life, gInstanceCount>>
mainVars == <<at, target, n>>
pauseVars == <<gIsWorkerRunning, gWorkerPauseId, gPauseCount>>
taskVars == <<gWorkTasks, finishTasks, jobs>>
localVars == <<workerPauseId, pauseId, container>>
workerVars == <<pc, localVars>>
ghosts == <<late, missed>>
aiVars == <<lifeVars, isRunning, ghosts>>
vars == <<aiVars, mainVars, pauseVars, taskVars, workerVars>>

Null == 0
NoTask == <<>>
Nobody == <<>>
Task == [scheduler : Schedulers, task : 0..MaxJobs]
Dummy(s) == [scheduler |-> s, task |-> Null]
N == Cardinality(Workers)

Releasing == {"route", "bump", "push", "await", "scrub", "proceed", "notify",
              "stop", "join", "clear"}
Holding == {"got", "run"}    \* places of a worker with a work task
Parked == {"wait", "doze"}

Init ==
  /\ life = [s \in Schedulers |-> "none"] /\ gInstanceCount = 0
  /\ at = "idle" /\ target = Nobody /\ n = 0
  /\ isRunning = [s \in Schedulers |-> FALSE]
  /\ gIsWorkerRunning = FALSE /\ gWorkerPauseId = 0 /\ gPauseCount = 0
  /\ gWorkTasks = <<>>
  /\ finishTasks = [s \in Schedulers |-> <<>>]
  /\ jobs = 0
  /\ pc = [w \in Workers |-> "off"]
  /\ workerPauseId = [w \in Workers |-> 0]
  /\ pauseId = [w \in Workers |-> 0]
  /\ container = [w \in Workers |-> NoTask]
  /\ late = FALSE /\ missed = FALSE
-----------------------------------------------------------------------------
(* The engine thread between two releases. *)

\* CCircuitAI::Init of an AI, which makes its scheduler and ends in ProcessInit;
\* the first one starts the threads.
InitAI(s) ==
  /\ at = "idle" /\ life[s] = "none"
  /\ life' = [life EXCEPT ![s] = "live"]
  /\ gInstanceCount' = gInstanceCount + 1
  /\ isRunning' = [isRunning EXCEPT ![s] = TRUE]
  /\ gIsWorkerRunning' = TRUE
  /\ pc' = IF gIsWorkerRunning THEN pc ELSE [w \in Workers |-> "start"]
  /\ UNCHANGED <<mainVars, gWorkerPauseId, gPauseCount, taskVars, localVars, ghosts>>

\* An Init that fails on the way releases the scheduler it has made.
InitFails(s) ==
  /\ at = "idle" /\ life[s] = "none"
  /\ life' = [life EXCEPT ![s] = "live"]
  /\ at' = "route" /\ target' = s
  /\ UNCHANGED <<gInstanceCount, n, isRunning, pauseVars, taskVars, workerVars, ghosts>>

\* RunParallelJob and RunPriorityJob, called on the engine thread.
RunParallelJob(s) ==
  /\ at = "idle" /\ life[s] = "live" /\ jobs < MaxJobs
  /\ jobs' = jobs + 1
  /\ \/ gWorkTasks' = Append(gWorkTasks, [scheduler |-> s, task |-> jobs'])
     \/ gWorkTasks' = <<[scheduler |-> s, task |-> jobs']>> \o gWorkTasks
  /\ UNCHANGED <<aiVars, mainVars, pauseVars, finishTasks, workerVars>>

\* The end of ProcessJobs: the completions run under the queue's mutex.
ProcessJobs(s) ==
  /\ at = "idle" /\ life[s] = "live" /\ finishTasks[s] # <<>>
  /\ finishTasks' = [finishTasks EXCEPT ![s] = <<>>]
  /\ UNCHANGED <<aiVars, mainVars, pauseVars, gWorkTasks, jobs, workerVars>>
-----------------------------------------------------------------------------
(* Release. *)

\* ProcessRelease of an AI that is up.
Release(s) ==
  /\ at = "idle" /\ isRunning[s]
  /\ isRunning' = [isRunning EXCEPT ![s] = FALSE]
  /\ gInstanceCount' = gInstanceCount - 1
  /\ at' = "route" /\ target' = s
  /\ UNCHANGED <<life, n, pauseVars, taskVars, workerVars, ghosts>>

\* No worker was started yet.
SkipWorkers ==
  /\ at = "route" /\ ~gIsWorkerRunning
  /\ at' = "clear"
  /\ UNCHANGED <<aiVars, target, n, pauseVars, taskVars, workerVars>>

\* Counting one scheduler too few.
StopEarly ==
  /\ at = "route" /\ gIsWorkerRunning /\ gInstanceCount <= 1
  /\ gIsWorkerRunning' = FALSE
  /\ at' = "stop" /\ n' = 0
  /\ UNCHANGED <<aiVars, target, gWorkerPauseId, gPauseCount, taskVars, workerVars>>

\* The last scheduler: the workers are told to stop.
StopWorkers ==
  /\ at = "route" /\ gIsWorkerRunning /\ gInstanceCount = 0
  /\ gIsWorkerRunning' = FALSE
  /\ at' = "stop" /\ n' = 0
  /\ UNCHANGED <<aiVars, target, gWorkerPauseId, gPauseCount, taskVars, workerVars>>

\* Not the last one: the workers are to be counted in.
CountWorkers ==
  /\ at = "route" /\ gIsWorkerRunning /\ gInstanceCount # 0
  /\ gPauseCount' = N
  /\ at' = "bump"
  /\ UNCHANGED <<aiVars, target, n, gIsWorkerRunning, gWorkerPauseId, taskVars, workerVars>>

\* Under gPauseMutex, which the thread keeps up to gPauseCV.wait.
BeginPause ==
  /\ at = "bump"
  /\ gWorkerPauseId' = gWorkerPauseId + 1
  /\ at' = "push" /\ n' = 0
  /\ late' = (late \/ \E w \in Workers : pc[w] = "start")
  /\ UNCHANGED <<lifeVars, target, isRunning, gIsWorkerRunning, gPauseCount, taskVars,
                 workerVars, missed>>

\* One dummy too few.
PushTooFew ==
  /\ at \in {"push", "stop"}
  /\ gWorkTasks' = Append(gWorkTasks, Dummy(target))
  /\ n' = n + 1
  /\ at' = IF n' < N - 1 THEN at ELSE IF at = "push" THEN "await" ELSE "join"
  /\ UNCHANGED <<aiVars, target, pauseVars, finishTasks, jobs, workerVars>>

\* A dummy for each worker, in case it is stuck at Pop.
PushDummy ==
  /\ at \in {"push", "stop"}
  /\ gWorkTasks' = Append(gWorkTasks, Dummy(target))
  /\ n' = n + 1
  /\ at' = IF n' < N THEN at ELSE IF at = "push" THEN "await" ELSE "join"
  /\ UNCHANGED <<aiVars, target, pauseVars, finishTasks, jobs, workerVars>>

\* gPauseCV.wait returns.
AwaitParked ==
  /\ at = "await" /\ gPauseCount = 0
  /\ at' = "scrub" /\ n' = 1
  /\ UNCHANGED <<aiVars, target, pauseVars, taskVars, workerVars>>

\* Stepping over the task that was moved into the gap.
RemoveSkips ==
  /\ at = "scrub"
  /\ IF n > Len(gWorkTasks) THEN at' = "proceed" /\ UNCHANGED <<n, gWorkTasks>>
     ELSE /\ UNCHANGED at
          /\ gWorkTasks' = IF gWorkTasks[n].scheduler # target THEN gWorkTasks
                           ELSE SubSeq([gWorkTasks EXCEPT ![n] = gWorkTasks[Len(gWorkTasks)]],
                                       1, Len(gWorkTasks) - 1)
          /\ n' = n + 1
  /\ UNCHANGED <<aiVars, target, pauseVars, finishTasks, jobs, workerVars>>

\* One turn of RemoveAllIf's loop: a task of the target is overwritten by the
\* last one of the queue, which is looked at in the next turn.
RemoveAllIf ==
  /\ at = "scrub"
  /\ IF n > Len(gWorkTasks) THEN at' = "proceed" /\ UNCHANGED <<n, gWorkTasks>>
     ELSE /\ UNCHANGED at
          /\ IF gWorkTasks[n].scheduler = target
             THEN /\ gWorkTasks' = SubSeq([gWorkTasks EXCEPT ![n] = gWorkTasks[Len(gWorkTasks)]],
                                          1, Len(gWorkTasks) - 1)
                  /\ UNCHANGED n
             ELSE n' = n + 1 /\ UNCHANGED gWorkTasks
  /\ UNCHANGED <<aiVars, target, pauseVars, finishTasks, jobs, workerVars>>

\* Waking the workers for the number they wait with.
EndPauseUncounted ==
  /\ at = "proceed"
  /\ at' = "notify"
  /\ UNCHANGED <<aiVars, target, n, pauseVars, taskVars, workerVars>>

\* Without the mutex.
EndPause ==
  /\ at = "proceed"
  /\ gWorkerPauseId' = gWorkerPauseId + 1
  /\ at' = "notify"
  /\ UNCHANGED <<aiVars, target, n, gIsWorkerRunning, gPauseCount, taskVars, workerVars>>

\* gProceedCV.notify_all.
NotifyAll ==
  /\ at = "notify"
  /\ pc' = [w \in Workers |-> IF pc[w] = "wait" THEN "woken" ELSE pc[w]]
  /\ missed' = (missed \/ \E w \in Workers : pc[w] = "doze")
  /\ at' = "clear"
  /\ UNCHANGED <<lifeVars, target, n, isRunning, pauseVars, taskVars, localVars, late>>

\* Every thread is joined and forgotten, the queue is emptied.
JoinWorkers ==
  /\ at = "join" /\ \A w \in Workers : pc[w] = "exited"
  /\ pc' = [w \in Workers |-> "off"]
  /\ gWorkTasks' = <<>>
  /\ at' = "clear"
  /\ UNCHANGED <<aiVars, target, n, pauseVars, finishTasks, jobs, localVars>>

\* finishTasks.Clear, and the AI drops its pointer.
ReleaseReturn ==
  /\ at = "clear"
  /\ finishTasks' = [finishTasks EXCEPT ![target] = <<>>]
  /\ life' = [life EXCEPT ![target] = "gone"]
  /\ at' = "idle" /\ target' = Nobody /\ n' = 0
  /\ UNCHANGED <<gInstanceCount, isRunning, pauseVars, gWorkTasks, jobs, workerVars, ghosts>>
-----------------------------------------------------------------------------
(* WorkerThread. *)

Goes(w, place) == pc' = [pc EXCEPT ![w] = place]

\* workerPauseId is read when the thread starts to run.
StartWorker(w) ==
  /\ pc[w] = "start"
  /\ workerPauseId' = [workerPauseId EXCEPT ![w] = gWorkerPauseId]
  /\ Goes(w, "loop")
  /\ UNCHANGED <<aiVars, mainVars, pauseVars, taskVars, pauseId, container>>

CheckRunning(w) ==
  /\ pc[w] = "loop"
  /\ Goes(w, IF gIsWorkerRunning THEN "check" ELSE "exited")
  /\ UNCHANGED <<aiVars, mainVars, pauseVars, taskVars, localVars>>

CheckPause(w) ==
  /\ pc[w] = "check"
  /\ Goes(w, IF workerPauseId[w] # gWorkerPauseId THEN "park" ELSE "pop")
  /\ UNCHANGED <<aiVars, mainVars, pauseVars, taskVars, localVars>>

\* Parking, under gPauseMutex up to gProceedCV.wait.
Park(w) ==
  /\ pc[w] = "park" /\ at # "push"
  /\ pauseId' = [pauseId EXCEPT ![w] = gWorkerPauseId]
  /\ workerPauseId' = [workerPauseId EXCEPT ![w] = gWorkerPauseId + 1]
  /\ gPauseCount' = gPauseCount - 1
  /\ Goes(w, "wait")
  /\ UNCHANGED <<aiVars, mainVars, gIsWorkerRunning, gWorkerPauseId, taskVars, container>>

\* A worker is woken by nobody and looks at the condition: it goes on, or it is
\* about to sleep again.
WakeSpuriously(w) ==
  /\ Spurious /\ pc[w] = "wait" /\ at # "push"
  /\ Goes(w, IF pauseId[w] # gWorkerPauseId THEN "pop" ELSE "doze")
  /\ UNCHANGED <<aiVars, mainVars, pauseVars, taskVars, localVars>>

SleepAgain(w) ==
  /\ pc[w] = "doze"
  /\ Goes(w, "wait")
  /\ UNCHANGED <<aiVars, mainVars, pauseVars, taskVars, localVars>>

\* A notified worker looks at the condition.
Unpark(w) ==
  /\ pc[w] = "woken" /\ at # "push"
  /\ Goes(w, IF pauseId[w] # gWorkerPauseId THEN "pop" ELSE "wait")
  /\ UNCHANGED <<aiVars, mainVars, pauseVars, taskVars, localVars>>

Pop(w) ==
  /\ pc[w] = "pop" /\ gWorkTasks # <<>>
  /\ container' = [container EXCEPT ![w] = Head(gWorkTasks)]
  /\ gWorkTasks' = Tail(gWorkTasks)
  /\ Goes(w, "got")
  /\ UNCHANGED <<aiVars, mainVars, pauseVars, finishTasks, jobs, workerPauseId, pauseId>>

\* isRunning is read through the weak pointer; a scheduler that is deleted has
\* stopped running before.
LockScheduler(w) ==
  LET runs == isRunning[container[w].scheduler] IN
  /\ pc[w] = "got"
  /\ Goes(w, IF runs THEN "run" ELSE "loop")
  /\ container' = IF runs THEN container ELSE [container EXCEPT ![w] = NoTask]
  /\ UNCHANGED <<aiVars, mainVars, pauseVars, taskVars, workerPauseId, pauseId>>

\* A job may give its scheduler another one on the way, as CThreatMap::Update does.
SpawnJob(w) ==
  LET s == container[w].scheduler IN
  /\ pc[w] = "run" /\ jobs < MaxJobs
  /\ jobs' = jobs + 1
  /\ gWorkTasks' = <<[scheduler |-> s, task |-> jobs']>> \o gWorkTasks
  /\ UNCHANGED <<aiVars, mainVars, pauseVars, finishTasks, workerVars>>

\* The completion a job returns, if any, goes to its scheduler's finishTasks.
RunJob(w) ==
  /\ pc[w] = "run"
  /\ \/ UNCHANGED finishTasks
     \/ finishTasks' = [finishTasks EXCEPT ![container[w].scheduler] = Append(@, container[w])]
  /\ container' = [container EXCEPT ![w] = NoTask]
  /\ Goes(w, "loop")
  /\ UNCHANGED <<aiVars, mainVars, pauseVars, gWorkTasks, jobs, workerPauseId, pauseId>>
-----------------------------------------------------------------------------
ReleaseStep ==
  \/ SkipWorkers \/ StopWorkers \/ CountWorkers \/ BeginPause \/ PushDummy \/ AwaitParked
  \/ RemoveAllIf \/ EndPause \/ NotifyAll \/ JoinWorkers \/ ReleaseReturn

WorkerStep(w) ==
  \/ StartWorker(w) \/ CheckRunning(w) \/ CheckPause(w) \/ Park(w) \/ Unpark(w) \/ SleepAgain(w)
  \/ Pop(w) \/ LockScheduler(w) \/ RunJob(w)

Next ==
  \/ \E s \in Schedulers : InitAI(s) \/ InitFails(s) \/ RunParallelJob(s) \/ ProcessJobs(s)
                           \/ Release(s)
  \/ ReleaseStep
  \/ \E w \in Workers : WorkerStep(w) \/ WakeSpuriously(w) \/ SpawnJob(w)

Spec == Init /\ [][Next]_vars

\* The operating system runs every thread that can run; a job ends; the engine
\* gives a frame to every AI that is up.
FairSpec ==
  /\ Spec
  /\ WF_vars(ReleaseStep)
  /\ \A w \in Workers : WF_vars(WorkerStep(w))
  /\ \A s \in Schedulers : WF_vars(ProcessJobs(s))
-----------------------------------------------------------------------------
Queued == {gWorkTasks[i] : i \in DOMAIN gWorkTasks}
Taken == {container[w] : w \in {v \in Workers : pc[v] \in Holding}}
Finishing == UNION {{finishTasks[s][i] : i \in DOMAIN finishTasks[s]} : s \in Schedulers}
Pending(i) == \E t \in Queued \cup Taken \cup Finishing : t.task = i

\* Once Release has returned nothing of the scheduler is left: no task of it is
\* queued, no worker runs one and no completion waits, so that CCircuitAI::Release
\* may delete the managers its jobs point to.
NothingAfterRelease ==
  \A s \in Schedulers : life[s] = "gone" =>
    /\ finishTasks[s] = <<>>
    /\ \A t \in Queued : t.scheduler # s
    /\ \A w \in Workers : pc[w] = "run" => container[w].scheduler # s

\* A worker never runs a dummy, whose task pointer is null.
DummiesAreNotRun == \A w \in Workers : pc[w] = "run" => container[w].task # Null

\* RemoveAllIf, which shuffles the queue, runs when no worker can touch it, and
\* it and Clear leave the tasks of other schedulers alone: a task of a scheduler
\* that is running leaves the queue in the hands of a worker only.
OthersKeepTheirTasks ==
  [][\A t \in Queued : isRunning[t.scheduler] /\ t \notin Queued' => t \in Taken']_vars

CanStep(w) ==
  \/ pc[w] \in {"start", "loop", "check", "park", "woken", "got", "run"}
  \/ pc[w] = "pop" /\ gWorkTasks # <<>>

\* Release never waits for a worker that waits: the dummies it pushed get every
\* worker out of Pop.  A worker that neither has parked for this pause nor can go
\* on is there only after one of the two races ReleaseReturnsUnless names, and
\* gPauseCV is signalled when all have parked.
ReleaseNotStuck ==
  ~late /\ ~missed =>
    /\ at = "await" =>
         /\ \A w \in Workers :
              CanStep(w) \/ (pc[w] \in Parked /\ pauseId[w] = gWorkerPauseId)
         /\ gPauseCount = 0 \/ \E w \in Workers : CanStep(w)
    /\ at = "join" => \A w \in Workers : pc[w] = "exited" \/ CanStep(w)

\* Release returns, unless a pause began before a worker had read
\* gWorkerPauseId, or a spurious wakeup made it miss notify_all.
ReleaseReturnsUnless == at \in Releasing ~> (at = "idle" \/ late \/ missed)

\* A task does not stay in the pool: it is run and its completion too, or its
\* scheduler is released, unless a release hangs.
TasksGetDone ==
  \A i \in 1..MaxJobs : Pending(i) ~> (~Pending(i) \/ late \/ missed)

\* What Scheduler.cpp:96 pushes the dummies for: Release gets every worker out
\* of Pop and returns.
ReleaseReturns == at \in Releasing ~> at = "idle"
================================================================================
