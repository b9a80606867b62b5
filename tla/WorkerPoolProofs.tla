--------------------------- MODULE WorkerPoolProofs ---------------------------
(***************************************************************************)
(* Proofs about WorkerPool for any schedulers, any finite number of worker *)
(* threads and any number of jobs, with and without spurious wakeups.      *)
(***************************************************************************)
EXTENDS WorkerPool, FiniteSetTheorems, TLAPS

USE Zenon

(***************************************************************************)
(* The members of a queue                                                  *)
(***************************************************************************)

Members(q) == {q[i] : i \in DOMAIN q}

\* Appending a task.
LEMMA MembersAppend ==
  ASSUME NEW S, NEW q \in Seq(S), NEW t \in S
  PROVE  /\ Append(q, t) \in Seq(S)
         /\ Members(Append(q, t)) = Members(q) \cup {t}
<1>1. /\ Append(q, t) \in Seq(S) /\ DOMAIN Append(q, t) = 1..(Len(q) + 1)
      /\ DOMAIN q = 1..Len(q) /\ Len(q) \in Nat
      /\ \A i \in 1..Len(q) : Append(q, t)[i] = q[i]
      /\ Append(q, t)[Len(q) + 1] = t
  BY SMT
<1>2. ASSUME NEW x \in Members(Append(q, t)) PROVE x \in Members(q) \cup {t}
  BY <1>1, SMT DEF Members
<1>3. ASSUME NEW x \in Members(q) PROVE x \in Members(Append(q, t))
  BY <1>1, SMT DEF Members
<1>4. t \in Members(Append(q, t))
  BY <1>1, SMT DEF Members
<1> QED
  BY <1>1, <1>2, <1>3, <1>4

\* Putting a task in front.
LEMMA MembersPrepend ==
  ASSUME NEW S, NEW q \in Seq(S), NEW t \in S
  PROVE  /\ <<t>> \o q \in Seq(S)
         /\ Members(<<t>> \o q) = Members(q) \cup {t}
<1> DEFINE r == <<t>> \o q
<1>1. /\ r \in Seq(S) /\ DOMAIN r = 1..(Len(q) + 1)
      /\ DOMAIN q = 1..Len(q) /\ Len(q) \in Nat
      /\ r[1] = t /\ \A i \in 1..Len(q) : r[i + 1] = q[i]
  BY SMT
<1> HIDE DEF r
<1>2. ASSUME NEW x \in Members(r) PROVE x \in Members(q) \cup {t}
  <2>1. PICK i \in 1..(Len(q) + 1) : x = r[i]
    BY <1>1 DEF Members
  <2>2. i = 1 \/ (i - 1 \in 1..Len(q) /\ i = (i - 1) + 1)
    BY <1>1, <2>1, SMT
  <2> QED
    <3>1. CASE i = 1
      BY <1>1, <2>1, <3>1
    <3>2. CASE i - 1 \in 1..Len(q) /\ i = (i - 1) + 1
      <4>1. x = q[i - 1]
        BY <1>1, <2>1, <3>2
      <4> QED
        BY <1>1, <3>2, <4>1 DEF Members
    <3> QED
      BY <2>2, <3>1, <3>2
<1>3. ASSUME NEW x \in Members(q) PROVE x \in Members(r)
  <2>1. PICK i \in 1..Len(q) : x = q[i]
    BY <1>1 DEF Members
  <2>2. i + 1 \in DOMAIN r /\ r[i + 1] = x
    BY <1>1, <2>1, SMT
  <2> QED
    BY <2>2 DEF Members
<1>4. t \in Members(r)
  BY <1>1, SMT DEF Members
<1>5. r \in Seq(S) /\ Members(r) = Members(q) \cup {t}
  BY <1>1, <1>2, <1>3, <1>4
<1> QED
  BY <1>5 DEF r

\* Taking the front task away.
LEMMA MembersTail ==
  ASSUME NEW S, NEW q \in Seq(S), q # <<>>
  PROVE  /\ Head(q) \in S /\ Head(q) \in Members(q) /\ Tail(q) \in Seq(S)
         /\ Members(q) = Members(Tail(q)) \cup {Head(q)}
<1>1. /\ Tail(q) \in Seq(S) /\ DOMAIN Tail(q) = 1..(Len(q) - 1)
      /\ DOMAIN q = 1..Len(q) /\ Len(q) \in Nat \ {0}
      /\ q[1] = Head(q) /\ Head(q) \in S
      /\ \A i \in 1..(Len(q) - 1) : Tail(q)[i] = q[i + 1]
  BY SMT
<1>2. ASSUME NEW x \in Members(q) PROVE x \in Members(Tail(q)) \cup {Head(q)}
  <2>1. PICK i \in 1..Len(q) : x = q[i]
    BY <1>1 DEF Members
  <2>2. CASE i = 1
    BY <1>1, <2>1, <2>2
  <2>3. CASE i # 1
    <3>1. i - 1 \in DOMAIN Tail(q) /\ Tail(q)[i - 1] = x
      BY <1>1, <2>1, <2>3, SMT
    <3> QED
      BY <3>1 DEF Members
  <2> QED
    BY <2>2, <2>3
<1>3. ASSUME NEW x \in Members(Tail(q)) PROVE x \in Members(q)
  <2>1. PICK i \in 1..(Len(q) - 1) : x = Tail(q)[i]
    BY <1>1 DEF Members
  <2>2. i + 1 \in DOMAIN q /\ q[i + 1] = x
    BY <1>1, <2>1, SMT
  <2> QED
    BY <2>2 DEF Members
<1>4. Head(q) \in Members(q)
  BY <1>1, SMT DEF Members
<1> QED
  BY <1>1, <1>2, <1>3, <1>4

\* The queue without its k-th task, as RemoveAllIf leaves it.
Removed(q, k) == SubSeq([q EXCEPT ![k] = q[Len(q)]], 1, Len(q) - 1)

\* RemoveAllIf's replacement of a task by the last one.
LEMMA MembersRemove ==
  ASSUME NEW S, NEW q \in Seq(S), NEW k \in 1..Len(q)
  PROVE  /\ Removed(q, k) \in Seq(S) /\ Len(Removed(q, k)) = Len(q) - 1
         /\ \A i \in 1..Len(Removed(q, k)) : i < k => Removed(q, k)[i] = q[i]
         /\ Members(Removed(q, k)) \subseteq Members(q)
         /\ Members(q) \subseteq Members(Removed(q, k)) \cup {q[k]}
<1> DEFINE m == Len(q)
           e == [q EXCEPT ![k] = q[m]]
           r == SubSeq(e, 1, m - 1)
<1>1. m \in Nat \ {0} /\ k \in 1..m /\ DOMAIN q = 1..m /\ q[m] \in S
  BY SMT
<1>2. e \in Seq(S) /\ Len(e) = m
  BY <1>1, SMT
<1>3. /\ r \in Seq(S) /\ Len(r) = m - 1 /\ DOMAIN r = 1..(m - 1)
      /\ \A i \in 1..(m - 1) : r[i] = e[i]
  BY <1>1, <1>2, SMT
<1>4. \A i \in 1..(m - 1) : r[i] = IF i = k THEN q[m] ELSE q[i]
  BY <1>1, <1>3, SMT
<1> HIDE DEF m, e, r
<1>5. ASSUME NEW x \in Members(r) PROVE x \in Members(q)
  <2>1. PICK i \in 1..(m - 1) : x = r[i]
    BY <1>3 DEF Members
  <2>2. i \in 1..m /\ m \in 1..m /\ (x = q[m] \/ x = q[i])
    BY <1>1, <1>4, <2>1, SMT
  <2> QED
    BY <1>1, <2>2 DEF Members
<1>6. ASSUME NEW x \in Members(q) PROVE x \in Members(r) \cup {q[k]}
  <2>1. PICK i \in 1..m : x = q[i]
    BY <1>1 DEF Members
  <2>2. CASE i = k
    BY <2>1, <2>2
  <2>3. CASE i # k /\ i \in 1..(m - 1)
    BY <1>3, <1>4, <2>1, <2>3 DEF Members
  <2>4. CASE i # k /\ i = m
    <3>1. k \in 1..(m - 1) /\ r[k] = q[m]
      BY <1>1, <1>4, <2>4, SMT
    <3> QED
      BY <1>3, <2>1, <2>4, <3>1 DEF Members
  <2> QED
    BY <1>1, <2>1, <2>2, <2>3, <2>4, SMT
<1>7. r \in Seq(S) /\ Len(r) = Len(q) - 1
  BY <1>3 DEF m
<1>8. \A i \in 1..Len(r) : i < k => r[i] = q[i]
  BY <1>1, <1>3, <1>4, SMT
<1>9. r = Removed(q, k)
  BY DEF r, e, m, Removed
<1> QED
  BY <1>5, <1>6, <1>7, <1>8, <1>9

(***************************************************************************)
(* The inductive invariant                                                 *)
(***************************************************************************)

Places == {"off", "start", "loop", "check", "park", "wait", "doze", "woken",
           "pop", "got", "run", "exited"}

TypeOK ==
  /\ life \in [Schedulers -> {"none", "live", "gone"}]
  /\ at \in {"idle"} \cup Releasing /\ n \in Nat
  /\ at # "idle" => target \in Schedulers
  /\ gWorkerPauseId \in Nat /\ gPauseCount \in Int /\ jobs \in 0..MaxJobs
  /\ gWorkTasks \in Seq(Task)
  /\ finishTasks \in [Schedulers -> Seq(Task)]
  /\ pc \in [Workers -> Places]
  /\ workerPauseId \in [Workers -> Nat] /\ pauseId \in [Workers -> Nat]
  /\ container \in [Workers -> Task \cup {NoTask}]
  /\ \A w \in Workers : pc[w] \in Holding => container[w] \in Task

Running == {s \in Schedulers : isRunning[s]}

\* A scheduler runs from InitAI to Release, and the pool while one runs.
LifeInv ==
  /\ isRunning \in [Schedulers -> BOOLEAN] /\ gIsWorkerRunning \in BOOLEAN
  /\ \A s \in Running : life[s] = "live"
  /\ \A s \in Schedulers \ Running : life[s] = "live" => at # "idle" /\ target = s
  /\ at # "idle" => life[target] = "live" /\ target \notin Running
  /\ IsFiniteSet(Running) /\ gInstanceCount = Cardinality(Running)
  /\ Running # {} => gIsWorkerRunning
  /\ at \in {"bump", "push", "await", "scrub", "proceed", "notify"}
       => gIsWorkerRunning
  /\ at \in {"stop", "join"} => ~gIsWorkerRunning
  /\ ~gIsWorkerRunning /\ at \notin {"stop", "join"}
       => gWorkTasks = <<>> /\ \A w \in Workers : pc[w] = "off"

Sleeping == {"wait", "doze", "woken"}
ParkedNow == {w \in Workers : pc[w] \in Sleeping /\ pauseId[w] = gWorkerPauseId}

\* gPauseCount counts the workers that have not parked for this pause, and
\* between pauses no worker is about to park.
PauseInv ==
  /\ \A w \in Workers :
       /\ pauseId[w] <= gWorkerPauseId
       /\ pc[w] \in Sleeping => workerPauseId[w] = pauseId[w] + 1
  /\ at = "bump" => gPauseCount = N
  /\ at \in {"push", "await"} => gPauseCount = Cardinality(Workers \ ParkedNow)
  /\ at \in {"scrub", "proceed"} => Workers \subseteq ParkedNow
  /\ at \notin {"push", "await", "scrub", "proceed"} =>
       \A w \in Workers :
         /\ pc[w] # "park"
         /\ pc[w] \notin {"off", "start", "exited"}
              => workerPauseId[w] = gWorkerPauseId

HeldTasks == {container[w] : w \in {v \in Workers : pc[v] \in Holding}}

Owned == Queued \cup HeldTasks

\* Whatever is queued, held or to be finished belongs to a live scheduler,
\* and not to the one that is on its way out once the queue is scrubbed.
OwnInv ==
  /\ \A t \in Owned : life[t.scheduler] = "live"
  /\ \A s \in Schedulers : finishTasks[s] # <<>> => life[s] = "live"
  /\ at = "scrub" => n > 0
  /\ at = "scrub" =>
       \A i \in 1..Len(gWorkTasks) : i < n => gWorkTasks[i].scheduler # target
  /\ at \in {"proceed", "notify", "clear"} =>
       \A t \in Owned : t.scheduler # target

\* A dummy's scheduler has stopped running.
DummyInv ==
  /\ \A t \in Owned :
       t.task = Null => t.scheduler \notin Running
  /\ DummiesAreNotRun

IInv == TypeOK /\ LifeInv /\ PauseInv /\ OwnInv /\ DummyInv

(***************************************************************************)
(* Types                                                                   *)
(***************************************************************************)

\* What a reader of the queue needs of TypeOK.
LEMMA QueueType ==
  ASSUME TypeOK
  PROVE  /\ gWorkTasks \in Seq(Task) /\ Len(gWorkTasks) \in Nat
         /\ n \in Nat /\ jobs \in Nat
BY SMT DEF TypeOK

\* A task is its scheduler and its number.
LEMMA TaskType ==
  ASSUME NEW s \in Schedulers, NEW k \in 0..MaxJobs
  PROVE  [scheduler |-> s, task |-> k] \in Task /\ Dummy(s) \in Task
BY PoolAssumption, SMT DEF Task, Dummy, Null

\* The engine thread between releases.
LEMMA TypeOwners ==
  ASSUME TypeOK, NEW s \in Schedulers,
         InitAI(s) \/ InitFails(s) \/ RunParallelJob(s) \/ ProcessJobs(s) \/ Release(s)
  PROVE  TypeOK'
<1>1. CASE InitAI(s)
  BY <1>1 DEF InitAI, TypeOK, Places, Holding, mainVars, taskVars, localVars, ghosts
<1>2. CASE InitFails(s)
  BY <1>2 DEF InitFails, TypeOK, Releasing, pauseVars, taskVars, workerVars, localVars, ghosts
<1>3. CASE RunParallelJob(s)
  <2> DEFINE t == [scheduler |-> s, task |-> jobs']
  <2>1. jobs' \in 0..MaxJobs
    BY <1>3, PoolAssumption, SMT DEF RunParallelJob, TypeOK
  <2>2. t \in Task
    BY <2>1, TaskType
  <2>3. gWorkTasks' = Append(gWorkTasks, t) \/ gWorkTasks' = <<t>> \o gWorkTasks
    BY <1>3 DEF RunParallelJob
  <2> HIDE DEF t
  <2>4. gWorkTasks' \in Seq(Task)
    <3>1. CASE gWorkTasks' = Append(gWorkTasks, t)
      BY <2>2, <3>1, MembersAppend DEF TypeOK
    <3>2. CASE gWorkTasks' = <<t>> \o gWorkTasks
      BY <2>2, <3>2, MembersPrepend DEF TypeOK
    <3> QED
      BY <2>3, <3>1, <3>2
  <2> QED
    BY <1>3, <2>1, <2>4
    DEF RunParallelJob, TypeOK, aiVars, lifeVars, mainVars, pauseVars, workerVars, localVars
<1>4. CASE ProcessJobs(s)
  <2>1. <<>> \in Seq(Task)
    BY SMT
  <2> QED
    BY <1>4, <2>1
    DEF ProcessJobs, TypeOK, aiVars, lifeVars, mainVars, pauseVars, workerVars, localVars
<1>5. CASE Release(s)
  BY <1>5 DEF Release, TypeOK, Releasing, pauseVars, taskVars, workerVars, localVars
<1> QED
  BY <1>1, <1>2, <1>3, <1>4, <1>5

\* Release.
LEMMA TypeRelease ==
  ASSUME TypeOK, LifeInv, OwnInv, ReleaseStep
  PROVE  TypeOK'
<1> USE DEF aiVars, lifeVars, mainVars, pauseVars, taskVars, workerVars, localVars, ghosts
<1>1. CASE SkipWorkers
  BY <1>1 DEF SkipWorkers, TypeOK, Releasing
<1>2. CASE StopWorkers
  BY <1>2 DEF StopWorkers, TypeOK, Releasing
<1>3. CASE CountWorkers
  <2>1. N \in Nat
    BY PoolAssumption, FS_CardinalityType DEF N
  <2> QED
    BY <1>3, <2>1, SMT DEF CountWorkers, TypeOK, Releasing
<1>4. CASE BeginPause
  BY <1>4, SMT DEF BeginPause, TypeOK, Releasing
<1>5. CASE PushDummy
  <2>1. Dummy(target) \in Task
    BY <1>5, TaskType, PoolAssumption DEF PushDummy, TypeOK
  <2>2. gWorkTasks' \in Seq(Task)
    BY <1>5, <2>1, MembersAppend DEF PushDummy, TypeOK
  <2>3. at' \in Releasing /\ n' \in Nat
    BY <1>5, SMT DEF PushDummy, TypeOK, Releasing
  <2> QED
    BY <1>5, <2>2, <2>3 DEF PushDummy, TypeOK
<1>6. CASE AwaitParked
  BY <1>6 DEF AwaitParked, TypeOK, Releasing
<1>7. CASE RemoveAllIf
  <2>1. gWorkTasks' \in Seq(Task)
    <3>1. CASE gWorkTasks' = gWorkTasks
      BY <3>1 DEF TypeOK
    <3>2. CASE gWorkTasks' # gWorkTasks
      <4>1. /\ ~(n > Len(gWorkTasks))
            /\ gWorkTasks' = Removed(gWorkTasks, n)
        BY <1>7, <3>2 DEF RemoveAllIf, Removed
      <4>2. n \in 1..Len(gWorkTasks)
        BY <1>7, <4>1, SMT DEF RemoveAllIf, OwnInv, TypeOK
      <4> QED
        BY <4>1, <4>2, MembersRemove DEF TypeOK
    <3> QED
      BY <3>1, <3>2
  <2>2. at' \in Releasing /\ n' \in Nat
    BY <1>7, SMT DEF RemoveAllIf, TypeOK, Releasing
  <2> QED
    BY <1>7, <2>1, <2>2 DEF RemoveAllIf, TypeOK
<1>8. CASE EndPause
  BY <1>8, SMT DEF EndPause, TypeOK, Releasing
<1>9. CASE NotifyAll
  BY <1>9 DEF NotifyAll, TypeOK, Releasing, Places, Holding
<1>10. CASE JoinWorkers
  <2>1. <<>> \in Seq(Task)
    BY SMT
  <2> QED
    BY <1>10, <2>1 DEF JoinWorkers, TypeOK, Releasing, Places, Holding
<1>11. CASE ReleaseReturn
  <2>1. <<>> \in Seq(Task)
    BY SMT
  <2> QED
    BY <1>11, <2>1 DEF ReleaseReturn, TypeOK
<1> QED
  BY <1>1, <1>2, <1>3, <1>4, <1>5, <1>6, <1>7, <1>8, <1>9, <1>10, <1>11 DEF ReleaseStep

\* The workers.
LEMMA TypeWorker ==
  ASSUME TypeOK, NEW w \in Workers, WorkerStep(w) \/ WakeSpuriously(w) \/ SpawnJob(w)
  PROVE  TypeOK'
<1> USE DEF aiVars, lifeVars, mainVars, pauseVars, taskVars, workerVars, localVars, ghosts
<1>1. CASE StartWorker(w)
  BY <1>1 DEF StartWorker, Goes, TypeOK, Places, Holding
<1>2. CASE CheckRunning(w)
  BY <1>2 DEF CheckRunning, Goes, TypeOK, Places, Holding
<1>3. CASE CheckPause(w)
  BY <1>3 DEF CheckPause, Goes, TypeOK, Places, Holding
<1>4. CASE Park(w)
  BY <1>4, SMT DEF Park, Goes, TypeOK, Places, Holding
<1>5. CASE WakeSpuriously(w)
  BY <1>5 DEF WakeSpuriously, Goes, TypeOK, Places, Holding
<1>6. CASE SleepAgain(w)
  BY <1>6 DEF SleepAgain, Goes, TypeOK, Places, Holding
<1>7. CASE Unpark(w)
  BY <1>7 DEF Unpark, Goes, TypeOK, Places, Holding
<1>8. CASE Pop(w)
  <2>1. Head(gWorkTasks) \in Task /\ Tail(gWorkTasks) \in Seq(Task)
    BY <1>8, MembersTail DEF Pop, TypeOK
  <2> QED
    BY <1>8, <2>1 DEF Pop, Goes, TypeOK, Places, Holding
<1>9. CASE LockScheduler(w)
  <2>1. container' \in [Workers -> Task \cup {NoTask}]
    BY <1>9 DEF LockScheduler, TypeOK
  <2>2. \A v \in Workers : pc'[v] \in Holding => container'[v] \in Task
    BY <1>9 DEF LockScheduler, Goes, TypeOK, Holding
  <2>3. pc' \in [Workers -> Places]
    BY <1>9 DEF LockScheduler, Goes, TypeOK, Places
  <2> QED
    BY <1>9, <2>1, <2>2, <2>3 DEF LockScheduler, TypeOK
<1>10. CASE SpawnJob(w)
  <2> DEFINE t == [scheduler |-> container[w].scheduler, task |-> jobs']
  <2>1. jobs' \in 0..MaxJobs /\ container[w].scheduler \in Schedulers
    BY <1>10, PoolAssumption, SMT DEF SpawnJob, TypeOK, Holding, Task
  <2>2. t \in Task
    BY <2>1, TaskType
  <2> HIDE DEF t
  <2>3. gWorkTasks' = <<t>> \o gWorkTasks
    BY <1>10 DEF SpawnJob, t
  <2>4. gWorkTasks' \in Seq(Task)
    BY <2>2, <2>3, MembersPrepend DEF TypeOK
  <2> QED
    BY <1>10, <2>1, <2>4 DEF SpawnJob, TypeOK
<1>11. CASE RunJob(w)
  <2>1. container[w] \in Task /\ container[w].scheduler \in Schedulers
    BY <1>11 DEF RunJob, TypeOK, Holding, Task
  <2>2. \A s \in Schedulers : Append(finishTasks[s], container[w]) \in Seq(Task)
    BY <2>1, MembersAppend DEF TypeOK
  <2>3. finishTasks' \in [Schedulers -> Seq(Task)]
    BY <1>11, <2>1, <2>2 DEF RunJob, TypeOK
  <2> QED
    BY <1>11, <2>3 DEF RunJob, Goes, TypeOK, Places, Holding
<1> QED
  BY <1>1, <1>2, <1>3, <1>4, <1>5, <1>6, <1>7, <1>8, <1>9, <1>10, <1>11 DEF WorkerStep

(***************************************************************************)
(* The life of schedulers and of the pool                                  *)
(***************************************************************************)

\* InitAI and Release change who runs by one.
LEMMA RunningAfter ==
  ASSUME isRunning \in [Schedulers -> BOOLEAN], NEW s \in Schedulers
  PROVE  /\ isRunning' = [isRunning EXCEPT ![s] = TRUE] => Running' = Running \cup {s}
         /\ isRunning' = [isRunning EXCEPT ![s] = FALSE] => Running' = Running \ {s}
         /\ isRunning' = isRunning => Running' = Running
<1>1. ASSUME isRunning' = [isRunning EXCEPT ![s] = TRUE]
      PROVE  Running' = Running \cup {s}
  BY <1>1 DEF Running
<1>2. ASSUME isRunning' = [isRunning EXCEPT ![s] = FALSE]
      PROVE  Running' = Running \ {s}
  BY <1>2 DEF Running
<1> QED
  BY <1>1, <1>2 DEF Running

\* The engine thread between releases.
LEMMA LifeOwners ==
  ASSUME TypeOK, LifeInv, NEW s \in Schedulers,
         InitAI(s) \/ InitFails(s) \/ RunParallelJob(s) \/ ProcessJobs(s) \/ Release(s)
  PROVE  LifeInv'
<1>1. CASE InitAI(s)
  <2>1. Running' = Running \cup {s} /\ s \notin Running
    BY <1>1, RunningAfter DEF InitAI, LifeInv
  <2>2. IsFiniteSet(Running)' /\ gInstanceCount' = Cardinality(Running)'
    BY <1>1, <2>1, FS_AddElement DEF InitAI, LifeInv
  <2>3. isRunning' \in [Schedulers -> BOOLEAN] /\ gIsWorkerRunning' = TRUE
    BY <1>1 DEF InitAI, LifeInv
  <2>4. /\ \A r \in Running' : life'[r] = "live"
        /\ \A r \in Schedulers \ Running' : life'[r] # "live"
        /\ at' = "idle"
    BY <1>1, <2>1, SMT DEF InitAI, LifeInv, TypeOK, mainVars
  <2> QED
    BY <2>2, <2>3, <2>4 DEF LifeInv
<1>2. CASE InitFails(s)
  <2>1. Running' = Running /\ s \notin Running
    BY <1>2, RunningAfter DEF InitFails, LifeInv
  <2>2. /\ \A r \in Running' : life'[r] = "live"
        /\ \A r \in Schedulers \ Running' : life'[r] = "live" => r = s
        /\ at' = "route" /\ target' = s /\ life'[s] = "live"
    BY <1>2, <2>1, SMT DEF InitFails, LifeInv, TypeOK
  <2>3. at = "idle" /\ UNCHANGED <<isRunning, gIsWorkerRunning, gInstanceCount, gWorkTasks, pc>>
    BY <1>2 DEF InitFails, pauseVars, taskVars, workerVars
  <2> QED
    BY <2>1, <2>2, <2>3 DEF LifeInv
<1>3. CASE RunParallelJob(s)
  <2>1. Running' = Running
    BY <1>3, RunningAfter DEF RunParallelJob, LifeInv, aiVars
  <2>2. gIsWorkerRunning
    BY <1>3 DEF RunParallelJob, LifeInv
  <2>3. UNCHANGED <<life, gInstanceCount, isRunning, at, target, gIsWorkerRunning, pc>>
    BY <1>3 DEF RunParallelJob, aiVars, lifeVars, mainVars, pauseVars, workerVars
  <2> QED
    BY <2>1, <2>2, <2>3 DEF LifeInv
<1>4. CASE ProcessJobs(s)
  <2>1. Running' = Running
    BY <1>4, RunningAfter DEF ProcessJobs, LifeInv, aiVars
  <2>2. UNCHANGED <<life, gInstanceCount, isRunning, at, target, gIsWorkerRunning, gWorkTasks, pc>>
    BY <1>4 DEF ProcessJobs, aiVars, lifeVars, mainVars, pauseVars, workerVars
  <2> QED
    BY <2>1, <2>2 DEF LifeInv
<1>5. CASE Release(s)
  <2>1. s \in Running
    BY <1>5 DEF Release, Running
  <2>2. Running' = Running \ {s}
    BY <1>5, RunningAfter DEF Release, LifeInv
  <2>3. IsFiniteSet(Running)' /\ gInstanceCount' = Cardinality(Running)'
    BY <1>5, <2>1, <2>2, FS_RemoveElement DEF Release, LifeInv
  <2>4. isRunning' \in [Schedulers -> BOOLEAN]
    BY <1>5 DEF Release, LifeInv
  <2>5. gIsWorkerRunning /\ UNCHANGED <<life, gIsWorkerRunning>> /\ at = "idle"
    BY <1>5, <2>1 DEF Release, LifeInv, pauseVars
  <2>6. at' = "route" /\ target' = s
    BY <1>5 DEF Release
  <2> QED
    BY <2>1, <2>2, <2>3, <2>4, <2>5, <2>6 DEF LifeInv
<1> QED
  BY <1>1, <1>2, <1>3, <1>4, <1>5

\* Release.
LEMMA LifeRelease ==
  ASSUME TypeOK, LifeInv, ReleaseStep
  PROVE  LifeInv'
<1>1. /\ isRunning' = isRunning /\ gInstanceCount' = gInstanceCount
      /\ at # "idle"
  BY DEF ReleaseStep, SkipWorkers, StopWorkers, CountWorkers, BeginPause, PushDummy,
         AwaitParked, RemoveAllIf, EndPause, NotifyAll, JoinWorkers, ReleaseReturn, aiVars,
         lifeVars
<1>2. target \in Schedulers /\ target \notin Running
  BY <1>1 DEF TypeOK, LifeInv
<1>3. Running' = Running
  BY <1>1, <1>2, RunningAfter DEF LifeInv
<1>4. /\ isRunning' \in [Schedulers -> BOOLEAN]
      /\ IsFiniteSet(Running)' /\ gInstanceCount' = Cardinality(Running)'
  BY <1>1, <1>3 DEF LifeInv
<1>5. CASE ReleaseReturn
  <2>1. /\ life' = [life EXCEPT ![target] = "gone"] /\ at = "clear" /\ at' = "idle"
        /\ UNCHANGED <<gIsWorkerRunning, gWorkTasks, pc>>
    BY <1>5 DEF ReleaseReturn, pauseVars, workerVars
  <2>2. /\ \A s \in Running' : life'[s] = "live"
        /\ \A s \in Schedulers \ Running' : life'[s] # "live"
    BY <1>2, <1>3, <2>1, SMT DEF LifeInv, TypeOK
  <2> QED
    BY <1>3, <1>4, <2>1, <2>2 DEF LifeInv
<1>6. ASSUME ~ReleaseReturn PROVE life' = life /\ target' = target /\ at' # "idle"
  BY <1>6
  DEF ReleaseStep, SkipWorkers, StopWorkers, CountWorkers, BeginPause, PushDummy,
      AwaitParked, RemoveAllIf, EndPause, NotifyAll, JoinWorkers, aiVars, lifeVars
<1>7. ASSUME ~ReleaseReturn
      PROVE  /\ \A s \in Running' : life'[s] = "live"
             /\ \A s \in Schedulers \ Running' :
                  life'[s] = "live" => at' # "idle" /\ target' = s
             /\ life'[target'] = "live" /\ target' \notin Running'
  BY <1>1, <1>3, <1>6, <1>7 DEF LifeInv
<1> DEFINE Rest ==
      /\ gIsWorkerRunning \in BOOLEAN
      /\ Running # {} => gIsWorkerRunning
      /\ at \in {"bump", "push", "await", "scrub", "proceed", "notify"}
           => gIsWorkerRunning
      /\ at \in {"stop", "join"} => ~gIsWorkerRunning
      /\ ~gIsWorkerRunning /\ at \notin {"stop", "join"}
           => gWorkTasks = <<>> /\ \A w \in Workers : pc[w] = "off"
<1> USE DEF aiVars, mainVars, pauseVars, taskVars, workerVars
<1>8. CASE SkipWorkers
  <2>1. Rest'
    BY <1>3, <1>8 DEF SkipWorkers, LifeInv
  <2> QED
    BY <1>4, <1>7, <1>8, <2>1 DEF SkipWorkers, ReleaseReturn, LifeInv
<1>9. CASE StopWorkers
  <2>1. Running = {}
    BY <1>9, FS_EmptySet DEF StopWorkers, LifeInv
  <2>2. Rest'
    BY <1>3, <1>9, <2>1 DEF StopWorkers
  <2> QED
    BY <1>4, <1>7, <1>9, <2>2 DEF StopWorkers, ReleaseReturn, LifeInv
<1>10. CASE CountWorkers
  <2>1. Rest'
    BY <1>3, <1>10 DEF CountWorkers, LifeInv
  <2> QED
    BY <1>4, <1>7, <1>10, <2>1 DEF CountWorkers, ReleaseReturn, LifeInv
<1>11. CASE BeginPause
  <2>1. Rest'
    BY <1>3, <1>11 DEF BeginPause, LifeInv
  <2> QED
    BY <1>4, <1>7, <1>11, <2>1 DEF BeginPause, ReleaseReturn, LifeInv
<1>12. CASE PushDummy
  <2>1. Rest'
    BY <1>3, <1>12 DEF PushDummy, LifeInv
  <2> QED
    BY <1>4, <1>7, <1>12, <2>1 DEF PushDummy, ReleaseReturn, LifeInv
<1>13. CASE AwaitParked
  <2>1. Rest'
    BY <1>3, <1>13 DEF AwaitParked, LifeInv
  <2> QED
    BY <1>4, <1>7, <1>13, <2>1 DEF AwaitParked, ReleaseReturn, LifeInv
<1>14. CASE RemoveAllIf
  <2>1. Rest'
    BY <1>3, <1>14 DEF RemoveAllIf, LifeInv
  <2> QED
    BY <1>4, <1>7, <1>14, <2>1 DEF RemoveAllIf, ReleaseReturn, LifeInv
<1>15. CASE EndPause
  <2>1. Rest'
    BY <1>3, <1>15 DEF EndPause, LifeInv
  <2> QED
    BY <1>4, <1>7, <1>15, <2>1 DEF EndPause, ReleaseReturn, LifeInv
<1>16. CASE NotifyAll
  <2>1. Rest'
    BY <1>3, <1>16 DEF NotifyAll, LifeInv
  <2> QED
    BY <1>4, <1>7, <1>16, <2>1 DEF NotifyAll, ReleaseReturn, LifeInv
<1>17. CASE JoinWorkers
  <2>1. Rest'
    BY <1>3, <1>17 DEF JoinWorkers, LifeInv
  <2> QED
    BY <1>4, <1>7, <1>17, <2>1 DEF JoinWorkers, ReleaseReturn, LifeInv
<1> QED
  BY <1>5, <1>8, <1>9, <1>10, <1>11, <1>12, <1>13, <1>14, <1>15, <1>16, <1>17 DEF ReleaseStep

\* The workers change nothing of it, and there are none in a stopped pool.
LEMMA LifeWorker ==
  ASSUME TypeOK, LifeInv, NEW w \in Workers, WorkerStep(w) \/ WakeSpuriously(w) \/ SpawnJob(w)
  PROVE  LifeInv'
<1>1. UNCHANGED <<life, gInstanceCount, isRunning, at, target, gIsWorkerRunning>> /\ pc[w] # "off"
  BY DEF WorkerStep, StartWorker, CheckRunning, CheckPause, Park, Unpark, SleepAgain, Pop,
         LockScheduler, RunJob, WakeSpuriously, SpawnJob, aiVars, lifeVars, mainVars, pauseVars
<1>2. Running' = Running
  BY <1>1 DEF Running
<1>3. gIsWorkerRunning \/ at \in {"stop", "join"}
  BY <1>1 DEF LifeInv
<1> QED
  BY <1>1, <1>2, <1>3 DEF LifeInv

(***************************************************************************)
(* Pauses                                                                  *)
(***************************************************************************)

\* The engine thread between releases.
LEMMA PauseOwners ==
  ASSUME TypeOK, PauseInv, NEW s \in Schedulers,
         InitAI(s) \/ InitFails(s) \/ RunParallelJob(s) \/ ProcessJobs(s) \/ Release(s)
  PROVE  PauseInv'
<1>1. /\ at = "idle" /\ at' \in {"idle", "route"}
      /\ UNCHANGED <<pauseId, workerPauseId, gWorkerPauseId>>
      /\ pc' = pc \/ pc' = [w \in Workers |-> "start"]
  BY DEF InitAI, InitFails, RunParallelJob, ProcessJobs, Release, mainVars, pauseVars,
         workerVars, localVars
<1> QED
  BY <1>1 DEF PauseInv, Sleeping

\* Release.
LEMMA PauseRelease ==
  ASSUME TypeOK, PauseInv, ReleaseStep
  PROVE  PauseInv'
<1> USE DEF mainVars, pauseVars, workerVars, localVars
<1>1. CASE SkipWorkers \/ StopWorkers \/ ReleaseReturn
  <2>1. /\ at \in {"route", "clear"} /\ at' \in {"clear", "stop", "idle"}
        /\ UNCHANGED <<pc, pauseId, workerPauseId, gWorkerPauseId>>
    BY <1>1 DEF SkipWorkers, StopWorkers, ReleaseReturn
  <2> QED
    BY <2>1 DEF PauseInv
<1>2. CASE CountWorkers
  BY <1>2 DEF CountWorkers, PauseInv
<1>3. CASE BeginPause
  <2>1. ParkedNow' = {}
    BY <1>3, SMT DEF BeginPause, PauseInv, ParkedNow, TypeOK
  <2>2. gPauseCount' = Cardinality(Workers \ ParkedNow)'
    BY <1>3, <2>1 DEF BeginPause, PauseInv, N
  <2>3. at' = "push" /\ UNCHANGED <<pc, pauseId, workerPauseId>>
        /\ gWorkerPauseId' = gWorkerPauseId + 1
    BY <1>3 DEF BeginPause
  <2> QED
    BY <2>2, <2>3, SMT DEF PauseInv, TypeOK
<1>4. CASE PushDummy
  <2>1. /\ at \in {"push", "stop"}
        /\ IF at = "push" THEN at' \in {"push", "await"} ELSE at' \in {"stop", "join"}
        /\ UNCHANGED <<pc, pauseId, workerPauseId, gWorkerPauseId, gPauseCount>>
    BY <1>4 DEF PushDummy
  <2>2. ParkedNow' = ParkedNow
    BY <2>1 DEF ParkedNow
  <2> QED
    BY <2>1, <2>2 DEF PauseInv
<1>5. CASE AwaitParked
  <2>1. IsFiniteSet(Workers \ ParkedNow)
    BY PoolAssumption, FS_Subset
  <2>2. Workers \ ParkedNow = {}
    BY <1>5, <2>1, FS_EmptySet DEF AwaitParked, PauseInv
  <2>3. ParkedNow' = ParkedNow
    BY <1>5 DEF AwaitParked, ParkedNow
  <2> QED
    BY <1>5, <2>2, <2>3 DEF AwaitParked, PauseInv
<1>6. CASE RemoveAllIf
  <2>1. /\ at = "scrub" /\ at' \in {"scrub", "proceed"}
        /\ UNCHANGED <<pc, pauseId, workerPauseId, gWorkerPauseId, gPauseCount>>
    BY <1>6 DEF RemoveAllIf
  <2>2. ParkedNow' = ParkedNow
    BY <2>1 DEF ParkedNow
  <2> QED
    BY <2>1, <2>2 DEF PauseInv
<1>7. CASE EndPause
  <2>1. /\ at = "proceed" /\ at' = "notify" /\ gWorkerPauseId' = gWorkerPauseId + 1
        /\ UNCHANGED <<pc, pauseId, workerPauseId>>
    BY <1>7 DEF EndPause
  <2>2. \A w \in Workers : pc[w] \in Sleeping /\ pauseId[w] = gWorkerPauseId
    BY <2>1 DEF PauseInv, ParkedNow
  <2>3. \A w \in Workers : pauseId'[w] <= gWorkerPauseId'
    BY <2>1, <2>2, SMT DEF TypeOK
  <2>4. \A w \in Workers : workerPauseId'[w] = gWorkerPauseId' /\ pc'[w] # "park"
    BY <2>1, <2>2 DEF PauseInv, Sleeping
  <2> QED
    BY <2>1, <2>3, <2>4 DEF PauseInv
<1>8. CASE NotifyAll
  BY <1>8 DEF NotifyAll, PauseInv, TypeOK, Sleeping
<1>9. CASE JoinWorkers
  BY <1>9 DEF JoinWorkers, PauseInv, TypeOK, Sleeping
<1> QED
  BY <1>1, <1>2, <1>3, <1>4, <1>5, <1>6, <1>7, <1>8, <1>9 DEF ReleaseStep

\* A worker that moves without parking for the pause that is on.
LEMMA PauseMove ==
  ASSUME TypeOK, PauseInv, NEW w \in Workers, NEW place,
         Goes(w, place), ParkedNow' = ParkedNow,
         place \in Sleeping => workerPauseId'[w] = pauseId[w] + 1,
         at \notin {"push", "await", "scrub", "proceed"} =>
           /\ place # "park"
           /\ place \notin {"off", "start", "exited"}
                => workerPauseId'[w] = gWorkerPauseId,
         \A v \in Workers \ {w} : workerPauseId'[v] = workerPauseId[v],
         UNCHANGED <<at, pauseId, gWorkerPauseId, gPauseCount>>
  PROVE  PauseInv'
<1>1. \A v \in Workers : pc'[v] = IF v = w THEN place ELSE pc[v]
  BY DEF Goes, TypeOK
<1>2. \A v \in Workers : pc'[v] \in Sleeping => workerPauseId'[v] = pauseId'[v] + 1
  BY <1>1 DEF PauseInv
<1>3. ASSUME at \notin {"push", "await", "scrub", "proceed"}, NEW v \in Workers
      PROVE  /\ pc'[v] # "park"
             /\ pc'[v] \notin {"off", "start", "exited"} => workerPauseId'[v] = gWorkerPauseId
  BY <1>1, <1>3 DEF PauseInv
<1> QED
  BY <1>2, <1>3 DEF PauseInv

\* Steps between places that are not for sleeping, or both are.
LEMMA ParkedFrame ==
  ASSUME TypeOK, NEW w \in Workers, NEW place, Goes(w, place),
         pc[w] \in Sleeping <=> place \in Sleeping,
         UNCHANGED <<pauseId, gWorkerPauseId>>
  PROVE  ParkedNow' = ParkedNow
BY DEF Goes, TypeOK, ParkedNow

\* The workers.
LEMMA PauseWorker ==
  ASSUME TypeOK, PauseInv, NEW w \in Workers, WorkerStep(w) \/ WakeSpuriously(w) \/ SpawnJob(w)
  PROVE  PauseInv'
<1> USE DEF mainVars, pauseVars, workerVars, localVars
<1> DEFINE Same == UNCHANGED <<at, pauseId, gWorkerPauseId, gPauseCount>>
<1>1. CASE StartWorker(w)
  <2>1. Goes(w, "loop") /\ Same /\ pc[w] = "start"
    BY <1>1 DEF StartWorker
  <2>2. /\ workerPauseId'[w] = gWorkerPauseId
        /\ \A v \in Workers \ {w} : workerPauseId'[v] = workerPauseId[v]
    BY <1>1 DEF StartWorker, TypeOK
  <2>3. ParkedNow' = ParkedNow
    BY <2>1, ParkedFrame DEF Sleeping
  <2> QED
    BY <2>1, <2>2, <2>3, PauseMove DEF Sleeping
<1>2. CASE CheckRunning(w)
  <2> DEFINE place == IF gIsWorkerRunning THEN "check" ELSE "exited"
  <2>1. Goes(w, place) /\ Same /\ pc[w] = "loop" /\ UNCHANGED workerPauseId
    BY <1>2 DEF CheckRunning
  <2>2. place \in {"check", "exited"}
    OBVIOUS
  <2> HIDE DEF place
  <2>3. ParkedNow' = ParkedNow
    BY <2>1, <2>2, ParkedFrame DEF Sleeping
  <2>4. at \notin {"push", "await", "scrub", "proceed"} => workerPauseId[w] = gWorkerPauseId
    BY <2>1 DEF PauseInv
  <2> QED
    BY <2>1, <2>2, <2>3, <2>4, PauseMove DEF Sleeping
<1>3. CASE CheckPause(w)
  <2> DEFINE place == IF workerPauseId[w] # gWorkerPauseId THEN "park" ELSE "pop"
  <2>1. Goes(w, place) /\ Same /\ pc[w] = "check" /\ UNCHANGED workerPauseId
    BY <1>3 DEF CheckPause
  <2>2. place \in {"park", "pop"} /\ (place = "park" => workerPauseId[w] # gWorkerPauseId)
    OBVIOUS
  <2> HIDE DEF place
  <2>3. ParkedNow' = ParkedNow
    BY <2>1, <2>2, ParkedFrame DEF Sleeping
  <2>4. at \notin {"push", "await", "scrub", "proceed"} => workerPauseId[w] = gWorkerPauseId
    BY <2>1 DEF PauseInv
  <2> QED
    BY <2>1, <2>2, <2>3, <2>4, PauseMove DEF Sleeping
<1>4. CASE Park(w)
  <2>1. /\ pc[w] = "park" /\ pc' = [pc EXCEPT ![w] = "wait"] /\ at # "push"
        /\ pauseId' = [pauseId EXCEPT ![w] = gWorkerPauseId]
        /\ workerPauseId' = [workerPauseId EXCEPT ![w] = gWorkerPauseId + 1]
        /\ gPauseCount' = gPauseCount - 1 /\ UNCHANGED <<at, gWorkerPauseId>>
    BY <1>4 DEF Park, Goes
  <2>2. w \notin ParkedNow /\ ParkedNow' = ParkedNow \cup {w}
    BY <2>1 DEF ParkedNow, TypeOK, Sleeping
  <2>3. at = "await"
    BY <2>1, <2>2 DEF PauseInv
  <2>4. gPauseCount' = Cardinality(Workers \ ParkedNow)'
    <3>1. /\ IsFiniteSet(Workers \ ParkedNow) /\ w \in Workers \ ParkedNow
          /\ Workers \ ParkedNow' = (Workers \ ParkedNow) \ {w}
      BY <2>2, PoolAssumption, FS_Subset
    <3>2. Cardinality(Workers \ ParkedNow') = Cardinality(Workers \ ParkedNow) - 1
      BY <3>1, FS_RemoveElement
    <3> QED
      BY <2>1, <2>3, <3>2 DEF PauseInv
  <2>5. \A v \in Workers :
          /\ pauseId'[v] <= gWorkerPauseId'
          /\ pc'[v] \in Sleeping => workerPauseId'[v] = pauseId'[v] + 1
    BY <2>1, SMT DEF PauseInv, TypeOK
  <2>6. at' = "await"
    BY <2>1, <2>3
  <2> QED
    BY <2>4, <2>5, <2>6 DEF PauseInv
<1>5. CASE WakeSpuriously(w) \/ Unpark(w)
  <2>1. PICK place \in {"pop", "doze", "wait"} :
          /\ Goes(w, place) /\ Same /\ pc[w] \in Sleeping /\ UNCHANGED workerPauseId
          /\ place = "pop" <=> pauseId[w] # gWorkerPauseId
    BY <1>5 DEF WakeSpuriously, Unpark, Sleeping
  <2>2. ParkedNow' = ParkedNow
    BY <2>1 DEF ParkedNow, Goes, TypeOK, Sleeping
  <2>3. /\ workerPauseId[w] = pauseId[w] + 1
        /\ at \notin {"push", "await", "scrub", "proceed"} => workerPauseId[w] = gWorkerPauseId
    BY <2>1 DEF PauseInv, Sleeping
  <2> QED
    BY <2>1, <2>2, <2>3, PauseMove
<1>6. CASE SleepAgain(w)
  <2>1. Goes(w, "wait") /\ Same /\ pc[w] = "doze" /\ UNCHANGED workerPauseId
    BY <1>6 DEF SleepAgain
  <2>2. ParkedNow' = ParkedNow
    BY <2>1, ParkedFrame DEF Sleeping
  <2>3. /\ workerPauseId[w] = pauseId[w] + 1
        /\ at \notin {"push", "await", "scrub", "proceed"} => workerPauseId[w] = gWorkerPauseId
    BY <2>1 DEF PauseInv, Sleeping
  <2> QED
    BY <2>1, <2>2, <2>3, PauseMove
<1>7. CASE Pop(w) \/ LockScheduler(w) \/ RunJob(w)
  <2>1. PICK place \in {"got", "run", "loop"} :
          Goes(w, place) /\ Same /\ pc[w] \in {"pop", "got", "run"} /\ UNCHANGED workerPauseId
    BY <1>7 DEF Pop, LockScheduler, RunJob
  <2>2. ParkedNow' = ParkedNow
    BY <2>1, ParkedFrame DEF Sleeping
  <2>3. at \notin {"push", "await", "scrub", "proceed"} => workerPauseId[w] = gWorkerPauseId
    BY <2>1 DEF PauseInv
  <2> QED
    BY <2>1, <2>2, <2>3, PauseMove DEF Sleeping
<1>8. CASE SpawnJob(w)
  <2>1. UNCHANGED <<at, pc, pauseId, workerPauseId, gWorkerPauseId, gPauseCount>>
    BY <1>8 DEF SpawnJob
  <2>2. ParkedNow' = ParkedNow
    BY <2>1 DEF ParkedNow
  <2> QED
    BY <2>1, <2>2 DEF PauseInv
<1> QED
  BY <1>1, <1>2, <1>3, <1>4, <1>5, <1>6, <1>7, <1>8 DEF WorkerStep

(***************************************************************************)
(* Whose tasks there are                                                   *)
(***************************************************************************)

\* A queue's members.
LEMMA QueuedMembers == Queued = Members(gWorkTasks) /\ Queued' = Members(gWorkTasks')
BY DEF Queued, Members

\* The tasks have schedulers.
LEMMA OwnedType ==
  ASSUME TypeOK PROVE \A t \in Owned : t \in Task /\ t.scheduler \in Schedulers
<1>1. \A t \in Queued : t \in Task
  BY SMT DEF TypeOK, Queued
<1>2. \A t \in HeldTasks : t \in Task
  BY DEF TypeOK, HeldTasks
<1> QED
  BY <1>1, <1>2 DEF Owned, Task

\* Where pc and container keep who holds what.
LEMMA HeldFrame ==
  ASSUME \A w \in Workers : pc'[w] \in Holding =>
           pc[w] \in Holding /\ container'[w] = container[w]
  PROVE  HeldTasks' \subseteq HeldTasks
BY DEF HeldTasks

\* The engine thread between releases.
LEMMA OwnOwners ==
  ASSUME TypeOK, TypeOK', LifeInv, OwnInv, DummyInv, NEW s \in Schedulers,
         InitAI(s) \/ InitFails(s) \/ RunParallelJob(s) \/ ProcessJobs(s) \/ Release(s)
  PROVE  OwnInv' /\ DummyInv'
<1>1. at = "idle" /\ at' \in {"idle", "route"}
  BY DEF InitAI, InitFails, RunParallelJob, ProcessJobs, Release, mainVars
<1>2. /\ \A w \in Workers : pc'[w] \in Holding => pc[w] \in Holding /\ pc'[w] = pc[w]
      /\ container' = container
  BY DEF InitAI, InitFails, RunParallelJob, ProcessJobs, Release, workerVars, localVars, Holding
<1>3. HeldTasks' \subseteq HeldTasks
  BY <1>2, HeldFrame
<1>4. DummiesAreNotRun'
  BY <1>2 DEF DummyInv, DummiesAreNotRun, Holding
<1> USE DEF aiVars, lifeVars, mainVars, pauseVars, taskVars, workerVars, localVars
<1>5. CASE InitAI(s) \/ InitFails(s)
  <2>1. Owned' \subseteq Owned
    BY <1>3, <1>5 DEF InitAI, InitFails, Owned, Queued
  <2>2. life' = [life EXCEPT ![s] = "live"] /\ life[s] = "none" /\ UNCHANGED finishTasks
    BY <1>5 DEF InitAI, InitFails
  <2>3. \A t \in Owned' : life'[t.scheduler] = "live" /\ t.scheduler # s
    BY <2>1, <2>2, OwnedType DEF OwnInv, TypeOK
  <2>4. \A r \in Schedulers : finishTasks'[r] # <<>> => life'[r] = "live"
    BY <2>2 DEF OwnInv, TypeOK
  <2>5. Running' \subseteq Running \cup {s}
    BY <1>5, RunningAfter DEF InitAI, InitFails, LifeInv
  <2>6. \A t \in Owned' : t.task = Null => t.scheduler \notin Running'
    BY <2>1, <2>3, <2>5 DEF DummyInv
  <2> QED
    BY <1>1, <1>4, <2>3, <2>4, <2>6 DEF OwnInv, DummyInv
<1>6. CASE RunParallelJob(s)
  <2> DEFINE t == [scheduler |-> s, task |-> jobs']
  <2>1. jobs' \in 1..MaxJobs
    BY <1>6, PoolAssumption, SMT DEF RunParallelJob, TypeOK
  <2>2. t \in Task /\ t.scheduler = s /\ t.task # Null
    BY <2>1, TaskType, SMT DEF Null
  <2>3. gWorkTasks' = Append(gWorkTasks, t) \/ gWorkTasks' = <<t>> \o gWorkTasks
    BY <1>6 DEF RunParallelJob
  <2> HIDE DEF t
  <2>4. Queued' = Queued \cup {t}
    <3>1. CASE gWorkTasks' = Append(gWorkTasks, t)
      BY <2>2, <3>1, MembersAppend, QueuedMembers, SMT DEF TypeOK
    <3>2. CASE gWorkTasks' = <<t>> \o gWorkTasks
      BY <2>2, <3>2, MembersPrepend, QueuedMembers, SMT DEF TypeOK
    <3> QED
      BY <2>3, <3>1, <3>2
  <2>5. Owned' \subseteq Owned \cup {t}
    BY <1>3, <2>4 DEF Owned
  <2>6. life' = life /\ life[s] = "live" /\ UNCHANGED <<finishTasks, isRunning>>
    BY <1>6 DEF RunParallelJob
  <2>7. Running' = Running
    BY <2>6 DEF Running
  <2> QED
    BY <1>1, <1>4, <2>2, <2>5, <2>6, <2>7 DEF OwnInv, DummyInv
<1>7. CASE ProcessJobs(s) \/ Release(s)
  <2>1. Owned' \subseteq Owned
    BY <1>3, <1>7 DEF ProcessJobs, Release, Owned, Queued
  <2>2. life' = life /\ \A r \in Schedulers : finishTasks'[r] # <<>> => finishTasks[r] # <<>>
    BY <1>7 DEF ProcessJobs, Release, TypeOK
  <2>3. Running' \subseteq Running
    BY <1>7, RunningAfter DEF ProcessJobs, Release, LifeInv
  <2> QED
    BY <1>1, <1>4, <2>1, <2>2, <2>3 DEF OwnInv, DummyInv
<1> QED
  BY <1>5, <1>6, <1>7

\* Release.
LEMMA OwnRelease ==
  ASSUME TypeOK, LifeInv, PauseInv, OwnInv, DummyInv, ReleaseStep
  PROVE  OwnInv' /\ DummyInv'
<1>1. /\ isRunning' = isRunning /\ at # "idle" /\ container' = container
      /\ \A w \in Workers : pc'[w] \in Holding => pc[w] = pc'[w]
  BY DEF ReleaseStep, SkipWorkers, StopWorkers, CountWorkers, BeginPause, PushDummy,
         AwaitParked, RemoveAllIf, EndPause, NotifyAll, JoinWorkers, ReleaseReturn, aiVars,
         workerVars, localVars, Holding
<1>2. Running' = Running
  BY <1>1 DEF Running
<1>3. HeldTasks' \subseteq HeldTasks
  BY <1>1, HeldFrame
<1>4. DummiesAreNotRun'
  BY <1>1 DEF DummyInv, DummiesAreNotRun, Holding
<1>5. target \in Schedulers /\ life[target] = "live" /\ target \notin Running
  BY <1>1 DEF LifeInv, TypeOK
<1> USE DEF aiVars, lifeVars, mainVars, pauseVars, taskVars, workerVars
<1>6. CASE PushDummy
  <2> DEFINE t == Dummy(target)
  <2>1. t \in Task /\ t.scheduler = target
    BY <1>5, PoolAssumption, SMT DEF Dummy, Task, Null
  <2> HIDE DEF t
  <2>2. Queued' = Queued \cup {t}
    <3>1. gWorkTasks' = Append(gWorkTasks, t)
      BY <1>6 DEF PushDummy, t
    <3> QED
      BY <2>1, <3>1, MembersAppend, QueuedMembers, SMT DEF TypeOK
  <2>3. Owned' \subseteq Owned \cup {t}
    BY <1>3, <2>2 DEF Owned
  <2>4. /\ life' = life /\ UNCHANGED finishTasks /\ at' \notin {"scrub", "proceed", "notify", "clear"}
    BY <1>6 DEF PushDummy
  <2> QED
    BY <1>2, <1>4, <1>5, <2>1, <2>3, <2>4 DEF OwnInv, DummyInv
<1>7. CASE RemoveAllIf
  <2>1. HeldTasks' = {}
    BY <1>3, <1>7 DEF RemoveAllIf, PauseInv, ParkedNow, HeldTasks, Sleeping, Holding
  <2>2. at = "scrub" /\ n \in Nat \ {0} /\ UNCHANGED <<life, finishTasks, target>>
    BY <1>7, SMT DEF RemoveAllIf, OwnInv, TypeOK
  <2>3. CASE n > Len(gWorkTasks)
    <3>1. at' = "proceed" /\ UNCHANGED <<n, gWorkTasks>>
      BY <1>7, <2>3 DEF RemoveAllIf
    <3>2. Owned' \subseteq Owned
      BY <2>1, <3>1 DEF Owned, Queued
    <3>3. \A i \in 1..Len(gWorkTasks) : gWorkTasks[i].scheduler # target
      <4>1. \A i \in 1..Len(gWorkTasks) : i < n => gWorkTasks[i].scheduler # target
        BY <2>2 DEF OwnInv
      <4>2. \A i \in 1..Len(gWorkTasks) : i < n
        BY <2>2, <2>3, QueueType, SMT
      <4> QED
        BY <4>1, <4>2
    <3>4. \A t \in Owned' : t.scheduler # target'
      <4>1. DOMAIN gWorkTasks = 1..Len(gWorkTasks)
        BY QueueType, SMT
      <4>2. Owned' = Queued /\ target' = target
        BY <2>1, <2>2, <3>1 DEF Owned, Queued
      <4> QED
        BY <3>3, <4>1, <4>2 DEF Queued
    <3> QED
      BY <1>2, <1>4, <2>2, <3>1, <3>2, <3>4 DEF OwnInv, DummyInv
  <2>4. CASE ~(n > Len(gWorkTasks)) /\ gWorkTasks[n].scheduler = target
    <3>1. /\ at' = "scrub" /\ n' = n /\ n \in 1..Len(gWorkTasks)
          /\ gWorkTasks' = Removed(gWorkTasks, n)
      BY <1>7, <2>2, <2>4, SMT DEF RemoveAllIf, TypeOK, Removed
    <3>2. /\ Len(gWorkTasks') = Len(gWorkTasks) - 1
          /\ \A i \in 1..Len(gWorkTasks') : i < n => gWorkTasks'[i] = gWorkTasks[i]
          /\ Members(gWorkTasks') \subseteq Members(gWorkTasks)
      BY <3>1, MembersRemove DEF TypeOK
    <3>3. Owned' \subseteq Owned
      BY <2>1, <3>2, QueuedMembers DEF Owned
    <3>4. \A i \in 1..Len(gWorkTasks') : i < n' => gWorkTasks'[i].scheduler # target'
      BY <2>2, <3>1, <3>2, QueueType, SMT DEF OwnInv
    <3> QED
      BY <1>2, <1>4, <2>2, <3>1, <3>3, <3>4 DEF OwnInv, DummyInv
  <2>5. CASE ~(n > Len(gWorkTasks)) /\ gWorkTasks[n].scheduler # target
    <3>1. at' = "scrub" /\ n' = n + 1 /\ UNCHANGED gWorkTasks
      BY <1>7, <2>5 DEF RemoveAllIf
    <3>2. Owned' \subseteq Owned
      BY <2>1, <3>1 DEF Owned, Queued
    <3>3. \A i \in 1..Len(gWorkTasks') : i < n' => gWorkTasks'[i].scheduler # target'
      BY <2>2, <2>5, <3>1, QueueType, SMT DEF OwnInv
    <3>4. OwnInv'
      BY <2>2, <3>1, <3>2, <3>3, QueueType, SMT DEF OwnInv
    <3> QED
      BY <1>2, <1>4, <3>2, <3>4 DEF DummyInv
  <2> QED
    BY <2>3, <2>4, <2>5
<1>8. ASSUME ~PushDummy, ~RemoveAllIf PROVE Queued' \subseteq Queued /\ Owned' \subseteq Owned
  <2>1. gWorkTasks' = gWorkTasks \/ gWorkTasks' = <<>>
    BY <1>8 DEF ReleaseStep, SkipWorkers, StopWorkers, CountWorkers, BeginPause, AwaitParked,
                EndPause, NotifyAll, JoinWorkers, ReleaseReturn
  <2>2. Queued' \subseteq Queued
    BY <2>1, SMT DEF Queued
  <2> QED
    BY <1>3, <2>2 DEF Owned
<1>9. CASE ReleaseReturn
  <2>1. /\ at = "clear" /\ at' = "idle" /\ life' = [life EXCEPT ![target] = "gone"]
        /\ finishTasks' = [finishTasks EXCEPT ![target] = <<>>]
    BY <1>9 DEF ReleaseReturn
  <2>2. Owned' \subseteq Owned
    BY <1>8, <1>9 DEF ReleaseReturn, PushDummy, RemoveAllIf
  <2>3. \A t \in Owned' : life'[t.scheduler] = "live"
    BY <2>1, <2>2, OwnedType DEF OwnInv, TypeOK
  <2>4. \A s \in Schedulers : finishTasks'[s] # <<>> => life'[s] = "live"
    BY <2>1 DEF OwnInv, TypeOK
  <2> QED
    BY <1>2, <1>4, <2>1, <2>2, <2>3, <2>4 DEF OwnInv, DummyInv
<1>10. CASE SkipWorkers \/ JoinWorkers
  <2>1. /\ at' = "clear" /\ UNCHANGED <<life, finishTasks>>
    BY <1>10 DEF SkipWorkers, JoinWorkers
  <2>2. Owned' = {}
    <3>1. gWorkTasks' = <<>> /\ \A w \in Workers : pc'[w] \notin Holding
      BY <1>10 DEF SkipWorkers, JoinWorkers, LifeInv, Holding
    <3> QED
      BY <3>1, SMT DEF Owned, Queued, HeldTasks
  <2> QED
    BY <1>4, <2>1, <2>2 DEF OwnInv, DummyInv
<1>11. CASE StopWorkers \/ CountWorkers \/ BeginPause \/ AwaitParked
  <2>1. /\ at' \in {"stop", "bump", "push", "scrub"} /\ UNCHANGED <<life, finishTasks>>
        /\ at' = "scrub" => n' = 1
    BY <1>11 DEF StopWorkers, CountWorkers, BeginPause, AwaitParked
  <2>2. Owned' \subseteq Owned
    BY <1>8, <1>11 DEF StopWorkers, CountWorkers, BeginPause, AwaitParked, PushDummy, RemoveAllIf
  <2>3. OwnInv'
    <3>1. at' = "scrub" => \A i \in 1..Len(gWorkTasks') : ~(i < n')
      BY <2>1, SMT
    <3> QED
      BY <2>1, <2>2, <3>1, SMT DEF OwnInv
  <2> QED
    BY <1>2, <1>4, <2>2, <2>3 DEF DummyInv
<1>12. CASE EndPause \/ NotifyAll
  <2>1. /\ at \in {"proceed", "notify"} /\ at' \in {"notify", "clear"}
        /\ UNCHANGED <<life, finishTasks, target>>
    BY <1>12 DEF EndPause, NotifyAll
  <2>2. Owned' \subseteq Owned
    BY <1>8, <1>12 DEF EndPause, NotifyAll, PushDummy, RemoveAllIf
  <2> QED
    BY <1>2, <1>4, <2>1, <2>2 DEF OwnInv, DummyInv
<1> QED
  BY <1>6, <1>7, <1>9, <1>10, <1>11, <1>12 DEF ReleaseStep

\* The steps of a worker that leave the queue and the tasks held alone, or let a
\* task go.
LEMMA OwnShrink ==
  ASSUME TypeOK, OwnInv, DummyInv, Owned' \subseteq Owned, DummiesAreNotRun',
         UNCHANGED <<at, target, n, life, isRunning>>,
         at = "scrub" => gWorkTasks' = gWorkTasks,
         \A s \in Schedulers : finishTasks'[s] # <<>> => life[s] = "live"
  PROVE  OwnInv' /\ DummyInv'
<1>1. Running' = Running
  BY DEF Running
<1>2. OwnInv'
  BY DEF OwnInv
<1>3. DummyInv'
  BY <1>1 DEF DummyInv
<1> QED
  BY <1>2, <1>3

\* The workers.
LEMMA OwnWorker ==
  ASSUME TypeOK, LifeInv, PauseInv, OwnInv, DummyInv, NEW w \in Workers,
         WorkerStep(w) \/ WakeSpuriously(w) \/ SpawnJob(w)
  PROVE  OwnInv' /\ DummyInv'
<1>1. UNCHANGED <<at, target, n, life, isRunning>>
  BY DEF WorkerStep, WakeSpuriously, SpawnJob, StartWorker, CheckRunning, CheckPause, Park,
         Unpark, SleepAgain, Pop, LockScheduler, RunJob, aiVars, lifeVars, mainVars
<1>2. ASSUME pc[w] \in Holding PROVE container[w] \in Owned /\ container[w] \in Task
  BY <1>2 DEF Owned, HeldTasks, TypeOK
<1>3. at = "scrub" => pc[w] \in Sleeping
  BY DEF PauseInv, ParkedNow
<1>4. \A s \in Schedulers : finishTasks[s] # <<>> => life[s] = "live"
  BY DEF OwnInv
<1> USE DEF aiVars, lifeVars, mainVars, pauseVars, taskVars, workerVars, localVars, Goes
<1>5. CASE StartWorker(w) \/ CheckRunning(w) \/ CheckPause(w) \/ Park(w) \/ Unpark(w)
           \/ SleepAgain(w) \/ WakeSpuriously(w)
  <2>1. UNCHANGED <<container, gWorkTasks, finishTasks>>
    BY <1>5 DEF StartWorker, CheckRunning, CheckPause, Park, Unpark, SleepAgain, WakeSpuriously
  <2>2. PICK place \in Places \ Holding : pc' = [pc EXCEPT ![w] = place]
    BY <1>5 DEF StartWorker, CheckRunning, CheckPause, Park, Unpark, SleepAgain,
                WakeSpuriously, Places, Holding
  <2>3. \A v \in Workers : pc'[v] \in Holding => pc'[v] = pc[v]
    BY <2>2 DEF TypeOK
  <2>4. HeldTasks' \subseteq HeldTasks
    BY <2>1, <2>3, HeldFrame
  <2>5. Owned' \subseteq Owned
    BY <2>1, <2>4 DEF Owned, Queued
  <2>6. DummiesAreNotRun'
    BY <2>1, <2>3 DEF DummyInv, DummiesAreNotRun, Holding
  <2> QED
    BY <1>1, <1>4, <2>1, <2>5, <2>6, OwnShrink
<1>6. CASE Pop(w)
  <2>1. /\ container' = [container EXCEPT ![w] = Head(gWorkTasks)]
        /\ pc' = [pc EXCEPT ![w] = "got"] /\ gWorkTasks # <<>>
        /\ gWorkTasks' = Tail(gWorkTasks) /\ UNCHANGED finishTasks /\ pc[w] = "pop"
    BY <1>6 DEF Pop
  <2>2. Head(gWorkTasks) \in Queued /\ Queued' \subseteq Queued
    BY <2>1, MembersTail, QueuedMembers DEF TypeOK
  <2>3. HeldTasks' \subseteq HeldTasks \cup {Head(gWorkTasks)}
    BY <2>1 DEF HeldTasks, TypeOK
  <2>4. Owned' \subseteq Owned
    BY <2>2, <2>3 DEF Owned
  <2>5. DummiesAreNotRun'
    BY <2>1 DEF DummyInv, DummiesAreNotRun, TypeOK
  <2>6. at # "scrub"
    BY <1>3, <2>1 DEF Sleeping
  <2> QED
    BY <1>1, <1>4, <2>1, <2>4, <2>5, <2>6, OwnShrink
<1>7. CASE LockScheduler(w)
  <2>1. pc[w] = "got" /\ UNCHANGED <<gWorkTasks, finishTasks>>
    BY <1>7 DEF LockScheduler
  <2>2. \/ /\ isRunning[container[w].scheduler] /\ container' = container
           /\ pc' = [pc EXCEPT ![w] = "run"]
        \/ /\ container' = [container EXCEPT ![w] = NoTask]
           /\ pc' = [pc EXCEPT ![w] = "loop"]
    BY <1>7 DEF LockScheduler
  <2>3. HeldTasks' \subseteq HeldTasks
    BY <2>1, <2>2, HeldFrame DEF TypeOK, Holding
  <2>4. Owned' \subseteq Owned
    BY <2>1, <2>3 DEF Owned, Queued
  <2>5. isRunning[container[w].scheduler] => container[w].task # Null
    BY <1>2, <2>1 DEF Holding, DummyInv, Running, Task
  <2>6. DummiesAreNotRun'
    BY <2>1, <2>2, <2>5 DEF DummyInv, DummiesAreNotRun, TypeOK
  <2> QED
    BY <1>1, <1>4, <2>1, <2>4, <2>6, OwnShrink
<1>8. CASE RunJob(w)
  <2>1. /\ pc[w] = "run" /\ UNCHANGED gWorkTasks /\ pc' = [pc EXCEPT ![w] = "loop"]
        /\ container' = [container EXCEPT ![w] = NoTask]
        /\ \/ UNCHANGED finishTasks
           \/ finishTasks' = [finishTasks EXCEPT ![container[w].scheduler] =
                                Append(@, container[w])]
    BY <1>8 DEF RunJob
  <2>2. HeldTasks' \subseteq HeldTasks
    BY <2>1, HeldFrame DEF TypeOK, Holding
  <2>3. Owned' \subseteq Owned
    BY <2>1, <2>2 DEF Owned, Queued
  <2>4. DummiesAreNotRun'
    BY <2>1 DEF DummyInv, DummiesAreNotRun, TypeOK
  <2>5. life[container[w].scheduler] = "live"
    BY <1>2, <2>1 DEF Holding, OwnInv
  <2>6. \A s \in Schedulers : s # container[w].scheduler => finishTasks'[s] = finishTasks[s]
    BY <2>1 DEF TypeOK
  <2>7. \A s \in Schedulers : finishTasks'[s] # <<>> => life[s] = "live"
    BY <1>4, <2>5, <2>6
  <2> QED
    BY <1>1, <2>1, <2>3, <2>4, <2>7, OwnShrink
<1>9. CASE SpawnJob(w)
  <2> DEFINE t == [scheduler |-> container[w].scheduler, task |-> jobs']
  <2>1. /\ pc[w] = "run" /\ gWorkTasks' = <<t>> \o gWorkTasks
        /\ UNCHANGED <<pc, container, finishTasks>> /\ jobs' \in 1..MaxJobs
    BY <1>9, QueueType, PoolAssumption, SMT DEF SpawnJob
  <2>2. container[w] \in Owned /\ container[w].scheduler \in Schedulers
    BY <1>2, <2>1 DEF Holding, Task
  <2>3. t \in Task /\ t.scheduler = container[w].scheduler /\ t.task # Null
    <3>1. jobs' \in 0..MaxJobs /\ jobs' # Null
      BY <2>1, PoolAssumption, SMT DEF Null
    <3> QED
      BY <2>2, <3>1, TaskType
  <2> HIDE DEF t
  <2>4. Queued' = Queued \cup {t}
    BY <2>1, <2>3, MembersPrepend, QueuedMembers, QueueType, SMT
  <2>5. Owned' \subseteq Owned \cup {t}
    BY <2>1, <2>4 DEF Owned, HeldTasks
  <2>6. at # "scrub" /\ Running' = Running
    BY <1>1, <1>3, <2>1 DEF Sleeping, Running
  <2>7. OwnInv'
    BY <1>1, <1>4, <2>1, <2>2, <2>3, <2>5, <2>6 DEF OwnInv
  <2>8. DummyInv'
    BY <2>1, <2>3, <2>5, <2>6 DEF DummyInv, DummiesAreNotRun
  <2> QED
    BY <2>7, <2>8
<1> QED
  BY <1>5, <1>6, <1>7, <1>8, <1>9 DEF WorkerStep

(***************************************************************************)
(* The theorems                                                            *)
(***************************************************************************)

\* The invariant holds at first.
LEMMA PoolInit ==
  ASSUME Init PROVE IInv
<1>1. Running = {}
  BY DEF Init, Running
<1>2. IsFiniteSet(Running) /\ Cardinality(Running) = 0
  BY <1>1, FS_EmptySet
<1>3. TypeOK
  BY PoolAssumption, SMT DEF Init, TypeOK, Places, NoTask, Holding
<1>4. LifeInv
  BY <1>1, <1>2 DEF Init, LifeInv
<1>5. PauseInv
  <2>1. at = "idle" /\ gWorkerPauseId = 0 /\ \A w \in Workers : pc[w] = "off" /\ pauseId[w] = 0
    BY DEF Init
  <2> QED
    BY <2>1, SMT DEF PauseInv, Sleeping
<1>6. Owned = {}
  BY SMT DEF Init, Owned, Queued, HeldTasks, Holding
<1>7. OwnInv
  BY <1>6 DEF Init, OwnInv
<1>8. DummyInv
  BY <1>6 DEF Init, DummyInv, DummiesAreNotRun
<1> QED
  BY <1>3, <1>4, <1>5, <1>7, <1>8 DEF IInv

\* Every step of the engine thread or of a worker keeps it.
THEOREM PoolStep ==
  ASSUME IInv, [Next]_vars PROVE IInv'
<1> USE DEF IInv
<1>1. CASE UNCHANGED vars
  <2>1. /\ Owned' = Owned /\ Running' = Running /\ ParkedNow' = ParkedNow
        /\ DummiesAreNotRun' = DummiesAreNotRun
    BY <1>1 DEF Owned, Queued, HeldTasks, Running, ParkedNow, DummiesAreNotRun, vars, aiVars,
                lifeVars, mainVars, pauseVars, taskVars, workerVars, localVars, ghosts
  <2>2. TypeOK' /\ LifeInv'
    BY <1>1, <2>1 DEF TypeOK, LifeInv, vars, aiVars, lifeVars, mainVars, pauseVars, taskVars,
                workerVars, localVars, ghosts
  <2>3. PauseInv' /\ OwnInv' /\ DummyInv'
    BY <1>1, <2>1 DEF PauseInv, OwnInv, DummyInv, vars, aiVars, lifeVars, mainVars,
                pauseVars, taskVars, workerVars, localVars, ghosts
  <2> QED
    BY <2>2, <2>3
<1>2. ASSUME NEW s \in Schedulers,
             InitAI(s) \/ InitFails(s) \/ RunParallelJob(s) \/ ProcessJobs(s) \/ Release(s)
      PROVE  IInv'
  <2>1. TypeOK'
    BY <1>2, TypeOwners
  <2>2. LifeInv' /\ PauseInv' /\ OwnInv' /\ DummyInv'
    BY <1>2, <2>1, LifeOwners, PauseOwners, OwnOwners
  <2> QED
    BY <2>1, <2>2
<1>3. CASE ReleaseStep
  <2>1. TypeOK'
    BY <1>3, TypeRelease
  <2>2. LifeInv' /\ PauseInv' /\ OwnInv' /\ DummyInv'
    BY <1>3, <2>1, LifeRelease, PauseRelease, OwnRelease
  <2> QED
    BY <2>1, <2>2
<1>4. ASSUME NEW w \in Workers, WorkerStep(w) \/ WakeSpuriously(w) \/ SpawnJob(w)
      PROVE  IInv'
  <2>1. TypeOK'
    BY <1>4, TypeWorker
  <2>2. LifeInv' /\ PauseInv' /\ OwnInv' /\ DummyInv'
    BY <1>4, <2>1, LifeWorker, PauseWorker, OwnWorker
  <2> QED
    BY <2>1, <2>2
<1> QED
  BY <1>1, <1>2, <1>3, <1>4 DEF Next

\* In every state.
LEMMA PoolAlways == Spec => []IInv
BY PoolInit, PoolStep, PTL DEF Spec

\* Once CScheduler::Release has returned, no task of the scheduler is queued,
\* run by a worker or waiting to be finished, however many workers and
\* schedulers there are.
THEOREM NothingAfterReleaseAlways == Spec => []NothingAfterRelease
<1>1. ASSUME IInv PROVE NothingAfterRelease
  <2> SUFFICES ASSUME NEW s \in Schedulers, life[s] = "gone"
               PROVE  /\ finishTasks[s] = <<>>
                      /\ \A t \in Queued : t.scheduler # s
                      /\ \A w \in Workers : pc[w] = "run" => container[w].scheduler # s
    BY DEF NothingAfterRelease
  <2> QED
    BY <1>1 DEF IInv, OwnInv, Owned, HeldTasks, Holding
<1> QED
  BY <1>1, PoolAlways, PTL

\* No worker calls the null task of one of Release's dummies.
THEOREM DummiesAreNotRunAlways == Spec => []DummiesAreNotRun
<1>1. ASSUME IInv PROVE DummiesAreNotRun
  BY <1>1 DEF IInv, DummyInv
<1> QED
  BY <1>1, PoolAlways, PTL

\* Releasing one AI costs another none of its tasks.
THEOREM OthersKeepTheirTasksAlways == Spec => OthersKeepTheirTasks
<1> DEFINE Kept == \A t \in Queued : isRunning[t.scheduler] /\ t \notin Queued' => t \in Taken'
<1>1. ASSUME IInv, [Next]_vars PROVE [Kept]_vars
  <2> SUFFICES ASSUME Next, NEW t \in Queued, isRunning[t.scheduler], t \notin Queued'
               PROVE  t \in Taken'
    BY <1>1
  <2>1. TypeOK /\ LifeInv /\ PauseInv /\ OwnInv
    BY <1>1 DEF IInv
  <2>2. t.scheduler \in Running /\ gWorkTasks # <<>>
    BY <2>1, OwnedType, SMT DEF Running, Owned, Queued
  <2>3. gWorkTasks' # gWorkTasks
    BY DEF Queued
  <2> USE DEF aiVars, lifeVars, mainVars, pauseVars, taskVars, workerVars
  <2>4. ASSUME NEW s \in Schedulers, RunParallelJob(s) PROVE FALSE
    <3> DEFINE u == [scheduler |-> s, task |-> jobs']
    <3>1. u \in Task
      <4>1. jobs' \in 0..MaxJobs
        BY <2>1, <2>4, QueueType, PoolAssumption, SMT DEF RunParallelJob
      <4> QED
        BY <4>1, TaskType
    <3>2. gWorkTasks' = Append(gWorkTasks, u) \/ gWorkTasks' = <<u>> \o gWorkTasks
      BY <2>4 DEF RunParallelJob
    <3> HIDE DEF u
    <3>3. CASE gWorkTasks' = Append(gWorkTasks, u)
      BY <2>1, <3>1, <3>3, MembersAppend, QueuedMembers, QueueType, SMT
    <3>4. CASE gWorkTasks' = <<u>> \o gWorkTasks
      BY <2>1, <3>1, <3>4, MembersPrepend, QueuedMembers, QueueType
    <3> QED
      BY <3>2, <3>3, <3>4
  <2>5. ASSUME PushDummy PROVE FALSE
    <3> DEFINE u == Dummy(target)
    <3>1. u \in Task
      <4>1. target \in Schedulers
        BY <2>1, <2>5 DEF PushDummy, TypeOK
      <4> QED
        BY <4>1, PoolAssumption, SMT DEF Dummy, Task, Null
    <3>2. gWorkTasks' = Append(gWorkTasks, u)
      BY <2>5 DEF PushDummy
    <3> HIDE DEF u
    <3> QED
      BY <2>1, <3>1, <3>2, MembersAppend, QueuedMembers, QueueType, SMT
  <2>6. ASSUME NEW w \in Workers, SpawnJob(w) PROVE FALSE
    <3> DEFINE u == [scheduler |-> container[w].scheduler, task |-> jobs']
    <3>1. u \in Task
      <4>1. jobs' \in 0..MaxJobs
        BY <2>1, <2>6, QueueType, PoolAssumption, SMT DEF SpawnJob
      <4>2. container[w].scheduler \in Schedulers
        BY <2>1, <2>6 DEF SpawnJob, TypeOK, Holding, Task
      <4> QED
        BY <4>1, <4>2, TaskType
    <3>2. gWorkTasks' = <<u>> \o gWorkTasks
      BY <2>6 DEF SpawnJob
    <3> HIDE DEF u
    <3> QED
      BY <2>1, <3>1, <3>2, MembersPrepend, QueuedMembers, QueueType
  <2>7. ASSUME RemoveAllIf PROVE FALSE
    <3>1. n \in 1..Len(gWorkTasks) /\ gWorkTasks[n].scheduler = target
      BY <2>1, <2>3, <2>7, QueueType, SMT DEF RemoveAllIf, OwnInv
    <3>2. gWorkTasks' = Removed(gWorkTasks, n)
      BY <2>3, <2>7, <3>1 DEF RemoveAllIf, Removed
    <3>3. Members(gWorkTasks) \subseteq Members(gWorkTasks') \cup {gWorkTasks[n]}
      BY <2>1, <3>1, <3>2, MembersRemove DEF TypeOK
    <3>4. t = gWorkTasks[n]
      BY <3>3, QueuedMembers
    <3> QED
      BY <2>1, <2>2, <2>7, <3>1, <3>4 DEF RemoveAllIf, LifeInv
  <2>8. ASSUME JoinWorkers PROVE FALSE
    BY <2>1, <2>2, <2>8 DEF JoinWorkers, LifeInv
  <2>9. ASSUME NEW w \in Workers, Pop(w) PROVE t \in Taken'
    <3>1. /\ gWorkTasks' = Tail(gWorkTasks) /\ pc' = [pc EXCEPT ![w] = "got"]
          /\ container' = [container EXCEPT ![w] = Head(gWorkTasks)]
      BY <2>9 DEF Pop, Goes
    <3>2. Members(gWorkTasks) = Members(gWorkTasks') \cup {Head(gWorkTasks)}
      BY <2>1, <2>2, <3>1, MembersTail DEF TypeOK
    <3>3. t = Head(gWorkTasks)
      BY <3>2, QueuedMembers
    <3>4. container'[w] = t /\ pc'[w] \in Holding
      BY <2>1, <3>1, <3>3 DEF TypeOK, Holding
    <3> QED
      BY <3>4 DEF Taken
  <2>10. \/ \E s \in Schedulers : RunParallelJob(s)
         \/ PushDummy \/ RemoveAllIf \/ JoinWorkers
         \/ \E w \in Workers : Pop(w) \/ SpawnJob(w)
    BY <2>3 DEF Next, InitAI, InitFails, ProcessJobs, Release, ReleaseStep, SkipWorkers,
         StopWorkers, CountWorkers, BeginPause, AwaitParked, EndPause, NotifyAll, ReleaseReturn,
         WorkerStep, StartWorker, CheckRunning, CheckPause, Park, Unpark, SleepAgain,
         LockScheduler, RunJob, WakeSpuriously
  <2> QED
    BY <2>4, <2>5, <2>6, <2>7, <2>8, <2>9, <2>10
<1>2. Spec => [][Kept]_vars
  BY <1>1, PoolAlways, PTL DEF Spec
<1> QED
  BY <1>2 DEF OthersKeepTheirTasks

(***************************************************************************)
(* Release does not wait for a worker that waits                           *)
(***************************************************************************)

\* The workers that come to Pop before they look at the pause, or at
\* gIsWorkerRunning, again.
Heading ==
  {w \in Workers :
     \/ pc[w] \in {"pop", "woken"}
     \/ pc[w] \in Parked /\ pauseId[w] # gWorkerPauseId
     \/ pc[w] = "check" /\ workerPauseId[w] = gWorkerPauseId}

\* For each of them there is a task in the queue, or a dummy still to come.
HeadInv ==
  /\ at \in {"push", "await", "stop", "join"} /\ ~late
       => Cardinality(Heading) + n <= Len(gWorkTasks) + N
  /\ at \in {"await", "join"} => n >= N

\* Every worker notices a pause that it did not start in.
LateInv ==
  at \in {"push", "await"} /\ ~late =>
    \A w \in Workers : pc[w] # "start" /\ workerPauseId[w] # gWorkerPauseId

\* A parked worker that is not to be woken is parked for the pause that is on.
MissedInv ==
  ~missed /\ at # "notify" =>
    \A w \in Workers : pc[w] \in Parked => pauseId[w] = gWorkerPauseId

\* While the pool runs all its workers do, and none is joined before it ended.
UpInv ==
  /\ gIsWorkerRunning => \A w \in Workers : pc[w] \notin {"off", "exited"}
  /\ at \in {"stop", "join"} => \A w \in Workers : pc[w] # "off"

GoInv == HeadInv /\ LateInv /\ MissedInv /\ UpInv

\* Workers are finitely many.
LEMMA HeadingCounts ==
  /\ N \in Nat
  /\ Cardinality(Heading) \in Nat /\ Cardinality(Heading) <= N
  /\ Cardinality(Heading') \in Nat /\ Cardinality(Heading') <= N
  /\ Heading' \subseteq Heading => Cardinality(Heading') <= Cardinality(Heading)
  /\ \A w \in Heading : Heading' \subseteq Heading \ {w}
       => Cardinality(Heading') <= Cardinality(Heading) - 1
<1>1. Heading \subseteq Workers /\ Heading' \subseteq Workers
  BY DEF Heading
<1>2. IsFiniteSet(Heading) /\ IsFiniteSet(Heading')
  BY <1>1, PoolAssumption, FS_Subset
<1>3. /\ N \in Nat /\ Cardinality(Heading) \in Nat /\ Cardinality(Heading') \in Nat
      /\ Cardinality(Heading) <= N /\ Cardinality(Heading') <= N
  BY <1>1, <1>2, PoolAssumption, FS_Subset, FS_CardinalityType DEF N
<1>4. Heading' \subseteq Heading => Cardinality(Heading') <= Cardinality(Heading)
  BY <1>2, FS_Subset
<1>5. ASSUME NEW w \in Heading, Heading' \subseteq Heading \ {w}
      PROVE  Cardinality(Heading') <= Cardinality(Heading) - 1
  <2>1. IsFiniteSet(Heading \ {w}) /\ Cardinality(Heading \ {w}) = Cardinality(Heading) - 1
    BY <1>2, FS_RemoveElement
  <2>2. Cardinality(Heading') <= Cardinality(Heading \ {w})
    BY <1>5, <2>1, FS_Subset
  <2> QED
    BY <2>1, <2>2
<1> QED
  BY <1>3, <1>4, <1>5

\* Nobody new comes to Pop, and the queue does not get shorter.
LEMMA HeadKept ==
  ASSUME TypeOK, TypeOK', HeadInv, Heading' \subseteq Heading,
         Len(gWorkTasks') >= Len(gWorkTasks), UNCHANGED <<at, n>>, late' <=> late
  PROVE  HeadInv'
<1>1. /\ Len(gWorkTasks) \in Nat /\ Len(gWorkTasks') \in Nat /\ n \in Nat
  BY SMT DEF TypeOK
<1>2. ASSUME at \in {"push", "await", "stop", "join"}, ~late
      PROVE  Cardinality(Heading') + n <= Len(gWorkTasks') + N
  <2>1. PICK c \in Nat, d \in Nat, k \in Nat :
          /\ c = Cardinality(Heading) /\ d = Cardinality(Heading') /\ k = N
          /\ d <= c /\ c + n <= Len(gWorkTasks) + k
    BY <1>2, HeadingCounts DEF HeadInv
  <2>2. d + n <= Len(gWorkTasks') + k
    BY <1>1, <2>1, SMT
  <2> QED
    BY <2>1, <2>2
<1> QED
  BY <1>2 DEF HeadInv

\* One worker moved.
LEMMA HeadFrame ==
  ASSUME NEW w \in Workers, w \in Heading' => w \in Heading, UNCHANGED gWorkerPauseId,
         \A v \in Workers \ {w} :
           pc'[v] = pc[v] /\ pauseId'[v] = pauseId[v] /\ workerPauseId'[v] = workerPauseId[v]
  PROVE  Heading' \subseteq Heading
BY DEF Heading

\* The engine thread between releases.
LEMMA GoOwners ==
  ASSUME IInv, GoInv, NEW s \in Schedulers,
         InitAI(s) \/ InitFails(s) \/ RunParallelJob(s) \/ ProcessJobs(s) \/ Release(s)
  PROVE  GoInv'
<1>1. /\ at = "idle" /\ at' \in {"idle", "route"} /\ (missed' <=> missed)
      /\ UNCHANGED <<pauseId, gWorkerPauseId>>
  <2>1. at = "idle" /\ at' \in {"idle", "route"} /\ UNCHANGED <<pauseId, gWorkerPauseId>>
    BY DEF InitAI, InitFails, RunParallelJob, ProcessJobs, Release, mainVars, pauseVars,
           workerVars, localVars
  <2>2. UNCHANGED missed
    BY DEF InitAI, InitFails, RunParallelJob, ProcessJobs, Release, aiVars, ghosts
  <2> QED
    BY <2>1, <2>2
<1>2. HeadInv' /\ LateInv'
  BY <1>1 DEF HeadInv, LateInv
<1>3. CASE InitAI(s)
  <2>1. (gIsWorkerRunning /\ pc' = pc) \/ pc' = [w \in Workers |-> "start"]
    BY <1>3 DEF InitAI
  <2>2. CASE gIsWorkerRunning /\ pc' = pc
    BY <1>1, <1>2, <2>2 DEF GoInv, MissedInv, UpInv
  <2>3. CASE pc' = [w \in Workers |-> "start"]
    <3>1. \A w \in Workers : pc'[w] = "start"
      BY <2>3
    <3> QED
      BY <1>1, <1>2, <3>1 DEF GoInv, MissedInv, UpInv, Parked
  <2> QED
    BY <2>1, <2>2, <2>3
<1>4. CASE InitFails(s) \/ RunParallelJob(s) \/ ProcessJobs(s) \/ Release(s)
  <2>1. UNCHANGED pc
    BY <1>4 DEF InitFails, RunParallelJob, ProcessJobs, Release, workerVars
  <2>2. UNCHANGED gIsWorkerRunning
    BY <1>4 DEF InitFails, RunParallelJob, ProcessJobs, Release, pauseVars
  <2>3. gIsWorkerRunning' <=> gIsWorkerRunning
    BY <2>2
  <2> QED
    BY <1>1, <1>2, <2>1, <2>3 DEF GoInv, MissedInv, UpInv
<1> QED
  BY <1>3, <1>4

\* Release: a pause or a stop begins with all dummies still to come, and each one
\* that is pushed is one for a worker.
LEMMA GoRelease ==
  ASSUME IInv, GoInv, ReleaseStep
  PROVE  GoInv'
<1> USE DEF mainVars, pauseVars, taskVars, workerVars, localVars, aiVars, ghosts
<1>1. CASE SkipWorkers \/ AwaitParked \/ RemoveAllIf \/ ReleaseReturn \/ CountWorkers
  <2>1. /\ at' \in {"clear", "scrub", "proceed", "idle", "bump"} /\ at # "notify"
        /\ UNCHANGED <<pc, pauseId, gWorkerPauseId>>
    BY <1>1 DEF SkipWorkers, AwaitParked, RemoveAllIf, ReleaseReturn, CountWorkers
  <2>2. UNCHANGED missed /\ UNCHANGED gIsWorkerRunning
    BY <1>1 DEF SkipWorkers, AwaitParked, RemoveAllIf, ReleaseReturn, CountWorkers
  <2>3. (missed' <=> missed) /\ (gIsWorkerRunning' <=> gIsWorkerRunning)
    BY <2>2
  <2> QED
    BY <2>1, <2>3 DEF GoInv, HeadInv, LateInv, MissedInv, UpInv
<1>2. CASE StopWorkers
  <2>1. /\ at = "route" /\ at' = "stop" /\ n' = 0 /\ gIsWorkerRunning /\ ~gIsWorkerRunning'
        /\ UNCHANGED <<pc, pauseId, gWorkerPauseId, gWorkTasks>> /\ (missed' <=> missed)
    BY <1>2 DEF StopWorkers, LifeInv, IInv
  <2>2. Cardinality(Heading') + n' <= Len(gWorkTasks') + N
    <3>1. Len(gWorkTasks) \in Nat
      BY SMT DEF IInv, TypeOK
    <3>2. PICK d \in Nat, k \in Nat : d = Cardinality(Heading') /\ k = N /\ d <= k
      BY HeadingCounts
    <3>3. d + 0 <= Len(gWorkTasks) + k
      BY <3>1, <3>2, SMT
    <3> QED
      BY <2>1, <3>2, <3>3
  <2> QED
    BY <2>1, <2>2 DEF GoInv, HeadInv, LateInv, MissedInv, UpInv
<1>3. CASE BeginPause
  <2>1. /\ at = "bump" /\ at' = "push" /\ n' = 0 /\ gWorkerPauseId' = gWorkerPauseId + 1
        /\ UNCHANGED <<pc, pauseId, workerPauseId, gWorkTasks>> /\ (missed' <=> missed)
        /\ (gIsWorkerRunning' <=> gIsWorkerRunning)
        /\ late' <=> (late \/ \E w \in Workers : pc[w] = "start")
    BY <1>3 DEF BeginPause
  <2>2. Cardinality(Heading') + n' <= Len(gWorkTasks') + N
    <3>1. Len(gWorkTasks) \in Nat
      BY SMT DEF IInv, TypeOK
    <3>2. PICK d \in Nat, k \in Nat : d = Cardinality(Heading') /\ k = N /\ d <= k
      BY HeadingCounts
    <3>3. d + 0 <= Len(gWorkTasks) + k
      BY <3>1, <3>2, SMT
    <3> QED
      BY <2>1, <3>2, <3>3
  <2>3. gIsWorkerRunning
    BY <2>1 DEF IInv, LifeInv
  <2>4. \A w \in Workers : pc[w] \notin {"off", "exited"}
    BY <2>3 DEF GoInv, UpInv
  <2>5. \A w \in Workers : pc[w] # "start" => workerPauseId[w] = gWorkerPauseId
    BY <2>1, <2>4 DEF IInv, PauseInv
  <2>6. gWorkerPauseId # gWorkerPauseId' /\ \A k \in Nat : k + 1 # k
    BY <2>1, SMT DEF IInv, TypeOK
  <2>7. LateInv'
    BY <2>1, <2>5, <2>6 DEF LateInv
  <2>8. MissedInv'
    <3>1. ASSUME ~missed, NEW w \in Workers, pc[w] \in Parked PROVE FALSE
      <4>1. pauseId[w] = gWorkerPauseId
        BY <2>1, <3>1 DEF GoInv, MissedInv
      <4>2. workerPauseId[w] = gWorkerPauseId
        BY <2>5, <3>1 DEF Parked
      <4>3. workerPauseId[w] = pauseId[w] + 1 /\ pauseId[w] \in Nat
        BY <3>1 DEF IInv, PauseInv, TypeOK, Sleeping, Parked
      <4> QED
        BY <2>6, <4>1, <4>2, <4>3
    <3> QED
      BY <2>1, <3>1 DEF MissedInv
  <2> QED
    BY <2>1, <2>2, <2>7, <2>8 DEF GoInv, HeadInv, UpInv
<1>4. CASE PushDummy
  <2>1. /\ at \in {"push", "stop"} /\ n' = n + 1
        /\ gWorkTasks' = Append(gWorkTasks, Dummy(target))
        /\ UNCHANGED <<pc, pauseId, workerPauseId, gWorkerPauseId>>
        /\ (missed' <=> missed) /\ (late' <=> late)
        /\ (gIsWorkerRunning' <=> gIsWorkerRunning)
        /\ (n' < N /\ at' = at) \/ (~(n' < N) /\ at = "push" /\ at' = "await")
           \/ (~(n' < N) /\ at = "stop" /\ at' = "join")
    BY <1>4 DEF PushDummy
  <2>2. Heading' = Heading
    BY <2>1 DEF Heading
  <2>3. /\ n \in Nat /\ Len(gWorkTasks) \in Nat /\ Len(gWorkTasks') = Len(gWorkTasks) + 1
    BY <2>1, SMT DEF IInv, TypeOK
  <2>4. ASSUME ~late PROVE Cardinality(Heading') + n' <= Len(gWorkTasks') + N
    <3>1. PICK c \in Nat, k \in Nat :
            c = Cardinality(Heading) /\ k = N /\ c + n <= Len(gWorkTasks) + k
      BY <2>1, <2>4, HeadingCounts DEF GoInv, HeadInv
    <3>2. c + n' <= Len(gWorkTasks') + k
      BY <2>1, <2>3, <3>1, SMT
    <3> QED
      BY <2>2, <3>1, <3>2
  <2>5. ~(n' < N) => n' >= N
    <3>1. PICK k \in Nat : k = N
      BY HeadingCounts
    <3>2. n' \in Nat
      BY <2>1, <2>3, SMT
    <3>3. ~(n' < k) => n' >= k
      BY <3>1, <3>2, SMT
    <3> QED
      BY <3>1, <3>3
  <2>6. HeadInv'
    BY <2>1, <2>4, <2>5 DEF HeadInv
  <2> QED
    BY <2>1, <2>6 DEF GoInv, LateInv, MissedInv, UpInv
<1>5. CASE EndPause
  <2>1. /\ at' = "notify" /\ UNCHANGED pc /\ (gIsWorkerRunning' <=> gIsWorkerRunning)
    BY <1>5 DEF EndPause
  <2> QED
    BY <2>1 DEF GoInv, HeadInv, LateInv, MissedInv, UpInv
<1>6. CASE NotifyAll
  <2>1. /\ at' = "clear" /\ (gIsWorkerRunning' <=> gIsWorkerRunning)
        /\ missed' <=> (missed \/ \E w \in Workers : pc[w] = "doze")
        /\ \A w \in Workers : pc'[w] = IF pc[w] = "wait" THEN "woken" ELSE pc[w]
    BY <1>6 DEF NotifyAll
  <2>2. ~missed' => \A w \in Workers : pc'[w] \notin Parked
    BY <2>1 DEF Parked
  <2>3. UpInv'
    BY <2>1 DEF GoInv, UpInv
  <2> QED
    BY <2>1, <2>2, <2>3 DEF GoInv, HeadInv, LateInv, MissedInv
<1>7. CASE JoinWorkers
  <2>1. /\ at = "join" /\ at' = "clear" /\ (gIsWorkerRunning' <=> gIsWorkerRunning)
        /\ \A w \in Workers : pc'[w] = "off"
    BY <1>7 DEF JoinWorkers
  <2>2. ~gIsWorkerRunning
    BY <2>1 DEF IInv, LifeInv
  <2> QED
    BY <2>1, <2>2 DEF GoInv, HeadInv, LateInv, MissedInv, UpInv, Parked
<1> QED
  BY <1>1, <1>2, <1>3, <1>4, <1>5, <1>6, <1>7 DEF ReleaseStep

\* A step of one worker: what has to be known of its new place.
LEMMA GoMove ==
  ASSUME IInv, IInv', GoInv, NEW w \in Workers,
         UNCHANGED <<at, gWorkerPauseId>>, late' <=> late, missed' <=> missed,
         gIsWorkerRunning' <=> gIsWorkerRunning,
         \A v \in Workers \ {w} :
           pc'[v] = pc[v] /\ pauseId'[v] = pauseId[v] /\ workerPauseId'[v] = workerPauseId[v],
         HeadInv',
         pc'[w] \notin {"off", "start"}, pc'[w] = "exited" => ~gIsWorkerRunning,
         at \in {"push", "await"} /\ ~late => workerPauseId'[w] # gWorkerPauseId,
         pc'[w] \in Parked => \/ pauseId'[w] = gWorkerPauseId
                              \/ pc[w] \in Parked /\ pauseId'[w] = pauseId[w]
  PROVE  GoInv'
<1>1. LateInv'
  <2>1. ASSUME at \in {"push", "await"}, ~late, NEW v \in Workers
        PROVE  pc'[v] # "start" /\ workerPauseId'[v] # gWorkerPauseId
    BY <2>1 DEF GoInv, LateInv
  <2> QED
    BY <2>1 DEF LateInv
<1>2. MissedInv'
  <2>1. ASSUME ~missed, at # "notify", NEW v \in Workers, pc'[v] \in Parked
        PROVE  pauseId'[v] = gWorkerPauseId
    <3>1. CASE v = w
      BY <2>1, <3>1 DEF GoInv, MissedInv
    <3>2. CASE v # w
      BY <2>1, <3>2 DEF GoInv, MissedInv
    <3> QED
      BY <3>1, <3>2
  <2> QED
    BY <2>1 DEF MissedInv
<1>3. UpInv'
  <2>1. ASSUME gIsWorkerRunning, NEW v \in Workers PROVE pc'[v] \notin {"off", "exited"}
    BY <2>1 DEF GoInv, UpInv
  <2>2. ASSUME at \in {"stop", "join"}, NEW v \in Workers PROVE pc'[v] # "off"
    BY <2>2 DEF GoInv, UpInv
  <2> QED
    BY <2>1, <2>2 DEF UpInv
<1> QED
  BY <1>1, <1>2, <1>3 DEF GoInv

\* The workers: only Pop makes the queue shorter, and takes its worker off those
\* that were heading for it.
LEMMA GoWorker ==
  ASSUME IInv, IInv', GoInv, NEW w \in Workers, WorkerStep(w) \/ WakeSpuriously(w) \/ SpawnJob(w)
  PROVE  GoInv'
<1> USE DEF mainVars, pauseVars, taskVars, workerVars, localVars, aiVars, ghosts
<1>1. UNCHANGED <<at, n, gWorkerPauseId>>
  BY DEF WorkerStep, StartWorker, CheckRunning, CheckPause, Park, Unpark, SleepAgain, Pop,
         LockScheduler, RunJob, WakeSpuriously, SpawnJob
<1>2. (late' <=> late) /\ (missed' <=> missed)
  <2>1. UNCHANGED ghosts
    BY DEF WorkerStep, StartWorker, CheckRunning, CheckPause, Park, Unpark, SleepAgain, Pop,
           LockScheduler, RunJob, WakeSpuriously, SpawnJob
  <2> QED
    BY <2>1
<1>3. gIsWorkerRunning' <=> gIsWorkerRunning
  <2>1. UNCHANGED gIsWorkerRunning
    BY DEF WorkerStep, StartWorker, CheckRunning, CheckPause, Park, Unpark, SleepAgain, Pop,
           LockScheduler, RunJob, WakeSpuriously, SpawnJob
  <2> QED
    BY <2>1
<1>4. \A v \in Workers \ {w} : pc'[v] = pc[v]
  <2>1. pc' = pc \/ \E place : Goes(w, place)
    BY DEF WorkerStep, StartWorker, CheckRunning, CheckPause, Park, Unpark, SleepAgain, Pop,
           LockScheduler, RunJob, WakeSpuriously, SpawnJob
  <2> QED
    BY <2>1 DEF Goes, IInv, TypeOK
<1>5. \A v \in Workers \ {w} : pauseId'[v] = pauseId[v] /\ workerPauseId'[v] = workerPauseId[v]
  <2>1. pauseId' = pauseId \/ \E k : pauseId' = [pauseId EXCEPT ![w] = k]
    BY DEF WorkerStep, StartWorker, CheckRunning, CheckPause, Park, Unpark, SleepAgain, Pop,
           LockScheduler, RunJob, WakeSpuriously, SpawnJob
  <2>2. workerPauseId' = workerPauseId \/ \E k : workerPauseId' = [workerPauseId EXCEPT ![w] = k]
    BY DEF WorkerStep, StartWorker, CheckRunning, CheckPause, Park, Unpark, SleepAgain, Pop,
           LockScheduler, RunJob, WakeSpuriously, SpawnJob
  <2> QED
    BY <2>1, <2>2 DEF IInv, TypeOK
<1>6. \A k \in Nat : k >= k
  BY SMT
<1>7. Len(gWorkTasks) \in Nat /\ Len(gWorkTasks') \in Nat
  BY SMT DEF IInv, TypeOK
<1>8. at \in {"push", "await"} /\ ~late =>
        pc[w] # "start" /\ workerPauseId[w] # gWorkerPauseId
  BY DEF GoInv, LateInv
<1>9. ASSUME w \in Heading' => w \in Heading, Len(gWorkTasks') >= Len(gWorkTasks)
      PROVE  HeadInv'
  <2>1. Heading' \subseteq Heading
    BY <1>1, <1>4, <1>5, <1>9, HeadFrame
  <2> QED
    BY <1>1, <1>2, <1>9, <2>1, HeadKept DEF GoInv, IInv
<1>10. ASSUME ~(at \in {"push", "await", "stop", "join"} /\ ~late) PROVE HeadInv'
  BY <1>1, <1>2, <1>10 DEF GoInv, HeadInv
<1>11. CASE StartWorker(w)
  <2>1. pc[w] = "start" /\ pc'[w] = "loop" /\ gWorkTasks' = gWorkTasks
        /\ workerPauseId'[w] = gWorkerPauseId
    BY <1>11 DEF StartWorker, Goes, IInv, TypeOK
  <2>2. HeadInv'
    BY <1>6, <1>7, <1>9, <2>1 DEF Heading, Parked
  <2> QED
    BY <1>1, <1>2, <1>3, <1>4, <1>5, <1>8, <2>1, <2>2, GoMove DEF Parked
<1>12. CASE CheckRunning(w)
  <2>1. /\ pc[w] = "loop" /\ pc'[w] = IF gIsWorkerRunning THEN "check" ELSE "exited"
        /\ gWorkTasks' = gWorkTasks /\ workerPauseId' = workerPauseId
    BY <1>12 DEF CheckRunning, Goes, IInv, TypeOK
  <2>2. HeadInv'
    <3>1. CASE at \in {"push", "await"} /\ ~late
      BY <1>1, <1>6, <1>7, <1>8, <1>9, <2>1, <3>1 DEF Heading, Parked
    <3>2. CASE at \in {"stop", "join"}
      <4>1. pc'[w] = "exited"
        BY <2>1, <3>2 DEF IInv, LifeInv
      <4> QED
        BY <1>6, <1>7, <1>9, <2>1, <4>1 DEF Heading, Parked
    <3> QED
      BY <1>10, <3>1, <3>2
  <2> QED
    BY <1>1, <1>2, <1>3, <1>4, <1>5, <1>8, <2>1, <2>2, GoMove DEF Parked
<1>13. CASE CheckPause(w)
  <2>1. /\ pc[w] = "check" /\ gWorkTasks' = gWorkTasks /\ workerPauseId' = workerPauseId
        /\ pc'[w] = IF workerPauseId[w] # gWorkerPauseId THEN "park" ELSE "pop"
    BY <1>13 DEF CheckPause, Goes, IInv, TypeOK
  <2>2. HeadInv'
    BY <1>1, <1>6, <1>7, <1>9, <2>1 DEF Heading, Parked
  <2> QED
    BY <1>1, <1>2, <1>3, <1>4, <1>5, <1>8, <2>1, <2>2, GoMove DEF Parked
<1>14. CASE Park(w)
  <2>1. /\ pc[w] = "park" /\ pc'[w] = "wait" /\ gWorkTasks' = gWorkTasks
        /\ pauseId'[w] = gWorkerPauseId /\ workerPauseId'[w] = gWorkerPauseId + 1
    BY <1>14 DEF Park, Goes, IInv, TypeOK
  <2>2. HeadInv'
    BY <1>1, <1>6, <1>7, <1>9, <2>1 DEF Heading
  <2>3. gWorkerPauseId + 1 # gWorkerPauseId
    BY SMT DEF IInv, TypeOK
  <2> QED
    BY <1>1, <1>2, <1>3, <1>4, <1>5, <2>1, <2>2, <2>3, GoMove
<1>15. CASE WakeSpuriously(w) \/ Unpark(w) \/ SleepAgain(w)
  <2>1. /\ pc[w] \in {"wait", "doze", "woken"} /\ gWorkTasks' = gWorkTasks
        /\ UNCHANGED <<pauseId, workerPauseId>>
    BY <1>15 DEF WakeSpuriously, Unpark, SleepAgain
  <2>2. \/ pc'[w] = "pop" /\ (pc[w] = "woken" \/ pauseId[w] # gWorkerPauseId)
        \/ pc'[w] \in Parked /\ (pauseId[w] = gWorkerPauseId \/ pc[w] = "doze")
    BY <1>15 DEF WakeSpuriously, Unpark, SleepAgain, Goes, IInv, TypeOK, Parked
  <2>3. w \in Heading' => w \in Heading
    BY <1>1, <2>1, <2>2 DEF Heading, Parked
  <2>4. HeadInv'
    BY <1>6, <1>7, <1>9, <2>1, <2>3
  <2> QED
    BY <1>1, <1>2, <1>3, <1>4, <1>5, <1>8, <2>1, <2>2, <2>4, GoMove DEF Parked
<1>16. CASE Pop(w)
  <2>1. /\ pc[w] = "pop" /\ pc'[w] = "got" /\ gWorkTasks # <<>> /\ gWorkTasks' = Tail(gWorkTasks)
        /\ UNCHANGED <<pauseId, workerPauseId>>
    BY <1>16 DEF Pop, Goes, IInv, TypeOK
  <2>2. w \in Heading /\ Heading' \subseteq Heading \ {w}
    BY <1>1, <1>4, <1>5, <2>1 DEF Heading, Parked
  <2>3. n \in Nat /\ Len(gWorkTasks') = Len(gWorkTasks) - 1 /\ Len(gWorkTasks) \in Nat
    BY <2>1, SMT DEF IInv, TypeOK
  <2>4. ASSUME at \in {"push", "await", "stop", "join"}, ~late
        PROVE  Cardinality(Heading') + n <= Len(gWorkTasks') + N
    <3>1. PICK c \in Nat, d \in Nat, k \in Nat :
            /\ c = Cardinality(Heading) /\ d = Cardinality(Heading') /\ k = N
            /\ d <= c - 1 /\ c + n <= Len(gWorkTasks) + k
      BY <2>2, <2>4, HeadingCounts DEF GoInv, HeadInv
    <3>2. d + n <= Len(gWorkTasks') + k
      BY <2>3, <3>1, SMT
    <3> QED
      BY <3>1, <3>2
  <2>5. HeadInv'
    BY <1>1, <1>2, <2>4 DEF HeadInv, GoInv
  <2> QED
    BY <1>1, <1>2, <1>3, <1>4, <1>5, <1>8, <2>1, <2>5, GoMove DEF Parked
<1>17. CASE LockScheduler(w) \/ RunJob(w)
  <2>1. /\ pc'[w] \in {"run", "loop"} /\ gWorkTasks' = gWorkTasks
        /\ UNCHANGED <<pauseId, workerPauseId>>
    BY <1>17 DEF LockScheduler, RunJob, Goes, IInv, TypeOK
  <2>2. HeadInv'
    BY <1>6, <1>7, <1>9, <2>1 DEF Heading, Parked
  <2> QED
    BY <1>1, <1>2, <1>3, <1>4, <1>5, <1>8, <2>1, <2>2, GoMove DEF Parked
<1>18. CASE SpawnJob(w)
  <2>1. /\ pc[w] = "run" /\ UNCHANGED <<pc, pauseId, workerPauseId>>
        /\ gWorkTasks' = <<[scheduler |-> container[w].scheduler, task |-> jobs']>> \o gWorkTasks
    BY <1>18 DEF SpawnJob
  <2>2. Len(gWorkTasks') >= Len(gWorkTasks)
    <3>1. PICK t : gWorkTasks' = <<t>> \o gWorkTasks
      BY <2>1
    <3>2. gWorkTasks \in Seq(Task)
      BY QueueType DEF IInv
    <3>3. Len(gWorkTasks') = 1 + Len(gWorkTasks)
      BY <3>1, <3>2, SMT
    <3> QED
      BY <1>7, <3>3, SMT
  <2>3. HeadInv'
    BY <1>9, <2>1, <2>2 DEF Heading, Parked
  <2> QED
    BY <1>1, <1>2, <1>3, <1>4, <1>5, <1>8, <2>1, <2>3, GoMove DEF Parked
<1> QED
  BY <1>11, <1>12, <1>13, <1>14, <1>15, <1>16, <1>17, <1>18 DEF WorkerStep

\* Both invariants in every state.
LEMMA GoAlways == Spec => [](IInv /\ GoInv)
<1>1. ASSUME Init PROVE IInv /\ GoInv
  <2>1. at = "idle" /\ ~gIsWorkerRunning /\ \A w \in Workers : pc[w] = "off"
    BY <1>1 DEF Init
  <2> QED
    BY <1>1, <2>1, PoolInit DEF GoInv, HeadInv, LateInv, MissedInv, UpInv, Parked
<1>2. ASSUME IInv, GoInv, [Next]_vars PROVE IInv' /\ GoInv'
  <2>1. IInv'
    BY <1>2, PoolStep
  <2>2. CASE UNCHANGED vars
    <3>1. UNCHANGED <<at, n, pc, pauseId, workerPauseId, gWorkerPauseId, gWorkTasks>>
      BY <2>2 DEF vars, mainVars, pauseVars, taskVars, workerVars, localVars
    <3>2. (late' <=> late) /\ (missed' <=> missed) /\ (gIsWorkerRunning' <=> gIsWorkerRunning)
      BY <2>2 DEF vars, aiVars, ghosts, pauseVars
    <3>3. Heading' = Heading
      BY <3>1 DEF Heading
    <3> QED
      BY <1>2, <2>1, <3>1, <3>2, <3>3 DEF GoInv, HeadInv, LateInv, MissedInv, UpInv
  <2>3. CASE Next
    BY <1>2, <2>1, <2>3, GoOwners, GoRelease, GoWorker DEF Next
  <2> QED
    BY <1>2, <2>1, <2>2, <2>3
<1> QED
  BY <1>1, <1>2, PTL DEF Spec

\* CScheduler::Release never waits, for the workers to park or to end, while one
\* of them is stuck at Pop or asleep: the dummies it pushes are enough for every
\* number of workers and whatever else is queued, the two races apart.
THEOREM ReleaseNotStuckAlways == Spec => []ReleaseNotStuck
<1>1. ASSUME IInv, GoInv PROVE ReleaseNotStuck
  <2> SUFFICES ASSUME ~late, ~missed
               PROVE  /\ at = "await" =>
                           /\ \A w \in Workers :
                                CanStep(w) \/ (pc[w] \in Parked /\ pauseId[w] = gWorkerPauseId)
                           /\ gPauseCount = 0 \/ \E w \in Workers : CanStep(w)
                      /\ at = "join" => \A w \in Workers : pc[w] = "exited" \/ CanStep(w)
    BY DEF ReleaseNotStuck
  <2>1. ASSUME at \in {"await", "join"}, NEW w \in Workers, pc[w] = "pop"
        PROVE  gWorkTasks # <<>>
    <3>1. w \in Heading
      BY <2>1 DEF Heading
    <3>2. Cardinality(Heading) # 0
      BY <3>1, PoolAssumption, FS_Subset, FS_EmptySet DEF Heading
    <3>3. PICK c \in Nat, k \in Nat :
            c # 0 /\ k = N /\ c + n <= Len(gWorkTasks) + k /\ n >= k
      BY <1>1, <2>1, <3>2, HeadingCounts DEF GoInv, HeadInv
    <3>4. n \in Nat /\ Len(gWorkTasks) \in Nat
      BY <1>1, SMT DEF IInv, TypeOK
    <3>5. Len(gWorkTasks) # 0
      BY <3>3, <3>4, SMT
    <3> QED
      BY <3>5, SMT
  <2>2. \A w \in Workers : pc[w] \in Places
    BY <1>1 DEF IInv, TypeOK
  <2>3. ASSUME at = "await", NEW w \in Workers
        PROVE  CanStep(w) \/ (pc[w] \in Parked /\ pauseId[w] = gWorkerPauseId)
    <3>1. gIsWorkerRunning
      BY <1>1, <2>3 DEF IInv, LifeInv
    <3>2. pc[w] \notin {"off", "exited"}
      BY <1>1, <3>1 DEF GoInv, UpInv
    <3>3. pc[w] \in Parked => pauseId[w] = gWorkerPauseId
      BY <1>1, <2>3 DEF GoInv, MissedInv
    <3> QED
      BY <2>1, <2>2, <2>3, <3>2, <3>3 DEF CanStep, Places, Parked
  <2>4. ASSUME at = "await", \A w \in Workers : ~CanStep(w) PROVE gPauseCount = 0
    <3>1. Workers \ ParkedNow = {}
      BY <2>3, <2>4 DEF ParkedNow, Parked, Sleeping
    <3> QED
      BY <1>1, <2>4, <3>1, FS_EmptySet DEF IInv, PauseInv
  <2>5. ASSUME at = "join", NEW w \in Workers PROVE pc[w] = "exited" \/ CanStep(w)
    <3>1. pc[w] # "off"
      BY <1>1, <2>5 DEF GoInv, UpInv
    <3>2. pc[w] \notin Parked
      <4>1. ASSUME pc[w] \in Parked PROVE FALSE
        <5>1. pauseId[w] = gWorkerPauseId
          BY <1>1, <2>5, <4>1 DEF GoInv, MissedInv
        <5>2. workerPauseId[w] = gWorkerPauseId /\ workerPauseId[w] = pauseId[w] + 1
          BY <1>1, <2>5, <4>1 DEF IInv, PauseInv, Sleeping, Parked
        <5>3. gWorkerPauseId \in Nat
          BY <1>1 DEF IInv, TypeOK
        <5> QED
          BY <5>1, <5>2, <5>3, SMT
      <4> QED
        BY <4>1
    <3> QED
      BY <2>1, <2>2, <2>5, <3>1, <3>2 DEF CanStep, Places, Parked
  <2> QED
    BY <2>3, <2>4, <2>5
<1> QED
  BY <1>1, GoAlways, PTL
===============================================================================
