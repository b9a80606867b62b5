------------------------------- MODULE AreaUpdate -------------------------------
(***************************************************************************)
(* The update of the terrain areas that all AIs of the process share.      *)
(* CTerrainData keeps two buffers; every AREA_UPDATE_RATE frames the AI    *)
(* with the authority enqueues UpdateAreas, a worker fills the next one,   *)
(* and ScheduleUsersUpdate has every AI, one frame after the other, move   *)
(* over to it and then its ally team's path finder; the last one to report *)
(* swaps the buffers.  AIs join, fail to, resign and are released on the   *)
(* way.                                                                    *)
(*                                                                         *)
(* The module holds the frame half of CScheduler too: once and repeat      *)
(* tasks and the order in which ProcessJobs runs them.  The frame of a     *)
(* task is kept relative to its scheduler's lastFrame.  That a release     *)
(* waits for the running job and drops the others is WorkerPool's matter.  *)
(***************************************************************************)
EXTENDS Integers, FiniteSets, Sequences

CONSTANTS
  AIs,       \* skirmish AI ids
  Team,      \* AI -> its ally team
  Rate,      \* AREA_UPDATE_RATE
  Handover,  \* FRAMES_PER_SEC, the first update after a change of authority
  MaxJoins   \* bound: AIs that come during the match, failures included

ASSUME RateAssumption == Rate \in Nat

VARIABLES
  \* The engine.
  live,        \* the AIs that are initialised
  todo,        \* those of them that have not had this frame yet
  joins,       \* how many Inits there were
  \* ProcessJobs.
  at,          \* "idle", or the pass the engine thread is in
  who,         \* whose ProcessJobs
  i,           \* position in the pass
  onceTasks,   \* AI -> [task, frame, interval] in order
  repeatTasks, \* AI -> frames to the next EnqueueUpdate, for each such task
  fresh,       \* the AIs whose lastFrame is still 0
  \* CTerrainData.
  owner,       \* the AI whose scheduler it uses
  isUpdating,
  aiToUpdate,
  pAreaData,   \* the current buffer
  job,         \* UpdateAreas: "none", "queued", "running" or "finished"
  into,        \* the buffer it writes
  \* Its users.
  areaData,      \* AI -> the buffer its CTerrainManager reads
  pathData,      \* team -> the buffer its CPathFinder reads
  isAreaUpdated, \* team -> the path finder's isAreaUpdated
  \* Ghosts.
  upset,       \* an AI came, or left without owing a report, while AIs moved over
  orphaned     \* the authority left with its job not yet finished

engineVars == <<live, todo, joins>>
passVars == <<at, who, i>>
taskVars == <<onceTasks, repeatTasks, fresh>>
terrainVars == <<owner, isUpdating, aiToUpdate, pAreaData>>
jobVars == <<job, into>>
userVars == <<areaData, pathData, isAreaUpdated>>
ghosts == <<upset, orphaned>>
vars == <<engineVars, passVars, taskVars, terrainVars, jobVars, userVars, ghosts>>

Teams == {Team[a] : a \in AIs}
Smallest(S) == CHOOSE a \in S : \A b \in S : a <= b

\* A list without its k-th element.
Erase(s, k) == SubSeq(s, 1, k - 1) \o SubSeq(s, k + 1, Len(s))

GetNextAreaData == 1 - pAreaData

\* AIs are moving over to the next buffer.
Moving == isUpdating /\ job = "none"
Owes(a) == onceTasks[a] # <<>>

\* An AI has no ally that is up.
Alone(a) == \A b \in live \ {a} : Team[b] # Team[a]

Init ==
  /\ live = {} /\ todo = {} /\ joins = 0
  /\ at = "idle" /\ who \in {Smallest(AIs)} /\ i = 1
  /\ onceTasks = [a \in AIs |-> <<>>] /\ repeatTasks = [a \in AIs |-> <<>>] /\ fresh = {}
  /\ owner = who /\ isUpdating = FALSE /\ aiToUpdate = 0 /\ pAreaData = 0
  /\ job = "none" /\ into = 0
  /\ areaData = [a \in AIs |-> 0] /\ pathData = [t \in Teams |-> 0]
  /\ isAreaUpdated = [t \in Teams |-> TRUE]
  /\ upset = FALSE /\ orphaned = FALSE
-----------------------------------------------------------------------------
(* CTerrainData. *)

\* Not waiting for the last AI.
SwapEarly ==
  /\ aiToUpdate' = aiToUpdate - 1
  /\ IF aiToUpdate' > 1 THEN UNCHANGED <<pAreaData, isUpdating>>
     ELSE pAreaData' = GetNextAreaData /\ isUpdating' = FALSE

\* One AI less to wait for; the last one swaps the buffers.
OnAreaUsersUpdated ==
  /\ aiToUpdate' = aiToUpdate - 1
  /\ IF aiToUpdate' # 0 THEN UNCHANGED <<pAreaData, isUpdating>>
     ELSE pAreaData' = GetNextAreaData /\ isUpdating' = FALSE

\* Enqueueing whether or not an update is on its way.
EnqueueAlways == isUpdating' = TRUE /\ job' = "queued"

EnqueueUpdate ==
  IF isUpdating THEN UNCHANGED <<isUpdating, job>>
  ELSE isUpdating' = TRUE /\ job' = "queued"

\* Every AI is to move over, a frame apart, and the path finders with them.
ScheduleUsersUpdate ==
  \E order \in [live -> 1..Cardinality(live)] :
    /\ \A a, b \in live : a # b => order[a] # order[b]
    /\ onceTasks' = [a \in AIs |->
         IF a \notin live THEN onceTasks[a]
         ELSE Append(onceTasks[a],
                     [task |-> "users", frame |-> order[a], interval |-> Cardinality(live)])]
    /\ isAreaUpdated' = [t \in Teams |->
         isAreaUpdated[t] /\ \A a \in live : Team[a] # t]
    /\ aiToUpdate' = Cardinality(live)

\* UpdateAreas on a worker.
StartUpdateAreas ==
  /\ job = "queued"
  /\ job' = "running" /\ into' = GetNextAreaData
  /\ UNCHANGED <<engineVars, passVars, taskVars, terrainVars, userVars, ghosts>>

EndUpdateAreas ==
  /\ job = "running"
  /\ job' = "finished"
  /\ UNCHANGED <<engineVars, passVars, taskVars, terrainVars, into, userVars, ghosts>>
-----------------------------------------------------------------------------
(* AIs come and go between two calls of the engine. *)

\* The first AI makes the terrain data and has the authority.
InitAI(a) ==
  LET first == live = {}
      now == IF first THEN 0 ELSE pAreaData IN
  /\ at = "idle" /\ a \notin live /\ joins < MaxJoins
  /\ joins' = joins + 1
  /\ live' = live \cup {a} /\ fresh' = fresh \cup {a}
  /\ owner' = IF first THEN a ELSE owner
  /\ repeatTasks' = IF first THEN [repeatTasks EXCEPT ![a] = <<Rate>>] ELSE repeatTasks
  /\ areaData' = [areaData EXCEPT ![a] = now]
  /\ IF ~Alone(a) THEN UNCHANGED <<pathData, isAreaUpdated>>
     ELSE /\ pathData' = [pathData EXCEPT ![Team[a]] = now]
          /\ isAreaUpdated' = [isAreaUpdated EXCEPT ![Team[a]] = TRUE]
  /\ upset' = (upset \/ Moving)
  /\ UNCHANGED <<todo, passVars, onceTasks, isUpdating, aiToUpdate, pAreaData,
                 jobVars, orphaned>>

\* Init fails when the terrain manager exists already, and Release reports for it.
InitFails(a) ==
  /\ at = "idle" /\ a \notin live /\ live # {} /\ joins < MaxJoins
  /\ joins' = joins + 1
  /\ OnAreaUsersUpdated
  /\ upset' = (upset \/ Moving)
  /\ UNCHANGED <<live, todo, passVars, taskVars, owner, jobVars, userVars, orphaned>>

\* Another AI that is up gets the authority.
DelegateAuthority(a) ==
  \/ owner # a /\ UNCHANGED owner /\ repeatTasks' = [repeatTasks EXCEPT ![a] = <<>>]
  \/ /\ owner = a
     /\ \E b \in live \ {a} :
          /\ owner' = b
          /\ repeatTasks' = [repeatTasks EXCEPT ![a] = <<>>, ![b] = Append(@, Handover)]

\* Leaving without a report.
ReleaseSilently(a) ==
  /\ live \ {a} # {}
  /\ DelegateAuthority(a)
  /\ job' = IF owner = a THEN "none" ELSE job
  /\ upset' = (upset \/ (Moving /\ ~Owes(a)))
  /\ orphaned' = (orphaned \/ (owner = a /\ job # "none"))
  /\ UNCHANGED <<aiToUpdate, pAreaData, isUpdating>>

\* CCircuitAI::Release of one of several AIs: hand over, drop the scheduler with
\* its tasks and jobs, report.
ReleaseOne(a) ==
  /\ live \ {a} # {}
  /\ DelegateAuthority(a)
  /\ job' = IF owner = a THEN "none" ELSE job
  /\ OnAreaUsersUpdated
  /\ upset' = (upset \/ (Moving /\ ~Owes(a)))
  /\ orphaned' = (orphaned \/ (owner = a /\ job # "none"))

\* With the last AI the shared data goes.
ReleaseLast(a) ==
  /\ live \ {a} = {}
  /\ repeatTasks' = [repeatTasks EXCEPT ![a] = <<>>]
  /\ isUpdating' = FALSE /\ aiToUpdate' = 0 /\ pAreaData' = 0
  /\ job' = "none"
  /\ upset' = FALSE /\ orphaned' = FALSE
  /\ owner' = Smallest(AIs)

\* The Update of an AI that has resigned, or the engine's own release.
Release(a) ==
  /\ at = "idle" /\ a \in live
  /\ live' = live \ {a} /\ todo' = todo \ {a}
  /\ fresh' = fresh \ {a}
  /\ onceTasks' = [onceTasks EXCEPT ![a] = <<>>]
  /\ ReleaseOne(a) \/ ReleaseLast(a)
  /\ into' = IF owner = a THEN 0 ELSE into
  /\ areaData' = [areaData EXCEPT ![a] = 0]
  /\ pathData' = [pathData EXCEPT ![Team[a]] = IF Alone(a) THEN 0 ELSE @]
  /\ isAreaUpdated' = [isAreaUpdated EXCEPT ![Team[a]] = Alone(a) \/ @]
  /\ UNCHANGED <<joins, passVars>>
-----------------------------------------------------------------------------
(* Frames. *)

StartFrame ==
  /\ at = "idle" /\ todo = {} /\ live # {}
  /\ todo' = live
  /\ UNCHANGED <<live, joins, passVars, taskVars, terrainVars, jobVars, userVars, ghosts>>

Turn(a) == at = "idle" /\ a \in todo /\ a = Smallest(todo)

\* The frames that are left of f when some have passed.
Left(f, passed) == IF f > passed THEN f - passed ELSE 0
Nearer(tasks, passed) ==
  [k \in DOMAIN tasks |-> [tasks[k] EXCEPT !.frame = Left(tasks[k].frame, passed)]]

\* lastFrame = frame.  A scheduler that was made in the middle of a match comes
\* from frame 0, and everything it has is due.
BeginProcessJobs(a) ==
  /\ Turn(a)
  /\ \E passed \in IF a \in fresh THEN {1, Rate} ELSE {1} :
       /\ onceTasks' = [onceTasks EXCEPT ![a] = Nearer(onceTasks[a], passed)]
       /\ repeatTasks' = [repeatTasks EXCEPT
            ![a] = [k \in DOMAIN repeatTasks[a] |-> Left(repeatTasks[a][k], passed)]]
  /\ fresh' = fresh \ {a} /\ todo' = todo \ {a}
  /\ at' = "once" /\ who' = a /\ i' = 1
  /\ UNCHANGED <<live, joins, terrainVars, jobVars, userVars, ghosts>>

\* CTerrainManager::UpdateAreaUsers: the AI moves over, its path finder later.
UpdateAreaUsers(interval) ==
  /\ areaData' = [areaData EXCEPT ![who] = GetNextAreaData]
  /\ onceTasks' = [onceTasks EXCEPT ![who] =
       Append(Erase(@, i), [task |-> "paths", frame |-> interval, interval |-> interval])]
  /\ UNCHANGED <<terrainVars, pathData, isAreaUpdated>>

\* The second half: CPathFinder::UpdateAreaUsers, for the first AI of the team,
\* and the report.
UpdatePathUsers ==
  /\ onceTasks' = [onceTasks EXCEPT ![who] = Erase(@, i)]
  /\ pathData' = IF isAreaUpdated[Team[who]] THEN pathData
                 ELSE [pathData EXCEPT ![Team[who]] = GetNextAreaData]
  /\ isAreaUpdated' = [isAreaUpdated EXCEPT ![Team[who]] = TRUE]
  /\ OnAreaUsersUpdated
  /\ UNCHANGED <<owner, areaData>>

\* A turn of the loop over the once tasks: a task that is due is run and erased.
OnceTask ==
  /\ at = "once" /\ i <= Len(onceTasks[who])
  /\ LET t == onceTasks[who][i] IN
     IF t.frame > 0
     THEN i' = i + 1 /\ UNCHANGED <<onceTasks, terrainVars, userVars>>
     ELSE /\ UNCHANGED i
          /\ \/ t.task = "users" /\ UpdateAreaUsers(t.interval)
             \/ t.task = "paths" /\ UpdatePathUsers
  /\ UNCHANGED <<engineVars, at, who, repeatTasks, fresh, jobVars, ghosts>>

RepeatTask ==
  /\ at = "every" /\ i <= Len(repeatTasks[who])
  /\ IF repeatTasks[who][i] > 0 THEN UNCHANGED <<repeatTasks, isUpdating, job>>
     ELSE EnqueueUpdate /\ repeatTasks' = [repeatTasks EXCEPT ![who][i] = Rate]
  /\ i' = i + 1
  /\ UNCHANGED <<engineVars, at, who, onceTasks, fresh, owner, aiToUpdate, pAreaData, into,
                 userVars, ghosts>>

NextPass ==
  /\ \/ at = "once" /\ i > Len(onceTasks[who]) /\ at' = "every"
     \/ at = "every" /\ i > Len(repeatTasks[who]) /\ at' = "finish"
  /\ i' = 1
  /\ UNCHANGED <<engineVars, who, taskVars, terrainVars, jobVars, userVars, ghosts>>

\* The completion of UpdateAreas, if it is there.
FinishTasks ==
  /\ at = "finish"
  /\ \/ /\ owner = who /\ job = "finished"
        /\ job' = "none" /\ into' = 0
        /\ ScheduleUsersUpdate
     \/ /\ ~(owner = who /\ job = "finished")
        /\ UNCHANGED <<jobVars, onceTasks, isAreaUpdated, aiToUpdate>>
  /\ at' = "idle" /\ who' = Smallest(AIs)
  /\ UNCHANGED <<engineVars, i, repeatTasks, fresh, owner, isUpdating, pAreaData,
                 areaData, pathData, ghosts>>
-----------------------------------------------------------------------------
FrameStep ==
  \/ StartFrame
  \/ \E a \in AIs : BeginProcessJobs(a)
  \/ OnceTask \/ RepeatTask \/ NextPass \/ FinishTasks

Next ==
  \/ \E a \in AIs : InitAI(a) \/ InitFails(a) \/ Release(a)
  \/ FrameStep
  \/ StartUpdateAreas \/ EndUpdateAreas

Spec == Init /\ [][Next]_vars

\* The engine gives one frame after the other to every AI, and the workers run
\* what is queued (TasksGetDone in WorkerPool).
FairSpec ==
  /\ Spec
  /\ WF_vars(FrameStep)
  /\ WF_vars(StartUpdateAreas)
  /\ WF_vars(EndUpdateAreas)
-----------------------------------------------------------------------------
Reads(b) ==
  \E a \in live : areaData[a] = b \/ pathData[Team[a]] = b

\* While a worker fills a buffer no AI and no path finder reads it, as long as
\* all AIs that were there when an update began reported for it.
WriterIsAlone == job = "running" /\ ~upset => ~Reads(into)

\* An update does not begin while AIs still have to move over for the last one.
RoundsDoNotOverlap == job # "none" /\ ~upset => \A a \in AIs : ~Owes(a)

\* Every update ends, whoever leaves, unless the authority left with its job.
UpdateCompletes == isUpdating ~> (~isUpdating \/ orphaned)

\* What TerrainData.h:204 keeps two buffers for.
DoubleBuffered == job = "running" => ~Reads(into)
================================================================================
