------------------------------ MODULE FrameProofs ------------------------------
(***************************************************************************)
(* Proofs about the two components that go by the engine's frames.         *)
(*                                                                         *)
(* SnapshotTick, for every cadence, every cap not below it and any number  *)
(* of requests: snapshots keep coming, their stamps are true, and the flag *)
(* stands for exactly the requests that wait.                              *)
(*                                                                         *)
(* AreaUpdate, for any AIs and teams: the two buffers of the terrain areas *)
(* are never read and written at once, and one round of updates is over    *)
(* before the next one begins.                                             *)
(***************************************************************************)
EXTENDS SnapshotTick, AreaUpdate, FiniteSetTheorems, TLAPS

(***************************************************************************)
(* SnapshotTick                                                            *)
(***************************************************************************)

\* The plan: the next snapshot is due one interval after the last.
Planned == next = sent.frame + effective

\* The invariant that is inductive.  A broadcast that failed breaks the plan,
\* but then the gateway is disabled and no tick begins; a tick that a dispatch
\* disabled on the way still finds the plan in order.
Schedule ==
  /\ effective <= MaxCadence
  /\ epc = "idle" /\ state = "Healthy" => Planned /\ frame < next
  /\ epc # "idle" => Planned /\ frame <= next
  /\ state = "Healthy" => frame - sent.frame <= MaxCadence

\* Only the initial snapshot can come after the scheduler's last.
LastSeen ==
  /\ sent.frame <= seen /\ seen <= frame
  /\ initial \/ seen = sent.frame

TickInv == TickTypeOK /\ Schedule /\ LastSeen /\ FlagMeansAsked

\* The interval after an emission is again within its bounds, over or under
\* the unit cap (the doubling, the cap and the snap-back of Pump).
LEMMA AfterEmissionBounds ==
  ASSUME TickTypeOK, effective <= MaxCadence, NEW over \in BOOLEAN
  PROVE  /\ AfterEmission(over) \in Nat
         /\ AfterEmission(over) >= Cadence
         /\ AfterEmission(over) <= MaxCadence
BY CadenceAssumption, SMT DEF TickTypeOK, AfterEmission

\* Configure sets the scheduler up in order.
LEMMA InitTick == TickInit => TickInv
<1> SUFFICES ASSUME TickInit PROVE TickInv
  OBVIOUS
<1>1. TickTypeOK
  <2>1. Cadence \in Nat /\ Cadence >= Cadence /\ 0 \in Nat
    BY CadenceAssumption, SMT
  <2>2. /\ rpc \in [Requests -> {"idle", "checked", "promised", "asked"}]
        /\ promised \in [Requests -> Nat]
    BY <2>1, Zenon DEF TickInit
  <2>3. sent \in [frame : Nat, cadence : Nat, forced : BOOLEAN]
    BY <2>1 DEF TickInit
  <2> QED
    BY <2>1, <2>2, <2>3, Zenon DEF TickInit, TickTypeOK
<1>2. Schedule
  BY CadenceAssumption, SMT DEF TickInit, Schedule, Planned
<1>3. FlagMeansAsked
  BY Zenon DEF TickInit, FlagMeansAsked
<1>4. LastSeen
  BY SMT DEF TickInit, LastSeen
<1> QED
  BY <1>1, <1>2, <1>3, <1>4 DEF TickInv

\* Taking the flag serves every request that waited and no other.
LEMMA TakeFlagKeeps ==
  ASSUME TickTypeOK, TakeFlag
  PROVE  /\ FlagMeansAsked'
         /\ pending' \in BOOLEAN
         /\ rpc' \in [Requests -> {"idle", "checked", "promised", "asked"}]
         /\ promised' \in [Requests -> Nat]
<1>1. FlagMeansAsked'
  BY DEF TickTypeOK, TakeFlag, FlagMeansAsked
<1>2. QED
  BY <1>1 DEF TickTypeOK, TakeFlag

\* A step that sends nothing and does not turn the clock back leaves the order
\* of the last snapshots as it was.
LEMMA LastSeenKept ==
  ASSUME TickTypeOK, LastSeen, UNCHANGED snapVars, frame' \in Nat, frame <= frame'
  PROVE  LastSeen'
<1>1. UNCHANGED <<sent, initial, seen>>
  BY Zenon DEF snapVars
<1>2. seen \in Nat /\ frame \in Nat /\ seen <= frame
  BY Zenon DEF TickTypeOK, LastSeen
<1>3. seen <= frame'
  BY <1>2, SMT
<1> QED
  BY <1>1, <1>3, Zenon DEF LastSeen

\* Every step of OnFrameTick, of the handler and every fault keeps TickInv.
LEMMA StepTick == TickInv /\ [TickNext]_tickVars => TickInv'
<1> SUFFICES ASSUME TickInv, [TickNext]_tickVars PROVE TickInv'
  OBVIOUS
<1> USE DEF TickInv
<1>1. CASE TickBegins
  <2>1. TickTypeOK'
    BY <1>1 DEF TickTypeOK, TickBegins, snapVars, rpcVars
  <2>2. Schedule'
    <3>1. epc = "idle" /\ state = "Healthy" /\ frame \in Nat /\ next \in Nat
      BY <1>1 DEF TickBegins, TickTypeOK
    <3>2. Planned /\ frame < next
      BY <3>1 DEF Schedule
    <3>3. frame' \in Nat /\ frame' <= next
      BY <1>1, <3>1, <3>2, SMT DEF TickBegins
    <3>4. /\ epc' = "commands"
          /\ UNCHANGED <<effective, next, sent, state>>
      BY <1>1 DEF TickBegins, snapVars
    <3>5. sent.frame \in Nat /\ effective \in Nat /\ effective <= MaxCadence
      BY DEF TickTypeOK, Schedule
    <3>6. next - sent.frame = effective
      BY <3>1, <3>2, <3>5, SMT DEF Planned
    <3>7. frame' - sent.frame <= MaxCadence
      BY <3>1, <3>3, <3>5, <3>6, CadenceAssumption, SMT
    <3>8. Planned'
      BY <3>2, <3>4 DEF Planned
    <3> QED
      BY <3>3, <3>4, <3>5, <3>7, <3>8 DEF Schedule
  <2>3. FlagMeansAsked'
    BY <1>1 DEF FlagMeansAsked, TickBegins, rpcVars
  <2>4. LastSeen'
    <3>1. frame \in Nat /\ UNCHANGED snapVars
      BY <1>1, Zenon DEF TickBegins, TickTypeOK
    <3>2. frame' \in Nat /\ frame <= frame'
      BY <1>1, <3>1, SMT DEF TickBegins
    <3> QED
      BY <3>1, <3>2, LastSeenKept
  <2> QED
    BY <2>1, <2>2, <2>3, <2>4
<1>2. CASE CommandsDone
  <2>1. TickTypeOK'
    BY <1>2 DEF TickTypeOK, CommandsDone, snapVars, rpcVars
  <2>2. Schedule'
    <3>1. epc = "commands" /\ epc' = "pump"
      BY <1>2 DEF CommandsDone
    <3>2. /\ UNCHANGED <<frame, effective, next, sent>>
          /\ state' = "Healthy" => state = "Healthy"
      BY <1>2 DEF CommandsDone, snapVars
    <3>3. Planned' /\ frame' <= next'
      BY <3>1, <3>2 DEF Schedule, Planned
    <3> QED
      BY <3>1, <3>2, <3>3 DEF Schedule
  <2>3. FlagMeansAsked'
    BY <1>2 DEF FlagMeansAsked, CommandsDone, rpcVars
  <2>4. LastSeen'
    <3>1. UNCHANGED <<sent, initial, seen, frame>>
      BY <1>2, Zenon DEF CommandsDone, snapVars
    <3> QED
      BY <3>1, Zenon DEF LastSeen
  <2> QED
    BY <2>1, <2>2, <2>3, <2>4
<1>3. ASSUME NEW over \in BOOLEAN, Pump(over) PROVE TickInv'
  <2>1. TakeFlag /\ epc = "pump" /\ epc' = "idle" /\ frame' = frame
        /\ UNCHANGED <<currentFrame, initial>>
    BY <1>3 DEF Pump, pumpDone
  <2>2. FlagMeansAsked'
    BY <2>1, TakeFlagKeeps
  <2>3. Planned /\ frame <= next /\ effective <= MaxCadence
    BY <2>1 DEF Schedule
  <2>4. CASE Due
    <3>1. /\ effective' = AfterEmission(over)
          /\ next' = frame + effective'
          /\ Broadcast(effective)
      BY <1>3, <2>4 DEF Pump
    <3>2. effective' \in Nat /\ effective' >= Cadence /\ effective' <= MaxCadence
      BY <2>3, <3>1, AfterEmissionBounds
    <3>3. frame \in Nat /\ next' \in Nat
      BY <3>1, <3>2, SMT DEF TickTypeOK
    <3>4. TickTypeOK'
      <4>1. /\ sent' \in [frame : Nat, cadence : Nat, forced : BOOLEAN]
            /\ state' \in {"Healthy", "Disabled"}
            /\ seen' \in Nat
        BY <3>1 DEF Broadcast, TickTypeOK
      <4> QED
        BY <2>1, <3>2, <3>3, <4>1, TakeFlagKeeps DEF TickTypeOK
    <3>5. state' = "Healthy" => sent'.frame = frame
      BY <3>1 DEF Broadcast
    <3>6. state' = "Healthy" => Planned' /\ frame' < next'
      BY <2>1, <3>1, <3>2, <3>3, <3>5, CadenceAssumption, SMT DEF Planned
    <3>7. state' = "Healthy" => frame' - sent'.frame <= MaxCadence
      BY <2>1, <3>3, <3>5, CadenceAssumption, SMT
    <3>8. Schedule'
      BY <2>1, <3>2, <3>6, <3>7 DEF Schedule
    <3>9. LastSeen'
      <4>1. CASE UNCHANGED <<sent, seen>>
        BY <2>1, <4>1, Zenon DEF LastSeen
      <4>2. CASE sent'.frame = frame /\ seen' = frame
        <5>1. frame <= frame
          BY <3>3, SMT
        <5> QED
          BY <2>1, <4>2, <5>1, Zenon DEF LastSeen
      <4> QED
        BY <3>1, <4>1, <4>2 DEF Broadcast
    <3> QED
      BY <2>2, <3>4, <3>8, <3>9
  <2>5. CASE ~Due
    <3>1. UNCHANGED <<effective, next, sent, seen, state>>
      BY <1>3, <2>5 DEF Pump
    <3>2. frame < next
      BY <2>3, <2>5, SMT DEF Due, TickTypeOK
    <3>3. TickTypeOK'
      BY <2>1, <3>1, TakeFlagKeeps DEF TickTypeOK
    <3>4. Schedule'
      BY <2>1, <2>3, <3>1, <3>2 DEF Schedule, Planned
    <3>5. LastSeen'
      BY <2>1, <3>1, Zenon DEF LastSeen
    <3> QED
      BY <2>2, <3>3, <3>4, <3>5
  <2> QED
    BY <2>4, <2>5
<1>4. CASE Fault
  <2>1. TickTypeOK'
    BY <1>4 DEF TickTypeOK, Fault, frameVars, snapVars, rpcVars
  <2>2. Schedule'
    BY <1>4 DEF Schedule, Planned, Fault, frameVars, snapVars
  <2>3. FlagMeansAsked'
    BY <1>4 DEF FlagMeansAsked, Fault, rpcVars
  <2>4. LastSeen'
    BY <1>4, Zenon DEF LastSeen, Fault, frameVars, snapVars
  <2> QED
    BY <2>1, <2>2, <2>3, <2>4
<1>5. ASSUME NEW r \in Requests, Check(r) \/ Promise(r) \/ Ask(r)
      PROVE  TickInv'
  <2>1. TickTypeOK'
    <3>1. promised' \in [Requests -> Nat]
      BY <1>5, SMT DEF TickTypeOK, Check, Promise, Ask
    <3>2. rpc' \in [Requests -> {"idle", "checked", "promised", "asked"}]
      BY <1>5, SMT DEF TickTypeOK, Check, Promise, Ask
    <3>3. pending' \in BOOLEAN
      BY <1>5, Zenon DEF TickTypeOK, Check, Promise, Ask
    <3> QED
      BY <1>5, <3>1, <3>2, <3>3, Zenon DEF TickTypeOK, Check, Promise, Ask, frameVars, snapVars
  <2>2. Schedule'
    BY <1>5 DEF Schedule, Planned, Check, Promise, Ask, frameVars, snapVars
  <2>3. FlagMeansAsked'
    BY <1>5 DEF TickTypeOK, FlagMeansAsked, Check, Promise, Ask, frameVars
  <2>4. LastSeen'
    BY <1>5, Zenon DEF LastSeen, Check, Promise, Ask, frameVars, snapVars
  <2> QED
    BY <2>1, <2>2, <2>3, <2>4
<1>6. CASE InitialSnapshot
  <2>1. /\ UNCHANGED <<epc, frame, effective, next, sent, currentFrame, pending,
                       rpc, promised>>
        /\ state = "Healthy" /\ initial' = TRUE
        /\ \/ seen' = frame /\ state' = state
           \/ state' = "Disabled" /\ seen' = seen
    BY <1>6, Zenon DEF InitialSnapshot, rpcVars
  <2>2. TickTypeOK'
    BY <2>1, Zenon DEF TickTypeOK
  <2>3. Schedule'
    BY <2>1, Zenon DEF Schedule, Planned
  <2>4. LastSeen'
    <3>1. frame \in Nat /\ seen \in Nat /\ sent.frame \in Nat
      BY Zenon DEF TickTypeOK
    <3>2. sent.frame <= frame /\ frame <= frame
      BY <3>1, SMT DEF LastSeen
    <3> QED
      BY <2>1, <3>2, Zenon DEF LastSeen
  <2>5. FlagMeansAsked'
    BY <2>1, Zenon DEF FlagMeansAsked
  <2> QED
    BY <2>2, <2>3, <2>4, <2>5
<1>7. CASE UNCHANGED tickVars
  BY <1>7 DEF tickVars, frameVars, snapVars, rpcVars, TickTypeOK, Schedule,
              Planned, LastSeen, FlagMeansAsked
<1> QED
  BY <1>1, <1>2, <1>3, <1>4, <1>5, <1>6, <1>7 DEF TickNext, Engine, Worker

\* TickInv always holds.
LEMMA TickInvariant == TickSpec => []TickInv
BY InitTick, StepTick, PTL DEF TickSpec

\* Type correctness, and the interval is never shorter than configured.
THEOREM TickTypeCorrect == TickSpec => []TickTypeOK
BY TickInvariant, PTL DEF TickInv

\* While the gateway is healthy no subscriber waits longer than the cap for a
\* snapshot, for every cadence and cap and whatever the unit counts do (Pump).
THEOREM SnapshotsComing == TickSpec => []SnapshotsKeepComing
<1>1. TickInv => SnapshotsKeepComing
  <2> SUFFICES ASSUME TickInv, state = "Healthy"
               PROVE  frame - seen <= MaxCadence
    BY DEF SnapshotsKeepComing
  <2>1. frame \in Nat /\ seen \in Nat /\ sent.frame \in Nat
    BY Zenon DEF TickInv, TickTypeOK
  <2>2. frame - sent.frame <= MaxCadence /\ sent.frame <= seen
    BY Zenon DEF TickInv, Schedule, LastSeen
  <2> QED
    BY <2>1, <2>2, CadenceAssumption, SMT
<1> QED
  BY <1>1, TickInvariant, PTL

\* The request flag stands for exactly the answered requests that wait.
THEOREM FlagExact == TickSpec => []FlagMeansAsked
BY TickInvariant, PTL DEF TickInv

\* The stamp of a periodic snapshot is the true distance to the scheduler's
\* snapshot before it, and to the last one seen unless that was the initial one.
THEOREM StampsTrue == TickSpec => StampIsInterval
<1> DEFINE True == sent' # sent /\ ~sent'.forced =>
                     /\ sent'.cadence = sent'.frame - sent.frame
                     /\ sent'.cadence >= sent'.frame - seen
                     /\ sent'.cadence = sent'.frame - seen \/ initial
<1>1. TickInv /\ [TickNext]_tickVars => [True]_tickVars
  <2> SUFFICES ASSUME TickInv, TickNext, sent' # sent, ~sent'.forced
               PROVE  /\ sent'.cadence = sent'.frame - sent.frame
                      /\ sent'.cadence >= sent'.frame - seen
                      /\ sent'.cadence = sent'.frame - seen \/ initial
    BY DEF tickVars, frameVars, snapVars
  <2>1. PICK over \in BOOLEAN : Pump(over)
    BY DEF TickNext, Engine, Worker, TickBegins, CommandsDone, InitialSnapshot,
           Fault, Check, Promise, Ask, frameVars, snapVars
  <2>2. Due /\ Broadcast(effective)
    BY <2>1 DEF Pump
  <2>3. sent' = [frame |-> frame, cadence |-> effective, forced |-> pending]
    BY <2>2 DEF Broadcast
  <2>4. ~pending /\ frame >= next
    BY <2>2, <2>3 DEF Due
  <2>5. Planned /\ frame <= next
    BY <2>1 DEF Pump, TickInv, Schedule
  <2>6. /\ frame \in Nat /\ next \in Nat /\ sent.frame \in Nat
        /\ effective \in Nat /\ seen \in Nat
    BY DEF TickInv, TickTypeOK
  <2>7. frame = sent.frame + effective
    BY <2>4, <2>5, <2>6, SMT DEF Planned
  <2>8. effective = frame - sent.frame
    BY <2>6, <2>7, SMT
  <2>9. sent.frame <= seen /\ (initial \/ seen = sent.frame)
    BY Zenon DEF TickInv, LastSeen
  <2>10. effective >= frame - seen
    BY <2>6, <2>8, <2>9, SMT
  <2>11. sent'.cadence = effective /\ sent'.frame = frame
    BY <2>3
  <2> QED
    BY <2>8, <2>9, <2>10, <2>11
<1> QED
  BY <1>1, TickInvariant, PTL DEF TickSpec, StampIsInterval

(***************************************************************************)
(* AreaUpdate: the inductive invariant                                     *)
(***************************************************************************)

Task == [task : {"users", "paths"}, frame : Nat, interval : Nat]

AreaTypes ==
  /\ live \subseteq AIs /\ IsFiniteSet(live) /\ todo \subseteq live
  /\ at \in {"idle", "once", "every", "finish"} /\ (at # "idle" => who \in live)
  /\ i \in Nat \ {0}
  /\ onceTasks \in [AIs -> Seq(Task)]
  /\ isUpdating \in BOOLEAN /\ aiToUpdate \in Int /\ pAreaData \in {0, 1}
  /\ job \in {"none", "queued", "running", "finished"} /\ into \in {0, 1}
  /\ areaData \in [AIs -> {0, 1}] /\ pathData \in [Teams -> {0, 1}]
  /\ isAreaUpdated \in [Teams -> BOOLEAN]
  /\ upset \in BOOLEAN /\ orphaned \in BOOLEAN

\* AIs that are not up have no tasks, the first one finds fresh data, and a job
\* is part of an update, and reports are only awaited when it is through.
AreaBasics ==
  /\ \A a \in AIs \ live : onceTasks[a] = <<>>
  /\ live = {} => pAreaData = 0 /\ ~isUpdating
  /\ job # "none" => isUpdating
  /\ aiToUpdate > 0 => Moving

\* A round is on: AIs move over, and there is somebody to end it.
Round == Moving /\ ~orphaned

\* What an AI has still to do in it.
Debt(a) == IF onceTasks[a] = <<>> THEN "none" ELSE onceTasks[a][1].task
Owing == {a \in live : Debt(a) # "none"}

\* aiToUpdate counts the AIs that owe a report, each of them for one task.  In
\* no round nobody does, and reports of AIs that leave only push it further from 0.
Reports ==
  /\ \A a \in live : Len(onceTasks[a]) <= 1
  /\ orphaned => Moving
  /\ job \in {"running", "finished"} => into = GetNextAreaData
  /\ Round => aiToUpdate = Cardinality(Owing) /\ Owing # {}
  /\ ~Round => aiToUpdate <= 0 /\ Owing = {}

\* Which buffer an AI and its path finder read.
Buffers(a) ==
  /\ areaData[a] = IF Round /\ Debt(a) # "users" THEN GetNextAreaData ELSE pAreaData
  /\ pathData[Team[a]] =
       IF Round /\ isAreaUpdated[Team[a]] THEN GetNextAreaData ELSE pAreaData
  /\ Round /\ Debt(a) = "none" => isAreaUpdated[Team[a]]

AreaInv ==
  /\ AreaTypes /\ AreaBasics
  /\ ~upset => Reports /\ \A a \in live : Buffers(a)

(***************************************************************************)
(* Tasks                                                                   *)
(***************************************************************************)

\* An AI owes something exactly if it has a task.
LEMMA DebtFacts ==
  ASSUME AreaTypes, NEW a \in AIs
  PROVE  /\ Debt(a) \in {"none", "users", "paths"}
         /\ Debt(a) = "none" <=> onceTasks[a] = <<>>
         /\ onceTasks[a] \in Seq(Task)
<1>1. onceTasks[a] \in Seq(Task)
  BY DEF AreaTypes
<1>2. onceTasks[a] # <<>> => onceTasks[a][1] \in Task
  BY <1>1, SMT
<1>3. onceTasks[a] # <<>> => onceTasks[a][1].task \in {"users", "paths"}
  BY <1>2 DEF Task
<1> QED
  BY <1>1, <1>3 DEF Debt

\* The only position of a list of one.
LEMMA OnlyPosition ==
  ASSUME NEW n \in Nat, n <= 1, NEW k \in Nat \ {0}, k <= n
  PROVE  k = 1 /\ n = 1
BY SMT

\* Nothing is left of a list of one.
LEMMA NothingLeft ==
  ASSUME NEW S, NEW s \in Seq(S), Len(s) = 1
  PROVE  s # <<>> /\ Erase(s, 1) = <<>>
<1>1. /\ 1 - 1 = 0 /\ 1 + 1 = 2
  BY SMT
<1>2. Erase(s, 1) = SubSeq(s, 1, 0) \o SubSeq(s, 2, 1)
  BY <1>1, Zenon DEF Erase
<1>3. SubSeq(s, 1, 0) = <<>> /\ SubSeq(s, 2, 1) = <<>> /\ s # <<>>
  BY SMT
<1>4. <<>> \o <<>> = <<>>
  BY SMT
<1> QED
  BY <1>2, <1>3, <1>4, Zenon

\* The only task of an AI is taken off its list.
LEMMA OnlyTask ==
  ASSUME NEW s \in Seq(Task), Len(s) <= 1, NEW k \in Nat \ {0}, k <= Len(s)
  PROVE  k = 1 /\ s # <<>> /\ Erase(s, k) = <<>>
<1>1. Len(s) \in Nat
  BY SMT
<1>2. k = 1 /\ Len(s) = 1
  BY <1>1, OnlyPosition, Zenon
<1> QED
  BY <1>2, NothingLeft, Zenon

\* A task is taken off a list.
LEMMA EraseType ==
  ASSUME NEW s \in Seq(Task), NEW k \in Nat \ {0}, k <= Len(s)
  PROVE  Erase(s, k) \in Seq(Task)
BY SMT DEF Erase

\* A task is put on a list.
LEMMA AppendTask ==
  ASSUME NEW s \in Seq(Task), NEW t \in Task
  PROVE  /\ Append(s, t) \in Seq(Task)
         /\ s = <<>> => Len(Append(s, t)) = 1 /\ Append(s, t) # <<>> /\ Append(s, t)[1] = t
<1>1. Append(s, t) \in Seq(Task)
  BY SMT
<1>2. s = <<>> => Len(Append(s, t)) = 1
  BY SMT
<1>3. s = <<>> => Append(s, t) # <<>>
  BY SMT
<1>4. s = <<>> => Append(s, t)[1] = t
  BY SMT
<1> QED
  BY <1>1, <1>2, <1>3, <1>4, Zenon

\* A task gets nearer.
LEMMA TaskNearer ==
  ASSUME NEW r \in Task, NEW f \in Nat
  PROVE  [r EXCEPT !.frame = f] \in Task /\ [r EXCEPT !.frame = f].task = r.task
BY DEF Task

\* Time passes for the tasks of an AI.
LEMMA TasksNearer ==
  ASSUME NEW s \in Seq(Task), NEW passed \in Nat
  PROVE  /\ Nearer(s, passed) \in Seq(Task) /\ Len(Nearer(s, passed)) = Len(s)
         /\ Nearer(s, passed) = <<>> <=> s = <<>>
         /\ s # <<>> => Nearer(s, passed)[1].task = s[1].task
<1> DEFINE t == Nearer(s, passed)
<1>1. Len(s) \in Nat /\ DOMAIN s = 1..Len(s)
  BY SMT
<1>2. ASSUME NEW k \in DOMAIN s
      PROVE  t[k] \in Task /\ t[k].task = s[k].task
  <2>1. s[k] \in Task
    BY SMT
  <2>2. s[k].frame \in Nat
    BY <2>1 DEF Task
  <2>3. Left(s[k].frame, passed) \in Nat
    BY <2>2, SMT DEF Left
  <2>4. t[k] = [s[k] EXCEPT !.frame = Left(s[k].frame, passed)]
    BY <1>2, Zenon DEF Nearer
  <2>5. /\ [s[k] EXCEPT !.frame = Left(s[k].frame, passed)] \in Task
        /\ [s[k] EXCEPT !.frame = Left(s[k].frame, passed)].task = s[k].task
    BY <2>1, <2>3, TaskNearer, Zenon
  <2> QED
    BY <2>4, <2>5, Zenon
<1>3. DOMAIN t = 1..Len(s) /\ t = [k \in DOMAIN s |-> t[k]]
  BY <1>1, Zenon DEF Nearer
<1> HIDE DEF t
<1>4. t \in [1..Len(s) -> Task]
  BY <1>1, <1>2, <1>3, Zenon
<1>5. t \in Seq(Task) /\ Len(t) = Len(s)
  BY <1>1, <1>4, SMT
<1>6. t = <<>> <=> s = <<>>
  BY <1>5, SMT
<1>7. s # <<>> => 1 \in DOMAIN s
  BY <1>1, SMT
<1> QED
  BY <1>2, <1>5, <1>6, <1>7, Zenon DEF t
USE Zenon

\* A buffer is one or the other.
LEMMA BufferType ==
  ASSUME pAreaData \in {0, 1}
  PROVE  GetNextAreaData \in {0, 1} /\ GetNextAreaData # pAreaData /\ 1 - GetNextAreaData = pAreaData
BY SMT DEF GetNextAreaData

\* A report swaps the buffers only if it is one of those that were awaited.
LEMMA ReportFacts ==
  ASSUME AreaTypes, OnAreaUsersUpdated
  PROVE  /\ aiToUpdate' \in Int /\ pAreaData' \in {0, 1} /\ isUpdating' \in BOOLEAN
         /\ aiToUpdate' > 0 => aiToUpdate > 0 /\ (isUpdating' <=> isUpdating) /\ UNCHANGED pAreaData
         /\ ~(aiToUpdate > 0) => aiToUpdate' <= 0 /\ (isUpdating' <=> isUpdating) /\ UNCHANGED pAreaData
<1>1. aiToUpdate' = aiToUpdate - 1 /\ aiToUpdate \in Int
  BY DEF OnAreaUsersUpdated, AreaTypes
<1>2. /\ aiToUpdate' \in Int
      /\ aiToUpdate' > 0 => aiToUpdate > 0 /\ aiToUpdate' # 0
      /\ ~(aiToUpdate > 0) => aiToUpdate' <= 0 /\ aiToUpdate' # 0
  BY <1>1, SMT
<1> QED
  BY <1>2, BufferType DEF OnAreaUsersUpdated, AreaTypes

(***************************************************************************)
(* Types                                                                   *)
(***************************************************************************)

\* AIs come and go.
LEMMA TypesAIs ==
  ASSUME AreaTypes, AreaBasics, NEW a \in AIs, InitAI(a) \/ InitFails(a) \/ Release(a)
  PROVE  AreaTypes' /\ AreaBasics'
<1> USE DEF engineVars, passVars, taskVars, terrainVars, jobVars, userVars, ghosts
<1>1. Team[a] \in Teams
  BY DEF Teams
<1>2. CASE InitAI(a)
  <2>1. live' \subseteq AIs /\ IsFiniteSet(live') /\ todo' \subseteq live'
    BY <1>2, FS_AddElement DEF InitAI, AreaTypes
  <2>2. /\ areaData' \in [AIs -> {0, 1}] /\ pathData' \in [Teams -> {0, 1}]
        /\ isAreaUpdated' \in [Teams -> BOOLEAN]
    BY <1>1, <1>2 DEF InitAI, AreaTypes
  <2>3. upset' \in BOOLEAN
    BY <1>2 DEF InitAI, AreaTypes
  <2>4. AreaTypes'
    BY <1>2, <2>1, <2>2, <2>3 DEF InitAI, AreaTypes
  <2>5. /\ live' = live \cup {a}
        /\ UNCHANGED <<onceTasks, pAreaData, isUpdating, aiToUpdate, job>>
    BY <1>2 DEF InitAI
  <2>6. AreaBasics'
    BY <2>5 DEF AreaBasics, Moving
  <2> QED
    BY <2>4, <2>6
<1>3. CASE InitFails(a)
  <2>1. /\ aiToUpdate' \in Int /\ pAreaData' \in {0, 1} /\ isUpdating' \in BOOLEAN
        /\ aiToUpdate' > 0 => aiToUpdate > 0 /\ (isUpdating' <=> isUpdating)
        /\ ~(aiToUpdate > 0) => (isUpdating' <=> isUpdating)
    BY <1>3, ReportFacts DEF InitFails
  <2>2. AreaTypes'
    BY <1>3, <2>1 DEF InitFails, AreaTypes
  <2>3. live # {} /\ UNCHANGED <<live, onceTasks, job>>
    BY <1>3 DEF InitFails
  <2> QED
    BY <2>1, <2>2, <2>3 DEF AreaBasics, Moving
<1>4. CASE Release(a)
  <2>1. live' \subseteq AIs /\ IsFiniteSet(live') /\ todo' \subseteq live'
    BY <1>4, FS_RemoveElement DEF Release, AreaTypes
  <2>2. /\ onceTasks' \in [AIs -> Seq(Task)] /\ \A b \in AIs \ live' : onceTasks'[b] = <<>>
    <3>1. <<>> \in Seq(Task)
      BY SMT
    <3> QED
      BY <1>4, <3>1 DEF Release, AreaTypes, AreaBasics
  <2>3. /\ areaData' \in [AIs -> {0, 1}] /\ pathData' \in [Teams -> {0, 1}]
        /\ isAreaUpdated' \in [Teams -> BOOLEAN] /\ into' \in {0, 1}
    BY <1>1, <1>4 DEF Release, AreaTypes
  <2>4. /\ aiToUpdate' \in Int /\ pAreaData' \in {0, 1} /\ isUpdating' \in BOOLEAN
        /\ job' \in {"none", "queued", "running", "finished"}
        /\ upset' \in BOOLEAN /\ orphaned' \in BOOLEAN
        /\ live' = {} => pAreaData' = 0 /\ ~isUpdating'
        /\ job' # "none" => isUpdating'
        /\ aiToUpdate' > 0 => Moving'
    <3>1. CASE ReleaseOne(a)
      <4>1. /\ aiToUpdate' \in Int /\ pAreaData' \in {0, 1} /\ isUpdating' \in BOOLEAN
            /\ aiToUpdate' > 0 => aiToUpdate > 0 /\ (isUpdating' <=> isUpdating)
            /\ ~(aiToUpdate > 0) => (isUpdating' <=> isUpdating)
        BY <3>1, ReportFacts DEF ReleaseOne
      <4>2. job' \in {job, "none"} /\ live' # {}
        BY <1>4, <3>1 DEF ReleaseOne, Release
      <4>3. upset' \in BOOLEAN /\ orphaned' \in BOOLEAN
        BY <3>1 DEF ReleaseOne, AreaTypes
      <4> QED
        BY <4>1, <4>2, <4>3 DEF AreaTypes, AreaBasics, Moving
    <3>2. CASE ReleaseLast(a)
      <4>1. 0 \in Int /\ ~(0 > 0)
        BY SMT
      <4> QED
        BY <3>2, <4>1 DEF ReleaseLast
    <3> QED
      BY <1>4, <3>1, <3>2 DEF Release
  <2>5. at' = "idle" /\ UNCHANGED i
    BY <1>4 DEF Release
  <2>6. AreaTypes'
    BY <2>1, <2>2, <2>3, <2>4, <2>5 DEF AreaTypes
  <2> QED
    BY <2>2, <2>4, <2>6 DEF AreaBasics
<1> QED
  BY <1>2, <1>3, <1>4

\* What passing time does to the tasks of all AIs.
LEMMA PassedTasks ==
  ASSUME AreaTypes, NEW a \in AIs, BeginProcessJobs(a)
  PROVE  /\ onceTasks' \in [AIs -> Seq(Task)]
         /\ \A b \in AIs : /\ Len(onceTasks'[b]) = Len(onceTasks[b])
                           /\ onceTasks'[b] = <<>> <=> onceTasks[b] = <<>>
                           /\ onceTasks[b] # <<>> =>
                                onceTasks'[b][1].task = onceTasks[b][1].task
<1>1. PICK passed \in IF a \in fresh THEN {1, Rate} ELSE {1} :
        onceTasks' = [onceTasks EXCEPT ![a] = Nearer(onceTasks[a], passed)]
  BY DEF BeginProcessJobs
<1>2. passed \in Nat
  <2>1. 1 \in Nat
    BY SMT
  <2> QED
    BY <2>1, RateAssumption
<1>3. onceTasks[a] \in Seq(Task) /\ onceTasks \in [AIs -> Seq(Task)]
  BY DEF AreaTypes
<1>4. onceTasks'[a] = Nearer(onceTasks[a], passed)
  BY <1>1, <1>3
<1>5. /\ onceTasks'[a] \in Seq(Task) /\ Len(onceTasks'[a]) = Len(onceTasks[a])
      /\ (onceTasks'[a] = <<>> <=> onceTasks[a] = <<>>)
      /\ onceTasks[a] # <<>> => onceTasks'[a][1].task = onceTasks[a][1].task
  BY <1>2, <1>3, <1>4, TasksNearer
<1>6. /\ onceTasks' \in [AIs -> Seq(Task)]
      /\ \A b \in AIs \ {a} : onceTasks'[b] = onceTasks[b]
  BY <1>1, <1>3, <1>4, <1>5
<1> QED
  BY <1>5, <1>6

\* What a once task that is due does to the tasks of all AIs.
LEMMA DoneTasks ==
  ASSUME AreaTypes, OnceTask, onceTasks' # onceTasks
  PROVE  /\ onceTasks' \in [AIs -> Seq(Task)] /\ who \in live
         /\ \A b \in AIs \ {who} : onceTasks'[b] = onceTasks[b]
         /\ i \in Nat \ {0} /\ i <= Len(onceTasks[who])
         /\ \/ /\ onceTasks[who][i].task = "users"
               /\ \E t \in Task : /\ t.task = "paths"
                                  /\ onceTasks'[who] = Append(Erase(onceTasks[who], i), t)
            \/ /\ onceTasks[who][i].task = "paths"
               /\ onceTasks'[who] = Erase(onceTasks[who], i)
<1>1. /\ who \in live /\ who \in AIs /\ i \in Nat \ {0} /\ i <= Len(onceTasks[who])
      /\ onceTasks \in [AIs -> Seq(Task)] /\ onceTasks[who] \in Seq(Task)
  BY DEF OnceTask, AreaTypes
<1>2. Erase(onceTasks[who], i) \in Seq(Task)
  BY <1>1, EraseType
<1>3. onceTasks[who][i] \in Task
  BY <1>1, SMT
<1>4. CASE onceTasks[who][i].task = "users" /\ UpdateAreaUsers(onceTasks[who][i].interval)
  <2> DEFINE t == [task |-> "paths", frame |-> onceTasks[who][i].interval,
                   interval |-> onceTasks[who][i].interval]
  <2>1. t \in Task /\ t.task = "paths"
    BY <1>3 DEF Task
  <2>2. onceTasks' = [onceTasks EXCEPT ![who] = Append(Erase(onceTasks[who], i), t)]
    BY <1>4 DEF UpdateAreaUsers
  <2> HIDE DEF t
  <2>3. Append(Erase(onceTasks[who], i), t) \in Seq(Task)
    BY <1>2, <2>1, AppendTask
  <2> QED
    BY <1>1, <1>4, <2>1, <2>2, <2>3
<1>5. CASE onceTasks[who][i].task = "paths" /\ UpdatePathUsers
  <2>1. onceTasks' = [onceTasks EXCEPT ![who] = Erase(onceTasks[who], i)]
    BY <1>5 DEF UpdatePathUsers
  <2> QED
    BY <1>1, <1>2, <1>5, <2>1
<1> QED
  BY <1>4, <1>5 DEF OnceTask

\* Every AI is to move over, and no path finder has.
LEMMA ScheduleFacts ==
  ASSUME AreaTypes, ScheduleUsersUpdate
  PROVE  /\ onceTasks' \in [AIs -> Seq(Task)]
         /\ \A a \in AIs \ live : onceTasks'[a] = onceTasks[a]
         /\ \A a \in live : \E t \in Task :
              t.task = "users" /\ onceTasks'[a] = Append(onceTasks[a], t)
         /\ aiToUpdate' = Cardinality(live) /\ Cardinality(live) \in Nat
         /\ isAreaUpdated' \in [Teams -> BOOLEAN]
         /\ \A a \in live : ~isAreaUpdated'[Team[a]]
<1> DEFINE n == Cardinality(live)
           t(order, a) == [task |-> "users", frame |-> order[a], interval |-> n]
<1>1. n \in Nat
  BY FS_CardinalityType DEF AreaTypes
<1>2. PICK order \in [live -> 1..n] :
        /\ onceTasks' = [a \in AIs |-> IF a \notin live THEN onceTasks[a]
                                       ELSE Append(onceTasks[a], t(order, a))]
        /\ isAreaUpdated' = [u \in Teams |->
             isAreaUpdated[u] /\ \A a \in live : Team[a] # u]
        /\ aiToUpdate' = n
  BY DEF ScheduleUsersUpdate
<1>3. 1..n \subseteq Nat
  BY <1>1, SMT
<1> HIDE DEF n
<1>4. \A a \in live : t(order, a) \in Task /\ t(order, a).task = "users"
  BY <1>1, <1>2, <1>3 DEF Task
<1> HIDE DEF t
<1>5. \A a \in AIs : onceTasks[a] \in Seq(Task)
  BY DEF AreaTypes
<1>6. \A a \in live : Append(onceTasks[a], t(order, a)) \in Seq(Task) /\ a \in AIs
  BY <1>4, <1>5, AppendTask DEF AreaTypes
<1>7. \A a \in AIs : onceTasks'[a] =
        IF a \notin live THEN onceTasks[a] ELSE Append(onceTasks[a], t(order, a))
  BY <1>2
<1>8. onceTasks' \in [AIs -> Seq(Task)]
  BY <1>2, <1>5, <1>6
<1>9. /\ isAreaUpdated' \in [Teams -> BOOLEAN]
      /\ \A a \in live : ~isAreaUpdated'[Team[a]]
  BY <1>2, <1>6 DEF Teams
<1> QED
  BY <1>1, <1>2, <1>4, <1>6, <1>7, <1>8, <1>9 DEF n

\* The steps of a frame.
LEMMA TypesFrame ==
  ASSUME AreaTypes, AreaBasics, FrameStep
  PROVE  AreaTypes' /\ AreaBasics'
<1> USE DEF engineVars, passVars, taskVars, terrainVars, jobVars, userVars, ghosts
<1>1. CASE StartFrame
  BY <1>1 DEF StartFrame, AreaTypes, AreaBasics, Moving
<1>2. ASSUME NEW a \in AIs, BeginProcessJobs(a)
      PROVE  AreaTypes' /\ AreaBasics'
  <2>1. /\ onceTasks' \in [AIs -> Seq(Task)]
        /\ \A b \in AIs : onceTasks'[b] = <<>> <=> onceTasks[b] = <<>>
    BY <1>2, PassedTasks
  <2>2. /\ a \in live /\ todo' \subseteq live /\ at' = "once" /\ who' = a /\ i' = 1
        /\ UNCHANGED <<live, terrainVars, jobVars, userVars, ghosts>>
    BY <1>2 DEF BeginProcessJobs, Turn, AreaTypes
  <2>3. 1 \in Nat \ {0}
    BY SMT
  <2> QED
    BY <2>1, <2>2, <2>3 DEF AreaTypes, AreaBasics, Moving
<1>3. CASE OnceTask
  <2>1. UNCHANGED <<engineVars, at, who, jobVars, ghosts>> /\ who \in live /\ Team[who] \in Teams
    BY <1>3 DEF OnceTask, AreaTypes, Teams
  <2>2. onceTasks' \in [AIs -> Seq(Task)] /\ \A b \in AIs \ live : onceTasks'[b] = <<>>
    <3>1. CASE onceTasks' = onceTasks
      BY <3>1 DEF AreaTypes, AreaBasics
    <3>2. CASE onceTasks' # onceTasks
      <4>1. /\ onceTasks' \in [AIs -> Seq(Task)] /\ who \in live
            /\ \A b \in AIs \ {who} : onceTasks'[b] = onceTasks[b]
        BY <1>3, <3>2, DoneTasks
      <4> QED
        BY <4>1 DEF AreaBasics
    <3> QED
      BY <3>1, <3>2
  <2>3. i' \in Nat \ {0}
    <3>1. i + 1 \in Nat \ {0}
      BY SMT DEF AreaTypes
    <3> QED
      BY <1>3, <3>1 DEF OnceTask, AreaTypes
  <2>4. CASE OnAreaUsersUpdated /\ UpdatePathUsers
    <3>1. /\ aiToUpdate' \in Int /\ pAreaData' \in {0, 1} /\ isUpdating' \in BOOLEAN
          /\ aiToUpdate' > 0 => aiToUpdate > 0 /\ (isUpdating' <=> isUpdating)
          /\ ~(aiToUpdate > 0) => (isUpdating' <=> isUpdating)
      BY <2>4, ReportFacts
    <3>2. /\ UNCHANGED areaData /\ pathData' \in [Teams -> {0, 1}]
          /\ isAreaUpdated' \in [Teams -> BOOLEAN]
      BY <2>1, <2>4, BufferType DEF UpdatePathUsers, AreaTypes
    <3>3. AreaTypes'
      BY <2>1, <2>2, <2>3, <3>1, <3>2 DEF AreaTypes
    <3> QED
      BY <2>1, <2>2, <3>1, <3>3 DEF AreaBasics, Moving
  <2>5. CASE /\ UNCHANGED <<terrainVars, pathData, isAreaUpdated>>
             /\ areaData' \in {areaData, [areaData EXCEPT ![who] = GetNextAreaData]}
    <3>1. areaData' \in [AIs -> {0, 1}]
      BY <2>5, BufferType DEF AreaTypes
    <3>2. AreaTypes'
      BY <2>1, <2>2, <2>3, <2>5, <3>1 DEF AreaTypes
    <3> QED
      BY <2>1, <2>2, <2>5, <3>2 DEF AreaBasics, Moving
  <2> QED
    BY <1>3, <2>4, <2>5 DEF OnceTask, UpdateAreaUsers, UpdatePathUsers
<1>4. CASE RepeatTask
  <2>1. i' \in Nat \ {0}
    <3>1. i + 1 \in Nat \ {0}
      BY SMT DEF AreaTypes
    <3> QED
      BY <1>4, <3>1 DEF RepeatTask
  <2>2. /\ UNCHANGED <<live, todo, at, who, onceTasks, aiToUpdate, pAreaData, into, userVars, ghosts>>
        /\ at = "every"
        /\ UNCHANGED <<isUpdating, job>> \/ (~isUpdating /\ isUpdating' = TRUE /\ job' = "queued")
    BY <1>4 DEF RepeatTask, EnqueueUpdate
  <2>3. AreaTypes'
    BY <2>1, <2>2 DEF AreaTypes
  <2> QED
    BY <2>2, <2>3 DEF AreaBasics, AreaTypes, Moving
<1>5. CASE NextPass
  <2>1. i' = 1 /\ 1 \in Nat \ {0} /\ at' \in {"every", "finish"} /\ at # "idle"
    <3>1. 1 \in Nat \ {0}
      BY SMT
    <3> QED
      BY <1>5, <3>1 DEF NextPass
  <2>2. UNCHANGED <<engineVars, who, taskVars, terrainVars, jobVars, userVars, ghosts>>
    BY <1>5 DEF NextPass
  <2> QED
    BY <2>1, <2>2 DEF AreaTypes, AreaBasics, Moving
<1>6. CASE FinishTasks
  <2>1. /\ at' = "idle"
        /\ UNCHANGED <<live, todo, i, isUpdating, pAreaData, areaData, pathData, ghosts>>
    BY <1>6 DEF FinishTasks
  <2>2. CASE job = "finished" /\ job' = "none" /\ into' = 0 /\ ScheduleUsersUpdate
    <3>1. /\ onceTasks' \in [AIs -> Seq(Task)]
          /\ \A a \in AIs \ live : onceTasks'[a] = onceTasks[a]
          /\ aiToUpdate' \in Nat
          /\ isAreaUpdated' \in [Teams -> BOOLEAN]
      BY <2>2, ScheduleFacts
    <3>2. aiToUpdate' \in Int
      BY <3>1, SMT
    <3>3. AreaTypes'
      BY <2>1, <2>2, <3>1, <3>2 DEF AreaTypes
    <3> QED
      BY <2>1, <2>2, <3>1, <3>3 DEF AreaBasics, Moving
  <2>3. CASE UNCHANGED <<jobVars, onceTasks, isAreaUpdated, aiToUpdate>>
    BY <2>1, <2>3 DEF AreaTypes, AreaBasics, Moving
  <2> QED
    BY <1>6, <2>2, <2>3 DEF FinishTasks
<1> QED
  BY <1>1, <1>2, <1>3, <1>4, <1>5, <1>6 DEF FrameStep

\* The steps of a worker.
LEMMA TypesJobs ==
  ASSUME AreaTypes, AreaBasics, StartUpdateAreas \/ EndUpdateAreas
  PROVE  AreaTypes' /\ AreaBasics'
<1> USE DEF engineVars, passVars, taskVars, terrainVars, jobVars, userVars, ghosts
<1>1. /\ UNCHANGED <<live, todo, at, who, i, onceTasks, isUpdating, aiToUpdate, pAreaData,
                     userVars, ghosts>>
      /\ job # "none" /\ job' \in {"running", "finished"}
      /\ into' \in {into, GetNextAreaData}
  BY DEF StartUpdateAreas, EndUpdateAreas
<1>2. AreaTypes'
  BY <1>1, BufferType DEF AreaTypes
<1> QED
  BY <1>1, <1>2 DEF AreaBasics, Moving

(***************************************************************************)
(* Rounds                                                                  *)
(***************************************************************************)

Sound == Reports /\ \A a \in live : Buffers(a)

\* An AI that keeps what it reads and owes, in a round that stays on or off.
LEMMA BuffersFrame ==
  ASSUME NEW a, Buffers(a), Round' <=> Round, UNCHANGED pAreaData, Debt(a)' = Debt(a),
         areaData'[a] = areaData[a], pathData'[Team[a]] = pathData[Team[a]],
         isAreaUpdated'[Team[a]] <=> isAreaUpdated[Team[a]]
  PROVE  Buffers(a)'
<1>1. GetNextAreaData' = GetNextAreaData
  BY DEF GetNextAreaData
<1> QED
  BY <1>1 DEF Buffers

\* A step that nobody reports in, or that comes when no round is on.
LEMMA RoundFrame ==
  ASSUME AreaTypes, Sound, UNCHANGED <<live, pAreaData, areaData, pathData, isAreaUpdated>>,
         Moving' <=> Moving, orphaned' <=> orphaned,
         aiToUpdate' = aiToUpdate \/ (~Round /\ aiToUpdate' <= 0),
         job' \in {"running", "finished"} => into' = GetNextAreaData,
         \A a \in live : Len(onceTasks'[a]) = Len(onceTasks[a]) /\ Debt(a)' = Debt(a)
  PROVE  Sound'
<1>1. Round' <=> Round
  BY DEF Round
<1>2. Owing' = Owing
  BY DEF Owing
<1>3. GetNextAreaData' = GetNextAreaData
  BY DEF GetNextAreaData
<1>4. Reports'
  BY <1>1, <1>2, <1>3 DEF Sound, Reports
<1>5. \A a \in live' : Buffers(a)'
  BY <1>1, BuffersFrame DEF Sound
<1> QED
  BY <1>4, <1>5 DEF Sound

\* Those who owe are finitely many.
LEMMA OwingFinite ==
  ASSUME AreaTypes
  PROVE  IsFiniteSet(Owing) /\ Cardinality(Owing) \in Nat
<1>1. Owing \subseteq live /\ IsFiniteSet(live)
  BY DEF Owing, AreaTypes
<1> QED
  BY <1>1, FS_Subset, FS_CardinalityType

\* An AI that owed reports: with the last one the round is over.
LEMMA OneReportLess ==
  ASSUME AreaTypes, Reports, Round, NEW a \in Owing, OnAreaUsersUpdated,
         Owing' = Owing \ {a}, job' = "none", ~orphaned'
  PROVE  /\ Round' => /\ aiToUpdate' = Cardinality(Owing') /\ Owing' # {}
                      /\ UNCHANGED pAreaData
         /\ ~Round' => /\ aiToUpdate' <= 0 /\ Owing' = {} /\ ~Moving'
                       /\ pAreaData' = GetNextAreaData
<1>1. aiToUpdate = Cardinality(Owing) /\ aiToUpdate' = aiToUpdate - 1
  BY DEF Reports, OnAreaUsersUpdated
<1>2. IsFiniteSet(Owing) /\ Cardinality(Owing') = Cardinality(Owing) - 1 /\ IsFiniteSet(Owing')
  BY OwingFinite, FS_RemoveElement
<1>3. aiToUpdate' = Cardinality(Owing')
  BY <1>1, <1>2
<1>4. Cardinality(Owing') = 0 <=> Owing' = {}
  BY <1>2, FS_EmptySet
<1>5. 0 <= 0
  BY SMT
<1>6. Round' <=> Moving'
  BY DEF Round
<1>7. CASE aiToUpdate' = 0
  BY <1>3, <1>4, <1>5, <1>6, <1>7 DEF OnAreaUsersUpdated, Moving
<1>8. CASE aiToUpdate' # 0
  <2>1. (isUpdating' <=> isUpdating) /\ UNCHANGED pAreaData
    BY <1>8 DEF OnAreaUsersUpdated
  <2> QED
    BY <1>3, <1>4, <1>6, <1>8, <2>1 DEF Round, Moving
<1> QED
  BY <1>7, <1>8

\* Everybody else has moved over when the last one reports.
LEMMA LastReport ==
  ASSUME AreaTypes, Sound, Round, ~Round', pAreaData' = GetNextAreaData,
         NEW a \in live, Debt(a) = "none", areaData'[a] = areaData[a],
         pathData'[Team[a]] = pathData[Team[a]]
  PROVE  Buffers(a)'
<1>1. isAreaUpdated[Team[a]] /\ areaData[a] = GetNextAreaData /\ pathData[Team[a]] = GetNextAreaData
  BY DEF Sound, Buffers
<1> QED
  BY <1>1 DEF Buffers

\* An AI that comes while none moves over reads what the others read.
LEMMA RoundInit ==
  ASSUME AreaTypes, AreaTypes', AreaBasics, ~upset => Sound, NEW a \in AIs,
         InitAI(a), ~upset'
  PROVE  Sound'
<1> USE DEF engineVars, passVars, taskVars, terrainVars, jobVars, userVars, ghosts
<1>1. ~upset /\ ~Moving /\ Sound
  BY DEF InitAI
<1>2. /\ live' = live \cup {a} /\ a \notin live /\ Team[a] \in Teams
      /\ UNCHANGED <<onceTasks, isUpdating, aiToUpdate, pAreaData, job, into, orphaned>>
  BY DEF InitAI, Teams
<1>3. ~Round /\ ~Round' /\ ~Moving' /\ GetNextAreaData' = GetNextAreaData
  BY <1>1, <1>2 DEF Round, Moving, GetNextAreaData
<1>4. onceTasks[a] = <<>> /\ \A b \in AIs : Debt(b)' = Debt(b)
  BY <1>2 DEF AreaBasics, Debt
<1>5. Debt(a) = "none" /\ Owing' = {}
  <2>1. Debt(a) = "none"
    BY <1>4 DEF Debt
  <2>2. Owing = {}
    BY <1>1, <1>3 DEF Sound, Reports
  <2>3. live \subseteq AIs
    BY DEF AreaTypes
  <2> QED
    BY <1>2, <1>4, <2>1, <2>2, <2>3 DEF Owing
<1>6. Len(onceTasks[a]) <= 1
  <2>1. Len(<<>>) <= 1
    BY SMT
  <2> QED
    BY <1>4, <2>1
<1>7. Reports'
  BY <1>1, <1>2, <1>3, <1>5, <1>6 DEF Sound, Reports
<1>8. /\ areaData' = [areaData EXCEPT ![a] = pAreaData]
      /\ \/ UNCHANGED pathData /\ ~Alone(a)
         \/ pathData' = [pathData EXCEPT ![Team[a]] = pAreaData]
  BY DEF InitAI, AreaBasics
<1>9. ASSUME NEW b \in live'
      PROVE  areaData'[b] = pAreaData /\ pathData'[Team[b]] = pAreaData
  <2>1. b \in AIs /\ Team[b] \in Teams
    BY <1>2, <1>9 DEF AreaTypes, Teams
  <2>2. \A c \in live : areaData[c] = pAreaData /\ pathData[Team[c]] = pAreaData
    BY <1>1, <1>3 DEF Sound, Buffers
  <2>3. areaData'[b] = pAreaData
    <3>1. areaData'[b] = IF b = a THEN pAreaData ELSE areaData[b]
      BY <1>8, <2>1 DEF AreaTypes
    <3> QED
      BY <1>2, <1>9, <2>2, <3>1
  <2>4. ~Alone(a) => pathData[Team[a]] = pAreaData
    BY <2>2 DEF Alone
  <2>5. b \in live \/ b = a
    BY <1>2, <1>9
  <2>6. CASE UNCHANGED pathData /\ ~Alone(a)
    BY <2>2, <2>3, <2>4, <2>5, <2>6
  <2>7. CASE pathData' = [pathData EXCEPT ![Team[a]] = pAreaData]
    <3>1. pathData'[Team[b]] = IF Team[b] = Team[a] THEN pAreaData ELSE pathData[Team[b]]
      BY <2>1, <2>7 DEF AreaTypes
    <3> QED
      BY <2>2, <2>3, <2>5, <3>1
  <2> QED
    BY <1>8, <2>6, <2>7
<1> QED
  BY <1>2, <1>3, <1>7, <1>9 DEF Sound, Buffers

\* The report for an AI that failed to come is one too many.
LEMMA RoundInitFails ==
  ASSUME AreaTypes, ~upset => Sound, NEW a \in AIs, InitFails(a), ~upset'
  PROVE  Sound'
<1> USE DEF engineVars, passVars, taskVars, terrainVars, jobVars, userVars, ghosts
<1>1. ~upset /\ ~Moving /\ Sound
  BY DEF InitFails
<1>2. UNCHANGED <<live, onceTasks, job, into, areaData, pathData, isAreaUpdated, orphaned>>
  BY DEF InitFails
<1>3. ~Round /\ aiToUpdate <= 0
  BY <1>1 DEF Round, Sound, Reports
<1>4. ~(aiToUpdate > 0)
  BY <1>3, SMT DEF AreaTypes
<1>5. aiToUpdate' <= 0 /\ (isUpdating' <=> isUpdating) /\ UNCHANGED pAreaData
  BY <1>4, ReportFacts DEF InitFails
<1>6. Moving' <=> Moving
  BY <1>2, <1>5 DEF Moving
<1>7. \A b \in live : Len(onceTasks'[b]) = Len(onceTasks[b]) /\ Debt(b)' = Debt(b)
  BY <1>2 DEF Debt
<1>8. job' \in {"running", "finished"} => into' = GetNextAreaData
  BY <1>1, <1>2 DEF Sound, Reports
<1> QED
  BY <1>1, <1>2, <1>3, <1>5, <1>6, <1>7, <1>8, RoundFrame

\* What a release does to the AIs that stay.
LEMMA ReleaseFacts ==
  ASSUME AreaTypes, NEW a \in AIs, Release(a)
  PROVE  /\ live' = live \ {a} /\ a \in live
         /\ \A b \in live' : /\ onceTasks'[b] = onceTasks[b] /\ Debt(b)' = Debt(b)
                             /\ areaData'[b] = areaData[b]
                             /\ pathData'[Team[b]] = pathData[Team[b]]
                             /\ isAreaUpdated'[Team[b]] <=> isAreaUpdated[Team[b]]
         /\ Owing' = Owing \ {a}
<1>1. live' = live \ {a} /\ a \in live /\ Team[a] \in Teams
  BY DEF Release, Teams
<1>2. ASSUME NEW b \in live'
      PROVE  /\ onceTasks'[b] = onceTasks[b] /\ areaData'[b] = areaData[b]
             /\ pathData'[Team[b]] = pathData[Team[b]]
             /\ isAreaUpdated'[Team[b]] <=> isAreaUpdated[Team[b]]
  <2>1. b \in AIs /\ b # a /\ Team[b] \in Teams /\ (Team[b] = Team[a] => ~Alone(a))
    BY <1>1, <1>2 DEF AreaTypes, Teams, Alone
  <2>2. onceTasks'[b] = onceTasks[b] /\ areaData'[b] = areaData[b]
    BY <2>1 DEF Release, AreaTypes
  <2>3. pathData'[Team[b]] = pathData[Team[b]]
    BY <1>1, <2>1 DEF Release, AreaTypes
  <2>4. isAreaUpdated'[Team[b]] <=> isAreaUpdated[Team[b]]
    BY <1>1, <2>1 DEF Release, AreaTypes
  <2> QED
    BY <2>2, <2>3, <2>4
<1>3. \A b \in live' : Debt(b)' = Debt(b)
  BY <1>2 DEF Debt
<1>4. Owing' = Owing \ {a}
  BY <1>1, <1>3 DEF Owing
<1> QED
  BY <1>1, <1>2, <1>3, <1>4

\* An AI that leaves while none moves over.
LEMMA RoundReleaseOutside ==
  ASSUME AreaTypes, AreaBasics, Sound, ~Moving, NEW a \in AIs, Release(a), ReleaseOne(a)
  PROVE  Sound'
<1>1. ~Round /\ ~orphaned /\ aiToUpdate <= 0 /\ Owing = {}
  BY DEF Round, Sound, Reports
<1>2. ~(aiToUpdate > 0)
  BY <1>1, SMT DEF AreaTypes
<1>3. aiToUpdate' <= 0 /\ (isUpdating' <=> isUpdating) /\ UNCHANGED pAreaData
  BY <1>2, ReportFacts DEF ReleaseOne
<1>4. /\ job' = IF owner = a THEN "none" ELSE job
      /\ into' = IF owner = a THEN 0 ELSE into
      /\ orphaned' <=> owner = a /\ job # "none"
  BY <1>1 DEF ReleaseOne, Release
<1>5. ~Round' /\ (orphaned' => Moving')
  BY <1>3, <1>4 DEF Round, Moving, AreaBasics
<1>6. GetNextAreaData' = GetNextAreaData
  BY <1>3 DEF GetNextAreaData
<1>7. Reports'
  BY <1>1, <1>3, <1>4, <1>5, <1>6, ReleaseFacts DEF Sound, Reports
<1>8. \A b \in live' : Buffers(b)'
  BY <1>1, <1>3, <1>5, ReleaseFacts, BuffersFrame DEF Sound
<1> QED
  BY <1>7, <1>8 DEF Sound

\* An AI that leaves while others move over, and owes a report itself.
LEMMA RoundReleaseInside ==
  ASSUME AreaTypes, Sound, Moving, NEW a \in AIs, Release(a), ReleaseOne(a), Owes(a)
  PROVE  Sound'
<1>1. a \in Owing
  BY ReleaseFacts, DebtFacts DEF Owing, Owes
<1>2. Round /\ ~orphaned /\ job = "none"
  BY <1>1 DEF Round, Moving, Sound, Reports
<1>3. job' = "none" /\ ~orphaned'
  BY <1>2 DEF ReleaseOne
<1>4. /\ Round' => /\ aiToUpdate' = Cardinality(Owing') /\ Owing' # {}
                   /\ UNCHANGED pAreaData
      /\ ~Round' => /\ aiToUpdate' <= 0 /\ Owing' = {} /\ ~Moving'
                    /\ pAreaData' = GetNextAreaData
  BY <1>1, <1>2, <1>3, ReleaseFacts, OneReportLess DEF ReleaseOne, Sound
<1>5. Reports'
  BY <1>3, <1>4, ReleaseFacts DEF Sound, Reports
<1>6. ASSUME NEW b \in live'
      PROVE  Buffers(b)'
  <2>1. CASE Round'
    BY <1>2, <1>4, <1>6, <2>1, ReleaseFacts, BuffersFrame DEF Sound
  <2>2. CASE ~Round'
    <3>1. b \in live /\ Debt(b) = "none"
      BY <1>4, <1>6, <2>2, ReleaseFacts DEF Owing
    <3> QED
      BY <1>2, <1>4, <1>6, <2>2, <3>1, ReleaseFacts, LastReport
  <2> QED
    BY <2>1, <2>2
<1> QED
  BY <1>5, <1>6 DEF Sound

\* With the last AI everything is as at the start.
LEMMA RoundReleaseLast ==
  ASSUME NEW a \in AIs, Release(a), ReleaseLast(a)
  PROVE  Sound'
<1>1. live' = {} /\ ~isUpdating' /\ job' = "none" /\ ~orphaned' /\ aiToUpdate' = 0
  BY DEF Release, ReleaseLast
<1>2. 0 <= 0
  BY SMT
<1> QED
  BY <1>1, <1>2 DEF Sound, Reports, Round, Moving, Owing

\* An AI moves over.
LEMMA RoundAreaUsers ==
  ASSUME AreaTypes, AreaTypes', Sound, OnceTask, onceTasks' # onceTasks,
         NEW w \in AIs, who = w,
         UpdateAreaUsers(onceTasks[w][i].interval), onceTasks[w][i].task = "users"
  PROVE  Sound'
<1> USE DEF engineVars, terrainVars, jobVars, ghosts
<1>1. w \in live /\ w \in AIs /\ onceTasks[w] \in Seq(Task) /\ Len(onceTasks[w]) <= 1
  BY DoneTasks DEF AreaTypes, Sound, Reports
<1>2. i = 1 /\ onceTasks[w] # <<>> /\ Erase(onceTasks[w], i) = <<>>
  BY <1>1, DoneTasks, OnlyTask
<1>3. PICK t \in Task : t.task = "paths" /\ onceTasks'[w] = Append(<<>>, t)
  <2>1. "users" # "paths"
    OBVIOUS
  <2> QED
    BY <1>2, <2>1, DoneTasks
<1>4. <<>> \in Seq(Task)
  BY SMT
<1>5. Len(onceTasks'[w]) = 1 /\ onceTasks'[w] # <<>> /\ onceTasks'[w][1] = t
  <2>1. Len(Append(<<>>, t)) = 1 /\ Append(<<>>, t) # <<>> /\ Append(<<>>, t)[1] = t
    BY <1>4, AppendTask
  <2> QED
    BY <1>3, <2>1
<1>6. Debt(w) = "users" /\ Debt(w)' = "paths"
  BY <1>2, <1>3, <1>5 DEF Debt
<1>7. \A b \in live \ {w} : onceTasks'[b] = onceTasks[b] /\ Debt(b)' = Debt(b)
  BY DoneTasks DEF Debt, AreaTypes
<1>8. w \in Owing /\ Round
  BY <1>1, <1>6 DEF Owing, Sound, Reports
<1>9. /\ UNCHANGED <<live, isUpdating, aiToUpdate, pAreaData, job, into, orphaned, pathData,
                     isAreaUpdated>>
      /\ areaData' = [areaData EXCEPT ![w] = GetNextAreaData]
  BY DEF OnceTask, UpdateAreaUsers
<1>10. Round' /\ Moving /\ Moving' /\ GetNextAreaData' = GetNextAreaData
  BY <1>8, <1>9 DEF Round, Moving, GetNextAreaData
<1>11. Owing' = Owing
  BY <1>6, <1>7, <1>9 DEF Owing
<1>12. 1 <= 1
  BY SMT
<1>13. Reports'
  BY <1>5, <1>7, <1>8, <1>9, <1>10, <1>11, <1>12 DEF Sound, Reports
<1>14. areaData'[w] = GetNextAreaData /\ \A b \in live \ {w} : areaData'[b] = areaData[b]
  BY <1>1, <1>9 DEF AreaTypes
<1>15. Buffers(w)'
  BY <1>1, <1>6, <1>8, <1>9, <1>10, <1>14 DEF Sound, Buffers
<1>16. \A b \in live \ {w} : Buffers(b)'
  BY <1>7, <1>8, <1>9, <1>10, <1>14, BuffersFrame DEF Sound
<1> QED
  BY <1>9, <1>13, <1>15, <1>16 DEF Sound

\* Its path finder does, unless an ally's task moved it over already, and the AI
\* reports.
LEMMA RoundPathUsers ==
  ASSUME AreaTypes, AreaTypes', Sound, OnceTask, onceTasks' # onceTasks,
         NEW w \in AIs, who = w,
         UpdatePathUsers, onceTasks[w][i].task = "paths"
  PROVE  Sound'
<1> USE DEF engineVars, terrainVars, jobVars, ghosts
<1>1. /\ w \in live /\ w \in AIs /\ onceTasks[w] \in Seq(Task) /\ Len(onceTasks[w]) <= 1
      /\ Team[w] \in Teams
  BY DoneTasks DEF AreaTypes, Sound, Reports, Teams
<1>2. i = 1 /\ onceTasks[w] # <<>> /\ Erase(onceTasks[w], i) = <<>>
  BY <1>1, DoneTasks, OnlyTask
<1>3. onceTasks'[w] = <<>>
  <2>1. "users" # "paths"
    OBVIOUS
  <2> QED
    BY <1>2, <2>1, DoneTasks
<1>4. Debt(w) = "paths" /\ Debt(w)' = "none"
  BY <1>2, <1>3 DEF Debt
<1>5. \A b \in live \ {w} : onceTasks'[b] = onceTasks[b] /\ Debt(b)' = Debt(b)
  BY DoneTasks DEF Debt, AreaTypes
<1>6. w \in Owing /\ Round
  BY <1>1, <1>4 DEF Owing, Sound, Reports
<1>7. /\ UNCHANGED <<live, job, into, orphaned, areaData>> /\ OnAreaUsersUpdated
      /\ pathData' = IF isAreaUpdated[Team[w]] THEN pathData
                     ELSE [pathData EXCEPT ![Team[w]] = GetNextAreaData]
      /\ isAreaUpdated' = [isAreaUpdated EXCEPT ![Team[w]] = TRUE]
  BY DEF OnceTask, UpdatePathUsers
<1>8. Owing' = Owing \ {w}
  BY <1>4, <1>5, <1>7 DEF Owing
<1>9. job' = "none" /\ ~orphaned'
  BY <1>6, <1>7 DEF Round, Moving
<1>10. /\ Round' => /\ aiToUpdate' = Cardinality(Owing') /\ Owing' # {}
                    /\ UNCHANGED pAreaData
       /\ ~Round' => /\ aiToUpdate' <= 0 /\ Owing' = {} /\ ~Moving'
                     /\ pAreaData' = GetNextAreaData
  BY <1>6, <1>7, <1>8, <1>9, OneReportLess DEF Sound
<1>11. Len(onceTasks'[w]) <= 1
  <2>1. Len(<<>>) <= 1
    BY SMT
  <2> QED
    BY <1>3, <2>1
<1>12. Reports'
  BY <1>5, <1>7, <1>9, <1>10, <1>11 DEF Sound, Reports
<1>13. isAreaUpdated'[Team[w]] /\ pathData'[Team[w]] = GetNextAreaData
  <2>1. isAreaUpdated[Team[w]] => pathData[Team[w]] = GetNextAreaData
    BY <1>1, <1>6 DEF Sound, Buffers
  <2> QED
    BY <1>1, <1>7, <2>1 DEF AreaTypes
<1>14. \A u \in Teams \ {Team[w]} :
         (isAreaUpdated'[u] <=> isAreaUpdated[u]) /\ pathData'[u] = pathData[u]
  BY <1>1, <1>7 DEF AreaTypes
<1>15. areaData[w] = GetNextAreaData
  BY <1>1, <1>4, <1>6 DEF Sound, Buffers
<1>16. CASE Round'
  <2>1. GetNextAreaData' = GetNextAreaData
    BY <1>10, <1>16 DEF GetNextAreaData
  <2>2. Buffers(w)'
    BY <1>4, <1>7, <1>13, <1>15, <1>16, <2>1 DEF Buffers
  <2>3. ASSUME NEW b \in live \ {w}
        PROVE  Buffers(b)'
    <3>1. Team[b] \in Teams /\ Buffers(b)
      BY <2>3 DEF AreaTypes, Teams, Sound
    <3>2. CASE Team[b] = Team[w]
      <4>1. areaData'[b] = IF Debt(b)' # "users" THEN GetNextAreaData' ELSE pAreaData'
        BY <1>5, <1>6, <1>7, <1>10, <1>16, <2>1, <2>3, <3>1 DEF Buffers
      <4> QED
        BY <1>13, <1>16, <2>1, <3>2, <4>1 DEF Buffers
    <3>3. CASE Team[b] # Team[w]
      BY <1>5, <1>6, <1>7, <1>10, <1>14, <1>16, <2>3, <3>1, <3>3, BuffersFrame
    <3> QED
      BY <3>2, <3>3
  <2> QED
    BY <1>7, <1>12, <2>2, <2>3 DEF Sound
<1>17. CASE ~Round'
  <2>1. Buffers(w)'
    BY <1>7, <1>10, <1>13, <1>15, <1>17 DEF Buffers
  <2>2. ASSUME NEW b \in live \ {w}
        PROVE  Buffers(b)'
    <3>1. Debt(b) = "none" /\ Team[b] \in Teams
      BY <1>5, <1>7, <1>10, <1>17, <2>2 DEF Owing, AreaTypes, Teams
    <3>2. isAreaUpdated[Team[b]]
      BY <1>6, <2>2, <3>1 DEF Sound, Buffers
    <3>3. pathData'[Team[b]] = pathData[Team[b]]
      BY <1>7, <1>14, <3>1, <3>2
    <3> QED
      BY <1>6, <1>7, <1>10, <1>17, <2>2, <3>1, <3>3, LastReport
  <2> QED
    BY <1>7, <1>12, <2>1, <2>2 DEF Sound
<1> QED
  BY <1>16, <1>17

\* A turn of the loop over the once tasks.
LEMMA RoundOnceTask ==
  ASSUME AreaTypes, AreaTypes', Sound, OnceTask
  PROVE  Sound'
<1> USE DEF engineVars, terrainVars, jobVars, userVars, ghosts
<1>1. PICK w \in AIs : who = w
  BY DEF OnceTask, AreaTypes
<1>2. CASE onceTasks' # onceTasks
  BY <1>1, <1>2, RoundAreaUsers, RoundPathUsers DEF OnceTask
<1>3. CASE onceTasks' = onceTasks /\ UNCHANGED <<terrainVars, userVars>>
  <2>1. /\ UNCHANGED <<live, isUpdating, aiToUpdate, pAreaData, job, into, orphaned>>
        /\ UNCHANGED <<areaData, pathData, isAreaUpdated>>
    BY <1>3 DEF OnceTask
  <2>2. \A b \in live : Len(onceTasks'[b]) = Len(onceTasks[b]) /\ Debt(b)' = Debt(b)
    BY <1>3 DEF Debt
  <2>3. (Moving' <=> Moving) /\ (orphaned' <=> orphaned)
    BY <2>1 DEF Moving
  <2>4. job' \in {"running", "finished"} => into' = GetNextAreaData
    BY <2>1 DEF Sound, Reports
  <2> QED
    BY <2>1, <2>2, <2>3, <2>4, RoundFrame
<1>4. ASSUME onceTasks' = onceTasks, ~UNCHANGED <<terrainVars, userVars>>
      PROVE  FALSE
  <2>1. /\ onceTasks[w] \in Seq(Task) /\ Len(onceTasks[w]) <= 1 /\ i \in Nat \ {0}
        /\ i <= Len(onceTasks[w])
    BY <1>1 DEF OnceTask, AreaTypes, Sound, Reports
  <2>2. i = 1 /\ onceTasks[w] # <<>> /\ Erase(onceTasks[w], i) = <<>>
    BY <2>1, OnlyTask
  <2>3. CASE UpdatePathUsers
    BY <1>1, <1>4, <2>2, <2>3 DEF UpdatePathUsers, AreaTypes
  <2>4. CASE onceTasks[w][i].task = "users" /\ UpdateAreaUsers(onceTasks[w][i].interval)
    <3> DEFINE t == [task |-> "paths", frame |-> onceTasks[w][i].interval,
                     interval |-> onceTasks[w][i].interval]
    <3>1. onceTasks[w] = Append(<<>>, t)
      <4>1. onceTasks \in [AIs -> Seq(Task)]
        BY Zenon DEF AreaTypes
      <4>2. onceTasks' = [onceTasks EXCEPT ![w] = Append(Erase(onceTasks[w], i), t)]
        BY <1>1, <2>4, Zenon DEF UpdateAreaUsers
      <4>3. onceTasks'[w] = Append(Erase(onceTasks[w], i), t)
        BY <4>1, <4>2, Zenon
      <4> QED
        BY <1>4, <2>2, <4>3, Zenon
    <3>2. \A x : Append(<<>>, x)[1] = x
      BY SMT
    <3>3. t.task = "paths"
      OBVIOUS
    <3> HIDE DEF t
    <3> QED
      BY <2>2, <2>4, <3>1, <3>2, <3>3
  <2> QED
    BY <1>1, <1>4, <2>3, <2>4 DEF OnceTask
<1> QED
  BY <1>2, <1>3, <1>4

\* Everybody is asked to move over, and nobody has.
LEMMA RoundSchedule ==
  ASSUME AreaTypes, AreaTypes', AreaBasics, Sound, FinishTasks,
         job = "finished", job' = "none", ScheduleUsersUpdate
  PROVE  Sound'
<1> USE DEF engineVars, ghosts
<1>1. /\ UNCHANGED <<live, isUpdating, pAreaData, areaData, pathData, orphaned>>
      /\ who \in live
  BY DEF FinishTasks, AreaTypes
<1>2. ~Round /\ Owing = {} /\ isUpdating /\ ~orphaned
  BY DEF Round, Moving, Sound, Reports, AreaBasics
<1>3. Round' /\ Moving'
  BY <1>1, <1>2 DEF Round, Moving
<1>4. ASSUME NEW a \in live
      PROVE  Len(onceTasks'[a]) <= 1 /\ Debt(a)' = "users"
  <2>1. a \in AIs /\ onceTasks[a] \in Seq(Task)
    BY <1>4 DEF AreaTypes
  <2>2. onceTasks[a] = <<>>
    BY <1>2, <1>4, <2>1, DebtFacts DEF Owing
  <2>3. PICK t \in Task : t.task = "users" /\ onceTasks'[a] = Append(onceTasks[a], t)
    BY <1>4, ScheduleFacts
  <2>4. Len(onceTasks'[a]) = 1 /\ onceTasks'[a] # <<>> /\ onceTasks'[a][1] = t
    <3>1. /\ Len(Append(onceTasks[a], t)) = 1 /\ Append(onceTasks[a], t) # <<>>
          /\ Append(onceTasks[a], t)[1] = t
      BY <2>1, <2>2, AppendTask
    <3> QED
      BY <2>3, <3>1
  <2>5. 1 <= 1
    BY SMT
  <2> QED
    BY <2>3, <2>4, <2>5 DEF Debt
<1>5. Owing' = live
  BY <1>1, <1>4 DEF Owing
<1>6. aiToUpdate' = Cardinality(live) /\ \A a \in live : ~isAreaUpdated'[Team[a]]
  BY ScheduleFacts
<1>7. Reports'
  BY <1>1, <1>3, <1>4, <1>5, <1>6 DEF Reports
<1>8. \A a \in live : areaData[a] = pAreaData /\ pathData[Team[a]] = pAreaData
  BY <1>2 DEF Sound, Buffers
<1>9. \A a \in live' : Buffers(a)'
  BY <1>1, <1>3, <1>4, <1>6, <1>8 DEF Buffers
<1> QED
  BY <1>7, <1>9 DEF Sound

\* The steps that nobody reports in.
LEMMA RoundQuiet ==
  ASSUME AreaTypes, Sound,
         UNCHANGED <<live, pAreaData, aiToUpdate, userVars, ghosts>>,
         \/ (isUpdating' <=> isUpdating) /\ UNCHANGED <<job, into>>
         \/ ~isUpdating /\ job' = "queued"
         \/ job # "none" /\ job' = "running" /\ into' = GetNextAreaData
         \/ job = "running" /\ job' = "finished" /\ UNCHANGED into,
         \A a \in live : Len(onceTasks'[a]) = Len(onceTasks[a]) /\ Debt(a)' = Debt(a)
  PROVE  Sound'
<1>1. /\ UNCHANGED <<areaData, pathData, isAreaUpdated>> /\ (orphaned' <=> orphaned)
  BY DEF userVars, ghosts
<1>2. Moving' <=> Moving
  BY DEF Moving
<1>3. job' \in {"running", "finished"} => into' = GetNextAreaData
  BY DEF Sound, Reports
<1> QED
  BY <1>1, <1>2, <1>3, RoundFrame

(***************************************************************************)
(* AreaUpdate: the invariant holds                                         *)
(***************************************************************************)

\* No AI is there at the start.
LEMMA AreaInit ==
  ASSUME Init
  PROVE  AreaInv
<1>1. /\ 0 \in Int /\ 0 <= 0 /\ ~(0 > 0) /\ 1 \in Nat \ {0} /\ <<>> \in Seq(Task)
  BY SMT
<1>2. live = {} /\ IsFiniteSet(live)
  BY FS_EmptySet DEF Init
<1>3. AreaTypes
  BY <1>1, <1>2 DEF Init, AreaTypes
<1>4. AreaBasics
  BY <1>1 DEF Init, AreaBasics, Moving
<1>5. Reports
  BY <1>1, <1>2 DEF Init, Reports, Round, Moving, Owing
<1> QED
  BY <1>2, <1>3, <1>4, <1>5 DEF AreaInv

\* An AI comes, fails to, or goes.
LEMMA AreaAIs ==
  ASSUME AreaInv, NEW a \in AIs, InitAI(a) \/ InitFails(a) \/ Release(a)
  PROVE  AreaInv'
<1>1. AreaTypes /\ AreaBasics /\ (~upset => Sound)
  BY DEF AreaInv, Sound
<1>2. AreaTypes' /\ AreaBasics'
  BY <1>1, TypesAIs
<1>3. ASSUME ~upset'
      PROVE  Sound'
  <2>1. CASE InitAI(a)
    BY <1>1, <1>2, <1>3, <2>1, RoundInit
  <2>2. CASE InitFails(a)
    BY <1>1, <1>3, <2>2, RoundInitFails
  <2>3. CASE Release(a) /\ ReleaseOne(a)
    <3>1. ~upset /\ Sound /\ (Moving => Owes(a))
      BY <1>1, <1>3, <2>3 DEF ReleaseOne
    <3> QED
      BY <1>1, <2>3, <3>1, RoundReleaseOutside, RoundReleaseInside
  <2>4. CASE Release(a) /\ ReleaseLast(a)
    BY <2>4, RoundReleaseLast
  <2> QED
    BY <2>1, <2>2, <2>3, <2>4 DEF Release
<1> QED
  BY <1>2, <1>3 DEF AreaInv, Sound

\* A step of a frame.
LEMMA AreaFrame ==
  ASSUME AreaInv, FrameStep
  PROVE  AreaInv'
<1> USE DEF engineVars, passVars, taskVars, terrainVars, jobVars, userVars, ghosts
<1>1. AreaTypes /\ AreaBasics /\ (~upset => Sound)
  BY DEF AreaInv, Sound
<1>2. AreaTypes' /\ AreaBasics'
  BY <1>1, TypesFrame
<1>3. ASSUME ~upset'
      PROVE  Sound'
  <2>1. upset' = upset
    BY DEF FrameStep, StartFrame, BeginProcessJobs, OnceTask, RepeatTask, NextPass, FinishTasks
  <2>2. Sound
    BY <1>1, <1>3, <2>1
  <2>3. UNCHANGED onceTasks =>
          \A b \in live : Len(onceTasks'[b]) = Len(onceTasks[b]) /\ Debt(b)' = Debt(b)
    BY DEF Debt
  <2>4. CASE StartFrame \/ NextPass
    <3>1. /\ UNCHANGED <<live, pAreaData, aiToUpdate, userVars, ghosts, onceTasks, job, into>>
          /\ isUpdating' = isUpdating
      BY <2>4 DEF StartFrame, NextPass
    <3>2. isUpdating' <=> isUpdating
      BY <3>1
    <3> QED
      BY <1>1, <2>2, <2>3, <3>1, <3>2, RoundQuiet
  <2>5. ASSUME NEW a \in AIs, BeginProcessJobs(a)
        PROVE  Sound'
    <3>1. \A b \in live : Len(onceTasks'[b]) = Len(onceTasks[b]) /\ Debt(b)' = Debt(b)
      BY <1>1, <2>5, PassedTasks DEF Debt, AreaTypes
    <3> QED
      BY <1>1, <2>2, <2>5, <3>1, RoundQuiet DEF BeginProcessJobs
  <2>6. CASE OnceTask
    BY <1>1, <1>2, <2>2, <2>6, RoundOnceTask
  <2>7. CASE RepeatTask
    <3>1. /\ UNCHANGED <<live, pAreaData, aiToUpdate, userVars, ghosts, onceTasks, into>>
          /\ \/ (isUpdating' <=> isUpdating) /\ UNCHANGED job
             \/ ~isUpdating /\ job' = "queued"
      BY <2>7 DEF RepeatTask, EnqueueUpdate
    <3> QED
      BY <1>1, <2>2, <2>3, <3>1, RoundQuiet
  <2>8. CASE FinishTasks
    <3>1. CASE job = "finished" /\ job' = "none" /\ ScheduleUsersUpdate
      BY <1>1, <1>2, <2>2, <2>8, <3>1, RoundSchedule
    <3>2. CASE UNCHANGED <<jobVars, onceTasks, isAreaUpdated, aiToUpdate>>
      <4>1. /\ UNCHANGED <<live, pAreaData, aiToUpdate, userVars, ghosts, onceTasks, job, into>>
            /\ isUpdating' <=> isUpdating
        BY <2>8, <3>2 DEF FinishTasks
      <4> QED
        BY <1>1, <2>2, <2>3, <4>1, RoundQuiet
    <3> QED
      BY <2>8, <3>1, <3>2 DEF FinishTasks
  <2> QED
    BY <2>4, <2>5, <2>6, <2>7, <2>8 DEF FrameStep
<1> QED
  BY <1>2, <1>3 DEF AreaInv, Sound

\* A step of a worker.
LEMMA AreaJobs ==
  ASSUME AreaInv, StartUpdateAreas \/ EndUpdateAreas
  PROVE  AreaInv'
<1> USE DEF engineVars, passVars, taskVars, terrainVars, jobVars, userVars, ghosts
<1>1. AreaTypes /\ AreaBasics /\ (~upset => Sound)
  BY DEF AreaInv, Sound
<1>2. AreaTypes' /\ AreaBasics'
  BY <1>1, TypesJobs
<1>3. /\ UNCHANGED <<live, pAreaData, aiToUpdate, userVars, ghosts, onceTasks>>
      /\ \/ job # "none" /\ job' = "running" /\ into' = GetNextAreaData
         \/ job = "running" /\ job' = "finished" /\ UNCHANGED into
  BY DEF StartUpdateAreas, EndUpdateAreas
<1>4. \A b \in live : Len(onceTasks'[b]) = Len(onceTasks[b]) /\ Debt(b)' = Debt(b)
  BY <1>3 DEF Debt
<1>5. ~upset' => Sound /\ ~upset
  BY <1>1, <1>3
<1>6. ~upset' => Sound'
  BY <1>1, <1>3, <1>4, <1>5, RoundQuiet
<1> QED
  BY <1>2, <1>6 DEF AreaInv, Sound

\* A stuttering step.
LEMMA AreaStutter ==
  ASSUME AreaInv, UNCHANGED vars
  PROVE  AreaInv'
<1> USE DEF engineVars, passVars, taskVars, terrainVars, jobVars, userVars, ghosts
<1>1. AreaTypes /\ AreaBasics /\ (~upset => Sound)
  BY DEF AreaInv, Sound
<1>2. AreaTypes' /\ AreaBasics'
  BY <1>1 DEF AreaTypes, AreaBasics, Moving, vars
<1>3. /\ UNCHANGED <<live, pAreaData, aiToUpdate, userVars, ghosts, onceTasks, job, into>>
      /\ (isUpdating' <=> isUpdating) /\ (upset' <=> upset)
  BY DEF vars
<1>4. \A b \in live : Len(onceTasks'[b]) = Len(onceTasks[b]) /\ Debt(b)' = Debt(b)
  BY <1>3 DEF Debt
<1>5. ~upset' => Sound'
  BY <1>1, <1>3, <1>4, RoundQuiet
<1> QED
  BY <1>2, <1>5 DEF AreaInv, Sound

\* Through every Init, Release, frame and job the AIs that owe a report are the
\* ones aiToUpdate counts, and every AI and path finder reads the buffer its
\* tasks say, as long as all AIs of a round reported for it.
THEOREM AreaInvariant == Spec => []AreaInv
<1>1. Init => AreaInv
  BY AreaInit
<1>2. AreaInv /\ [Next]_vars => AreaInv'
  BY AreaAIs, AreaFrame, AreaJobs, AreaStutter DEF Next
<1> QED
  BY <1>1, <1>2, PTL DEF Spec

\* The worker in CTerrainData::UpdateAreas writes a buffer that no
\* CTerrainManager and no CPathFinder reads, for any number of AIs and teams.
THEOREM WriterIsAloneAlways == Spec => []WriterIsAlone
<1>1. AreaInv => WriterIsAlone
  <2> SUFFICES ASSUME AreaInv, job = "running", ~upset, NEW a \in live
               PROVE  areaData[a] # into /\ pathData[Team[a]] # into
    BY DEF WriterIsAlone, Reads
  <2>1. Reports /\ Buffers(a) /\ pAreaData \in {0, 1}
    BY DEF AreaInv, AreaTypes
  <2>2. ~Round /\ into = GetNextAreaData
    BY <2>1 DEF Round, Moving, Reports
  <2> QED
    BY <2>1, <2>2, BufferType DEF Buffers
<1> QED
  BY <1>1, AreaInvariant, PTL

\* isUpdating keeps CTerrainData::EnqueueUpdate from a new update until the last
\* task of ScheduleUsersUpdate's has run, for any number of AIs and teams.
THEOREM RoundsDoNotOverlapAlways == Spec => []RoundsDoNotOverlap
<1>1. AreaInv => RoundsDoNotOverlap
  <2> SUFFICES ASSUME AreaInv, job # "none", ~upset, NEW a \in AIs
               PROVE  onceTasks[a] = <<>>
    BY DEF RoundsDoNotOverlap, Owes
  <2>1. Owing = {} /\ AreaTypes
    BY DEF AreaInv, Reports, Round, Moving
  <2>2. CASE a \in live
    BY <2>1, <2>2, DebtFacts DEF Owing
  <2>3. CASE a \notin live
    BY <2>3 DEF AreaInv, AreaBasics
  <2> QED
    BY <2>2, <2>3
<1> QED
  BY <1>1, AreaInvariant, PTL

================================================================================
