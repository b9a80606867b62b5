--------------------------- MODULE CoordinatorProofs ---------------------------
(***************************************************************************)
(* Proofs about what the AI and a coordinator exchange.                    *)
(*                                                                         *)
(* CommandContent, for any units, batches, validation settings and unit    *)
(* definitions: what comes in, over the coordinator's channel or from a    *)
(* client of the service.                                                  *)
(*                                                                         *)
(* CoordinatorLink, for every queue size and number of updates: what goes  *)
(* out.  What was received precedes what is in hand, which precedes the    *)
(* queue (OrderInv); GapsAreCounted also needs the updates that may yet    *)
(* turn out missing from the stream that is open (GapInv).                 *)
(***************************************************************************)
EXTENDS CommandContent, CoordinatorLink, FiniteSetTheorems, TLAPS

(***************************************************************************)
(* The lists of arms agree                                                 *)
(***************************************************************************)

\* No arm that is about a unit is game-wide or for another engine object.
LEMMA UnitBoundIsNotGameWide ==
  ASSUME NEW a \in UnitBound PROVE a \notin GameWide /\ a \notin GameArms
BY DEF UnitBound, GameWide, GameArms

\* Every arm is about a unit or game-wide.
LEMMA EveryArmHasTarget ==
  ASSUME NEW a \in Arms PROVE a \in UnitBound \/ a \in GameWide
BY DEF Arms, UnitBound, GameWide

\* What is announced is named, takes options, has a case in DispatchCommand
\* that makes a call on a unit, and OptionsOf reads its options.
LEMMA AnnouncedArms ==
  ASSUME NEW a \in SupportedUnitArms
  PROVE  /\ a \in NamedArms /\ a \in OptionArms /\ a \in UnitBound
         /\ a \in OrderArms \cup ValueArms \cup ExecuteArms
         /\ a \in CarriedOptions
         /\ a \notin {"draw_unit", "give_me_new_unit", "give_me", "custom"}
BY DEF SupportedUnitArms, NamedArms, OptionArms, UnitBound, OrderArms,
       ValueArms, ExecuteArms, RawArms, CarriedOptions

(***************************************************************************)
(* Casts                                                                   *)
(***************************************************************************)

\* An id that is positive as an int32 is the id on the wire.
LEMMA ToInt32Facts ==
  ASSUME NEW id \in 0..(2 * HalfRange - 1)
  PROVE  /\ ToInt32(id) \in Int
         /\ ToInt32(id) > 0 => ToInt32(id) = id
         /\ id < HalfRange => ToInt32(id) >= 0
BY ContentAssumption DEF ToInt32

\* Options within the mask survive the cast to short.
LEMMA MaskFitsShort ==
  ASSUME NEW o \in 0..7 PROVE ToShort(o) = o
BY DEF ToShort

(***************************************************************************)
(* The inductive invariant                                                 *)
(***************************************************************************)

Entry == [command : Commands, target : Int, wire : 0..(2 * HalfRange - 1),
          via : {"stream", "coordinator"}]

\* What both ways in guarantee of a queued command.
Sound(e) ==
  /\ e.target = ToInt32(e.wire)
  /\ e.command.arm \in UnitBound => e.target >= 0

\* What the validator adds.
Checked(e) ==
  /\ e.command.arm \in Arms
  /\ e.command.arm \in UnitBound => e.target > 0 /\ e.command.unit = e.target
  /\ Strict \/ e.command.arm \in SupportedUnitArms
       => /\ e.command.arm \in SupportedUnitArms
          /\ e.command.options \in 0..7
          /\ e.command.arm = "build_unit" => e.command.val \in KnownDefs

Good == {e \in Entry : Sound(e) /\ (e.via = "stream" => Checked(e))}

IInv ==
  /\ queue \in Seq(Good) /\ pending \in Seq(Good)
  /\ teamUnits \subseteq Units
  /\ ActsOnItsTarget /\ AcceptedHasTarget /\ AnnouncedArrives

(***************************************************************************)
(* Both ways in queue good commands                                        *)
(***************************************************************************)

\* The validator is never told other settings.
LEMMA GoodFrame ==
  ASSUME settings' = settings PROVE Good' = Good
BY DEF Good, Sound, Checked, Strict

\* The entries of a batch, as they are made.
LEMMA QueuedEntries ==
  ASSUME NEW b \in Batches, NEW via \in {"stream", "coordinator"},
         NEW i \in 1..Len(b.commands)
  PROVE  /\ Queued(b, via)[i] \in Entry
         /\ Queued(b, via)[i].command = b.commands[i]
         /\ Queued(b, via)[i].target = ToInt32(b.target)
         /\ Queued(b, via)[i].wire = b.target
         /\ Queued(b, via)[i].via = via
<1>1. /\ b.target \in 0..(2 * HalfRange - 1) /\ b.commands \in Seq(Commands)
  BY ContentAssumption
<1>2. b.commands[i] \in Commands
  BY <1>1
<1>3. ToInt32(b.target) \in Int
  BY <1>1, ToInt32Facts
<1> QED
  BY <1>1, <1>2, <1>3 DEF Queued, Entry

\* Entries that are all good make a good queue.
LEMMA QueuedGood ==
  ASSUME NEW b \in Batches, NEW via \in {"stream", "coordinator"},
         \A i \in 1..Len(b.commands) : Queued(b, via)[i] \in Good
  PROVE  Queued(b, via) \in Seq(Good)
<1> DEFINE n == Len(b.commands)
           q == Queued(b, via)
<1>1. n \in Nat
  BY ContentAssumption
<1>2. q = [i \in 1..n |-> q[i]]
  BY DEF Queued
<1> HIDE DEF n, q
<1>3. q \in [1..n -> Good]
  BY <1>2 DEF n, q
<1>4. q \in Seq(Good)
  BY <1>1, <1>3
<1> QED
  BY <1>4 DEF q

\* A batch the validator passes is queued as good commands.
LEMMA SubmitGood ==
  ASSUME NEW b \in Batches, ValidateBatch(b)
  PROVE  Queued(b, "stream") \in Seq(Good)
<1>1. SUFFICES ASSUME NEW i \in 1..Len(b.commands)
               PROVE  Queued(b, "stream")[i] \in Good
  BY QueuedGood
<1> DEFINE e == Queued(b, "stream")[i]
           cmd == b.commands[i]
<1>2. /\ e \in Entry /\ e.command = cmd /\ e.target = ToInt32(b.target)
      /\ e.wire = b.target /\ e.via = "stream"
  BY QueuedEntries
<1> HIDE DEF e
<1>3. ValidateCommandTarget(cmd, ToInt32(b.target)) /\ ValidateCommand(cmd)
  BY DEF ValidateBatch
<1> HIDE DEF cmd
<1>4. cmd.arm \in UnitBound => e.target > 0 /\ cmd.unit = e.target
  BY <1>2, <1>3 DEF ValidateCommandTarget
<1>5. e.target \in Int
  BY <1>2 DEF Entry
<1>6. Sound(e)
  BY <1>2, <1>4, <1>5 DEF Sound
<1>7. ASSUME Strict \/ cmd.arm \in SupportedUnitArms
      PROVE  /\ cmd.arm \in SupportedUnitArms /\ cmd.options \in 0..7
             /\ cmd.arm = "build_unit" => cmd.val \in KnownDefs
  <2>1. cmd.arm \in SupportedUnitArms
    BY <1>3, <1>7 DEF ValidateCommand, IsSupported
  <2>2. IsSupported(cmd.arm) /\ cmd.arm \in OptionArms
    BY <2>1, AnnouncedArms DEF IsSupported
  <2> QED
    BY <1>3, <2>1, <2>2 DEF ValidateCommand
<1>8. Checked(e)
  BY <1>2, <1>3, <1>4, <1>7 DEF Checked, ValidateCommand
<1> QED
  BY <1>2, <1>6, <1>8 DEF Good, e

\* A batch the coordinator's reader admits is queued as good commands.
LEMMA AdmitGood ==
  ASSUME NEW b \in Batches, b.target < HalfRange
  PROVE  Queued(b, "coordinator") \in Seq(Good)
<1>1. SUFFICES ASSUME NEW i \in 1..Len(b.commands)
               PROVE  Queued(b, "coordinator")[i] \in Good
  BY QueuedGood
<1>2. b.target \in 0..(2 * HalfRange - 1)
  BY ContentAssumption
<1>3. ToInt32(b.target) >= 0
  BY <1>2, ToInt32Facts
<1> QED
  BY <1>3, QueuedEntries DEF Good, Sound

(***************************************************************************)
(* One event                                                               *)
(***************************************************************************)

\* The head of a vector of good commands, and the rest.
LEMMA HeadTail ==
  ASSUME NEW S, NEW q \in Seq(S), q # <<>>
  PROVE  Head(q) \in S /\ Tail(q) \in Seq(S)
OBVIOUS

\* A call that concerns a unit is made on the unit the wire named.
LEMMA ContextIsTarget ==
  ASSUME NEW e \in Good, e.command.arm \in UnitBound,
         NEW u \in Units, IsContext(u, EffectiveTarget(e))
  PROVE  /\ u = e.wire /\ OwnsLiveUnit(u)
         /\ e.via = "stream" => e.command.unit = u
<1>1. EffectiveTarget(e) = e.target
  BY UnitBoundIsNotGameWide DEF EffectiveTarget
<1>2. /\ e.target \in Int /\ e.wire \in 0..(2 * HalfRange - 1)
      /\ e.target = ToInt32(e.wire) /\ e.target >= 0
  BY DEF Good, Sound, Entry
<1>3. e.target > 0 /\ u = e.target /\ u \in teamUnits
  BY <1>1, <1>2 DEF IsContext
<1>4. e.target = e.wire
  BY <1>2, <1>3, ToInt32Facts
<1>5. e.via = "stream" => e.command.unit = e.target
  BY Zenon DEF Good, Checked
<1> QED
  BY <1>3, <1>4, <1>5 DEF OwnsLiveUnit

\* A validated command always has a target to look for.
LEMMA StreamHasTarget ==
  ASSUME NEW e \in Good, e.via = "stream"
  PROVE  EffectiveTarget(e) # 0
<1>1. Checked(e) /\ e.target \in Int
  BY DEF Good, Entry
<1>2. CASE e.command.arm \in GameWide
  BY <1>2 DEF EffectiveTarget
<1>3. CASE e.command.arm \in UnitBound
  BY <1>1, <1>3, UnitBoundIsNotGameWide DEF EffectiveTarget, Checked
<1> QED
  BY <1>1, <1>2, <1>3, EveryArmHasTarget DEF Checked

\* DispatchCommand refuses no announced command for its arm or its def, and
\* hands its options on.
LEMMA AnnouncedIsDispatched ==
  ASSUME NEW e \in Good, e.via = "stream",
         Strict \/ e.command.arm \in SupportedUnitArms
  PROVE  /\ ~Refused(e.command)
         /\ e.command.arm \notin ValueArms
              => CallOptions(e.command) = e.command.options
<1> DEFINE cmd == e.command
<1>1. /\ cmd.arm \in SupportedUnitArms /\ cmd.options \in 0..7
      /\ cmd.arm = "build_unit" => cmd.val \in KnownDefs
  BY DEF Good, Checked
<1> HIDE DEF cmd
<1>2. ~Refused(cmd)
  BY <1>1, AnnouncedArms DEF Refused
<1>3. cmd.arm \notin ValueArms => CallOptions(cmd) = cmd.options
  <2> SUFFICES ASSUME cmd.arm \notin ValueArms PROVE CallOptions(cmd) = cmd.options
    OBVIOUS
  <2>1. cmd.arm \in CarriedOptions /\ cmd.arm \in OrderArms \cup ExecuteArms
    BY <1>1, AnnouncedArms
  <2>2. ToShort(cmd.options) = cmd.options
    BY <1>1, MaskFitsShort
  <2> QED
    BY <2>1, <2>2 DEF CallOptions, OptionsOf
<1> QED
  BY <1>2, <1>3 DEF cmd

(***************************************************************************)
(* Every step                                                              *)
(***************************************************************************)

Promises == ActsOnItsTarget /\ AcceptedHasTarget /\ AnnouncedArrives

\* Nothing is said of a state without an event.
LEMMA NoEvent ==
  ASSUME event' = None PROVE Promises'
BY DEF Promises, ActsOnItsTarget, AcceptedHasTarget, AnnouncedArrives

\* A step that keeps the event and what it is judged by keeps the promises.
LEMMA EventFrame ==
  ASSUME Promises, UNCHANGED <<event, teamUnits, settings>> PROVE Promises'
BY DEF Promises, ActsOnItsTarget, AcceptedHasTarget, AnnouncedArrives,
       OwnsLiveUnit, Strict

\* An event about a good command that says what DispatchCommand did.
LEMMA EventStep ==
  ASSUME IInv, pending # <<>>, NEW status, NEW on, NEW options,
         Report(status, on, options),
         LET e == Head(pending) IN
         /\ status = "applied" /\ e.command.arm \in UnitBound
              => /\ on = e.wire /\ OwnsLiveUnit(on)
                 /\ e.via = "stream" => e.command.unit = on
         /\ e.via = "stream" => status # "no_target"
         /\ e.via = "stream" /\ (Strict \/ e.command.arm \in SupportedUnitArms)
              => /\ status # "refused"
                 /\ status = "applied" /\ e.command.arm \notin ValueArms
                      => options = e.command.options
  PROVE  IInv'
<1> DEFINE e == Head(pending)
<1>1. /\ event'.entry = e /\ event'.status = status /\ event'.on = on
      /\ event'.options = options
      /\ pending' = Tail(pending)
      /\ UNCHANGED <<settings, teamUnits, queue, healthy>>
  BY DEF Report
<1>2. e \in Good /\ pending' \in Seq(Good)
  BY <1>1, HeadTail DEF IInv
<1> HIDE DEF e
<1>3. OwnsLiveUnit(on)' <=> OwnsLiveUnit(on)
  BY <1>1 DEF OwnsLiveUnit
<1>4. Strict' <=> Strict
  BY <1>1 DEF Strict
<1>5. ActsOnItsTarget'
  BY <1>1 DEF ActsOnItsTarget, OwnsLiveUnit, e
<1>6. AcceptedHasTarget'
  BY <1>1 DEF AcceptedHasTarget, e
<1>7. AnnouncedArrives'
  BY <1>1, <1>4 DEF AnnouncedArrives, e
<1> QED
  BY <1>1, <1>2, <1>5, <1>6, <1>7, GoodFrame DEF IInv

\* A step that leaves the event out: the vectors and the units stay in type.
LEMMA QuietStep ==
  ASSUME IInv, Promises', settings' = settings,
         queue' \in Seq(Good), pending' \in Seq(Good),
         teamUnits' \subseteq Units
  PROVE  IInv'
BY GoodFrame DEF IInv, Promises

\* What was queued from a validated or admitted batch is good, and stays so
\* until its event.
THEOREM ContentStep == IInv /\ [Next]_vars => IInv'
<1> SUFFICES ASSUME IInv, [Next]_vars PROVE IInv'
  OBVIOUS
<1>1. Promises
  BY DEF IInv, Promises
<1> DEFINE e == Head(pending)
<1>2. ASSUME pending # <<>> PROVE e \in Good
  BY <1>2, HeadTail DEF IInv
<1>3. ASSUME NEW b \in Batches, Submit(b) PROVE IInv'
  <2>1. Queued(b, "stream") \in Seq(Good)
    BY <1>3, SubmitGood DEF Submit
  <2> QED
    BY <1>1, <1>3, <2>1, EventFrame, QuietStep DEF Submit, Enqueue, IInv
<1>4. ASSUME NEW b \in Batches, Admit(b) PROVE IInv'
  <2>1. Queued(b, "coordinator") \in Seq(Good)
    BY <1>4, AdmitGood DEF Admit
  <2> QED
    BY <1>1, <1>4, <2>1, EventFrame, QuietStep DEF Admit, Enqueue, IInv
<1>5. CASE Drain
  <2>1. <<>> \in Seq(Good)
    OBVIOUS
  <2> QED
    BY <1>1, <1>5, <2>1, EventFrame, QuietStep DEF Drain, IInv
<1>6. CASE Skip
  <2> DEFINE t == EffectiveTarget(e)
  <2>1. e \in Good
    BY <1>2, <1>6 DEF Skip
  <2>2. CASE t = 0 /\ Report("no_target", None, None)
    <3>1. e.via # "stream"
      BY <2>1, <2>2, StreamHasTarget
    <3> QED
      BY <1>6, <2>2, <3>1, EventStep DEF Skip
  <2>3. CASE Report("target_missing", None, None)
    BY <1>6, <2>3, EventStep DEF Skip
  <2>4. CASE Report("not_ready", None, None)
    BY <1>6, <2>4, EventStep DEF Skip
  <2> QED
    BY <1>6, <2>2, <2>3, <2>4 DEF Skip
<1>7. CASE Apply
  <2> DEFINE cmd == e.command
  <2>1. e \in Good
    BY <1>2, <1>7 DEF Apply
  <2>2. PICK u \in Units :
          /\ IsContext(u, EffectiveTarget(e))
          /\ Report("applied", IF cmd.arm \in GameArms THEN None ELSE u,
                    CallOptions(cmd))
    BY <1>7 DEF Apply
  <2> DEFINE on == IF cmd.arm \in GameArms THEN None ELSE u
  <2>3. ASSUME cmd.arm \in UnitBound
        PROVE  /\ on = e.wire /\ OwnsLiveUnit(on)
               /\ e.via = "stream" => cmd.unit = on
    BY <2>1, <2>2, <2>3, ContextIsTarget, UnitBoundIsNotGameWide
  <2>4. ASSUME e.via = "stream", Strict \/ cmd.arm \in SupportedUnitArms
        PROVE  cmd.arm \notin ValueArms => CallOptions(cmd) = cmd.options
    BY <2>1, <2>4, AnnouncedIsDispatched
  <2>5. pending # <<>> /\ Report("applied", on, CallOptions(cmd))
    BY <1>7, <2>2 DEF Apply
  <2> HIDE DEF on
  <2> QED
    BY <2>3, <2>4, <2>5, EventStep
<1>8. CASE Refuse
  <2> DEFINE cmd == e.command
  <2>1. pending # <<>> /\ e \in Good
    BY <1>2, <1>8 DEF Refuse
  <2>2. CASE Refused(cmd) /\ Report("refused", None, None)
    <3>1. ~(e.via = "stream" /\ (Strict \/ cmd.arm \in SupportedUnitArms))
      BY <2>1, <2>2, AnnouncedIsDispatched
    <3> QED
      BY <2>1, <2>2, <3>1, EventStep
  <2>3. CASE Report("failed", None, None)
    BY <2>1, <2>3, EventStep
  <2> QED
    BY <1>8, <2>2, <2>3 DEF Refuse
<1>9. CASE Throw
  <2>1. <<>> \in Seq(Good)
    OBVIOUS
  <2> QED
    BY <1>9, <2>1, NoEvent, QuietStep DEF Throw, IInv
<1>10. ASSUME NEW u \in Units, UnitEvent(u) PROVE IInv'
  <2>1. event' = None
    BY <1>10 DEF UnitEvent
  <2>2. teamUnits' \subseteq Units
    BY <1>10 DEF UnitEvent, IInv
  <2> QED
    BY <1>10, <2>1, <2>2, NoEvent, QuietStep DEF UnitEvent, IInv
<1>11. CASE UNCHANGED vars
  BY <1>1, <1>11, EventFrame, QuietStep DEF vars, IInv
<1> QED
  BY <1>3, <1>4, <1>5, <1>6, <1>7, <1>8, <1>9, <1>10, <1>11 DEF Next

\* The start: nothing queued, no event.
LEMMA ContentInit == Init => IInv
<1> SUFFICES ASSUME Init PROVE IInv
  OBVIOUS
<1>1. queue \in Seq(Good) /\ pending \in Seq(Good)
  BY DEF Init
<1>2. ActsOnItsTarget /\ AcceptedHasTarget /\ AnnouncedArrives
  BY DEF Init, ActsOnItsTarget, AcceptedHasTarget, AnnouncedArrives
<1> QED
  BY <1>1, <1>2 DEF Init, IInv

\* Whatever batches clients send, by either way in and under any settings, a
\* command about a unit acts on the unit the wire named while it is ours and
\* alive (DrainCommandQueue, DispatchCommand).
THEOREM ActsOnItsTargetAlways == Spec => []ActsOnItsTarget
<1>1. IInv => ActsOnItsTarget
  BY DEF IInv
<1> QED
  BY <1>1, ContentInit, ContentStep, PTL DEF Spec

\* No command ValidateBatch passes is dropped for want of a target.
THEOREM AcceptedHasTargetAlways == Spec => []AcceptedHasTarget
<1>1. IInv => AcceptedHasTarget
  BY DEF IInv
<1> QED
  BY <1>1, ContentInit, ContentStep, PTL DEF Spec

\* An announced command, and any command under a strict service, is refused
\* only for what the engine lacks, and its call carries the client's options,
\* unless the arm is one of the five whose method takes none.
THEOREM AnnouncedArrivesAlways == Spec => []AnnouncedArrives
<1>1. IInv => AnnouncedArrives
  BY DEF IInv
<1> QED
  BY <1>1, ContentInit, ContentStep, PTL DEF Spec

(***************************************************************************)
(* CoordinatorLink: the inductive invariant                                *)
(***************************************************************************)
USE Zenon

InHand == {"popped", "opening", "registered", "opened", "write"}

\* The push thread has an update in hand exactly between its pop and its write.
HandInv == ppc \in InHand <=> hand # 0

\* What was received precedes what is in hand, which precedes the queue.
OrderInv ==
  /\ \A i, j \in 1..Len(received) : i < j => received[i].seq < received[j].seq
  /\ \A i, j \in 1..Len(pushQueue) : i < j => pushQueue[i] < pushQueue[j]
  /\ \A i \in 1..Len(received) : /\ received[i].seq <= seq
                                 /\ hand # 0 => received[i].seq < hand
  /\ \A i \in 1..Len(pushQueue) : /\ pushQueue[i] <= seq /\ hand < pushQueue[i]
                              /\ \A j \in 1..Len(received) : received[j].seq < pushQueue[i]
  /\ hand <= seq

\* An open stream has a context, which the destructor's TryCancel or the opening
\* thread itself cancels.
CancelInv ==
  /\ streamOpen \/ ppc = "registered" => pushCtx # "none"
  /\ ppc \in {"opening", "registered"} => ~streamOpen
  /\ epc \notin {"run", "pushed"} => pushStopping
  /\ epc \notin {"run", "pushed", "notify", "cancelPush"} /\ streamOpen => pushCtx = "cancelled"

LinkInv == LinkTypeOK /\ HandInv /\ OrderInv /\ CancelInv /\ UpdatesAccounted

Update == [stream : Nat, seq : 1..MaxSeq]
numbers == <<numberVars, pushQueue, dropped, hand, received, lost>>

(***************************************************************************)
(* Steps that touch no number                                              *)
(***************************************************************************)

\* They keep the order and the account.
LEMMA NumbersFrame ==
  ASSUME OrderInv, UpdatesAccounted, UNCHANGED numbers
  PROVE  OrderInv' /\ UpdatesAccounted'
BY DEF OrderInv, UpdatesAccounted, numbers, numberVars

\* The destructor and the start of the command channel.
LEMMA EngineSteps ==
  ASSUME LinkInv, PushNotifies \/ StartCommandChannel \/ DtorStop \/ Dtor
  PROVE  LinkInv'
<1> USE DEF LinkInv
<1>1. UNCHANGED numbers
  BY DEF PushNotifies, StartCommandChannel, DtorStop, Dtor, DtorNotify, DtorCancelPush,
         DtorJoinPush, DtorStopReader, DtorCancelReader, DtorJoinReader, engineVars,
         numberVars, queueVars, pushVars, numbers
<1>2. OrderInv' /\ UpdatesAccounted'
  BY <1>1, NumbersFrame
<1>3. /\ ppc' = ppc \/ (ppc = "asleep" /\ ppc' = "locked")
      /\ UNCHANGED <<hand, streamOpen, streams, received>>
  BY DEF PushNotifies, StartCommandChannel, DtorStop, Dtor, DtorNotify, DtorCancelPush,
         DtorJoinPush, DtorStopReader, DtorCancelReader, DtorJoinReader, pushVars, Notified
<1>4. HandInv'
  BY <1>3 DEF HandInv, InHand
<1>5. CASE StartCommandChannel
  <2>1. UNCHANGED <<epc, numberVars, pushQueue, dropped, lost, cmdStopping, pushStopping,
                    pushCtx, cmdCtx, ended, ppc>> /\ rpc' = "loop"
    BY <1>5 DEF StartCommandChannel, numberVars, engineVars, queueVars, pushVars
  <2>2. CancelInv'
    BY <1>3, <2>1, SMT DEF CancelInv
  <2>3. LinkTypeOK'
    BY <1>3, <2>1, SMT DEF LinkTypeOK, numberVars
  <2> QED
    BY <1>2, <1>4, <2>2, <2>3
<1>6. CASE DtorStop
  <2>1. /\ UNCHANGED <<numberVars, pushQueue, dropped, lost, cmdStopping, pushCtx, cmdCtx,
                       ended, ppc, rpc>>
        /\ epc' = "notify" /\ pushStopping' = TRUE
    BY <1>6 DEF DtorStop, queueVars, readerVars
  <2>2. CancelInv'
    BY <1>3, <2>1 DEF CancelInv
  <2>3. epc' \in EnginePlaces
    BY <2>1 DEF EnginePlaces
  <2>4. LinkTypeOK'
    BY <1>3, <2>1, <2>3 DEF LinkTypeOK, numberVars
  <2> QED
    BY <1>2, <1>4, <2>2, <2>4
<1>7. CASE DtorNotify
  <2>1. /\ UNCHANGED <<numberVars, pushQueue, dropped, lost, pushStopping, cmdStopping, pushCtx,
                       cmdCtx, ended, rpc>>
        /\ epc = "notify" /\ epc' = "cancelPush"
    BY <1>7 DEF DtorNotify, queueVars, readerVars
  <2>2. CancelInv'
    BY <1>3, <2>1 DEF CancelInv
  <2>3. epc' \in EnginePlaces
    BY <2>1 DEF EnginePlaces
  <2>4. LinkTypeOK'
    BY <1>3, <2>1, <2>3 DEF LinkTypeOK, numberVars
  <2> QED
    BY <1>2, <1>4, <2>2, <2>4
<1>8. CASE DtorCancelPush
  <2>1. /\ UNCHANGED <<numberVars, pushQueue, dropped, lost, pushStopping, cmdStopping, cmdCtx,
                       ended, ppc, rpc>>
        /\ epc = "cancelPush" /\ epc' = "joinPush"
        /\ pushCtx' = IF pushCtx = "live" THEN "cancelled" ELSE pushCtx
    BY <1>8 DEF DtorCancelPush, queueVars, readerVars
  <2>2. CancelInv'
    <3>1. pushCtx \in {"none", "live", "cancelled"}
      BY DEF LinkTypeOK, Ctx
    <3>2. /\ pushCtx # "none" => pushCtx' = "cancelled"
          /\ ppc' = ppc /\ streamOpen' = streamOpen /\ pushStopping' = pushStopping
      BY <1>3, <2>1, <3>1
    <3>3. /\ streamOpen \/ ppc = "registered" => pushCtx # "none"
          /\ ppc \in {"opening", "registered"} => ~streamOpen
          /\ pushStopping
      BY <2>1 DEF CancelInv
    <3> QED
      BY <3>2, <3>3 DEF CancelInv
  <2>3. pushCtx' \in Ctx /\ epc' \in EnginePlaces
    BY <2>1 DEF LinkTypeOK, EnginePlaces, Ctx
  <2>4. LinkTypeOK'
    BY <1>3, <2>1, <2>3 DEF LinkTypeOK, numberVars
  <2> QED
    BY <1>2, <1>4, <2>2, <2>4
<1>9. CASE DtorJoinPush \/ DtorStopReader \/ DtorCancelReader \/ DtorJoinReader
  <2>1. /\ UNCHANGED <<numberVars, pushQueue, dropped, lost, pushStopping, ended, ppc, rpc,
                       pushCtx>>
        /\ cmdStopping' \in BOOLEAN /\ cmdCtx' \in Ctx
        /\ epc \in {"joinPush", "stopReader", "cancelReader", "joinReader"}
        /\ epc' \in {"stopReader", "cancelReader", "joinReader", "gone"}
    BY <1>9 DEF DtorJoinPush, DtorStopReader, DtorCancelReader, DtorJoinReader, queueVars,
                readerVars, pushVars, LinkTypeOK, Ctx
  <2>2. CancelInv'
    BY <1>3, <2>1 DEF CancelInv
  <2>3. epc' \in EnginePlaces
    BY <2>1 DEF EnginePlaces
  <2>4. LinkTypeOK'
    BY <1>3, <2>1, <2>3 DEF LinkTypeOK, numberVars
  <2> QED
    BY <1>2, <1>4, <2>2, <2>4
<1>10. CASE PushNotifies
  <2>1. /\ UNCHANGED <<numberVars, pushQueue, dropped, lost, pushStopping, cmdStopping, pushCtx,
                       cmdCtx, ended, rpc>>
        /\ epc = "pushed" /\ epc' = "run"
    BY <1>10 DEF PushNotifies, queueVars, readerVars
  <2>2. CancelInv'
    BY <1>3, <2>1, SMT DEF CancelInv
  <2>3. LinkTypeOK'
    BY <1>3, <2>1, SMT DEF LinkTypeOK, EnginePlaces, numberVars
  <2> QED
    BY <1>2, <1>4, <2>2, <2>3
<1> QED
  BY <1>5, <1>6, <1>7, <1>8, <1>9, <1>10 DEF Dtor

\* The reader thread.
LEMMA ReaderSteps ==
  ASSUME LinkInv, ReaderThread \/ ReadEnds
  PROVE  LinkInv'
<1> USE DEF LinkInv
<1>1. /\ UNCHANGED <<engineVars, queueVars, pushVars, cmdStopping>>
      /\ rpc' \in {"loop", "connect", "reading", "closed", "backoff", "exit"}
      /\ cmdCtx' = cmdCtx \/ cmdCtx' = "live"
      /\ ended' \in {ended, "no", "ok", "error", "cancelled"}
  BY DEF ReaderThread, ReadEnds, ReadLoop, ReadOpens, ReadFinishes, ReadBackoff
<1>2. OrderInv' /\ UpdatesAccounted'
  BY <1>1, NumbersFrame DEF numbers, numberVars, engineVars, queueVars, pushVars
<1>3. HandInv' /\ CancelInv'
  BY <1>1 DEF HandInv, CancelInv, engineVars, pushVars
<1>4. LinkTypeOK'
  BY <1>1, SMT DEF LinkTypeOK, Ctx, engineVars, queueVars, pushVars
<1> QED
  BY <1>2, <1>3, <1>4

\* The push thread's steps that move no update.
LEMMA IdlePushSteps ==
  ASSUME LinkInv, PushLoop \/ PushFindsNothing \/ PushSleeps \/ PushWakesByItself
               \/ PushRegisters \/ PushCloses
  PROVE  LinkInv'
<1> USE DEF LinkInv
<1>1. UNCHANGED <<engineVars, queueVars, hand, pushStopping, streams, received, lost, readerVars>>
  BY DEF PushLoop, PushFindsNothing, PushSleeps, PushWakesByItself, PushRegisters, PushCloses
<1>2. OrderInv' /\ UpdatesAccounted'
  BY <1>1, NumbersFrame DEF numbers, numberVars, engineVars, queueVars
<1>3. CASE PushLoop \/ PushFindsNothing \/ PushSleeps \/ PushWakesByItself
  <2>1. /\ ppc \in {"loop", "locked", "falling", "asleep"} /\ UNCHANGED <<pushCtx, streamOpen>>
        /\ ppc' \in {"closing", "locked", "falling", "asleep"}
    BY <1>3 DEF PushLoop, PushFindsNothing, PushSleeps, PushWakesByItself
  <2>2. HandInv' /\ CancelInv'
    BY <1>1, <2>1 DEF HandInv, InHand, CancelInv, engineVars
  <2>3. LinkTypeOK'
    BY <1>1, <2>1 DEF LinkTypeOK, engineVars, queueVars, readerVars
  <2> QED
    BY <1>2, <2>2, <2>3
<1>4. CASE PushRegisters
  <2>1. ppc = "opening" /\ ppc' = "registered" /\ pushCtx' = "live" /\ UNCHANGED streamOpen
    BY <1>4 DEF PushRegisters
  <2>2. HandInv' /\ CancelInv'
    BY <1>1, <2>1 DEF HandInv, InHand, CancelInv, engineVars
  <2>3. LinkTypeOK'
    BY <1>1, <2>1 DEF LinkTypeOK, Ctx, engineVars, queueVars, readerVars
  <2> QED
    BY <1>2, <2>2, <2>3
<1>5. CASE PushCloses
  <2>1. /\ ppc = "closing" /\ ppc' = "done" /\ streamOpen' = FALSE
        /\ pushCtx' \in {"none", pushCtx}
    BY <1>5 DEF PushCloses
  <2>2. HandInv' /\ CancelInv'
    BY <1>1, <2>1 DEF HandInv, InHand, CancelInv, engineVars
  <2>3. LinkTypeOK'
    BY <1>1, <2>1 DEF LinkTypeOK, Ctx, engineVars, queueVars, readerVars
  <2> QED
    BY <1>2, <2>2, <2>3
<1> QED
  BY <1>3, <1>4, <1>5

\* What a step that moves an update needs of the types.
LEMMA NumberTypes ==
  ASSUME LinkTypeOK
  PROVE  /\ MaxSeq \in Nat /\ seq \in Nat /\ hand \in Nat /\ streams \in Nat
         /\ burnt \in Nat /\ dropped \in Nat /\ lost \in Nat
         /\ Len(pushQueue) \in Nat /\ Len(received) \in Nat
         /\ \A i \in 1..Len(pushQueue) : pushQueue[i] \in Nat
         /\ \A i \in 1..Len(received) : received[i].seq \in Nat
<1>1. pushQueue \in Seq(1..MaxSeq) /\ received \in Seq(Update)
  BY DEF LinkTypeOK, Update
<1>2. /\ Len(pushQueue) \in Nat /\ Len(received) \in Nat
      /\ \A i \in 1..Len(pushQueue) : pushQueue[i] \in 1..MaxSeq
      /\ \A i \in 1..Len(received) : received[i] \in Update
  BY <1>1, QueueAssumption, SMT
<1>3. \A i \in 1..Len(received) : received[i].seq \in 1..MaxSeq
  BY <1>2 DEF Update
<1>4. /\ seq \in 0..MaxSeq /\ hand \in 0..MaxSeq
      /\ burnt \in Nat /\ dropped \in Nat /\ lost \in Nat /\ streams \in Nat
  BY DEF LinkTypeOK
<1>5. MaxSeq \in Nat
  BY QueueAssumption
<1>6. \A n \in 0..MaxSeq : n \in Nat
  BY <1>5, SMT
<1>7. \A n \in 1..MaxSeq : n \in Nat
  BY <1>5, SMT
<1> QED
  BY <1>2, <1>3, <1>4, <1>5, <1>6, <1>7

(***************************************************************************)
(* Steps that move an update                                               *)
(***************************************************************************)

\* A new update, at the cost of the oldest one when the queue is full.
LEMMA UpdateStep ==
  ASSUME LinkInv, PushStateUpdate
  PROVE  LinkInv'
<1> USE DEF LinkInv
<1>1. /\ epc = "run" /\ epc' = "pushed" /\ seq < MaxSeq /\ seq' = seq + 1
      /\ UNCHANGED <<burnt, faultAt, ppc, hand, pushStopping, pushCtx, streamOpen, streams,
                     received, lost, readerVars>>
  BY DEF PushStateUpdate, TakesNumber
<1>2. /\ pushQueue \in Seq(1..MaxSeq) /\ Len(pushQueue) \in Nat /\ seq \in Nat /\ seq' \in 1..MaxSeq
      /\ Len(pushQueue) <= MaxQueued /\ dropped \in Nat
  BY <1>1, QueueAssumption, SMT DEF LinkTypeOK
<1>3. HandInv' /\ CancelInv'
  BY <1>1 DEF HandInv, InHand, CancelInv
<1>4. PICK k \in {0, 1} :
        /\ k <= Len(pushQueue) /\ dropped' = dropped + k
        /\ pushQueue' \in Seq(1..MaxSeq) /\ Len(pushQueue') = Len(pushQueue) + 1 - k
        /\ Len(pushQueue') <= MaxQueued
        /\ \A i \in 1..Len(pushQueue') :
             pushQueue'[i] = IF i = Len(pushQueue') THEN seq + 1 ELSE pushQueue[i + k]
  <2>1. CASE Len(pushQueue) >= MaxQueued
    <3>1. pushQueue' = Append(Tail(pushQueue), seq + 1) /\ dropped' = dropped + 1
      BY <2>1 DEF PushStateUpdate
    <3>2. pushQueue # <<>> /\ Len(pushQueue) > 0 /\ Len(pushQueue) = MaxQueued
      BY <1>2, <2>1, QueueAssumption, SMT
    <3>3. /\ Tail(pushQueue) \in Seq(1..MaxSeq) /\ Len(Tail(pushQueue)) = Len(pushQueue) - 1
          /\ \A i \in 1..(Len(pushQueue) - 1) : Tail(pushQueue)[i] = pushQueue[i + 1]
      BY <1>2, <3>2, SMT
    <3>4. /\ pushQueue' \in Seq(1..MaxSeq) /\ Len(pushQueue') = Len(pushQueue)
          /\ \A i \in 1..Len(pushQueue') :
               pushQueue'[i] = IF i = Len(pushQueue') THEN seq + 1 ELSE pushQueue[i + 1]
      BY <1>1, <1>2, <3>1, <3>2, <3>3, SMT
    <3> QED
      BY <1>2, <3>1, <3>2, <3>4, SMT
  <2>2. CASE ~(Len(pushQueue) >= MaxQueued)
    <3>1. pushQueue' = Append(pushQueue, seq + 1) /\ dropped' = dropped
      BY <2>2 DEF PushStateUpdate
    <3>2. /\ pushQueue' \in Seq(1..MaxSeq) /\ Len(pushQueue') = Len(pushQueue) + 1
          /\ \A i \in 1..Len(pushQueue') :
               pushQueue'[i] = IF i = Len(pushQueue') THEN seq + 1 ELSE pushQueue[i]
      BY <1>1, <1>2, <3>1, SMT
    <3> QED
      BY <1>2, <2>2, <3>1, <3>2, QueueAssumption, SMT
  <2> QED
    BY <2>1, <2>2
<1>5. LinkTypeOK'
  <2>1. seq' \in 0..MaxSeq
    BY <1>2, QueueAssumption, SMT
  <2>2. dropped' \in Nat
    BY <1>2, <1>4, SMT
  <2> QED
    BY <1>1, <1>4, <2>1, <2>2 DEF LinkTypeOK, EnginePlaces, readerVars
<1>6. UpdatesAccounted'
  <2>1. PICK h \in {0, 1} : h = IF hand = 0 THEN 0 ELSE 1
    OBVIOUS
  <2>2. seq = burnt + Len(received) + dropped + lost + Len(pushQueue) + h
    BY <2>1 DEF UpdatesAccounted
  <2>3. PICK b \in Nat, r \in Nat, d \in Nat, l \in Nat, q \in Nat :
          b = burnt /\ r = Len(received) /\ d = dropped /\ l = lost /\ q = Len(pushQueue)
    BY NumberTypes
  <2>4. seq + 1 = b + r + (d + k) + l + (q + 1 - k) + h
    BY <2>2, <2>3, SMT
  <2>5. /\ burnt' = b /\ Len(received') = r /\ dropped' = d + k /\ lost' = l
        /\ Len(pushQueue') = q + 1 - k /\ seq' = seq + 1 /\ hand' = hand
    BY <1>1, <1>4, <2>3
  <2>6. seq' = burnt' + Len(received') + dropped' + lost' + Len(pushQueue') + h
    BY <2>4, <2>5
  <2> QED
    BY <2>1, <2>5, <2>6 DEF UpdatesAccounted
<1>7. /\ hand \in Nat /\ \A i \in 1..Len(received) : received[i].seq \in Nat
      /\ \A i \in 1..Len(pushQueue) : pushQueue[i] \in Nat
  BY NumberTypes
<1>8. ASSUME NEW i \in 1..Len(pushQueue'), NEW j \in 1..Len(pushQueue'), i < j
      PROVE  pushQueue'[i] < pushQueue'[j]
  <2>1. /\ k \in Nat /\ i # Len(pushQueue') /\ i + k \in 1..Len(pushQueue)
        /\ pushQueue'[i] = pushQueue[i + k] /\ i + k < j + k
    BY <1>2, <1>4, <1>8, SMT
  <2>2. CASE j = Len(pushQueue')
    <3>1. pushQueue[i + k] <= seq /\ pushQueue'[j] = seq + 1
      BY <1>4, <2>1, <2>2 DEF OrderInv
    <3> QED
      BY <1>2, <1>7, <2>1, <3>1, SMT
  <2>3. CASE j # Len(pushQueue')
    <3>1. j + k \in 1..Len(pushQueue)
      BY <1>2, <1>4, <2>3, SMT
    <3>2. pushQueue'[j] = pushQueue[j + k]
      BY <1>4, <2>3
    <3> QED
      BY <2>1, <3>1, <3>2 DEF OrderInv
  <2> QED
    BY <2>2, <2>3
<1>9. ASSUME NEW i \in 1..Len(pushQueue')
      PROVE  /\ pushQueue'[i] <= seq' /\ hand' < pushQueue'[i]
             /\ \A j \in 1..Len(received) : received[j].seq < pushQueue'[i]
  <2>1. CASE i = Len(pushQueue')
    <3>1. pushQueue'[i] = seq + 1 /\ seq' = seq + 1 /\ hand' = hand /\ hand <= seq
      BY <1>1, <1>4, <2>1 DEF OrderInv
    <3>2. \A j \in 1..Len(received) : received[j].seq <= seq
      BY DEF OrderInv
    <3> QED
      BY <1>2, <1>7, <3>1, <3>2, SMT
  <2>2. CASE i # Len(pushQueue')
    <3>1. i + k \in 1..Len(pushQueue) /\ pushQueue'[i] = pushQueue[i + k]
      BY <1>2, <1>4, <2>2, SMT
    <3>2. /\ pushQueue[i + k] <= seq /\ hand < pushQueue[i + k] /\ seq' = seq + 1 /\ hand' = hand
          /\ \A j \in 1..Len(received) : received[j].seq < pushQueue[i + k]
      BY <1>1, <1>4, <3>1 DEF OrderInv
    <3>3. pushQueue[i + k] <= seq + 1
      BY <1>2, <1>7, <3>1, <3>2, SMT
    <3> QED
      BY <3>1, <3>2, <3>3
  <2> QED
    BY <2>1, <2>2
<1>10. /\ hand' <= seq'
       /\ \A i \in 1..Len(received) : received[i].seq <= seq'
  <2>1. hand <= seq /\ \A i \in 1..Len(received) : received[i].seq <= seq
    BY DEF OrderInv
  <2>2. hand' = hand /\ seq' = seq + 1 /\ seq \in Nat
    BY <1>1, <1>2
  <2> QED
    BY <1>7, <2>1, <2>2, SMT
<1>11. OrderInv'
  BY <1>1, <1>8, <1>9, <1>10 DEF OrderInv
<1> QED
  BY <1>3, <1>5, <1>6, <1>11

\* A number without an update.
LEMMA ThrowStep ==
  ASSUME LinkInv, UpdateThrows
  PROVE  LinkInv'
<1> USE DEF LinkInv
<1>1. /\ seq < MaxSeq /\ seq' = seq + 1 /\ burnt' = burnt + 1
      /\ faultAt' = IF faultAt = 0 THEN seq + 1 ELSE faultAt
      /\ UNCHANGED <<epc, pushQueue, dropped, pushVars, readerVars>>
  BY DEF UpdateThrows, TakesNumber, queueVars
<1>2. HandInv' /\ CancelInv'
  BY <1>1 DEF HandInv, InHand, CancelInv, pushVars
<1>3. LinkTypeOK'
  <2>1. seq' \in 0..MaxSeq /\ burnt' \in Nat /\ faultAt' \in 0..MaxSeq
    BY <1>1, QueueAssumption, SMT DEF LinkTypeOK
  <2> QED
    BY <1>1, <2>1 DEF LinkTypeOK, pushVars, readerVars
<1>4. UpdatesAccounted'
  <2>1. PICK b \in Nat, r \in Nat, d \in Nat, l \in Nat, q \in Nat, h \in {0, 1} :
          /\ b = burnt /\ r = Len(received) /\ d = dropped /\ l = lost /\ q = Len(pushQueue)
          /\ h = IF hand = 0 THEN 0 ELSE 1
    BY NumberTypes
  <2>2. seq = b + r + d + l + q + h
    BY <2>1 DEF UpdatesAccounted
  <2>3. seq + 1 = (b + 1) + r + d + l + q + h
    BY <2>1, <2>2, SMT
  <2> QED
    BY <1>1, <2>1, <2>3 DEF UpdatesAccounted, pushVars
<1>5. OrderInv'
  <2>1. /\ seq \in Nat /\ hand \in Nat
        /\ \A i \in 1..Len(pushQueue) : pushQueue[i] \in Nat
        /\ \A i \in 1..Len(received) : received[i].seq \in Nat
    BY NumberTypes
  <2>2. \A n \in Nat : n <= seq => n <= seq + 1
    BY <2>1, SMT
  <2>3. /\ hand <= seq + 1
        /\ \A i \in 1..Len(pushQueue) : pushQueue[i] <= seq + 1
        /\ \A i \in 1..Len(received) : received[i].seq <= seq + 1
    BY <2>1, <2>2 DEF OrderInv
  <2> QED
    BY <1>1, <2>3 DEF OrderInv, pushVars
<1> QED
  BY <1>2, <1>3, <1>4, <1>5

\* The push thread takes the front of the queue.
LEMMA TakeStep ==
  ASSUME LinkInv, PushTakes
  PROVE  LinkInv'
<1> USE DEF LinkInv
<1>1. /\ ppc = "locked" /\ hand = 0
      /\ UNCHANGED <<engineVars, dropped, pushStopping, pushCtx, streamOpen, streams, received,
                     lost, readerVars>>
  BY DEF PushTakes, HandInv, InHand
<1>2. CASE ppc' = "closing" /\ UNCHANGED <<pushQueue, hand>>
  <2>1. OrderInv' /\ UpdatesAccounted'
    BY <1>1, <1>2, NumbersFrame DEF numbers, numberVars, engineVars
  <2>2. HandInv' /\ CancelInv'
    BY <1>1, <1>2 DEF HandInv, InHand, CancelInv, engineVars
  <2>3. LinkTypeOK'
    BY <1>1, <1>2 DEF LinkTypeOK, engineVars, readerVars
  <2> QED
    BY <2>1, <2>2, <2>3
<1>3. CASE /\ pushQueue # <<>> /\ ppc' = "popped" /\ hand' = Head(pushQueue)
           /\ pushQueue' = Tail(pushQueue)
  <2>1. pushQueue \in Seq(1..MaxSeq) /\ Len(pushQueue) \in Nat \ {0} /\ seq \in Nat
        /\ MaxSeq \in Nat
    BY <1>3, QueueAssumption, SMT DEF LinkTypeOK
  <2>2. /\ pushQueue' \in Seq(1..MaxSeq) /\ Len(pushQueue') = Len(pushQueue) - 1
        /\ hand' = pushQueue[1] /\ hand' \in 1..MaxSeq
        /\ \A i \in 1..Len(pushQueue') : pushQueue'[i] = pushQueue[i + 1]
    BY <1>3, <2>1, SMT
  <2>3. HandInv' /\ CancelInv'
    BY <1>1, <1>3, <2>2, SMT DEF HandInv, InHand, CancelInv, engineVars
  <2>4. LinkTypeOK'
    <3>1. hand' \in 0..MaxSeq /\ Len(pushQueue') <= MaxQueued
      BY <2>1, <2>2, QueueAssumption, SMT DEF LinkTypeOK
    <3> QED
      BY <1>1, <1>3, <2>2, <3>1 DEF LinkTypeOK, engineVars, readerVars
  <2>5. UpdatesAccounted'
    <3>1. PICK b \in Nat, r \in Nat, d \in Nat, l \in Nat, q \in Nat :
            b = burnt /\ r = Len(received) /\ d = dropped /\ l = lost /\ q = Len(pushQueue)
      BY NumberTypes
    <3>2. seq = b + r + d + l + q + 0
      BY <1>1, <3>1 DEF UpdatesAccounted
    <3>3. seq = b + r + d + l + (q - 1) + 1
      BY <3>1, <3>2, SMT
    <3>4. hand' # 0 /\ UNCHANGED <<seq, burnt, received, dropped, lost>>
      BY <1>1, <2>2, SMT DEF engineVars
    <3>5. Len(pushQueue') = q - 1
      BY <2>2, <3>1
    <3> QED
      BY <3>1, <3>3, <3>4, <3>5 DEF UpdatesAccounted
  <2>6. /\ \A i \in 1..Len(received) : received[i].seq \in Nat
        /\ \A i \in 1..Len(pushQueue) : pushQueue[i] \in Nat
    BY NumberTypes
  <2>7. /\ \A i, j \in 1..Len(pushQueue') : i < j => pushQueue'[i] < pushQueue'[j]
        /\ \A i \in 1..Len(pushQueue') : /\ pushQueue'[i] <= seq /\ hand' < pushQueue'[i]
                                     /\ \A j \in 1..Len(received) : received[j].seq < pushQueue'[i]
    <3>1. \A i \in 1..Len(pushQueue') :
            i + 1 \in 1..Len(pushQueue) /\ 1 \in 1..Len(pushQueue) /\ 1 < i + 1
      BY <2>1, <2>2, SMT
    <3>2. \A i, j \in 1..Len(pushQueue') : i < j => i + 1 < j + 1
      BY <2>1, <2>2, SMT
    <3> QED
      BY <2>2, <3>1, <3>2 DEF OrderInv
  <2>8. hand' <= seq /\ \A i \in 1..Len(received) : received[i].seq < hand'
    <3>1. 1 \in 1..Len(pushQueue)
      BY <2>1, SMT
    <3> QED
      BY <2>2, <3>1 DEF OrderInv
  <2>9. OrderInv'
    BY <1>1, <2>7, <2>8 DEF OrderInv, engineVars
  <2> QED
    BY <2>3, <2>4, <2>5, <2>9
<1> QED
  BY <1>2, <1>3 DEF PushTakes

\* Going on with the update in hand, or losing it.
LEMMA HandSteps ==
  ASSUME LinkInv, PushReady \/ PushOpens \/ PushChecks \/ PushBreaks
  PROVE  LinkInv'
<1> USE DEF LinkInv
<1>1. /\ ppc \in {"popped", "registered", "opened", "write"} /\ hand # 0
      /\ UNCHANGED <<engineVars, queueVars, pushStopping, received, readerVars>>
  BY DEF PushReady, PushOpens, PushChecks, PushBreaks, HandInv, InHand
<1>2. \/ hand' = hand /\ lost' = lost /\ ppc' \in {"opened", "opening", "write"}
      \/ hand' = 0 /\ lost' = lost + 1 /\ ppc' \in {"closing", "loop"}
  BY DEF PushReady, PushOpens, PushChecks, PushBreaks
<1>3. HandInv'
  BY <1>1, <1>2 DEF HandInv, InHand
<1>4. OrderInv'
  <2>1. UNCHANGED <<seq, pushQueue, received>>
    BY <1>1 DEF engineVars, queueVars
  <2>2. \A i \in 1..Len(pushQueue) : 0 < pushQueue[i]
    <3>1. \A i \in 1..Len(pushQueue) : pushQueue[i] \in Nat /\ hand < pushQueue[i]
      BY NumberTypes DEF OrderInv
    <3>2. hand \in Nat
      BY NumberTypes
    <3> QED
      BY <3>1, <3>2, SMT
  <2>3. 0 <= seq
    <3>1. seq \in Nat
      BY NumberTypes
    <3> QED
      BY <3>1, SMT
  <2> QED
    BY <1>1, <1>2, <2>1, <2>2, <2>3 DEF OrderInv
<1>5. UpdatesAccounted'
  <2>1. PICK b \in Nat, r \in Nat, d \in Nat, l \in Nat, q \in Nat :
          b = burnt /\ r = Len(received) /\ d = dropped /\ l = lost /\ q = Len(pushQueue)
    BY NumberTypes
  <2>2. seq = b + r + d + l + q + 1
    BY <1>1, <2>1 DEF UpdatesAccounted
  <2>3. seq = b + r + d + (l + 1) + q + 0
    BY <2>1, <2>2, SMT
  <2>4. UNCHANGED <<seq, burnt, pushQueue, dropped, received>>
    BY <1>1 DEF engineVars, queueVars
  <2> QED
    BY <1>1, <1>2, <2>1, <2>2, <2>3, <2>4 DEF UpdatesAccounted
<1>6. /\ pushCtx' \in {pushCtx, "none", "cancelled"} /\ streams' \in {streams, streams + 1}
      /\ streamOpen' = streamOpen \/ streamOpen' = TRUE \/ streamOpen' = FALSE
  BY DEF PushReady, PushOpens, PushChecks, PushBreaks
<1>7. LinkTypeOK'
  <2>1. hand' \in 0..MaxSeq /\ lost' \in Nat /\ streams' \in Nat
    BY <1>2, <1>6, QueueAssumption, SMT DEF LinkTypeOK
  <2>2. pushCtx' \in Ctx /\ streamOpen' \in BOOLEAN
    BY <1>6 DEF LinkTypeOK, Ctx
  <2> QED
    BY <1>1, <1>2, <2>1, <2>2 DEF LinkTypeOK, engineVars, queueVars, readerVars
<1>8. CancelInv'
  <2>1. CASE PushReady \/ PushChecks
    <3>1. /\ UNCHANGED <<pushCtx, streamOpen>> /\ ppc' # "registered"
          /\ ppc' = "opening" => ~streamOpen
      BY <2>1 DEF PushReady, PushChecks
    <3> QED
      BY <1>1, <3>1 DEF CancelInv, engineVars
  <2>2. CASE PushOpens
    <3>1. /\ ppc = "registered" /\ ppc' \in {"opened", "loop"}
          /\ \/ streamOpen' = TRUE /\ pushCtx' = IF pushStopping THEN "cancelled" ELSE pushCtx
             \/ pushCtx' = "none" /\ streamOpen' = streamOpen
      BY <2>2 DEF PushOpens
    <3> QED
      BY <1>1, <3>1, SMT DEF CancelInv, engineVars
  <2>3. CASE PushBreaks
    <3>1. streamOpen' = FALSE /\ ppc' = "loop"
      BY <2>3 DEF PushBreaks
    <3> QED
      BY <1>1, <3>1 DEF CancelInv, engineVars
  <2> QED
    BY <2>1, <2>2, <2>3
<1> QED
  BY <1>3, <1>4, <1>5, <1>7, <1>8

\* The coordinator gets the update.
LEMMA WriteStep ==
  ASSUME LinkInv, PushWrites
  PROVE  LinkInv'
<1> USE DEF LinkInv
<1>1. /\ ppc = "write" /\ ppc' = "loop" /\ hand # 0 /\ hand' = 0
      /\ received' = Append(received, [stream |-> streams, seq |-> hand])
      /\ UNCHANGED <<engineVars, queueVars, pushStopping, pushCtx, streamOpen, streams, lost,
                     readerVars>>
  BY DEF PushWrites, HandInv, InHand
<1> DEFINE u == [stream |-> streams, seq |-> hand]
<1>2. u \in Update /\ u.seq = hand /\ received \in Seq(Update)
  BY <1>1, QueueAssumption, SMT DEF LinkTypeOK, Update
<1> HIDE DEF u
<1>3. /\ received' \in Seq(Update) /\ Len(received') = Len(received) + 1
      /\ \A i \in 1..Len(received') :
           received'[i].seq = IF i = Len(received') THEN hand ELSE received[i].seq
  <2>1. received' = Append(received, u)
    BY <1>1 DEF u
  <2>2. /\ received' \in Seq(Update) /\ Len(received') = Len(received) + 1
        /\ \A i \in 1..Len(received') :
             received'[i] = IF i = Len(received') THEN u ELSE received[i]
    BY <1>2, <2>1, SMT
  <2> QED
    BY <1>2, <2>2
<1>4. HandInv' /\ CancelInv'
  BY <1>1 DEF HandInv, InHand, CancelInv, engineVars
<1>5. LinkTypeOK'
  <2>1. 0 \in 0..MaxSeq
    BY QueueAssumption, SMT
  <2> QED
    BY <1>1, <1>3, <2>1 DEF LinkTypeOK, Update, engineVars, queueVars, readerVars
<1>6. UpdatesAccounted'
  <2>1. PICK b \in Nat, r \in Nat, d \in Nat, l \in Nat, q \in Nat :
          b = burnt /\ r = Len(received) /\ d = dropped /\ l = lost /\ q = Len(pushQueue)
    BY NumberTypes
  <2>2. seq = b + r + d + l + q + 1
    BY <1>1, <2>1 DEF UpdatesAccounted
  <2>3. seq = b + (r + 1) + d + l + q + 0
    BY <2>2, SMT
  <2>4. /\ burnt' = b /\ Len(received') = r + 1 /\ dropped' = d /\ lost' = l /\ Len(pushQueue') = q
        /\ hand' = 0 /\ seq' = seq
    BY <1>1, <1>3, <2>1 DEF engineVars, queueVars
  <2> QED
    BY <2>3, <2>4 DEF UpdatesAccounted
<1>7. ASSUME NEW i \in 1..Len(received'), NEW j \in 1..Len(received'), i < j
      PROVE  received'[i].seq < received'[j].seq
  <2>1. i \in 1..Len(received) /\ received'[i].seq = received[i].seq
    <3>1. Len(received) \in Nat /\ Len(received') = Len(received) + 1
      BY <1>3, NumberTypes
    <3>2. i \in 1..Len(received) /\ i # Len(received')
      BY <1>7, <3>1, SMT
    <3> QED
      BY <1>3, <3>2
  <2>2. CASE j = Len(received')
    BY <1>1, <1>3, <2>1, <2>2 DEF OrderInv
  <2>3. CASE j # Len(received')
    <3>1. Len(received) \in Nat /\ Len(received') = Len(received) + 1
      BY <1>3, NumberTypes
    <3>2. j \in 1..Len(received)
      BY <2>3, <3>1, SMT
    <3>3. received'[j].seq = received[j].seq
      BY <1>3, <2>3
    <3> QED
      BY <1>7, <2>1, <3>2, <3>3 DEF OrderInv
  <2> QED
    BY <2>2, <2>3
<1>8. /\ \A i \in 1..Len(received') : received'[i].seq <= seq
      /\ \A i \in 1..Len(pushQueue), j \in 1..Len(received') : received'[j].seq < pushQueue[i]
  <2>1. ASSUME NEW j \in 1..Len(received')
        PROVE  \/ received'[j].seq = hand
               \/ j \in 1..Len(received) /\ received'[j].seq = received[j].seq
    <3>1. Len(received) \in Nat /\ Len(received') = Len(received) + 1
      BY <1>3, NumberTypes
    <3>2. j \in 1..Len(received) \/ j = Len(received')
      BY <2>1, <3>1, SMT
    <3> QED
      BY <1>3, <2>1, <3>2
  <2> QED
    BY <2>1 DEF OrderInv
<1>9. /\ hand' = 0 /\ 0 <= seq /\ UNCHANGED <<seq, pushQueue>>
      /\ \A i \in 1..Len(pushQueue) : pushQueue[i] <= seq /\ 0 < pushQueue[i]
      /\ \A i, j \in 1..Len(pushQueue) : i < j => pushQueue[i] < pushQueue[j]
  <2>1. \A i \in 1..Len(pushQueue) : pushQueue[i] \in 1..MaxSeq
    BY QueueAssumption, SMT DEF LinkTypeOK
  <2>2. MaxSeq \in Nat /\ seq \in Nat
    BY NumberTypes
  <2>3. 0 <= seq /\ \A i \in 1..Len(pushQueue) : 0 < pushQueue[i]
    BY <2>1, <2>2, SMT
  <2> QED
    BY <1>1, <2>3 DEF OrderInv, engineVars, queueVars
<1>10. OrderInv'
  BY <1>7, <1>8, <1>9 DEF OrderInv
<1> QED
  BY <1>4, <1>5, <1>6, <1>10

(***************************************************************************)
(* Gaps                                                                    *)
(***************************************************************************)

\* The updates on their way.
Ahead == {pushQueue[k] : k \in 1..Len(pushQueue)} \cup ({hand} \ {0})

\* The next update that is written goes to the stream of the last one.
Continuing ==
  /\ streamOpen /\ ppc \notin {"closing", "done"}
  /\ received # <<>> /\ received[Len(received)].stream = streams

\* The numbers that are not on their way, and will be missing from a stream that
\* goes on, or that starts with the update before them.
Pending ==
  {n \in 1..MaxSeq : /\ n <= seq /\ n \notin Ahead
                     /\ \/ \E m \in Ahead : m < n
                        \/ Continuing /\ received[Len(received)].seq < n}

\* The numbers that may be missing: dropped by a full queue, or burnt.
Explained == dropped + burnt

\* Streams are numbered upwards, and what is missing or will be was dropped or
\* burnt.
GapInv ==
  /\ \A k \in 1..Len(received) : received[k].stream <= streams
  /\ ppc \in {"opened", "write"} => streamOpen
  /\ Cardinality(Missing \cup Pending) <= Explained

\* Gaps are finitely many.
LEMMA GapFinite ==
  /\ IsFiniteSet(Missing \cup Pending) /\ IsFiniteSet(Missing' \cup Pending')
  /\ Cardinality(Missing \cup Pending) \in Nat /\ Cardinality(Missing' \cup Pending') \in Nat
<1>1. IsFiniteSet(1..MaxSeq)
  <2>1. 1 \in Int /\ MaxSeq \in Int
    BY QueueAssumption, SMT
  <2> QED
    BY <2>1, FS_Interval
<1>2. Missing \cup Pending \subseteq 1..MaxSeq /\ Missing' \cup Pending' \subseteq 1..MaxSeq
  BY DEF Missing, Pending
<1> QED
  BY <1>1, <1>2, FS_Subset, FS_CardinalityType

\* No new gap.
LEMMA NoNewGap ==
  ASSUME Missing' \cup Pending' \subseteq Missing \cup Pending, Explained \in Nat,
         Cardinality(Missing \cup Pending) <= Explained, Explained' = Explained
  PROVE  Cardinality(Missing' \cup Pending') <= Explained'
<1>1. Cardinality(Missing' \cup Pending') <= Cardinality(Missing \cup Pending)
  BY GapFinite, FS_Subset
<1>2. PICK a \in Nat, b \in Nat, e \in Nat :
        /\ a = Cardinality(Missing' \cup Pending') /\ b = Cardinality(Missing \cup Pending)
        /\ e = Explained
  BY GapFinite
<1>3. a <= b /\ b <= e
  BY <1>1, <1>2
<1>4. a <= e
  BY <1>3, SMT
<1> QED
  BY <1>2, <1>4

\* A new gap for a dropped update or a burnt number.
LEMMA OneNewGap ==
  ASSUME NEW d, Missing' \cup Pending' \subseteq Missing \cup Pending \cup {d}, Explained \in Nat,
         Cardinality(Missing \cup Pending) <= Explained, Explained' = Explained + 1
  PROVE  Cardinality(Missing' \cup Pending') <= Explained'
<1> DEFINE G == (Missing \cup Pending) \cup {d}
<1>1. IsFiniteSet(G) /\ \/ Cardinality(G) = Cardinality(Missing \cup Pending)
                        \/ Cardinality(G) = Cardinality(Missing \cup Pending) + 1
  BY GapFinite, FS_AddElement
<1>2. Cardinality(Missing' \cup Pending') <= Cardinality(G)
  BY <1>1, FS_Subset
<1>3. PICK a \in Nat, b \in Nat, c \in Nat, e \in Nat :
        /\ a = Cardinality(Missing' \cup Pending') /\ b = Cardinality(Missing \cup Pending)
        /\ c = Cardinality(G) /\ e = Explained
  BY <1>1, GapFinite, FS_CardinalityType
<1> HIDE DEF G
<1>4. a <= c /\ (c = b \/ c = b + 1) /\ b <= e
  BY <1>1, <1>2, <1>3
<1>5. a <= e + 1
  BY <1>4, SMT
<1> QED
  BY <1>3, <1>5

\* The steps that move no update, or lose the one in hand with its stream.
LEMMA StillGaps ==
  ASSUME LinkTypeOK, OrderInv, GapInv, UNCHANGED <<seq, burnt, pushQueue, received, dropped>>,
         streams' = streams \/ (streams' = streams + 1 /\ hand' = hand),
         streams' = streams /\ streamOpen' => streamOpen,
         ppc \in {"closing", "done"} => ppc' \in {"closing", "done"},
         hand' = hand \/ (hand' = 0 /\ (~streamOpen' \/ ppc' = "closing")),
         ppc' \in {"opened", "write"} => streamOpen'
  PROVE  GapInv'
<1>1. Missing' = Missing /\ Explained' = Explained /\ Explained \in Nat
  <2>1. dropped \in Nat /\ burnt \in Nat
    BY DEF LinkTypeOK
  <2>2. dropped + burnt \in Nat
    BY <2>1, SMT
  <2> QED
    BY <2>2 DEF Missing, Explained
<1>2. /\ Len(received) \in Nat /\ streams \in Nat
      /\ \A k \in 1..Len(received) : received[k].stream \in Nat /\ received[k].stream <= streams
  <2>1. received \in Seq(Update) /\ streams \in Nat
    BY DEF LinkTypeOK, Update
  <2>2. Len(received) \in Nat /\ \A k \in 1..Len(received) : received[k] \in Update
    BY <2>1, SMT
  <2> QED
    BY <2>1, <2>2 DEF Update, GapInv
<1>3. \A k \in 1..Len(received) : received[k].stream <= streams + 1
                                  /\ received[k].stream # streams + 1
  <2>1. \A n \in Nat : n <= streams => n <= streams + 1 /\ n # streams + 1
    BY <1>2, SMT
  <2> QED
    BY <1>2, <2>1
<1>4. received # <<>> => Len(received) \in 1..Len(received)
  <2>1. received \in Seq(Update)
    BY DEF LinkTypeOK, Update
  <2> QED
    BY <2>1, SMT
<1>5. Continuing' => Continuing
  BY <1>3, <1>4 DEF Continuing
<1>6. ASSUME hand' = hand PROVE Pending' \subseteq Pending
  <2>1. Ahead' = Ahead
    BY <1>6 DEF Ahead
  <2> QED
    BY <1>5, <2>1 DEF Pending
<1>7. ASSUME hand' # hand PROVE Pending' \subseteq Pending
  <2>1. hand' = 0 /\ ~Continuing' /\ hand # 0
    BY <1>7 DEF Continuing
  <2>2. Ahead' \subseteq Ahead /\ \A n \in Ahead : n \notin Ahead' => n = hand
    BY <2>1 DEF Ahead
  <2>3. hand \in Nat /\ \A k \in 1..Len(pushQueue) : pushQueue[k] \in Nat /\ hand < pushQueue[k]
    BY NumberTypes DEF OrderInv
  <2>4. \A k \in 1..Len(pushQueue) : ~(pushQueue[k] < hand)
    BY <2>3, SMT
  <2>5. \A m \in Ahead' : ~(m < hand)
    BY <2>1, <2>4 DEF Ahead
  <2>6. ASSUME NEW n \in Pending'
        PROVE  n \in Pending
    <3>1. /\ n \in 1..MaxSeq /\ n <= seq /\ n \notin Ahead'
          /\ \E m \in Ahead' : m < n
      BY <2>1, <2>6 DEF Pending
    <3>2. n # hand
      BY <2>5, <3>1
    <3>3. n \notin Ahead /\ \E m \in Ahead : m < n
      BY <2>2, <3>1, <3>2
    <3> QED
      BY <3>1, <3>3 DEF Pending
  <2> QED
    BY <2>6
<1>8. Cardinality(Missing' \cup Pending') <= Explained'
  BY <1>1, <1>6, <1>7, NoNewGap DEF GapInv
<1>9. \A k \in 1..Len(received') : received'[k].stream <= streams'
  BY <1>2, <1>3
<1> QED
  BY <1>8, <1>9 DEF GapInv

\* A new number: it is on its way, or burnt, and what the full queue drops for it
\* may be missing from the stream.
LEMMA NumberGaps ==
  ASSUME NEW Gone, LinkInv, GapInv, seq' = seq + 1, seq < MaxSeq,
         UNCHANGED <<ppc, hand, streamOpen, streams, received>>,
         \A n \in Ahead : n = Gone \/ n \in Ahead',
         Ahead' \subseteq Ahead \cup {seq + 1},
         seq + 1 \in Ahead' \/ Gone = seq + 1
  PROVE  Missing' \cup Pending' \subseteq Missing \cup Pending \cup {Gone}
<1>1. Missing' = Missing /\ (Continuing' <=> Continuing)
  BY DEF Missing, Continuing
<1>2. seq \in Nat /\ MaxSeq \in Nat
  BY NumberTypes DEF LinkInv
<1>3. \A n \in 1..MaxSeq : /\ n <= seq + 1 => n <= seq \/ n = seq + 1
                           /\ n <= seq => ~(seq + 1 < n)
  BY <1>2, SMT
<1>4. ASSUME NEW n \in Pending', n # Gone
      PROVE  n \in Pending
  <2>1. /\ n \in 1..MaxSeq /\ n <= seq + 1 /\ n \notin Ahead'
        /\ \/ \E m \in Ahead' : m < n
           \/ Continuing /\ received[Len(received)].seq < n
    BY <1>1, <1>4 DEF Pending
  <2>2. n \notin Ahead /\ n # seq + 1
    BY <1>4, <2>1
  <2>3. n <= seq /\ ~(seq + 1 < n)
    BY <1>3, <2>1, <2>2
  <2>4. (\E m \in Ahead' : m < n) => \E m \in Ahead : m < n
    BY <2>3
  <2> QED
    BY <2>1, <2>2, <2>3, <2>4 DEF Pending
<1> QED
  BY <1>1, <1>4

\* What Explained is.
LEMMA ExplainedType ==
  ASSUME LinkInv
  PROVE  /\ Explained \in Nat
         /\ (dropped + 1) + burnt = Explained + 1 /\ dropped + (burnt + 1) = Explained + 1
<1>1. dropped \in Nat /\ burnt \in Nat
  BY NumberTypes DEF LinkInv
<1> QED
  BY <1>1, SMT DEF Explained

\* A new update.
LEMMA UpdateGaps ==
  ASSUME LinkInv, GapInv, PushStateUpdate
  PROVE  GapInv'
<1>1. /\ seq' = seq + 1 /\ seq < MaxSeq
      /\ UNCHANGED <<burnt, ppc, hand, streamOpen, streams, received>>
  BY DEF PushStateUpdate, TakesNumber
<1>2. /\ seq \in Nat /\ Len(pushQueue) \in Nat /\ pushQueue \in Seq(1..MaxSeq)
      /\ MaxSeq \in Nat /\ seq + 1 \in 1..MaxSeq
  <2>1. /\ seq \in Nat /\ Len(pushQueue) \in Nat /\ pushQueue \in Seq(1..MaxSeq)
        /\ MaxSeq \in Nat
    BY NumberTypes DEF LinkInv, LinkTypeOK
  <2> QED
    BY <1>1, <2>1, SMT
<1>3. CASE Len(pushQueue) >= MaxQueued
  <2>1. pushQueue' = Append(Tail(pushQueue), seq + 1) /\ dropped' = dropped + 1
    BY <1>3 DEF PushStateUpdate
  <2>2. pushQueue # <<>>
    BY <1>2, <1>3, QueueAssumption, SMT
  <2> DEFINE t == Tail(pushQueue)
  <2>3. /\ t \in Seq(1..MaxSeq) /\ Len(t) + 1 = Len(pushQueue) /\ Len(t) \in Nat
        /\ \A k \in 1..Len(t) : t[k] = pushQueue[k + 1] /\ k + 1 \in 1..Len(pushQueue)
        /\ \A k \in 1..Len(pushQueue) :
             k = 1 \/ (k - 1 \in 1..Len(t) /\ t[k - 1] = pushQueue[k])
    BY <1>2, <2>2, SMT
  <2>4. pushQueue' = Append(t, seq + 1)
    BY <2>1
  <2> HIDE DEF t
  <2>5. /\ Len(pushQueue') = Len(t) + 1 /\ pushQueue'[Len(t) + 1] = seq + 1
        /\ \A k \in 1..Len(t) : pushQueue'[k] = t[k]
        /\ Len(t) + 1 \in 1..(Len(t) + 1)
        /\ \A k \in 1..Len(t) : k \in 1..(Len(t) + 1)
        /\ \A k \in 1..(Len(t) + 1) : k \in 1..Len(t) \/ k = Len(t) + 1
    BY <1>2, <2>3, <2>4, SMT
  <2> DEFINE Front == pushQueue[1]
  <2>6. \A n \in Ahead : n = Front \/ n \in Ahead'
    <3>1. ASSUME NEW k \in 1..Len(pushQueue)
          PROVE  pushQueue[k] = Front \/ \E l \in 1..Len(pushQueue') : pushQueue[k] = pushQueue'[l]
      <4>1. CASE k = 1
        BY <4>1
      <4>2. CASE k # 1
        <5>1. k - 1 \in 1..Len(t) /\ t[k - 1] = pushQueue[k]
          BY <2>3, <3>1, <4>2
        <5>2. k - 1 \in 1..Len(pushQueue') /\ pushQueue'[k - 1] = t[k - 1]
          BY <2>5, <5>1
        <5> QED
          BY <5>1, <5>2
      <4> QED
        BY <4>1, <4>2
    <3> HIDE DEF Front
    <3> QED
      BY <1>1, <3>1 DEF Ahead
  <2> HIDE DEF Front
  <2>7. Ahead' \subseteq Ahead \cup {seq + 1} /\ seq + 1 \in Ahead'
    <3>1. ASSUME NEW k \in 1..Len(pushQueue')
          PROVE  pushQueue'[k] = seq + 1 \/ \E l \in 1..Len(pushQueue) : pushQueue'[k] = pushQueue[l]
      <4>1. CASE k = Len(t) + 1
        BY <2>5, <4>1
      <4>2. CASE k # Len(t) + 1
        <5>1. k \in 1..Len(t) /\ pushQueue'[k] = t[k]
          BY <2>5, <3>1, <4>2
        <5>2. t[k] = pushQueue[k + 1] /\ k + 1 \in 1..Len(pushQueue)
          BY <2>3, <5>1
        <5> QED
          BY <5>1, <5>2
      <4> QED
        BY <4>1, <4>2
    <3>2. \E k \in 1..Len(pushQueue') : pushQueue'[k] = seq + 1
      BY <2>5
    <3> QED
      BY <1>1, <3>1, <3>2 DEF Ahead
  <2>8. Explained' = Explained + 1
    BY <1>1, <2>1, ExplainedType DEF Explained
  <2>9. Missing' \cup Pending' \subseteq Missing \cup Pending \cup {Front}
    BY <1>1, <2>6, <2>7, NumberGaps
  <2>10. Cardinality(Missing' \cup Pending') <= Explained'
    BY <2>8, <2>9, OneNewGap, ExplainedType DEF GapInv
  <2> QED
    BY <1>1, <2>10 DEF GapInv
<1>4. CASE ~(Len(pushQueue) >= MaxQueued)
  <2>1. pushQueue' = Append(pushQueue, seq + 1) /\ dropped' = dropped
    BY <1>4 DEF PushStateUpdate
  <2>2. /\ Len(pushQueue') = Len(pushQueue) + 1 /\ pushQueue'[Len(pushQueue) + 1] = seq + 1
        /\ \A k \in 1..Len(pushQueue) : pushQueue'[k] = pushQueue[k]
        /\ Len(pushQueue) + 1 \in 1..(Len(pushQueue) + 1)
        /\ \A k \in 1..Len(pushQueue) : k \in 1..(Len(pushQueue) + 1)
        /\ \A k \in 1..(Len(pushQueue) + 1) : k \in 1..Len(pushQueue) \/ k = Len(pushQueue) + 1
    BY <1>2, <2>1, SMT
  <2>3. \A n \in Ahead : n \in Ahead'
    BY <1>1, <2>2 DEF Ahead
  <2>4. Ahead' \subseteq Ahead \cup {seq + 1} /\ seq + 1 \in Ahead'
    BY <1>1, <2>2 DEF Ahead
  <2>5. Explained' = Explained
    BY <1>1, <2>1 DEF Explained
  <2>6. Missing' \cup Pending' \subseteq Missing \cup Pending \cup {0}
    BY <1>1, <2>3, <2>4, NumberGaps
  <2>7. 0 \notin Missing' \cup Pending'
    <3>1. 0 \notin 1..MaxSeq
      BY <1>2, SMT
    <3> QED
      BY <3>1 DEF Missing, Pending
  <2>8. Cardinality(Missing' \cup Pending') <= Explained'
    BY <2>5, <2>6, <2>7, NoNewGap, ExplainedType DEF GapInv
  <2> QED
    BY <1>1, <2>8 DEF GapInv
<1> QED
  BY <1>3, <1>4

\* A burnt number.
LEMMA ThrowGaps ==
  ASSUME LinkInv, GapInv, UpdateThrows
  PROVE  GapInv'
<1>1. /\ seq' = seq + 1 /\ seq < MaxSeq /\ burnt' = burnt + 1
      /\ UNCHANGED <<dropped, pushQueue, ppc, hand, streamOpen, streams, received>>
  BY DEF UpdateThrows, TakesNumber, queueVars, pushVars
<1>2. Ahead' = Ahead
  BY <1>1 DEF Ahead
<1> DEFINE g == seq + 1
<1>3. Explained' = Explained + 1
  BY <1>1, ExplainedType DEF Explained
<1>4. seq' = g /\ (seq + 1 \in Ahead' \/ g = seq + 1)
  BY <1>1
<1>5. Missing' \cup Pending' \subseteq Missing \cup Pending \cup {g}
  <2> HIDE DEF g
  <2> QED
    BY <1>1, <1>2, <1>4, NumberGaps
<1> HIDE DEF g
<1>6. Cardinality(Missing' \cup Pending') <= Explained'
  BY <1>3, <1>5, OneNewGap, ExplainedType DEF GapInv
<1> QED
  BY <1>1, <1>6 DEF GapInv

\* Taking the front of the queue leaves the same updates on their way.
LEMMA TakeGaps ==
  ASSUME LinkInv, GapInv, PushTakes
  PROVE  GapInv'
<1>1. /\ ppc = "locked" /\ hand = 0
      /\ UNCHANGED <<seq, burnt, dropped, streamOpen, streams, received>>
  BY DEF PushTakes, HandInv, InHand, LinkInv, engineVars
<1>2. CASE ppc' = "closing" /\ UNCHANGED <<pushQueue, hand>>
  BY <1>1, <1>2, StillGaps DEF LinkInv
<1>3. CASE pushQueue # <<>> /\ ppc' = "popped" /\ hand' = Head(pushQueue)
           /\ pushQueue' = Tail(pushQueue)
  <2>1. Len(pushQueue) \in Nat /\ pushQueue \in Seq(1..MaxSeq) /\ MaxSeq \in Nat
    BY NumberTypes DEF LinkInv, LinkTypeOK
  <2>2. /\ Len(pushQueue') = Len(pushQueue) - 1 /\ 1 \in 1..Len(pushQueue)
        /\ hand' = pushQueue[1] /\ hand' # 0
        /\ \A k \in 1..Len(pushQueue') : pushQueue'[k] = pushQueue[k + 1]
                                         /\ k + 1 \in 1..Len(pushQueue)
        /\ \A k \in 1..Len(pushQueue) :
             k = 1 \/ (k - 1 \in 1..Len(pushQueue') /\ pushQueue'[k - 1] = pushQueue[k])
    BY <1>3, <2>1, SMT
  <2>3. Ahead' = Ahead
    <3>1. \A k \in 1..Len(pushQueue) :
            pushQueue[k] = hand' \/ \E l \in 1..Len(pushQueue') : pushQueue'[l] = pushQueue[k]
      BY <2>2
    <3>2. \A k \in 1..Len(pushQueue') : \E l \in 1..Len(pushQueue) : pushQueue'[k] = pushQueue[l]
      BY <2>2
    <3>3. \E l \in 1..Len(pushQueue) : hand' = pushQueue[l]
      BY <2>2
    <3>4. Ahead = {pushQueue[k] : k \in 1..Len(pushQueue)}
      BY <1>1 DEF Ahead
    <3>5. Ahead' = {pushQueue'[k] : k \in 1..Len(pushQueue')} \cup {hand'}
      BY <2>2 DEF Ahead
    <3>6. Ahead \subseteq Ahead'
      BY <3>1, <3>4, <3>5
    <3>7. Ahead' \subseteq Ahead
      BY <3>2, <3>3, <3>4, <3>5
    <3> QED
      BY <3>6, <3>7
  <2>4. Missing' = Missing /\ (Continuing' <=> Continuing)
    BY <1>1, <1>3 DEF Missing, Continuing
  <2>5. Pending' = Pending
    BY <1>1, <2>3, <2>4 DEF Pending
  <2>6. Explained' = Explained
    BY <1>1 DEF Explained
  <2>7. Cardinality(Missing' \cup Pending') <= Explained'
    BY <2>4, <2>5, <2>6, NoNewGap, ExplainedType DEF GapInv
  <2> QED
    BY <1>1, <1>3, <2>7 DEF GapInv
<1> QED
  BY <1>2, <1>3 DEF PushTakes

\* The coordinator gets the update: what was to be missing before it is.
LEMMA WriteGaps ==
  ASSUME LinkInv, GapInv, PushWrites
  PROVE  GapInv'
<1> DEFINE L == Len(received)
<1>1. /\ ppc = "write" /\ ppc' = "loop" /\ hand # 0 /\ hand' = 0 /\ streamOpen
      /\ received' = Append(received, [stream |-> streams, seq |-> hand])
      /\ UNCHANGED <<seq, burnt, pushQueue, dropped, streamOpen, streams>>
  BY DEF PushWrites, HandInv, InHand, LinkInv, GapInv, engineVars, queueVars
<1>2. /\ seq \in Nat /\ dropped \in Nat /\ Len(pushQueue) \in Nat /\ hand \in Nat
      /\ streams \in Nat /\ L \in Nat
  BY NumberTypes DEF LinkInv
<1>3. received \in Seq(Update) /\ [stream |-> streams, seq |-> hand] \in Update
  <2>1. hand \in 1..MaxSeq
    <3>1. hand \in 0..MaxSeq /\ MaxSeq \in Nat /\ hand # 0
      BY <1>1, QueueAssumption DEF LinkInv, LinkTypeOK
    <3> QED
      BY <3>1, SMT
  <2> QED
    BY <1>2, <2>1 DEF LinkInv, LinkTypeOK, Update
<1>4. /\ Len(received') = L + 1 /\ received'[L + 1] = [stream |-> streams, seq |-> hand]
      /\ \A k \in 1..L : received'[k] = received[k]
      /\ received' # <<>>
  <2> DEFINE u == [stream |-> streams, seq |-> hand]
  <2>1. received' = Append(received, u) /\ u \in Update
    BY <1>1, <1>3
  <2> HIDE DEF u
  <2>2. /\ Len(received') = L + 1 /\ received'[L + 1] = u
        /\ \A k \in 1..L : received'[k] = received[k]
        /\ received' # <<>>
    BY <1>3, <2>1, SMT
  <2> QED
    BY <2>2 DEF u
<1> HIDE DEF L
<1>5. received'[L + 1].stream = streams /\ received'[L + 1].seq = hand
  <2>1. /\ [stream |-> streams, seq |-> hand].stream = streams
        /\ [stream |-> streams, seq |-> hand].seq = hand
    OBVIOUS
  <2> QED
    BY <1>4, <2>1
<1>6. hand \in Ahead /\ hand <= seq /\ Explained' = Explained
  BY <1>1 DEF Ahead, Explained, LinkInv, OrderInv
<1>7. Ahead' = Ahead \ {hand}
  <2>1. \A k \in 1..Len(pushQueue) : pushQueue[k] \in Nat /\ hand < pushQueue[k]
    BY NumberTypes DEF LinkInv, OrderInv
  <2>2. \A k \in 1..Len(pushQueue) : pushQueue[k] # hand
    BY <1>2, <2>1, SMT
  <2>3. Ahead' = {pushQueue[k] : k \in 1..Len(pushQueue)}
    BY <1>1 DEF Ahead
  <2> QED
    BY <1>1, <2>2, <2>3 DEF Ahead
<1>8. ASSUME NEW n \in Missing'
      PROVE  n \in Missing \cup Pending
  <2>1. PICK k \in 1..(Len(received') - 1) :
          /\ received'[k].stream = received'[k + 1].stream
          /\ received'[k].seq < n /\ n < received'[k + 1].seq
    BY <1>8 DEF Missing
  <2>2. n \in 1..MaxSeq /\ n \in Nat
    <3>1. n \in 1..MaxSeq
      BY <1>8 DEF Missing
    <3> QED
      BY <3>1, QueueAssumption, SMT
  <2>3. k \in 1..L /\ received'[k] = received[k]
    <3>1. Len(received') = L + 1
      BY <1>4
    <3>2. k \in 1..L
      BY <1>2, <2>1, <3>1, SMT
    <3> QED
      BY <1>4, <3>2
  <2>4. CASE k = L
    <3>1. received[L].stream = streams /\ received[L].seq < n /\ n < hand
      BY <1>5, <2>1, <2>3, <2>4
    <3>2. n <= seq /\ n # hand
      BY <1>2, <1>6, <2>2, <3>1, SMT
    <3>5. n \notin Ahead
      <4>1. \A m \in Ahead : m = hand \/ hand < m
        BY DEF Ahead, LinkInv, OrderInv
      <4>2. ~(hand < n)
        BY <1>2, <2>2, <3>1, SMT
      <4> QED
        BY <3>2, <4>1, <4>2
    <3>3. received # <<>>
      BY <1>3, <2>3, SMT DEF L
    <3>4. Continuing
      BY <1>1, <3>1, <3>3 DEF Continuing, L
    <3> QED
      BY <2>2, <3>1, <3>2, <3>4, <3>5 DEF Pending, L
  <2>5. CASE k # L
    <3>1. k \in 1..(L - 1) /\ k + 1 \in 1..L
      BY <1>2, <2>3, <2>5, SMT
    <3>2. received'[k + 1] = received[k + 1]
      BY <1>4, <3>1
    <3> QED
      BY <2>1, <2>2, <2>3, <3>1, <3>2 DEF Missing, L
  <2> QED
    BY <2>4, <2>5
<1>9. ASSUME NEW n \in Pending'
      PROVE  n \in Pending
  <2>1. /\ n \in 1..MaxSeq /\ n <= seq /\ n \notin Ahead'
        /\ (\E m \in Ahead' : m < n) \/ hand < n
    BY <1>1, <1>4, <1>5, <1>9 DEF Pending
  <2>2. \E m \in Ahead : m < n
    BY <1>6, <1>7, <2>1
  <2>3. n # hand
    <3>1. \A m \in Ahead' : m \in Nat /\ hand < m
      BY <1>1, NumberTypes DEF Ahead, LinkInv, OrderInv
    <3>2. ~(hand < hand) /\ \A m \in Ahead' : ~(m < hand)
      BY <1>2, <3>1, SMT
    <3> QED
      BY <2>1, <3>2
  <2>4. n \notin Ahead
    BY <1>7, <2>1, <2>3
  <2> QED
    BY <2>1, <2>2, <2>4 DEF Pending
<1>10. Cardinality(Missing' \cup Pending') <= Explained'
  BY <1>6, <1>8, <1>9, NoNewGap, ExplainedType DEF GapInv
<1>11. ASSUME NEW k \in 1..Len(received')
       PROVE  received'[k].stream <= streams'
  <2>1. k \in 1..L \/ k = L + 1
    BY <1>2, <1>4, <1>11, SMT
  <2>2. streams <= streams
    BY <1>2, SMT
  <2> QED
    BY <1>1, <1>4, <1>5, <2>1, <2>2 DEF GapInv, L
<1> QED
  BY <1>1, <1>10, <1>11 DEF GapInv

\* The other steps.
LEMMA OtherGaps ==
  ASSUME LinkInv, GapInv,
         \/ PushNotifies \/ StartCommandChannel \/ DtorStop \/ Dtor \/ ReaderThread \/ ReadEnds
         \/ PushLoop \/ PushFindsNothing \/ PushSleeps \/ PushWakesByItself \/ PushRegisters
         \/ PushCloses \/ PushReady \/ PushOpens \/ PushChecks \/ PushBreaks
         \/ UNCHANGED linkVars
  PROVE  GapInv'
<1> USE DEF numberVars, engineVars, queueVars, pushVars, readerVars, linkVars
<1>1. LinkTypeOK /\ OrderInv /\ (ppc = "registered" => ~streamOpen)
      /\ (ppc \in {"opened", "write"} => streamOpen)
  BY DEF LinkInv, CancelInv, GapInv
<1>2. CASE \/ PushNotifies \/ StartCommandChannel \/ DtorStop \/ Dtor \/ ReaderThread \/ ReadEnds
           \/ UNCHANGED linkVars
  <2>1. /\ UNCHANGED <<seq, burnt, pushQueue, received, dropped, streams, streamOpen, hand>>
        /\ ppc' = ppc \/ (ppc = "asleep" /\ ppc' = "locked")
    BY <1>2 DEF PushNotifies, StartCommandChannel, DtorStop, Dtor, DtorNotify, DtorCancelPush,
                DtorJoinPush, DtorStopReader, DtorCancelReader, DtorJoinReader, ReaderThread,
                ReadEnds, ReadLoop, ReadOpens, ReadFinishes, ReadBackoff, Notified
  <2> QED
    BY <1>1, <2>1, StillGaps
<1>3. CASE \/ PushLoop \/ PushFindsNothing \/ PushSleeps \/ PushWakesByItself \/ PushRegisters
           \/ PushCloses
  <2>1. /\ UNCHANGED <<seq, burnt, pushQueue, received, dropped, streams, hand>>
        /\ streamOpen' = streamOpen \/ streamOpen' = FALSE
        /\ ppc \in {"closing", "done"} => ppc' \in {"closing", "done"}
        /\ ppc' \notin {"opened", "write"}
    BY <1>3 DEF PushLoop, PushFindsNothing, PushSleeps, PushWakesByItself, PushRegisters,
                PushCloses
  <2>2. streamOpen' => streamOpen
    BY <2>1
  <2> QED
    BY <1>1, <2>1, <2>2, StillGaps
<1>4. CASE PushReady \/ PushChecks
  <2>1. /\ UNCHANGED <<seq, burnt, pushQueue, received, dropped, streams, streamOpen>>
        /\ ppc \notin {"closing", "done"}
        /\ hand' = hand \/ (hand' = 0 /\ ppc' = "closing")
        /\ ppc' \in {"opened", "write"} => streamOpen
    BY <1>1, <1>4 DEF PushReady, PushChecks
  <2> QED
    BY <1>1, <2>1, StillGaps
<1>5. CASE PushOpens
  <2>1. /\ UNCHANGED <<seq, burnt, pushQueue, received, dropped>>
        /\ ppc = "registered" /\ ~streamOpen
        /\ \/ streams' = streams + 1 /\ hand' = hand /\ streamOpen' = TRUE
           \/ streams' = streams /\ hand' = 0 /\ streamOpen' = streamOpen /\ ppc' = "loop"
    BY <1>1, <1>5 DEF PushOpens
  <2>2. CASE streams' = streams + 1 /\ hand' = hand /\ streamOpen' = TRUE
    <3>1. streams + 1 # streams
      <4>1. streams \in Nat
        BY NumberTypes DEF LinkInv
      <4> QED
        BY <4>1, SMT
    <3> QED
      BY <1>1, <2>1, <2>2, <3>1, StillGaps
  <2>3. CASE streams' = streams /\ hand' = 0 /\ streamOpen' = streamOpen /\ ppc' = "loop"
    <3>1. ~streamOpen'
      BY <2>1, <2>3
    <3> QED
      BY <1>1, <2>1, <2>3, <3>1, StillGaps
  <2> QED
    BY <2>1, <2>2, <2>3
<1>6. CASE PushBreaks
  <2>1. /\ UNCHANGED <<seq, burnt, pushQueue, received, dropped, streams>>
        /\ ppc = "write" /\ ppc' = "loop" /\ hand' = 0 /\ streamOpen' = FALSE
    BY <1>6 DEF PushBreaks
  <2> QED
    BY <1>1, <2>1, StillGaps
<1> QED
  BY <1>2, <1>3, <1>4, <1>5, <1>6

(***************************************************************************)
(* The theorems                                                            *)
(***************************************************************************)

\* Every step of the engine, the push thread or the reader keeps the invariant.
THEOREM LinkStep ==
  ASSUME LinkInv, [LinkNext]_linkVars PROVE LinkInv'
<1>1. CASE UNCHANGED linkVars
  <2>1. LinkTypeOK' /\ HandInv' /\ CancelInv'
    <3> USE <1>1 DEF linkVars, engineVars, queueVars, pushVars, readerVars
    <3>1. LinkTypeOK'
      BY DEF LinkInv, LinkTypeOK
    <3>2. HandInv'
      BY DEF LinkInv, HandInv
    <3>3. CancelInv'
      BY DEF LinkInv, CancelInv
    <3> QED
      BY <3>1, <3>2, <3>3
  <2>2. OrderInv' /\ UpdatesAccounted'
    BY <1>1, NumbersFrame DEF LinkInv, linkVars, engineVars, queueVars, pushVars, numbers,
                           numberVars
  <2> QED
    BY <2>1, <2>2 DEF LinkInv
<1>2. CASE LinkNext
  BY <1>2, EngineSteps, ReaderSteps, IdlePushSteps, UpdateStep, ThrowStep, TakeStep, HandSteps,
     WriteStep DEF LinkNext, Engine, PushNext, PushThread
<1> QED
  BY <1>1, <1>2

\* In every state.
LEMMA LinkAlways == LinkSpec => []LinkInv
<1>1. ASSUME LinkInit PROVE LinkInv
  <2>1. LinkTypeOK
    <3>1. /\ <<>> \in Seq(1..MaxSeq) /\ <<>> \in Seq(Update) /\ Len(<<>>) <= MaxQueued
          /\ 0 \in 0..MaxSeq
      BY QueueAssumption, SMT
    <3> QED
      BY <1>1, <3>1 DEF LinkInit, LinkTypeOK, EnginePlaces, Ctx, Update
  <2>2. HandInv /\ CancelInv
    BY <1>1 DEF LinkInit, HandInv, InHand, CancelInv
  <2>3. OrderInv /\ UpdatesAccounted
    BY <1>1, SMT DEF LinkInit, OrderInv, UpdatesAccounted
  <2> QED
    BY <2>1, <2>2, <2>3 DEF LinkInv
<1> QED
  BY <1>1, LinkStep, PTL DEF LinkSpec

\* No update of PushStateUpdate disappears without a count, and none counts twice.
THEOREM UpdatesAccountedAlways == LinkSpec => []UpdatesAccounted
<1>1. ASSUME LinkInv PROVE UpdatesAccounted
  BY <1>1 DEF LinkInv
<1> QED
  BY <1>1, LinkAlways, PTL

\* Every step keeps the account of the gaps.
LEMMA GapStep ==
  ASSUME LinkInv, GapInv, [LinkNext]_linkVars PROVE GapInv'
BY UpdateGaps, ThrowGaps, TakeGaps, WriteGaps, OtherGaps DEF LinkNext, Engine, PushNext, PushThread

\* The numbers missing inside the streams are no more than PushStateUpdate's
\* push_dropped_count_ and the numbers burnt by updates that threw, however the
\* drops and the faults fall between the push thread's pop and its write.
THEOREM GapsAreCountedAlways == LinkSpec => []GapsAreCounted
<1>1. ASSUME LinkInit PROVE GapInv
  <2>1. /\ pushQueue = <<>> /\ received = <<>> /\ hand = 0 /\ ppc = "loop" /\ ~streamOpen
        /\ dropped = 0 /\ burnt = 0
    BY <1>1 DEF LinkInit
  <2>2. /\ Len(<<>>) = 0 /\ 1..0 = {} /\ 1..(0 - 1) = {} /\ 0 <= 0 + 0
    BY SMT
  <2>3. Missing = {} /\ Pending = {}
    BY <2>1, <2>2 DEF Missing, Pending, Ahead, Continuing
  <2>4. Cardinality(Missing \cup Pending) = 0
    BY <2>3, FS_EmptySet
  <2> QED
    BY <2>1, <2>2, <2>4 DEF GapInv, Explained
<1>2. ASSUME GapInv, LinkInv PROVE GapsAreCounted
  <2>1. Missing \in SUBSET (Missing \cup Pending) /\ IsFiniteSet(Missing \cup Pending)
    BY GapFinite
  <2>2. IsFiniteSet(Missing) /\ Cardinality(Missing) <= Cardinality(Missing \cup Pending)
    BY <2>1, FS_Subset
  <2>3. PICK a \in Nat, b \in Nat, e \in Nat :
          a = Cardinality(Missing) /\ b = Cardinality(Missing \cup Pending) /\ e = Explained
    BY <1>2, <2>2, GapFinite, FS_CardinalityType, ExplainedType
  <2>4. a <= b /\ b <= e
    BY <1>2, <2>2, <2>3 DEF GapInv
  <2>5. a <= e
    BY <2>4, SMT
  <2> QED
    BY <2>3, <2>5 DEF GapsAreCounted, Explained
<1>3. ASSUME LinkInv, GapInv, [LinkNext]_linkVars PROVE GapInv'
  BY <1>3, GapStep
<1> QED
  BY <1>1, <1>2, <1>3, LinkAlways, PTL DEF LinkSpec

\* The coordinator sees rising sequence numbers, whatever streams broke and
\* whatever the full queue dropped.
THEOREM ReceivedInOrderAlways == LinkSpec => []ReceivedInOrder
<1>1. ASSUME LinkInv PROVE ReceivedInOrder
  <2>1. Len(received) \in Nat
    BY <1>1, NumberTypes DEF LinkInv
  <2> QED
    BY <1>1, <2>1, SMT DEF LinkInv, OrderInv, ReceivedInOrder
<1> QED
  BY <1>1, LinkAlways, PTL

\* The join of ~CoordinatorClient waits for no Write and no Finish that nobody
\* cancels.
THEOREM CancelReachesPushAlways == LinkSpec => []CancelReachesPush
<1>1. ASSUME LinkInv PROVE CancelReachesPush
  BY <1>1 DEF LinkInv, CancelInv, CancelReachesPush
<1> QED
  BY <1>1, LinkAlways, PTL

\* No update waits in push_queue_ for a push thread that sleeps, unless the
\* engine has still to notify it: no wake-up falls between its test and its wait.
THEOREM UpdatesAreSignalledAlways == LinkSpec => []UpdatesAreSignalled
<1>1. ASSUME LinkInit PROVE UpdatesAreSignalled
  BY <1>1 DEF LinkInit, UpdatesAreSignalled
<1>2. ASSUME UpdatesAreSignalled, [LinkNext]_linkVars PROVE UpdatesAreSignalled'
  <2> USE DEF engineVars, queueVars, pushVars, readerVars
  <2>1. CASE PushStateUpdate
    <3>1. ppc \notin {"locked", "falling"} /\ UNCHANGED ppc /\ epc' = "pushed"
      BY <2>1 DEF PushStateUpdate, QueueLockFree
    <3> QED
      BY <3>1 DEF UpdatesAreSignalled
  <2>2. CASE PushNotifies
    <3>1. UNCHANGED pushQueue /\ ppc' # "asleep" /\ (ppc' = "falling" => ppc = "falling")
      BY <2>2 DEF PushNotifies, Notified
    <3> QED
      BY <1>2, <3>1 DEF UpdatesAreSignalled
  <2>3. CASE \/ StartCommandChannel \/ DtorStop \/ Dtor \/ ReaderThread \/ ReadEnds
             \/ UNCHANGED linkVars
    <3>1. UNCHANGED pushQueue /\ (ppc' = ppc \/ (ppc = "asleep" /\ ppc' = "locked"))
      BY <2>3 DEF StartCommandChannel, DtorStop, Dtor, DtorNotify, DtorCancelPush, DtorJoinPush,
                  DtorStopReader, DtorCancelReader, DtorJoinReader, Notified, ReaderThread,
                  ReadLoop, ReadOpens, ReadEnds, ReadFinishes, ReadBackoff, linkVars
    <3>2. UNCHANGED epc \/ epc # "pushed"
      BY <2>3 DEF StartCommandChannel, DtorStop, Dtor, DtorNotify, DtorCancelPush, DtorJoinPush,
                  DtorStopReader, DtorCancelReader, DtorJoinReader, ReaderThread, ReadLoop,
                  ReadOpens, ReadEnds, ReadFinishes, ReadBackoff, linkVars
    <3> QED
      BY <1>2, <3>1, <3>2 DEF UpdatesAreSignalled
  <2>4. CASE PushFindsNothing \/ PushSleeps
    <3>1. UNCHANGED pushQueue /\ (pushQueue = <<>> \/ ppc = "falling")
      BY <2>4 DEF PushFindsNothing, PushSleeps
    <3> QED
      BY <1>2, <3>1 DEF UpdatesAreSignalled
  <2>5. CASE \/ PushLoop \/ PushTakes \/ PushReady \/ PushRegisters \/ PushOpens \/ PushChecks
             \/ PushWakesByItself \/ PushWrites \/ PushBreaks \/ PushCloses
    <3>1. ppc' \notin {"falling", "asleep"}
      BY <2>5 DEF PushLoop, PushTakes, PushReady, PushRegisters, PushOpens, PushChecks,
                  PushWakesByItself, PushWrites, PushBreaks, PushCloses
    <3> QED
      BY <3>1 DEF UpdatesAreSignalled
  <2>6. CASE UpdateThrows
    <3>1. UNCHANGED <<epc, ppc, pushQueue>>
      BY <2>6 DEF UpdateThrows
    <3> QED
      BY <1>2, <3>1 DEF UpdatesAreSignalled
  <2> QED
    BY <1>2, <2>1, <2>2, <2>3, <2>4, <2>5, <2>6 DEF LinkNext, Engine, PushNext, PushThread
<1> QED
  BY <1>1, <1>2, PTL DEF LinkSpec
================================================================================
