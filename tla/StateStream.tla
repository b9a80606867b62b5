----------------------------- MODULE StateStream -----------------------------
(***************************************************************************)
(* The state feed of the gateway: the engine thread gives every            *)
(* StateUpdate a sequence number, pushes it on the RingBuffer and          *)
(* publishes it through the DeltaBus to one SubscriberSlot per StreamState *)
(* call; the pump thread of a call sends a baseline (a ring replay or a    *)
(* fresh snapshot) and then what its slot holds.                           *)
(*                                                                         *)
(* A payload is abstracted to its sequence number.  The ring is the        *)
(* sequence of retained entries, oldest first.  The completion-queue       *)
(* handshake under a Write is the subject of module StreamCall; here a     *)
(* Write is one step that succeeds or fails.                               *)
(***************************************************************************)
EXTENDS Integers, Sequences

CONSTANTS Calls,         \* StreamState calls, one slot and one pump each
          RingCapacity,  \* entries the RingBuffer retains
          SlotCapacity,  \* SubscriberSlot::kDefaultCapacity
          MaxSeq,        \* bound: the engine stops numbering updates here
          Resumes,       \* values of resume_from_seq clients ask for
          None           \* "no call": not a member of Calls

ASSUME RingCapacityAssumption == RingCapacity \in Nat \ {0}
ASSUME SlotCapacityAssumption == SlotCapacity \in Nat \ {0}
ASSUME MaxSeqAssumption == MaxSeq \in Nat
ASSUME ResumesAssumption == Resumes \subseteq Nat
ASSUME NoneAssumption == None \notin Calls

VARIABLES
  \* The gateway module (engine thread).
  state,      \* GatewayState, with "Releasing" and "Released" for the destructor
  tail,       \* updates the tick that faulted may still emit
  seq,        \* seq_
  epc,        \* where the engine thread is
  live,       \* Publish's and EvictAll's local vector of slots still to visit
  victim,     \* the slot whose TryPush just returned false, or None
  cancelled,  \* server_->Shutdown has returned: every open call is cancelled
  ring,       \* RingBuffer::entries_, oldest first
  \* The bus and its slots.
  slots,      \* DeltaBus::slots_
  queue,      \* SubscriberSlot::queue_
  eviction,   \* SubscriberSlot::eviction_
  dropped,    \* SubscriberSlot::dropped_
  \* The StreamState calls.
  stage,      \* progress of the call and of its pump
  resume,     \* resume_from_seq_
  last,       \* last_sent_seq
  backlog,    \* messages the pump has taken and not yet written
  floor,      \* history: HeadSeq when the call subscribed
  fresh,      \* the baseline is a snapshot, not a replay
  base,       \* history: the sequence number before the first message
  sent,       \* history: sequence numbers of the successful Writes
  status      \* the status handed to writer_.Finish

engineVars == <<state, tail, seq, epc, live, victim, cancelled, ring>>
slotVars == <<queue, eviction, dropped>>
busVars == <<slots, slotVars>>
pumpVars == <<last, backlog, fresh, base, sent>>
callVars == <<stage, resume, floor, pumpVars, status>>
vars == <<engineVars, busVars, callVars>>

TailEmits == 2  \* a snapshot and a delta can follow the fault in one tick

Reasons == {"kNone", "kSlowConsumer", "kCanceled", "kFault"}
States == {"Healthy", "Disabling", "Disabled", "Releasing", "Released"}
Statuses == {"none", "OK", "RESOURCE_EXHAUSTED", "UNAVAILABLE", "CANCELLED",
             "INTERNAL"}

HeadSeq == IF ring = <<>> THEN 0 ELSE ring[Len(ring)]

Init ==
  /\ state = "Healthy" /\ tail = 0 /\ seq = 0 /\ epc = "idle"
  /\ live = {} /\ victim = None /\ cancelled = FALSE /\ ring = <<>>
  /\ slots = {}
  /\ queue = [s \in Calls |-> <<>>]
  /\ eviction = [s \in Calls |-> "kNone"]
  /\ dropped = [s \in Calls |-> 0]
  /\ stage = [s \in Calls |-> "new"]
  /\ resume = [s \in Calls |-> 0]
  /\ last = [s \in Calls |-> 0]
  /\ floor = [s \in Calls |-> 0]
  /\ backlog = [s \in Calls |-> <<>>]
  /\ fresh = [s \in Calls |-> FALSE]
  /\ base = [s \in Calls |-> 0]
  /\ sent = [s \in Calls |-> <<>>]
  /\ status = [s \in Calls |-> "none"]

(***************************************************************************)
(* RingBuffer                                                              *)
(***************************************************************************)

\* RingBuffer::Push: append, and drop the oldest entry when full.
RingPush(n) ==
  ring' = IF Len(ring) < RingCapacity THEN Append(ring, n)
          ELSE Append(Tail(ring), n)

\* RingBuffer::GetFromSeq is nullopt when the ring is empty, when the entry
\* after `from` is gone and when the client is ahead of the server.
InRing(from) ==
  /\ ring # <<>>
  /\ ~ (from + 1 < HeadSeq - (Len(ring) - 1))
  /\ ~ (from > HeadSeq)

\* The newest HeadSeq - from entries, oldest first.
GetFromSeq(from) == SubSeq(ring, Len(ring) - (HeadSeq - from) + 1, Len(ring))

(***************************************************************************)
(* SubscriberSlot                                                          *)
(***************************************************************************)

\* Mutant: the reason is stored, not compare-and-exchanged.
EvictOverwrites(s, reason) == eviction' = [eviction EXCEPT ![s] = reason]

\* SubscriberSlot::Evict: the first reason wins.
Evict(s, reason) ==
  eviction' = [eviction EXCEPT ![s] = IF @ = "kNone" THEN reason ELSE @]

Full(s) == Len(queue[s]) >= SlotCapacity

(***************************************************************************)
(* The engine thread                                                       *)
(***************************************************************************)

\* Only the tick that faulted goes on emitting after the transition.
MayEmit == state = "Healthy" \/ (state = "Disabled" /\ tail > 0)

SpendTail == tail' = IF state = "Healthy" THEN tail ELSE tail - 1

\* FlushDelta, EmitKeepAlive and BroadcastSnapshot alike: number the update
\* and push it on the ring under state_mutex_.  Publish follows.
Emit ==
  /\ epc = "idle" /\ MayEmit /\ seq < MaxSeq
  /\ SpendTail
  /\ seq' = seq + 1
  /\ RingPush(seq + 1)
  /\ epc' = "publish"
  /\ UNCHANGED <<state, live, victim, cancelled, busVars, callVars>>

\* Mutant: the catch block only logs.
EmitThrowsSwallowed ==
  /\ epc = "idle" /\ MayEmit /\ seq < MaxSeq
  /\ SpendTail
  /\ seq' = seq + 1
  /\ UNCHANGED <<state, epc, live, victim, cancelled, ring, busVars, callVars>>

\* Serialization throws after ++seq_: the number is burnt and the catch
\* block calls TransitionToDisabled, which returns at once unless Healthy.
EmitThrows ==
  /\ epc = "idle" /\ MayEmit /\ seq < MaxSeq
  /\ SpendTail
  /\ seq' = seq + 1
  /\ IF state = "Healthy"
     THEN state' = "Disabling" /\ epc' = "evictAll"
     ELSE UNCHANGED <<state, epc>>
  /\ UNCHANGED <<live, victim, cancelled, ring, busVars, callVars>>

\* DeltaBus::Publish, first half: copy the slots that are not evicted.
PublishCapture ==
  /\ epc = "publish"
  /\ live' = {s \in slots : eviction[s] = "kNone"}
  /\ epc' = "fanout"
  /\ UNCHANGED <<state, tail, seq, victim, cancelled, ring, busVars, callVars>>

\* Mutant: a full slot loses the update and keeps its subscription.
PublishPushDrops(s) ==
  /\ epc = "fanout" /\ victim = None /\ s \in live
  /\ live' = live \ {s}
  /\ queue' = [queue EXCEPT ![s] = IF Full(s) THEN @ ELSE Append(@, seq)]
  /\ UNCHANGED <<state, tail, seq, epc, victim, cancelled, ring, slots,
                 eviction, dropped, callVars>>

\* DeltaBus::Publish, second half: SubscriberSlot::TryPush on one slot.
PublishPush(s) ==
  /\ epc = "fanout" /\ victim = None /\ s \in live
  /\ live' = live \ {s}
  /\ \/ /\ eviction[s] = "kNone" /\ ~Full(s)
        /\ queue' = [queue EXCEPT ![s] = Append(@, seq)]
        /\ UNCHANGED <<victim, dropped>>
     \/ /\ eviction[s] = "kNone" /\ Full(s)
        /\ dropped' = [dropped EXCEPT ![s] = @ + 1]
        /\ victim' = s
        /\ UNCHANGED queue
     \/ /\ eviction[s] # "kNone"
        /\ victim' = s
        /\ UNCHANGED <<queue, dropped>>
  /\ UNCHANGED <<state, tail, seq, epc, cancelled, ring, slots, eviction,
                 callVars>>

\* TryPush returned false: evict the slot.
PublishEvict ==
  /\ epc = "fanout" /\ victim # None
  /\ Evict(victim, "kSlowConsumer")
  /\ victim' = None
  /\ UNCHANGED <<state, tail, seq, epc, live, cancelled, ring, slots, queue,
                 dropped, callVars>>

PublishDone ==
  /\ epc = "fanout" /\ live = {} /\ victim = None
  /\ epc' = "idle"
  /\ UNCHANGED <<state, tail, seq, live, victim, cancelled, ring, busVars,
                 callVars>>

\* TransitionToDisabled for any other fault, and the module's destructor.
Close ==
  /\ epc = "idle" /\ state \in {"Healthy", "Disabled"}
  /\ \/ state = "Healthy" /\ state' = "Disabling" /\ epc' = "evictAll"
     \/ state = "Healthy" /\ state' = "Releasing" /\ epc' = "evictAll"
     \/ state = "Disabled" /\ state' = "Released" /\ epc' = epc
  /\ UNCHANGED <<tail, seq, live, victim, cancelled, ring, busVars, callVars>>

\* DeltaBus::EvictAll: take every slot off the bus, then evict each.
EvictAllCapture ==
  /\ epc = "evictAll"
  /\ live' = slots
  /\ slots' = {}
  /\ epc' = "evicting"
  /\ UNCHANGED <<state, tail, seq, victim, cancelled, ring, slotVars,
                 callVars>>

EvictAllOne(s) ==
  /\ epc = "evicting" /\ s \in live
  /\ live' = live \ {s}
  /\ Evict(s, IF state = "Disabling" THEN "kFault" ELSE "kCanceled")
  /\ UNCHANGED <<state, tail, seq, epc, victim, cancelled, ring, slots, queue,
                 dropped, callVars>>

\* server_->Shutdown with a deadline: it returns with every call cancelled.
ServerShutdown ==
  /\ epc = "evicting" /\ live = {}
  /\ cancelled' = TRUE
  /\ \/ state = "Disabling" /\ state' = "Disabled" /\ tail' = TailEmits
     \/ state = "Releasing" /\ state' = "Released" /\ UNCHANGED tail
  /\ epc' = "idle"
  /\ UNCHANGED <<seq, live, victim, ring, busVars, callVars>>

Engine ==
  \/ Emit \/ EmitThrows \/ Close
  \/ PublishCapture \/ PublishEvict \/ PublishDone
  \/ EvictAllCapture \/ ServerShutdown
  \/ \E s \in Calls : PublishPush(s) \/ EvictAllOne(s)

(***************************************************************************)
(* The StreamState calls                                                   *)
(***************************************************************************)

\* Proceed on kCreated: register a slot on the bus, start the pump.
Subscribe(s) ==
  /\ stage[s] = "new"
  /\ \E r \in Resumes :
       /\ resume' = [resume EXCEPT ![s] = r]
       /\ last' = [last EXCEPT ![s] = r]
  /\ floor' = [floor EXCEPT ![s] = HeadSeq]
  /\ slots' = slots \cup {s}
  /\ stage' = [stage EXCEPT ![s] = "start"]
  /\ UNCHANGED <<engineVars, slotVars, backlog, fresh, base, sent,
                 status>>

\* PumpLoop step 1: ask the ring for what follows resume_from_seq.
Replay(s) ==
  /\ stage[s] = "start"
  /\ IF resume[s] > 0 /\ InRing(resume[s])
     THEN /\ stage' = [stage EXCEPT ![s] = "streaming"]
          /\ backlog' = [backlog EXCEPT ![s] = GetFromSeq(resume[s])]
          /\ base' = [base EXCEPT ![s] = resume[s]]
     ELSE /\ stage' = [stage EXCEPT ![s] = "baseline"]
          /\ UNCHANGED <<backlog, base>>
  /\ UNCHANGED <<engineVars, busVars, resume, floor, last, fresh, sent, status>>

\* Mutant: the snapshot is numbered like the next update.
BaselineAhead(s) ==
  /\ stage[s] = "baseline"
  /\ stage' = [stage EXCEPT ![s] = "streaming"]
  /\ backlog' = [backlog EXCEPT ![s] = <<HeadSeq + 1>>]
  /\ base' = [base EXCEPT ![s] = HeadSeq]
  /\ fresh' = [fresh EXCEPT ![s] = TRUE]
  /\ UNCHANGED <<engineVars, busVars, resume, floor, last, sent, status>>

\* No replay: build a snapshot under the shared lock, numbered HeadSeq().
Baseline(s) ==
  /\ stage[s] = "baseline"
  /\ stage' = [stage EXCEPT ![s] = "streaming"]
  /\ backlog' = [backlog EXCEPT ![s] = <<HeadSeq>>]
  /\ base' = [base EXCEPT ![s] = HeadSeq - 1]
  /\ fresh' = [fresh EXCEPT ![s] = TRUE]
  /\ UNCHANGED <<engineVars, busVars, resume, floor, last, sent, status>>

\* WriteAndWait returned true.
Write(s) ==
  /\ stage[s] = "streaming" /\ backlog[s] # <<>> /\ ~cancelled
  /\ sent' = [sent EXCEPT ![s] = Append(@, Head(backlog[s]))]
  /\ last' = [last EXCEPT ![s] = Head(backlog[s])]
  /\ backlog' = [backlog EXCEPT ![s] = Tail(@)]
  /\ UNCHANGED <<engineVars, busVars, stage, resume, floor, fresh, base, status>>

FinishWith(s, st) ==
  /\ stage' = [stage EXCEPT ![s] = "finished"]
  /\ status' = [status EXCEPT ![s] = st]
  /\ UNCHANGED <<engineVars, busVars, resume, floor, pumpVars>>

\* WriteAndWait returned false: the client is gone.
WriteFails(s) ==
  /\ stage[s] = "streaming" /\ backlog[s] # <<>>
  /\ FinishWith(s, "CANCELLED")

\* Mutant: no seq <= last_sent_seq filter.
PopUnfiltered(s) ==
  /\ stage[s] = "streaming" /\ backlog[s] = <<>> /\ queue[s] # <<>>
  /\ queue' = [queue EXCEPT ![s] = Tail(@)]
  /\ backlog' = [backlog EXCEPT ![s] = <<Head(queue[s])>>]
  /\ UNCHANGED <<engineVars, slots, eviction, dropped, stage,
                 resume, floor, last, fresh, base, sent, status>>

\* PumpLoop step 2: pop the slot, and skip what the baseline has covered.
Pop(s) ==
  /\ stage[s] = "streaming" /\ backlog[s] = <<>> /\ queue[s] # <<>>
  /\ queue' = [queue EXCEPT ![s] = Tail(@)]
  /\ backlog' = [backlog EXCEPT ![s] =
                   IF Head(queue[s]) <= last[s] THEN <<>>
                   ELSE <<Head(queue[s])>>]
  /\ UNCHANGED <<engineVars, slots, eviction, dropped, stage,
                 resume, floor, last, fresh, base, sent, status>>

\* BlockingPop returned false: evicted and drained.
PopEvicted(s) ==
  /\ stage[s] = "streaming" /\ backlog[s] = <<>> /\ queue[s] = <<>>
  /\ eviction[s] # "kNone"
  /\ FinishWith(s, CASE eviction[s] = "kSlowConsumer" -> "RESOURCE_EXHAUSTED"
                     [] eviction[s] = "kFault" -> "UNAVAILABLE"
                     [] OTHER -> "OK")

\* PumpLoop's catch blocks.
PumpThrows(s) ==
  /\ stage[s] \in {"start", "baseline", "streaming"}
  /\ FinishWith(s, "INTERNAL")

\* ~StreamStateCallData: DeltaBus::Unsubscribe.
Unsubscribe(s) ==
  /\ stage[s] = "finished"
  /\ Evict(s, "kCanceled")
  /\ slots' = slots \ {s}
  /\ stage' = [stage EXCEPT ![s] = "deleted"]
  /\ UNCHANGED <<engineVars, queue, dropped, resume, floor,
                 pumpVars, status>>

Pump(s) == Replay(s) \/ Baseline(s) \/ Write(s) \/ WriteFails(s) \/ Pop(s)

Call(s) == Subscribe(s) \/ Pump(s) \/ PopEvicted(s) \/ PumpThrows(s)
           \/ Unsubscribe(s)

Next == Engine \/ \E s \in Calls : Call(s)

Spec == Init /\ [][Next]_vars

(***************************************************************************)
(* Fairness: the engine thread finishes a Publish it has begun (its loops  *)
(* are bounded and take only short-held mutexes), and a pump with work     *)
(* runs.  That a Write completes one way or the other is the assumption on *)
(* the transport.  No fairness on client or operator steps.                *)
(***************************************************************************)
Publishing ==
  \/ PublishCapture \/ PublishEvict \/ PublishDone
  \/ \E s \in Calls : PublishPush(s)

FairSpec == Spec /\ WF_vars(Publishing) /\ \A s \in Calls : WF_vars(Pump(s))

-----------------------------------------------------------------------------
(* Properties *)

TypeOK ==
  /\ state \in States /\ tail \in 0..TailEmits /\ seq \in 0..MaxSeq
  /\ epc \in {"idle", "publish", "fanout", "evictAll", "evicting"}
  /\ live \subseteq Calls /\ victim \in Calls \cup {None}
  /\ cancelled \in BOOLEAN /\ ring \in Seq(Nat)
  /\ slots \subseteq Calls
  /\ queue \in [Calls -> Seq(Nat)]
  /\ eviction \in [Calls -> Reasons]
  /\ dropped \in [Calls -> Nat]
  /\ stage \in [Calls -> {"new", "start", "baseline", "streaming", "finished",
                          "deleted"}]
  /\ resume \in [Calls -> Nat] /\ floor \in [Calls -> Nat]
  /\ last \in [Calls -> Nat]
  /\ backlog \in [Calls -> Seq(Nat)]
  /\ fresh \in [Calls -> BOOLEAN] /\ base \in [Calls -> Int]
  /\ sent \in [Calls -> Seq(Nat)]
  /\ status \in [Calls -> Statuses]

\* What a client is sent is consecutive: from a snapshot, or from the update
\* after resume_from_seq when the ring replays, each message carries the next
\* sequence number, whatever the pump, the engine thread, a fault and an
\* eviction interleave to (PumpLoop subscribes before it takes its baseline
\* and drops payloads with seq <= last_sent_seq).
\* A snapshot is no older than the subscription.
GapFree ==
  \A s \in Calls :
    /\ \A i \in 1..Len(sent[s]) : sent[s][i] = base[s] + i
    /\ sent[s] # <<>> /\ ~fresh[s] => base[s] = resume[s]
    /\ fresh[s] => base[s] + 1 >= floor[s]

\* A call whose slot dropped an update never ends as if its stream were
\* complete: the pump reports slow-consumer eviction, unless its own Write
\* had failed or it threw first.
LossIsReported ==
  \A s \in Calls :
    dropped[s] > 0 => status[s] \in {"none", "RESOURCE_EXHAUSTED",
                                     "CANCELLED", "INTERNAL"}

\* A call is blamed for slow consumption only if its slot was really full
\* when the engine pushed.
SlowMeansFull ==
  \A s \in Calls : status[s] = "RESOURCE_EXHAUSTED" => dropped[s] > 0

\* Every update that reaches the ring is sent to a call whose pump streams,
\* unless the call is evicted or ends.
UpdatesReachStreams ==
  \A s \in Calls : \A n \in 1..MaxSeq :
    (stage[s] = "streaming" /\ HeadSeq >= n)
      ~> (last[s] >= n \/ eviction[s] # "kNone" \/ stage[s] # "streaming")

(***************************************************************************)
(* Why GapFree holds.  Until the calls are cancelled the ring is contiguous *)
(* up to HeadSeq, and for every call that is still pumping what was sent,   *)
(* what the pump holds, what its slot holds and what will be pushed next    *)
(* overlap without a hole.                                                  *)
(***************************************************************************)

Active(s) == stage[s] \in {"start", "baseline", "streaming"}

\* The newest update the call has sent or holds.  Before the baseline is
\* taken it is the head, whatever that will be.
Reach(s) ==
  IF stage[s] = "streaming" THEN base[s] + Len(sent[s]) + Len(backlog[s])
  ELSE HeadSeq

\* The number the next push on the slot of s will carry.
NextFor(s) ==
  IF epc = "publish" \/ (epc = "fanout" /\ s \in live) THEN HeadSeq
  ELSE HeadSeq + 1

\* The bus still delivers to s.
Attached(s) ==
  /\ Active(s) /\ s \in slots /\ eviction[s] = "kNone" /\ victim # s

RingContiguous ==
  /\ Len(ring) <= RingCapacity
  /\ \A i \in 1..Len(ring) : ring[i] = HeadSeq - Len(ring) + i
  /\ state = "Healthy" => HeadSeq = seq
  /\ epc \in {"publish", "fanout"} => state = "Healthy"

BacklogJoins(s) ==
  stage[s] = "streaming" =>
    /\ \A i \in 1..Len(backlog[s]) :
         backlog[s][i] = base[s] + Len(sent[s]) + i
    /\ backlog[s] = <<>> \/ sent[s] # <<>> => last[s] = base[s] + Len(sent[s])
    /\ Reach(s) <= HeadSeq

QueueJoins(s) ==
  Active(s) =>
    /\ \A i \in 1..Len(queue[s]) :
         /\ queue[s][i] = queue[s][1] + i - 1
         /\ queue[s][i] <= HeadSeq
    /\ queue[s] # <<>> => queue[s][1] <= Reach(s) + 1
    /\ Attached(s) => IF queue[s] = <<>> THEN NextFor(s) <= Reach(s) + 1
                      ELSE queue[s][Len(queue[s])] + 1 = NextFor(s)

\* Facts that hold even after the cancellation.
Background ==
  /\ HeadSeq <= seq
  /\ state \in {"Disabled", "Released"} => cancelled
  /\ victim # None => epc = "fanout"
  /\ \A s \in Calls :
       /\ floor[s] <= HeadSeq
       /\ stage[s] = "new" => s \notin slots \cup live /\ queue[s] = <<>>
       /\ stage[s] \in {"new", "start", "baseline"} =>
            /\ sent[s] = <<>> /\ backlog[s] = <<>> /\ ~fresh[s]
            /\ last[s] = resume[s]
       /\ epc = "fanout" /\ s \in live /\ eviction[s] = "kNone" =>
            s \in slots /\ victim # s
       /\ stage[s] = "streaming" /\ ~fresh[s] => base[s] = resume[s]

\* The inductive strengthening of GapFree: an update is in the ring, in the
\* slot or in the pump's hands before the pump can need it, on every
\* interleaving of Publish, Subscribe, the baseline and Evict.
StreamInv ==
  /\ TypeOK /\ Background /\ GapFree
  /\ ~cancelled => /\ RingContiguous
                   /\ \A s \in Calls : BacklogJoins(s) /\ QueueJoins(s)

\* Why the blame is right: a drop and the slow-consumer reason imply each
\* other, except between TryPush's false and Evict, and on a call that had
\* already ended for a reason of its own.
BlameInv ==
  /\ victim # None => epc = "fanout"
  /\ \A s \in Calls :
       /\ stage[s] \notin {"finished", "deleted"} => status[s] = "none"
       /\ eviction[s] = "kNone" => status[s] \in {"none", "CANCELLED", "INTERNAL"}
       /\ victim = s /\ eviction[s] = "kNone" => dropped[s] > 0
       /\ eviction[s] = "kSlowConsumer" => dropped[s] > 0
       /\ dropped[s] > 0 =>
            \/ victim = s /\ eviction[s] = "kNone"
            \/ eviction[s] = "kSlowConsumer"
            \/ stage[s] = "deleted"
       /\ dropped[s] > 0 => status[s] \notin {"OK", "UNAVAILABLE"}
       /\ status[s] = "RESOURCE_EXHAUSTED" => dropped[s] > 0

\* The refinement mapping.
PhaseOf(s) ==
  CASE stage[s] = "new" -> "new"
    [] stage[s] \in {"finished", "deleted"} -> "ended"
    [] Active(s) /\ sent[s] = <<>> -> "asked"
    [] Active(s) /\ sent[s] # <<>> -> "open"

PosOf(s) == IF sent[s] = <<>> THEN 0 ELSE last[s]

Contract == INSTANCE StreamContract WITH
  head <- HeadSeq,
  phase <- [s \in Calls |-> PhaseOf(s)],
  asked <- resume,
  pos <- [s \in Calls |-> PosOf(s)]

\* Ring, bus, slots and pumps together keep the promise of StreamContract.
KeepsContract == Contract!Spec
=============================================================================
