---------------------------- MODULE CoordinatorLink ----------------------------
(***************************************************************************)
(* Client mode: the CoordinatorClient's bounded push queue between the     *)
(* engine thread and its push thread, the PushState stream, the command    *)
(* channel's reader thread, and the destructor that stops both.            *)
(*                                                                         *)
(* An update is its sequence number.  What a command batch holds and how   *)
(* it is admitted is the matter of CommandPath.                            *)
(***************************************************************************)
EXTENDS Integers, Sequences, FiniteSets

CONSTANTS MaxQueued,  \* kMaxQueuedPushUpdates, 256
          MaxSeq      \* bound: updates the engine produces

ASSUME QueueAssumption == MaxQueued \in Nat \ {0} /\ MaxSeq \in Nat

VARIABLES
  \* The engine thread.
  epc,        \* "run"; "pushed" in PushStateUpdate; in the destructor "notify", "cancelPush",
              \*   "joinPush", "stopReader", "cancelReader", "joinReader"; "gone"
  seq,        \* seq_, numbers taken since the client was made
  burnt,      \* numbers taken by an update that was never handed over
  faultAt,    \* the first of them, which disabled the gateway; 0 before
  \* The push queue, under push_queue_mutex_.
  pushQueue,  \* push_queue_
  dropped,    \* push_dropped_count_
  \* The push thread.
  ppc,        \* "loop", "locked", "falling" (about to sleep), "asleep",
              \*   "popped", "opening", "registered", "opened", "write", "closing", "done"
  hand,       \* the update it took, 0 when none
  pushStopping,
  pushCtx,    \* push_ctx_: "none", "live" or "cancelled"
  streamOpen, \* push_stream_open_ (and push_writer_)
  streams,    \* PushState streams opened so far
  received,   \* what a stream took: [stream, seq] records
  lost,       \* updates taken from the queue that no stream took
  \* The reader thread.
  rpc,        \* "off", "loop", "connect", "reading", "closed", "backoff", "exit"
  cmdStopping,
  cmdCtx,     \* cmd_ctx_: "none", "live" or "cancelled"
  ended       \* how the server ended the channel, "no" while it did not

numberVars == <<seq, burnt, faultAt>>
engineVars == <<epc, seq, burnt, faultAt>>
queueVars == <<pushQueue, dropped>>
pushVars == <<ppc, hand, pushStopping, pushCtx, streamOpen, streams, received, lost>>
readerVars == <<rpc, cmdStopping, cmdCtx, ended>>
linkVars == <<engineVars, queueVars, pushVars, readerVars>>

EnginePlaces == {"run", "pushed", "notify", "cancelPush", "joinPush", "stopReader",
                 "cancelReader", "joinReader", "gone"}
Ctx == {"none", "live", "cancelled"}

\* One type invariant for the engine, the queue and the two threads.
LinkTypeOK ==
  /\ epc \in EnginePlaces
  /\ seq \in 0..MaxSeq
  /\ pushQueue \in Seq(1..MaxSeq) /\ Len(pushQueue) <= MaxQueued
  /\ burnt \in Nat /\ faultAt \in 0..MaxSeq
  /\ dropped \in Nat /\ lost \in Nat /\ streams \in Nat
  /\ ppc \in {"loop", "locked", "falling", "asleep", "popped", "opening", "registered",
              "opened", "write", "closing", "done"}
  /\ hand \in 0..MaxSeq
  /\ received \in Seq([stream : Nat, seq : 1..MaxSeq])
  /\ rpc \in {"off", "loop", "connect", "reading", "closed", "backoff", "exit"}
  /\ {pushCtx, cmdCtx} \subseteq Ctx
  /\ ended \in {"no", "ok", "error", "cancelled"}
  /\ {pushStopping, cmdStopping, streamOpen} \subseteq BOOLEAN

LinkInit ==
  /\ epc = "run" /\ seq = 0 /\ burnt = 0 /\ faultAt = 0
  /\ pushQueue = <<>> /\ dropped = 0
  /\ ppc = "loop" /\ hand = 0 /\ pushStopping = FALSE /\ pushCtx = "none"
  /\ streamOpen = FALSE /\ streams = 0 /\ received = <<>> /\ lost = 0
  /\ rpc = "off" /\ cmdStopping = FALSE /\ cmdCtx = "none" /\ ended = "no"

--------------------------------------------------------------------------------
(* The engine thread.                                                      *)

QueueLockFree == ppc \notin {"locked", "falling"}

\* A notification reaches the push thread only when it sleeps.
Notified == IF ppc = "asleep" THEN "locked" ELSE ppc

\* A tick takes at most two numbers after one whose fault disabled the gateway
\* (the initial snapshot is followed by the scheduler's and by a delta or
\* keep-alive); no later tick takes any.
MaxAfterFault == 2
TakesNumber ==
  /\ epc = "run" /\ seq < MaxSeq
  /\ faultAt = 0 \/ seq < faultAt + MaxAfterFault
  /\ seq' = seq + 1

\* Mutant: the newest waiting update is the one dropped, and not counted.
PushSilently ==
  /\ TakesNumber /\ QueueLockFree
  /\ IF Len(pushQueue) >= MaxQueued
     THEN /\ pushQueue' = Append(Tail(pushQueue), seq + 1)
          /\ UNCHANGED dropped
     ELSE /\ pushQueue' = Append(pushQueue, seq + 1)
          /\ UNCHANGED dropped
  /\ epc' = "pushed"
  /\ UNCHANGED <<burnt, faultAt, ppc, hand, pushStopping, pushCtx, streamOpen, streams,
                 received, lost, readerVars>>

\* Mutant: an update may go in while the push thread falls asleep.
PushUnlocked ==
  /\ TakesNumber
  /\ IF Len(pushQueue) >= MaxQueued
     THEN /\ pushQueue' = Append(Tail(pushQueue), seq + 1)
          /\ dropped' = dropped + 1
     ELSE /\ pushQueue' = Append(pushQueue, seq + 1)
          /\ UNCHANGED dropped
  /\ epc' = "pushed"
  /\ UNCHANGED <<burnt, faultAt, ppc, hand, pushStopping, pushCtx, streamOpen, streams,
                 received, lost, readerVars>>

\* FlushDelta, EmitKeepAlive and BroadcastSnapshot number an update and hand it
\* over; a full queue loses its oldest update.
PushStateUpdate ==
  /\ TakesNumber /\ QueueLockFree
  /\ IF Len(pushQueue) >= MaxQueued
     THEN /\ pushQueue' = Append(Tail(pushQueue), seq + 1)
          /\ dropped' = dropped + 1
     ELSE /\ pushQueue' = Append(pushQueue, seq + 1)
          /\ UNCHANGED dropped
  /\ epc' = "pushed"
  /\ UNCHANGED <<burnt, faultAt, ppc, hand, pushStopping, pushCtx, streamOpen, streams,
                 received, lost, readerVars>>

\* The number is taken first: when the snapshot, its serialization or the fan-out
\* throws, the update is never handed over and the gateway is disabled.
UpdateThrows ==
  /\ TakesNumber
  /\ burnt' = burnt + 1
  /\ faultAt' = IF faultAt = 0 THEN seq + 1 ELSE faultAt
  /\ UNCHANGED <<epc, queueVars, pushVars, readerVars>>

\* It notifies once it has released the lock.
PushNotifies ==
  /\ epc = "pushed" /\ epc' = "run"
  /\ ppc' = Notified
  /\ UNCHANGED <<numberVars, queueVars, hand, pushStopping, pushCtx, streamOpen, streams,
                 received, lost, readerVars>>

\* StartCommandChannel, once, when the client is made.
StartCommandChannel ==
  /\ epc = "run" /\ rpc = "off"
  /\ rpc' = "loop"
  /\ UNCHANGED <<engineVars, queueVars, pushVars, cmdStopping, cmdCtx, ended>>

\* The destructor, step by step: it takes neither lock to set the flags.
DtorStop ==
  /\ epc = "run" /\ epc' = "notify"
  /\ pushStopping' = TRUE
  /\ UNCHANGED <<numberVars, queueVars, ppc, hand, pushCtx, streamOpen, streams, received,
                 lost,
                 readerVars>>

DtorNotify ==
  /\ epc = "notify" /\ epc' = "cancelPush"
  /\ ppc' = Notified
  /\ UNCHANGED <<numberVars, queueVars, hand, pushStopping, pushCtx, streamOpen, streams,
                 received, lost, readerVars>>

DtorCancelPush ==
  /\ epc = "cancelPush" /\ epc' = "joinPush"
  /\ pushCtx' = IF pushCtx = "live" THEN "cancelled" ELSE pushCtx
  /\ UNCHANGED <<numberVars, queueVars, ppc, hand, pushStopping, streamOpen, streams, received,
                 lost, readerVars>>

DtorJoinPush ==
  /\ epc = "joinPush" /\ ppc = "done" /\ epc' = "stopReader"
  /\ UNCHANGED <<numberVars, queueVars, pushVars, readerVars>>

DtorStopReader ==
  /\ epc = "stopReader" /\ epc' = "cancelReader"
  /\ cmdStopping' = TRUE
  /\ UNCHANGED <<numberVars, queueVars, pushVars, rpc, cmdCtx, ended>>

\* TryCancel on whatever cmd_ctx_ is at this moment.
DtorCancelReader ==
  /\ epc = "cancelReader" /\ epc' = "joinReader"
  /\ cmdCtx' = IF cmdCtx = "live" THEN "cancelled" ELSE cmdCtx
  /\ UNCHANGED <<numberVars, queueVars, pushVars, rpc, cmdStopping, ended>>

DtorJoinReader ==
  /\ epc = "joinReader" /\ rpc \in {"off", "exit"} /\ epc' = "gone"
  /\ UNCHANGED <<numberVars, queueVars, pushVars, readerVars>>

Dtor == \/ DtorNotify \/ DtorCancelPush \/ DtorJoinPush \/ DtorStopReader
        \/ DtorCancelReader \/ DtorJoinReader

--------------------------------------------------------------------------------
(* The push thread: PushWorkerLoop.                                        *)

\* The test of the loop, then the lock.
PushLoop ==
  /\ ppc = "loop"
  /\ ppc' = IF pushStopping THEN "closing" ELSE "locked"
  /\ UNCHANGED <<engineVars, queueVars, hand, pushStopping, pushCtx, streamOpen, streams,
                 received, lost, readerVars>>

\* The predicate of the wait is false; the lock is still held.
PushFindsNothing ==
  /\ ppc = "locked" /\ ~pushStopping /\ pushQueue = <<>>
  /\ ppc' = "falling"
  /\ UNCHANGED <<engineVars, queueVars, hand, pushStopping, pushCtx, streamOpen, streams,
                 received, lost, readerVars>>

\* wait releases the lock and blocks in one step.
PushSleeps ==
  /\ ppc = "falling"
  /\ ppc' = "asleep"
  /\ UNCHANGED <<engineVars, queueVars, hand, pushStopping, pushCtx, streamOpen, streams,
                 received, lost, readerVars>>

\* The standard allows a wait to return for no reason.
PushWakesByItself ==
  /\ ppc = "asleep"
  /\ ppc' = "locked"
  /\ UNCHANGED <<engineVars, queueVars, hand, pushStopping, pushCtx, streamOpen, streams,
                 received, lost, readerVars>>

\* The predicate is true: break out, or take the front.
PushTakes ==
  /\ ppc = "locked" /\ (pushStopping \/ pushQueue # <<>>)
  /\ \/ /\ pushStopping
        /\ ppc' = "closing"
        /\ UNCHANGED <<pushQueue, hand>>
     \/ /\ ~pushStopping
        /\ ppc' = "popped"
        /\ hand' = Head(pushQueue) /\ pushQueue' = Tail(pushQueue)
  /\ UNCHANGED <<engineVars, dropped, pushStopping, pushCtx, streamOpen, streams, received,
                 lost, readerVars>>

\* With the update in hand: stop, go on with the open stream, or open one.
PushReady ==
  /\ ppc = "popped"
  /\ \/ /\ pushStopping
        /\ ppc' = "closing" /\ hand' = 0 /\ lost' = lost + 1
     \/ /\ ~pushStopping
        /\ ppc' = IF streamOpen THEN "opened" ELSE "opening"
        /\ UNCHANGED <<hand, lost>>
  /\ UNCHANGED <<engineVars, queueVars, pushStopping, pushCtx, streamOpen, streams, received,
                 readerVars>>

\* OpenPushStateStream makes a context the destructor can cancel.
PushRegisters ==
  /\ ppc = "opening"
  /\ ppc' = "registered"
  /\ pushCtx' = "live"
  /\ UNCHANGED <<engineVars, queueVars, hand, pushStopping, streamOpen, streams, received,
                 lost, readerVars>>

\* Mutant: the new context is not cancelled when the destructor was faster.
PushOpensUnaware ==
  /\ ppc = "registered"
  /\ ppc' = "opened" /\ streamOpen' = TRUE /\ streams' = streams + 1
  /\ UNCHANGED <<engineVars, queueVars, pushStopping, received, readerVars, pushCtx, hand, lost>>

\* The rest of OpenPushStateStream: a context registered after the destructor's
\* TryCancel is cancelled here; the stub may give no writer.
PushOpens ==
  /\ ppc = "registered"
  /\ \/ /\ streamOpen' = TRUE /\ streams' = streams + 1
        /\ pushCtx' = IF pushStopping THEN "cancelled" ELSE pushCtx
        /\ ppc' = "opened"
        /\ UNCHANGED <<hand, lost>>
     \/ /\ pushCtx' = "none"
        /\ ppc' = "loop" /\ hand' = 0 /\ lost' = lost + 1
        /\ UNCHANGED <<streamOpen, streams>>
  /\ UNCHANGED <<engineVars, queueVars, pushStopping, received, readerVars>>

\* Stopping is tested once more before the write.
PushChecks ==
  /\ ppc = "opened"
  /\ \/ /\ pushStopping
        /\ ppc' = "closing" /\ hand' = 0 /\ lost' = lost + 1
     \/ /\ ~pushStopping
        /\ ppc' = "write"
        /\ UNCHANGED <<hand, lost>>
  /\ UNCHANGED <<engineVars, queueVars, pushStopping, pushCtx, streamOpen, streams, received,
                 readerVars>>

\* Write returns true: the stream took the update.  Whether the coordinator read
\* it before the stream broke is not known on this side.
PushWrites ==
  /\ ppc = "write" /\ pushCtx = "live"
  /\ received' = Append(received, [stream |-> streams, seq |-> hand])
  /\ ppc' = "loop" /\ hand' = 0
  /\ UNCHANGED <<engineVars, queueVars, pushStopping, pushCtx, streamOpen, streams, lost,
                 readerVars>>

\* Mutant: the broken stream is not closed.
PushBreaksOn ==
  /\ ppc = "write"
  /\ ppc' = "loop" /\ hand' = 0 /\ lost' = lost + 1
  /\ UNCHANGED <<engineVars, queueVars, pushStopping, pushCtx, streamOpen, streams, received,
                 readerVars>>

\* Write returns false: the stream is closed, the update is not kept.
PushBreaks ==
  /\ ppc = "write"
  /\ ppc' = "loop" /\ hand' = 0 /\ lost' = lost + 1
  /\ streamOpen' = FALSE /\ pushCtx' = "none"
  /\ UNCHANGED <<engineVars, queueVars, pushStopping, streams, received, readerVars>>

\* ClosePushStateStream at the end of the loop: Finish waits for the coordinator
\* unless the context is cancelled.
PushCloses ==
  /\ ppc = "closing"
  /\ ppc' = "done"
  /\ streamOpen' = FALSE
  /\ pushCtx' = IF streamOpen THEN "none" ELSE pushCtx
  /\ UNCHANGED <<engineVars, queueVars, hand, pushStopping, streams, received, lost,
                 readerVars>>

\* What the push thread does by itself, the coordinator answering or not.
PushThread ==
  \/ PushLoop \/ PushFindsNothing \/ PushSleeps \/ PushTakes \/ PushReady
  \/ PushRegisters \/ PushOpens \/ PushChecks
  \/ pushCtx = "cancelled" /\ (PushBreaks \/ PushCloses)
  \/ ~streamOpen /\ PushCloses

PushNext == PushThread \/ PushWakesByItself \/ PushWrites \/ PushBreaks \/ PushCloses

--------------------------------------------------------------------------------
(* The reader thread: CommandReaderLoop.                                   *)

\* The loop's test.
ReadLoop ==
  /\ rpc = "loop"
  /\ rpc' = IF cmdStopping THEN "exit" ELSE "connect"
  /\ UNCHANGED <<engineVars, queueVars, pushVars, cmdStopping, cmdCtx, ended>>

\* A new context, and OpenCommandChannel on it; the stub may give no reader.
ReadOpens ==
  /\ rpc = "connect"
  /\ cmdCtx' = "live"
  /\ \/ rpc' = "reading" /\ ended' = "no"
     \/ rpc' = "backoff" /\ UNCHANGED ended
  /\ UNCHANGED <<engineVars, queueVars, pushVars, cmdStopping>>

\* Read returns false, for the server's reasons or for the cancelled context.
ReadEnds ==
  /\ rpc = "reading"
  /\ rpc' = "closed"
  /\ \/ cmdCtx = "cancelled" /\ ended' = "cancelled"
     \/ cmdCtx = "live" /\ ended' \in {"ok", "error", "cancelled"}
  /\ UNCHANGED <<engineVars, queueVars, pushVars, cmdStopping, cmdCtx>>

\* Mutant: a channel the server finished in good order is not opened again.
ReadFinishesForGood ==
  /\ rpc = "closed"
  /\ rpc' = IF ended \in {"cancelled", "ok"} \/ cmdStopping THEN "exit" ELSE "backoff"
  /\ UNCHANGED <<engineVars, queueVars, pushVars, cmdStopping, cmdCtx, ended>>

\* Finish, and the test of stopping: CANCELLED leaves the loop.
ReadFinishes ==
  /\ rpc = "closed"
  /\ rpc' = IF ended = "cancelled" \/ cmdStopping THEN "exit" ELSE "backoff"
  /\ UNCHANGED <<engineVars, queueVars, pushVars, cmdStopping, cmdCtx, ended>>

\* The sleep before the next attempt.
ReadBackoff ==
  /\ rpc = "backoff"
  /\ rpc' = IF cmdStopping THEN "exit" ELSE "loop"
  /\ UNCHANGED <<engineVars, queueVars, pushVars, cmdStopping, cmdCtx, ended>>

ReaderThread == \/ ReadLoop \/ ReadOpens \/ ReadFinishes \/ ReadBackoff
                \/ cmdCtx = "cancelled" /\ ReadEnds

Engine ==
  \/ PushStateUpdate \/ UpdateThrows \/ PushNotifies \/ StartCommandChannel \/ DtorStop \/ Dtor

LinkNext == Engine \/ PushNext \/ ReaderThread \/ ReadEnds

LinkSpec == LinkInit /\ [][LinkNext]_linkVars

\* The threads run and so does an update or a destructor that began; the
\* coordinator need not answer, but a call on a cancelled context returns.
LinkFairSpec ==
  /\ LinkSpec
  /\ WF_linkVars(PushThread) /\ WF_linkVars(ReaderThread)
  /\ WF_linkVars(PushNotifies \/ Dtor)
  /\ SF_linkVars(ReadOpens /\ rpc' = "reading")

--------------------------------------------------------------------------------
(* What must hold.                                                         *)

\* PushStateUpdate and PushWorkerLoop: every number the engine took was burnt by
\* a fault, or its update was taken by a stream, or counted as dropped, or lost by
\* a failed stream, or is still on its way; none is there twice.
UpdatesAccounted ==
  seq = burnt + Len(received) + dropped + lost + Len(pushQueue)
        + (IF hand = 0 THEN 0 ELSE 1)

\* What the streams of the match take has rising sequence numbers, over all of
\* them.
ReceivedInOrder ==
  \A i \in 1..(Len(received) - 1) : received[i].seq < received[i + 1].seq

\* PushStateUpdate notifies after it has released the lock, and no wake-up is
\* lost: a push thread about to sleep has nothing queued, and one that sleeps over
\* an update is about to be notified.
UpdatesAreSignalled ==
  /\ ppc = "falling" => pushQueue = <<>>
  /\ ppc = "asleep" /\ pushQueue # <<>> => epc = "pushed"

\* The updates missing between two neighbours of the same stream.
Missing ==
  {n \in 1..MaxSeq : \E i \in 1..(Len(received) - 1) :
     /\ received[i].stream = received[i + 1].stream
     /\ received[i].seq < n /\ n < received[i + 1].seq}

\* PushStateUpdate counts what it drops: the numbers missing inside streams are
\* never more than push_dropped_count_ says, plus those burnt by updates that
\* threw before they were handed over.
GapsAreCounted == Cardinality(Missing) <= dropped + burnt

\* ~CoordinatorClient and OpenPushStateStream: once the destructor has cancelled
\* and joins, the push thread is in no Write and no Finish that nothing will
\* cancel, also when it opened the stream behind the destructor's back.
CancelReachesPush ==
  epc = "joinPush" /\ ppc \in {"write", "closing"} /\ streamOpen => pushCtx = "cancelled"

\* PushWorkerLoop sleeps only while there is nothing to push: an update in the
\* queue is taken up.
UpdatesAreTaken ==
  \A n \in 1..MaxSeq :
    (pushQueue # <<>> /\ Head(pushQueue) = n)
    ~> (pushQueue = <<>> \/ Head(pushQueue) # n \/ pushStopping \/ ppc = "write")

\* CommandReaderLoop: after the server ended the channel, in good order or with
\* an error, it is opened again unless the client is stopping.
ReaderReconnects == (ended \in {"ok", "error"}) ~> (ended = "no" \/ cmdStopping)
================================================================================
