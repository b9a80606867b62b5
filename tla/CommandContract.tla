---------------------------- MODULE CommandContract ----------------------------
(***************************************************************************)
(* What the command path promises whoever had a batch accepted: the        *)
(* commands of a batch enter as one block, commands are taken up one at a  *)
(* time in the order they entered, each once, and they are lost only when  *)
(* the gateway closes.  Threads, calls and the queue are not visible here. *)
(***************************************************************************)
EXTENDS Integers, Sequences

CONSTANTS Blocks,   \* the sequences of commands a batch may stand for
          Bound     \* how many accepted commands may be outstanding

VARIABLES pending,  \* accepted commands that were not taken up yet
          closed    \* the frame that disabled the gateway is over

vars == <<pending, closed>>

Init == pending = <<>> /\ closed = FALSE

Accept ==
  /\ \E b \in Blocks : pending' = pending \o b
  /\ Len(pending') <= Bound
  /\ UNCHANGED closed

TakeUp ==
  /\ ~closed /\ pending # <<>>
  /\ pending' = Tail(pending)
  /\ UNCHANGED closed

\* Closing may lose the commands at the front; nothing is taken up after it.
Close ==
  /\ ~closed /\ closed' = TRUE
  /\ \E n \in 0..Len(pending) : pending' = SubSeq(pending, n + 1, Len(pending))

Next == Accept \/ TakeUp \/ Close

Spec == Init /\ [][Next]_vars
================================================================================
