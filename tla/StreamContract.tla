---------------------------- MODULE StreamContract ----------------------------
(***************************************************************************)
(* What StreamState promises its clients, without ring, slots or threads:  *)
(* the feed has a growing head, and a stream is a cursor on it that starts *)
(* where the client asked to resume or at a recent snapshot, advances by    *)
(* one, never overtakes the head, and does not move once it has ended.  *)
(***************************************************************************)
EXTENDS Naturals

CONSTANT Calls

VARIABLES head,   \* the sequence number of the newest update
          phase,  \* "new", "asked", "open" or "ended"
          asked,  \* the sequence number the client wants to resume after
          floor,  \* the head when the client asked
          pos     \* the sequence number of the last message delivered

vars == <<head, phase, asked, floor, pos>>

Init ==
  /\ head = 0
  /\ phase = [s \in Calls |-> "new"]
  /\ asked = [s \in Calls |-> 0]
  /\ floor = [s \in Calls |-> 0]
  /\ pos = [s \in Calls |-> 0]

Publish ==
  /\ head' \in Nat /\ head' > head
  /\ UNCHANGED <<phase, asked, floor, pos>>

Ask(s) ==
  /\ phase[s] = "new"
  /\ phase' = [phase EXCEPT ![s] = "asked"]
  /\ asked'[s] \in Nat
  /\ asked' = [asked EXCEPT ![s] = asked'[s]]
  /\ floor' = [floor EXCEPT ![s] = head]
  /\ UNCHANGED <<head, pos>>

\* The first message is the update after `asked`, or a snapshot at least as
\* recent as the request.
Open(s) ==
  /\ phase[s] = "asked"
  /\ phase' = [phase EXCEPT ![s] = "open"]
  /\ \/ asked[s] < head /\ pos' = [pos EXCEPT ![s] = asked[s] + 1]
     \/ \E n \in floor[s]..head : pos' = [pos EXCEPT ![s] = n]
  /\ UNCHANGED <<head, asked, floor>>

Deliver(s) ==
  /\ phase[s] = "open" /\ pos[s] < head
  /\ pos' = [pos EXCEPT ![s] = @ + 1]
  /\ UNCHANGED <<head, phase, asked, floor>>

End(s) ==
  /\ phase[s] \in {"asked", "open"}
  /\ phase' = [phase EXCEPT ![s] = "ended"]
  /\ UNCHANGED <<head, asked, floor, pos>>

Next == Publish \/ \E s \in Calls : Ask(s) \/ Open(s) \/ Deliver(s) \/ End(s)

Spec == Init /\ [][Next]_vars
=============================================================================
