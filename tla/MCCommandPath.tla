----------------------------- MODULE MCCommandPath -----------------------------
(***************************************************************************)
(* Instances of CommandPath for TLC.                                       *)
(***************************************************************************)
EXTENDS CommandPath

CONSTANTS c1, c2, u1

MCCalls == {c1, c2}
MCUnits == {u1}

B(n, l, t) == [seq |-> n, len |-> l, target |-> t]

\* Two sequence numbers, single commands and a pair, a batch for the game, an
\* empty batch and one with sequence number 0.
MCBatches == {B(1, 1, u1), B(1, 2, u1), B(2, 1, Game), B(2, 0, u1), B(0, 1, u1)}
================================================================================
