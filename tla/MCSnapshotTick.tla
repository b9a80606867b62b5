----------------------------- MODULE MCSnapshotTick -----------------------------
(***************************************************************************)
(* Instances of SnapshotTick for TLC.                                      *)
(***************************************************************************)
EXTENDS SnapshotTick

CONSTANTS r1, r2

MCRequests == {r1, r2}
================================================================================
