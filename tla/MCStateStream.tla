---------------------------- MODULE MCStateStream ----------------------------
(***************************************************************************)
(* StateStream for TLC, with one call.                                     *)
(***************************************************************************)
EXTENDS StateStream

CONSTANT c1
=============================================================================
