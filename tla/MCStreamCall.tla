----------------------------- MODULE MCStreamCall -----------------------------
(***************************************************************************)
(* StreamCall for TLC: the names of the call objects.                      *)
(***************************************************************************)
EXTENDS StreamCall

CONSTANTS c1, c2, c3
=============================================================================
