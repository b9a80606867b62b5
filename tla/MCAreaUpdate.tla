------------------------------ MODULE MCAreaUpdate ------------------------------
(***************************************************************************)
(* Small instances of AreaUpdate: the first two AIs are allies, the last   *)
(* one is alone.                                                           *)
(***************************************************************************)
EXTENDS AreaUpdate

MCTeam == [a \in AIs |-> IF a <= 2 THEN "allies" ELSE "alone"]
================================================================================
