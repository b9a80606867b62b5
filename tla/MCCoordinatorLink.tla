-------------------------- MODULE MCCoordinatorLink --------------------------
(* Small instances of CoordinatorLink. *)
EXTENDS CoordinatorLink
================================================================================
