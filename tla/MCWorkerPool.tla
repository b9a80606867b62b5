------------------------------ MODULE MCWorkerPool ------------------------------
(***************************************************************************)
(* Small instances of WorkerPool.  The schedulers are numbers, and they    *)
(* are released in this order: which one is which has no meaning.          *)
(***************************************************************************)
EXTENDS WorkerPool

InOrder == at' # "idle" => \A r \in 1..target'-1 : life'[r] = "gone"
================================================================================
