------------------------------ MODULE MCExecutor ------------------------------
(* Executor with two workers, one outside thread, one-shot and service nodes. *)
EXTENDS Executor
=============================================================================
