---------------------------- MODULE MCCallbackWq ----------------------------
(* Three waiters, posted by two threads, drained by two workers.             *)
EXTENDS CallbackWq
=============================================================================
