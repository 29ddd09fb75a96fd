----------------------------- MODULE MCSemaphore -----------------------------
(* Three coroutines and a signalling thread on two workers.                  *)
EXTENDS Semaphore
=============================================================================
