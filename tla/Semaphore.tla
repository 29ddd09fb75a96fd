------------------------------ MODULE Semaphore ------------------------------
(***************************************************************************)
(* Semaphore<lock> and its plain awaiter (sync/semaphore.hpp) on the       *)
(* executor.  The semaphore has no lock of its own: it borrows the         *)
(* executor's, and it is itself a worknode whose function, sem_chk_cb,     *)
(* hands tokens to the waiters.                                            *)
(*                                                                         *)
(* Coroutines run `co_await wait_sem(sem); ...; sem.release();' in a loop; *)
(* other threads may call release() as well (a signal).  Critical sections *)
(* are single actions, except the loop of sem_chk_cb: each turn is a step, *)
(* taken with the lock held.  The executor's sleeping and waking is the    *)
(* business of module Executor; here a free worker may take any queued     *)
(* node at any time.                                                       *)
(***************************************************************************)
EXTENDS WorkQueue, FiniteSets

CONSTANTS
    Reqs,         \* coroutines, each with the Sem_req of its current co_await
    Workers,      \* executor threads
    Signallers,   \* other threads that call release()
    SemNode,      \* the Semaphore as a worknode
    NoReq, NoThread,
    InitVal, MaxVal,
    MaxIssued,    \* bound on the tokens in circulation
    Destroy       \* when ~Semaphore may run: "never", "quiescent" (its node is
                  \* not in flight) or "visible" (no call of the API is active)

ASSUME SemaphoreAssumption ==
    /\ IsFiniteSet(Reqs)
    /\ Nodes = Reqs \cup {SemNode}
    /\ SemNode \notin Reqs /\ NoReq \notin Reqs
    /\ NoThread \notin Workers
    /\ InitVal \in Nat /\ MaxVal \in Nat /\ InitVal <= MaxVal
    /\ MaxIssued \in Nat
    /\ Destroy \in {"never", "quiescent", "visible"}

VARIABLES
    lk,            \* holder of the executor's lock between two steps
    cur_val, acquire_list,
    alive,         \* ~Semaphore has not run
    co,            \* what each coroutine is doing
    pc, running,   \* where each worker is, and the coroutine it resumed
    pos,           \* the loop of sem_chk_cb: index of the entry it looks at
    sigPc,         \* signalling threads
    issued         \* tokens in circulation: ghost, read by no action but
                   \* through the bound MaxIssued

semVars == <<lk, cur_val, acquire_list, alive, pos, issued>>
vars == <<queue, semVars, co, pc, running, sigPc>>

CoStates == {"ready",    \* posted by post_to, owns nothing
             "free",     \* running, owns nothing
             "waiting",  \* on acquire_list
             "granted",  \* on the run queue with a token
             "hold",     \* running with a token
             "failed",   \* on the run queue with REQ_FAIL
             "done"}
WorkerPcs == {"idle", "run", "suspend", "post", "chk", "chklock", "loop"}

Goto(w, p) == pc' = [pc EXCEPT ![w] = p]

(* Every coroutine has been given to the executor by post_to, in some order. *)
Init ==
    /\ queue \in { q \in [1 .. Cardinality(Reqs) -> Reqs] :
                      NoDuplicates(q) /\ \A r \in Reqs : OnList(q, r) }
    /\ lk = NoThread
    /\ cur_val = InitVal
    /\ acquire_list = << >>
    /\ alive = TRUE
    /\ co = [r \in Reqs |-> "ready"]
    /\ pc = [w \in Workers |-> "idle"]
    /\ running = [w \in Workers |-> NoReq]
    /\ pos = 1
    /\ sigPc = [s \in Signallers |-> "idle"]
    /\ issued = InitVal

-----------------------------------------------------------------------------
(* Executor threads.                                                       *)

(* work_once takes the head of the queue: the semaphore's node starts       *)
(* sem_chk_cb, a request's node resumes its coroutine.                      *)
TakeSem(w) ==
    /\ pc[w] = "idle"
    /\ lk = NoThread
    /\ queue # << >> /\ Head(queue) = SemNode
    /\ queue' = Tail(queue)
    /\ Goto(w, "chk")
    /\ UNCHANGED <<semVars, co, running, sigPc>>

TakeReq(w) ==
    /\ pc[w] = "idle"
    /\ lk = NoThread
    /\ queue # << >> /\ Head(queue) # SemNode
    /\ queue' = Tail(queue)
    /\ running' = [running EXCEPT ![w] = Head(queue)]
    /\ co' = [co EXCEPT ![Head(queue)] = IF @ = "granted" THEN "hold" ELSE "free"]
    /\ Goto(w, "run")
    /\ UNCHANGED <<semVars, sigPc>>

(* SemReqAwaiter::await_ready: try_acquire.                                 *)
AwaitReady(w) ==
    /\ pc[w] = "run" /\ co[running[w]] = "free"
    /\ alive
    /\ lk = NoThread
    /\ \/ /\ cur_val > 0
          /\ cur_val' = cur_val - 1
          /\ co' = [co EXCEPT ![running[w]] = "hold"]
          /\ UNCHANGED pc
       \/ /\ cur_val = 0
          /\ Goto(w, "suspend")
          /\ UNCHANGED <<cur_val, co>>
    /\ UNCHANGED <<queue, lk, acquire_list, alive, pos, issued, running, sigPc>>

(* SemReqAwaiter::await_suspend: acquire looks at the value again under the *)
(* lock.  With a token the request goes straight to the run queue, past the *)
(* waiters; without one it joins them.  The worker is free again.           *)
AwaitSuspend(w) ==
    LET r == running[w]
    IN  /\ pc[w] = "suspend"
        /\ lk = NoThread
        /\ \/ /\ cur_val > 0
              /\ cur_val' = cur_val - 1
              /\ queue' = MoveToTail(queue, r)
              /\ co' = [co EXCEPT ![r] = "granted"]
              /\ UNCHANGED acquire_list
           \/ /\ cur_val = 0
              /\ acquire_list' = list_add_tail(acquire_list, r)
              /\ co' = [co EXCEPT ![r] = "waiting"]
              /\ UNCHANGED <<queue, cur_val>>
        /\ running' = [running EXCEPT ![w] = NoReq]
        /\ Goto(w, "idle")
        /\ UNCHANGED <<lk, alive, pos, issued, sigPc>>

(* Variant with a fault: no test against _max_val.                          *)
ReleaseUncapped(isSignal) ==
    /\ lk = NoThread
    /\ cur_val' = cur_val + 1
    /\ issued' = IF isSignal THEN issued + 1 ELSE issued

(* release(), first half: the critical section.  A token above _max_val is  *)
(* dropped.                                                                 *)
ReleaseLocked(isSignal) ==
    /\ lk = NoThread
    /\ IF cur_val < MaxVal
         THEN /\ cur_val' = cur_val + 1
              /\ issued' = IF isSignal THEN issued + 1 ELSE issued
         ELSE /\ UNCHANGED cur_val
              /\ issued' = IF isSignal THEN issued ELSE issued - 1

(* Variant with a fault: posts only from the second free token on.          *)
PostFlagLate == cur_val \in 1 .. MaxVal - 1 /\ acquire_list # << >>

(* post_flg of release(): a token was added and somebody waits.             *)
PostFlag == cur_val < MaxVal /\ acquire_list # << >>

Release(w) ==
    /\ pc[w] = "run" /\ co[running[w]] = "hold"
    /\ alive
    /\ ReleaseLocked(FALSE)
    /\ co' = [co EXCEPT ![running[w]] = "free"]
    /\ IF PostFlag THEN Goto(w, "post") ELSE UNCHANGED pc
    /\ UNCHANGED <<queue, lk, acquire_list, alive, pos, running, sigPc>>

(* release(), second half: posts the node, after the unlock.                   *)
ReleasePost(w) ==
    /\ pc[w] = "post"
    /\ lk = NoThread
    /\ QueuePost(SemNode)
    /\ Goto(w, "run")
    /\ UNCHANGED <<semVars, co, running, sigPc>>

(* The coroutine ends without a token, or after the semaphore was destroyed.*)
Finish(w) ==
    /\ pc[w] = "run"
    /\ co[running[w]] = "free" \/ ~ alive
    /\ co' = [co EXCEPT ![running[w]] = "done"]
    /\ running' = [running EXCEPT ![w] = NoReq]
    /\ Goto(w, "idle")
    /\ UNCHANGED <<queue, semVars, sigPc>>

-----------------------------------------------------------------------------
(* release() called by a thread that owns no token.                        *)

Signal(s) ==
    /\ sigPc[s] = "idle"
    /\ alive
    /\ issued < MaxIssued
    /\ ReleaseLocked(TRUE)
    /\ sigPc' = [sigPc EXCEPT ![s] = IF PostFlag THEN "post" ELSE "idle"]
    /\ UNCHANGED <<queue, lk, acquire_list, alive, pos, co, pc, running>>

SignalPost(s) ==
    /\ sigPc[s] = "post"
    /\ lk = NoThread
    /\ QueuePost(SemNode)
    /\ sigPc' = [sigPc EXCEPT ![s] = "idle"]
    /\ UNCHANGED <<semVars, co, pc, running>>

-----------------------------------------------------------------------------
(* sem_chk_cb.                                                             *)

(* list_empty(&acquire_list), read without the lock.                        *)
ChkEmpty(w) ==
    /\ pc[w] = "chk"
    /\ Goto(w, IF acquire_list = << >> THEN "idle" ELSE "chklock")
    /\ UNCHANGED <<queue, semVars, co, running, sigPc>>

ChkLock(w) ==
    /\ pc[w] = "chklock"
    /\ lk = NoThread
    /\ lk' = w
    /\ pos' = 1
    /\ Goto(w, "loop")
    /\ UNCHANGED <<queue, cur_val, acquire_list, alive, issued, co, running, sigPc>>

(* Variants with a fault: the last waiter is served first; the token is     *)
(* handed over and kept as well.                                            *)
ChkGrantLast(w) ==
    LET r == Last(acquire_list)
    IN  /\ pc[w] = "loop"
        /\ pos <= Len(acquire_list)
        /\ cur_val > 0
        /\ cur_val' = cur_val - 1
        /\ acquire_list' = Front(acquire_list)
        /\ queue' = MoveToTail(queue, r)
        /\ co' = [co EXCEPT ![r] = "granted"]
        /\ UNCHANGED <<lk, alive, pos, issued, pc, running, sigPc>>

ChkGrantKeepsToken(w) ==
    LET r == acquire_list[pos]
    IN  /\ pc[w] = "loop"
        /\ pos <= Len(acquire_list)
        /\ cur_val > 0
        /\ acquire_list' = RemoveAt(acquire_list, pos)
        /\ queue' = MoveToTail(queue, r)
        /\ co' = [co EXCEPT ![r] = "granted"]
        /\ UNCHANGED <<lk, cur_val, alive, pos, issued, pc, running, sigPc>>

ChkGrantStaysListed(w) ==
    LET r == acquire_list[pos]
    IN  /\ pc[w] = "loop"
        /\ pos <= Len(acquire_list)
        /\ cur_val > 0
        /\ cur_val' = cur_val - 1
        /\ queue' = MoveToTail(queue, r)
        /\ co' = [co EXCEPT ![r] = "granted"]
        /\ pos' = pos + 1
        /\ UNCHANGED <<lk, acquire_list, alive, issued, pc, running, sigPc>>

(* One turn of the loop with a token left: the waiter gets it.  Only timed  *)
(* requests are ever cancelled, so the branch for cancelled ones is in      *)
(* module SemTimeout.                                                       *)
ChkGrant(w) ==
    LET r == acquire_list[pos]
    IN  /\ pc[w] = "loop"
        /\ pos <= Len(acquire_list)
        /\ cur_val > 0
        /\ cur_val' = cur_val - 1
        /\ acquire_list' = RemoveAt(acquire_list, pos)
        /\ queue' = MoveToTail(queue, r)
        /\ co' = [co EXCEPT ![r] = "granted"]
        /\ UNCHANGED <<lk, alive, pos, issued, pc, running, sigPc>>

(* One turn without a token: the waiter stays.                              *)
ChkSkip(w) ==
    /\ pc[w] = "loop"
    /\ pos <= Len(acquire_list)
    /\ cur_val = 0
    /\ pos' = pos + 1
    /\ UNCHANGED <<queue, lk, cur_val, acquire_list, alive, issued, co, pc, running, sigPc>>

(* The end of the loop: unlock, trig_once.                                  *)
ChkUnlock(w) ==
    /\ pc[w] = "loop"
    /\ pos > Len(acquire_list)
    /\ lk' = NoThread
    /\ pos' = 1
    /\ Goto(w, "idle")
    /\ UNCHANGED <<queue, cur_val, acquire_list, alive, issued, co, running, sigPc>>

-----------------------------------------------------------------------------
(* ~Semaphore: every waiter goes to the run queue with REQ_FAIL.           *)

NodeInFlight ==
    OnList(queue, SemNode) \/ \E w \in Workers : pc[w] \in {"chk", "chklock", "loop"}

CallActive ==
    \/ \E w \in Workers : pc[w] \in {"suspend", "post"}
    \/ \E s \in Signallers : sigPc[s] = "post"

DestroySemaphore ==
    /\ Destroy # "never"
    /\ alive
    /\ lk = NoThread
    /\ ~ CallActive
    /\ Destroy = "quiescent" => ~ NodeInFlight
    /\ alive' = FALSE
    /\ queue' = queue \o acquire_list
    /\ acquire_list' = << >>
    /\ co' = [r \in Reqs |-> IF co[r] = "waiting" THEN "failed" ELSE co[r]]
    /\ UNCHANGED <<lk, cur_val, pos, issued, pc, running, sigPc>>

-----------------------------------------------------------------------------

ChkStep(w) ==
    ChkEmpty(w) \/ ChkLock(w) \/ ChkGrant(w) \/ ChkSkip(w) \/ ChkUnlock(w)

CoStep(w) ==
    TakeReq(w) \/ AwaitSuspend(w) \/ Release(w) \/ ReleasePost(w)

Next ==
    \/ \E w \in Workers :
          TakeSem(w) \/ CoStep(w) \/ ChkStep(w) \/ AwaitReady(w) \/ Finish(w)
    \/ \E s \in Signallers : Signal(s) \/ SignalPost(s)
    \/ DestroySemaphore

Spec == Init /\ [][Next]_vars

(* Worker threads run, coroutines give their token back and end sooner or   *)
(* later (strong: they may go round any number of times first), and a       *)
(* release() that has begun posts.                                          *)
Fairness ==
    /\ \A w \in Workers :
          /\ WF_vars(TakeSem(w)) /\ WF_vars(CoStep(w)) /\ WF_vars(ChkStep(w))
          /\ SF_vars(Finish(w))
    /\ \A s \in Signallers : WF_vars(SignalPost(s))

FairSpec == Spec /\ Fairness

-----------------------------------------------------------------------------
(* Properties.                                                             *)

(* The variables have their types.                                          *)
TypeOK ==
    /\ queue \in Seq(Nodes)
    /\ lk \in Workers \cup {NoThread}
    /\ cur_val \in 0 .. MaxVal
    /\ acquire_list \in Seq(Reqs)
    /\ alive \in BOOLEAN
    /\ co \in [Reqs -> CoStates]
    /\ pc \in [Workers -> WorkerPcs]
    /\ running \in [Workers -> Reqs \cup {NoReq}]
    /\ pos \in Nat \ {0}
    /\ sigPc \in [Signallers -> {"idle", "post"}]
    /\ issued \in Int

Owners == { r \in Reqs : co[r] \in {"granted", "hold"} }

(* Tokens are neither lost nor duplicated: the value of the semaphore and   *)
(* the coroutines that own a token (resumed, or on the run queue with one)  *)
(* add up to the tokens in circulation.                                     *)
TokensConserved == alive => cur_val + Cardinality(Owners) = issued

(* No waiter is forgotten: while a token is free and a request waits, the   *)
(* semaphore's node is queued, or sem_chk_cb is running and has still to    *)
(* look at the list, or a release() is about to post the node.  The check   *)
(* of the list without the lock and the post after the unlock leave no gap. *)
NoWaiterForgotten ==
    cur_val > 0 /\ acquire_list # << >> =>
        \/ OnList(queue, SemNode)
        \/ \E w \in Workers : pc[w] \in {"chk", "chklock", "loop", "post"}
        \/ \E s \in Signallers : sigPc[s] = "post"

(* A coroutine is in one place: on the run queue, on the list of waiters,   *)
(* or running on one worker.  So its frame is never resumed twice.          *)
InOnePlace ==
    /\ NoDuplicates(queue) /\ NoDuplicates(acquire_list)
    /\ \A r \in Reqs :
          /\ OnList(queue, r) <=> co[r] \in {"ready", "granted", "failed"}
          /\ OnList(acquire_list, r) <=> co[r] = "waiting"
          /\ (\E w \in Workers : running[w] = r) <=> co[r] \in {"free", "hold"}
    /\ \A v, w \in Workers : running[v] = running[w] /\ running[v] # NoReq => v = w

(* A worker has a coroutine exactly while it runs it, and a coroutine that  *)
(* is about to suspend or has just released owns no token.                  *)
WorkerInv ==
    \A w \in Workers :
        /\ pc[w] \in {"run", "suspend", "post"} <=> running[w] # NoReq
        /\ pc[w] \in {"suspend", "post"} => co[running[w]] = "free"

(* The loop of sem_chk_cb runs with the lock held; it only moves past a     *)
(* waiter when no token is left.                                            *)
LoopInv ==
    /\ \A w \in Workers : pc[w] = "loop" <=> lk = w
    /\ lk = NoThread => pos = 1
    /\ cur_val > 0 => pos = 1

(* After ~Semaphore nobody waits and nobody is about to.                    *)
DeadInv ==
    ~ alive => acquire_list = << >> /\ \A w \in Workers : pc[w] # "suspend"

(* The inductive invariant.                                                 *)
SemInv ==
    /\ TypeOK
    /\ InOnePlace
    /\ WorkerInv
    /\ LoopInv
    /\ DeadInv
    /\ NoWaiterForgotten
    /\ TokensConserved

(* sem_chk_cb serves waiters in the order in which they began to wait: a    *)
(* step takes only the first one off the list (unless it destroys it).      *)
FifoGrant ==
    [][ Len(acquire_list') < Len(acquire_list) /\ alive' =>
            acquire_list' = Tail(acquire_list) ]_vars

(* A destroyed semaphore is not used any more: its node is not on the run   *)
(* queue and no worker is inside its callback.                              *)
NoUseAfterDestroy == ~ alive => ~ NodeInFlight

(* If every holder gives its token back, a waiting coroutine is eventually  *)
(* resumed: served, or failed by the destructor.                            *)
EveryWaiterResumed == \A r \in Reqs : co[r] = "waiting" ~> co[r] # "waiting"
=============================================================================
