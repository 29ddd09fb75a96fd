------------------------------- MODULE Executor -------------------------------
(***************************************************************************)
(* The executor: workqueue<SpinLock> driven by the worker threads of       *)
(* executor_wq (test/syswork.cpp).  Workers sleep on a condition variable  *)
(* whose lock is the queue's spin lock; a post enqueues under the lock and *)
(* calls trig, which is notify_one, after unlocking.  stop_and_join stores *)
(* `stopping' and notifies without taking the lock.                        *)
(*                                                                         *)
(* A critical section that does not wait is one action, enabled when lk is *)
(* free.  Only get_work_node can give up the lock in the middle (cv.wait), *)
(* so lk is kept through the steps of a worker that is inside it.          *)
(***************************************************************************)
EXTENDS WorkQueue, FiniteSets

CONSTANTS
    Workers,       \* threads started by start_workers
    Posters,       \* threads outside the executor (reactor, ticker, main)
    ServiceNodes,  \* nodes posted again while queued (semaphore, timer queue)
    NoThread

ASSUME ExecutorAssumption ==
    /\ Workers # {}
    /\ IsFiniteSet(Workers)
    /\ ServiceNodes \subseteq Nodes
    /\ NoThread \notin Workers
    /\ Workers \cap Posters = {}

VARIABLES
    lk,        \* holder of workqueue::lk between two steps, or NoThread
    pc,        \* where each worker is
    posterPc,  \* "idle", or "trig": has enqueued and not yet called trig
    stopping,
    stopPc     \* the thread in stop_and_join: "idle", "stored", "join"

executorVars == <<queue, lk, pc, posterPc, stopping, stopPc>>

WorkerPcs == {"loop", "lock", "get", "pred", "sleep", "asleep", "relock",
              "run", "trig", "exited"}

Asleep(w) == pc[w] = "asleep"

Goto(w, p) == pc' = [pc EXCEPT ![w] = p]

ExecutorInit ==
    /\ queue = << >>
    /\ lk = NoThread
    /\ pc = [w \in Workers |-> "loop"]
    /\ posterPc = [p \in Posters |-> "idle"]
    /\ stopping = FALSE
    /\ stopPc = "idle"

-----------------------------------------------------------------------------
(* Worker threads.                                                         *)

(* while (!stopping.load()) work_once();                                    *)
WorkerLoop(w) ==
    /\ pc[w] = "loop"
    /\ Goto(w, IF stopping THEN "exited" ELSE "lock")
    /\ UNCHANGED <<queue, lk, posterPc, stopping, stopPc>>

(* work_once: lk.lock()                                                     *)
WorkOnceLock(w) ==
    /\ pc[w] = "lock"
    /\ lk = NoThread
    /\ lk' = w
    /\ Goto(w, "get")
    /\ UNCHANGED <<queue, posterPc, stopping, stopPc>>

(* Variant with a fault: takes the node that was queued last.               *)
WaitAndGetLifo(w) ==
    /\ pc[w] = "get"
    /\ ~ stopping
    /\ queue # << >>
    /\ queue' = Front(queue)
    /\ lk' = NoThread
    /\ Goto(w, "run")
    /\ UNCHANGED <<posterPc, stopping, stopPc>>

(* One turn of wait_and_get up to cv.wait: stopping returns no node, a      *)
(* queued node is taken; both leave work_once's critical section.           *)
WaitAndGet(w) ==
    /\ pc[w] = "get"
    /\ \/ /\ stopping
          /\ lk' = NoThread
          /\ Goto(w, "loop")
          /\ UNCHANGED queue
       \/ /\ ~ stopping
          /\ queue # << >>
          /\ queue' = Tail(queue)
          /\ lk' = NoThread
          /\ Goto(w, "run")
       \/ /\ ~ stopping
          /\ queue = << >>
          /\ Goto(w, "pred")
          /\ UNCHANGED <<queue, lk>>
    /\ UNCHANGED <<posterPc, stopping, stopPc>>

(* Variant with a fault: the predicate forgets the queue, so the worker     *)
(* sleeps whatever was queued since.                                        *)
CvPredicateStale(w) ==
    /\ pc[w] = "pred"
    /\ Goto(w, IF stopping THEN "get" ELSE "sleep")
    /\ UNCHANGED <<queue, lk, posterPc, stopping, stopPc>>

(* The predicate of cv.wait, evaluated with lk held.                        *)
CvPredicate(w) ==
    /\ pc[w] = "pred"
    /\ Goto(w, IF stopping \/ queue # << >> THEN "get" ELSE "sleep")
    /\ UNCHANGED <<queue, lk, posterPc, stopping, stopPc>>

(* cv.wait releases lk and joins the waiters in one step.                   *)
CvSleep(w) ==
    /\ pc[w] = "sleep"
    /\ lk' = NoThread
    /\ Goto(w, "asleep")
    /\ UNCHANGED <<queue, posterPc, stopping, stopPc>>

(* A condition variable may return from wait without a notification.        *)
SpuriousWake(w) ==
    /\ Asleep(w)
    /\ Goto(w, "relock")
    /\ UNCHANGED <<queue, lk, posterPc, stopping, stopPc>>

CvRelock(w) ==
    /\ pc[w] = "relock"
    /\ lk = NoThread
    /\ lk' = w
    /\ Goto(w, "pred")
    /\ UNCHANGED <<queue, posterPc, stopping, stopPc>>

(* trig: cv.notify_one() by thread t, whose own next place is `then'.        *)
CvNotifyOne(t, then) ==
    LET base == IF t \in Workers THEN [pc EXCEPT ![t] = then] ELSE pc
    IN  IF \E v \in Workers : Asleep(v)
          THEN \E v \in Workers : Asleep(v) /\ pc' = [base EXCEPT ![v] = "relock"]
          ELSE pc' = base

-----------------------------------------------------------------------------
(* What the function of a node does to the queue, and posts from outside.  *)

(* The nodes a thread may post: a one-shot node (awaiter, promise) is not   *)
(* posted again before it has been taken.                                   *)
Postable(n) == n \in ServiceNodes \/ ~ OnList(queue, n)

(* The function of the node posts another one: post(worknode).              *)
RunPost(w, n) ==
    /\ pc[w] = "run"
    /\ lk = NoThread
    /\ Postable(n)
    /\ QueuePost(n)
    /\ Goto(w, "trig")
    /\ UNCHANGED <<lk, posterPc, stopping, stopPc>>

RunTrig(w) ==
    /\ pc[w] = "trig"
    /\ CvNotifyOne(w, "run")
    /\ UNCHANGED <<queue, lk, posterPc, stopping, stopPc>>

(* Semaphore::acquire on a worker: add_new_nolock under the lock, no trig.  *)
RunAddNoTrig(w, n) ==
    /\ pc[w] = "run"
    /\ lk = NoThread
    /\ Postable(n)
    /\ queue' = MoveToTail(queue, n)
    /\ UNCHANGED <<lk, pc, posterPc, stopping, stopPc>>

(* The function returns; work_once returns to the worker's loop.            *)
RunReturn(w) ==
    /\ pc[w] = "run"
    /\ Goto(w, "loop")
    /\ UNCHANGED <<queue, lk, posterPc, stopping, stopPc>>

(* Variant with a fault, for checking the checks: enqueues, never notifies. *)
PostWithoutTrig(p, n) ==
    /\ posterPc[p] = "idle"
    /\ lk = NoThread
    /\ Postable(n)
    /\ QueuePost(n)
    /\ UNCHANGED <<lk, pc, posterPc, stopping, stopPc>>

Post(p, n) ==
    /\ posterPc[p] = "idle"
    /\ lk = NoThread
    /\ Postable(n)
    /\ QueuePost(n)
    /\ posterPc' = [posterPc EXCEPT ![p] = "trig"]
    /\ UNCHANGED <<lk, pc, stopping, stopPc>>

PostBatch(p, batch) ==
    /\ posterPc[p] = "idle"
    /\ lk = NoThread
    /\ QueuePostBatch(batch)
    /\ posterPc' = [posterPc EXCEPT ![p] = "trig"]
    /\ UNCHANGED <<lk, pc, stopping, stopPc>>

Trig(p) ==
    /\ posterPc[p] = "trig"
    /\ CvNotifyOne(p, "idle")
    /\ posterPc' = [posterPc EXCEPT ![p] = "idle"]
    /\ UNCHANGED <<queue, lk, stopping, stopPc>>

-----------------------------------------------------------------------------
(* stop_and_join, run by the destructor of the static executor.            *)

StopStore ==
    /\ stopPc = "idle"
    /\ stopping' = TRUE
    /\ stopPc' = "stored"
    /\ UNCHANGED <<queue, lk, pc, posterPc>>

StopNotifyAll ==
    /\ stopPc = "stored"
    /\ pc' = [w \in Workers |-> IF Asleep(w) THEN "relock" ELSE pc[w]]
    /\ stopPc' = "join"
    /\ UNCHANGED <<queue, lk, posterPc, stopping>>

-----------------------------------------------------------------------------

WorkerStep(w) ==
    \/ WorkerLoop(w) \/ WorkOnceLock(w) \/ WaitAndGet(w) \/ CvPredicate(w)
    \/ CvSleep(w) \/ CvRelock(w) \/ RunTrig(w)

ExecutorNext ==
    \/ \E w \in Workers :
          \/ WorkerStep(w)
          \/ SpuriousWake(w)
          \/ RunReturn(w)
          \/ \E n \in Nodes : RunPost(w, n) \/ RunAddNoTrig(w, n)
    \/ \E p \in Posters :
          \/ Trig(p)
          \/ \E n \in Nodes : Post(p, n)
          \/ \E b \in Batches : PostBatch(p, b)
    \/ StopStore
    \/ StopNotifyAll

ExecutorSpec == ExecutorInit /\ [][ExecutorNext]_executorVars

(* Threads that hold the processor make progress, the function of a node    *)
(* ends (strong: it may post any number of nodes first), and a thread that  *)
(* has enqueued goes on to call trig.  Nothing is assumed of spurious       *)
(* wake-ups, of posts, or of stopping.                                      *)
ExecutorFairness ==
    /\ \A w \in Workers : WF_executorVars(WorkerStep(w)) /\ SF_executorVars(RunReturn(w))
    /\ \A p \in Posters : WF_executorVars(Trig(p))
    /\ WF_executorVars(StopNotifyAll)

ExecutorFairSpec == ExecutorSpec /\ ExecutorFairness

-----------------------------------------------------------------------------
(* Properties.                                                             *)

(* The variables have their types; the queue is a list of nodes.            *)
ExecutorTypeOK ==
    /\ queue \in Seq(Nodes)
    /\ lk \in Workers \cup {NoThread}
    /\ pc \in [Workers -> WorkerPcs]
    /\ posterPc \in [Posters -> {"idle", "trig"}]
    /\ stopping \in BOOLEAN
    /\ stopPc \in {"idle", "stored", "join"}

InsideLock(w) == pc[w] \in {"get", "pred", "sleep"}

(* lk is held between steps exactly by the worker inside get_work_node.     *)
LockDiscipline == \A w \in Workers : InsideLock(w) <=> lk = w

(* A worker that decided to sleep still sees an empty queue: nobody can     *)
(* enqueue between the predicate of cv.wait and the sleep.                  *)
SleepOnEmpty == \A w \in Workers : pc[w] = "sleep" => queue = << >>

(* No lost wake-up: while work is queued and the executor is not stopping,  *)
(* a worker is awake and will come back to the queue, or a thread that has  *)
(* enqueued is about to call trig.  One notify_one per post or per batch,   *)
(* after the unlock, and none at all for add_new_nolock from a worker, are  *)
(* enough.                                                                  *)
NoLostWakeup ==
    queue # << >> /\ ~ stopping =>
        \/ \E w \in Workers : pc[w] # "asleep"
        \/ \E p \in Posters : posterPc[p] = "trig"

(* A worker leaves its loop only when the executor is stopping.             *)
ExitOnlyWhenStopping == \A w \in Workers : pc[w] = "exited" => stopping

(* The inductive invariant the proof of NoLostWakeup rests on.              *)
ExecutorInv ==
    /\ ExecutorTypeOK
    /\ LockDiscipline
    /\ SleepOnEmpty
    /\ NoLostWakeup
    /\ ExitOnlyWhenStopping

(* A node is on the run queue at most once, whoever posts it and however    *)
(* often (post and add_new_nolock unlink before they link).                 *)
QueuedOnce == NoDuplicates(queue)

(* A queued one-shot node (awaiter, promise) is eventually taken by a       *)
(* worker, even while service nodes are posted again and again and every    *)
(* spurious wake-up is allowed.                                             *)
OneShotServed ==
    \A n \in Nodes \ ServiceNodes :
        OnList(queue, n) ~> (~ OnList(queue, n) \/ stopping)

(* Once stop_and_join has stored `stopping', every worker leaves and the    *)
(* join ends.                                                               *)
StopJoins == stopping ~> \A w \in Workers : pc[w] = "exited"
=============================================================================
