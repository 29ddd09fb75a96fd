----------------------------- MODULE CallbackWq -----------------------------
(***************************************************************************)
(* callback_wq<lock> (io/callback_wq.hpp): the dispatcher an owner (socket,*)
(* file) puts in front of the executor so that its callbacks run one at a  *)
(* time and in the order in which they were posted.  It schedules a single *)
(* runner node on the executor, whose function drains the pending list.    *)
(*                                                                         *)
(* The owner outlives every activity here, so the shared state is never    *)
(* freed: the reference that runner.guard keeps is not modelled.           *)
(***************************************************************************)
EXTENDS Integers, Sequences

CONSTANTS
    Nodes,        \* waiters (io_waiter_base) of one owner
    Posters,      \* threads that post: reactor thread, workers closing the fd
    Workers,      \* executor threads
    NoNode, NoThread

ASSUME CallbackAssumption ==
    /\ NoNode \notin Nodes
    /\ NoThread \notin Posters
    /\ Posters \cap Workers = {}

VARIABLES
    pending, running,
    runnerQueued,   \* runner is on the executor's queue
    lk,             \* poster inside the critical section between two steps
    enqueued,       \* io_waiter_base::callback_enqueued
    local, cur,     \* drain(): the spliced batch, the entry being run
    pc, postPc,
    armed,          \* the waiter expects a completion, so others may post it
    owed            \* ghost: a post has returned or begun, no callback since

drainVars == <<local, cur, pc>>
vars == <<pending, running, runnerQueued, lk, enqueued, local, cur, pc, postPc,
          armed, owed>>

DrainPcs == {"keep", "lock", "next", "flag", "call", "func"}
WorkerPcs == {"idle", "tail", "reset"} \cup DrainPcs
PosterPcs == {"idle", "guard", "sched"}

Draining(w) == pc[w] \in DrainPcs
Posting(p) == postPc[p] # "idle"

(* The callbacks still to be run, in order: what the running drain() has    *)
(* taken, then the pending list.                                            *)
Backlog ==
    IF \E w \in Workers : local[w] # << >>
      THEN local[CHOOSE w \in Workers : local[w] # << >>] \o pending
      ELSE pending

Q == INSTANCE WorkQueue WITH queue <- Backlog

Goto(w, p) == pc' = [pc EXCEPT ![w] = p]

Init ==
    /\ pending = << >> /\ running = FALSE /\ runnerQueued = FALSE
    /\ lk = NoThread
    /\ enqueued = [n \in Nodes |-> FALSE]
    /\ local = [w \in Workers |-> << >>]
    /\ cur = [w \in Workers |-> NoNode]
    /\ pc = [w \in Workers |-> "idle"]
    /\ postPc = [p \in Posters |-> "idle"]
    /\ armed = [n \in Nodes |-> TRUE]
    /\ owed = [n \in Nodes |-> FALSE]

-----------------------------------------------------------------------------
(* post(), called by any thread for a waiter that expects it.  The tests    *)
(* for a null, dead or functionless waiter are for misuse.                  *)

(* The flag was set already: nothing to do.                                 *)
PostAlready(p, n) ==
    /\ postPc[p] = "idle" /\ armed[n]
    /\ lk = NoThread
    /\ enqueued[n]
    /\ owed' = [owed EXCEPT ![n] = TRUE]
    /\ UNCHANGED <<pending, running, runnerQueued, lk, enqueued, drainVars, postPc, armed>>

(* The entry is linked; if nobody runs the list, this thread will schedule  *)
(* the runner and keeps the lock to set runner.guard.                       *)
PostLink(p, n) ==
    /\ postPc[p] = "idle" /\ armed[n]
    /\ lk = NoThread
    /\ ~ enqueued[n]
    /\ enqueued' = [enqueued EXCEPT ![n] = TRUE]
    /\ pending' = Q!list_add_tail(pending, n)
    /\ owed' = [owed EXCEPT ![n] = TRUE]
    /\ \/ /\ running
          /\ UNCHANGED <<running, lk, postPc>>
       \/ /\ ~ running
          /\ running' = TRUE
          /\ lk' = p
          /\ postPc' = [postPc EXCEPT ![p] = "guard"]
    /\ UNCHANGED <<runnerQueued, drainVars, armed>>

(* runner.guard is set; end of the critical section.                        *)
PostUnlock(p) ==
    /\ postPc[p] = "guard"
    /\ lk' = NoThread
    /\ postPc' = [postPc EXCEPT ![p] = "sched"]
    /\ UNCHANGED <<pending, running, runnerQueued, enqueued, drainVars, armed, owed>>

(* exec.post(runner), after the unlock.                                     *)
PostSched(p) ==
    /\ postPc[p] = "sched"
    /\ runnerQueued' = TRUE
    /\ postPc' = [postPc EXCEPT ![p] = "idle"]
    /\ UNCHANGED <<pending, running, lk, enqueued, drainVars, armed, owed>>

-----------------------------------------------------------------------------
(* runner_cb and drain(), on an executor thread.                           *)

TakeRunner(w) ==
    /\ pc[w] = "idle"
    /\ runnerQueued
    /\ runnerQueued' = FALSE
    /\ Goto(w, "keep")
    /\ UNCHANGED <<pending, running, lk, enqueued, local, cur, postPc, armed, owed>>

(* keep_alive = runner.guard                                                *)
KeepAlive(w) ==
    /\ pc[w] = "keep"
    /\ Goto(w, "lock")
    /\ UNCHANGED <<pending, running, runnerQueued, lk, enqueued, local, cur, postPc, armed, owed>>

(* Variant with a fault: leaves the loop without clearing running.          *)
DrainEmptyKeepsRunning(w) ==
    /\ pc[w] = "lock" /\ lk = NoThread
    /\ pending = << >>
    /\ Goto(w, "tail")
    /\ UNCHANGED <<pending, running, runnerQueued, lk, enqueued, local, cur, postPc, armed, owed>>

(* An empty list ends the loop, in the critical section that saw it.        *)
DrainEmpty(w) ==
    /\ pc[w] = "lock" /\ lk = NoThread
    /\ pending = << >>
    /\ running' = FALSE
    /\ Goto(w, "tail")
    /\ UNCHANGED <<pending, runnerQueued, lk, enqueued, local, cur, postPc, armed, owed>>

(* Variant with a fault: the batch comes out in reverse.                    *)
DrainSpliceReversed(w) ==
    /\ pc[w] = "lock" /\ lk = NoThread
    /\ pending # << >>
    /\ local' = [local EXCEPT ![w] =
                    [i \in DOMAIN pending |-> pending[Len(pending) + 1 - i]]]
    /\ pending' = << >>
    /\ Goto(w, "next")
    /\ UNCHANGED <<running, runnerQueued, lk, enqueued, cur, postPc, armed, owed>>

(* The whole list moves to the local one.  Its ends always point back to    *)
(* it, so the test for a corrupted list does not fire.                      *)
DrainSplice(w) ==
    /\ pc[w] = "lock" /\ lk = NoThread
    /\ pending # << >>
    /\ local' = [local EXCEPT ![w] = pending]
    /\ pending' = << >>
    /\ Goto(w, "next")
    /\ UNCHANGED <<running, runnerQueued, lk, enqueued, cur, postPc, armed, owed>>

NextEntry(w) ==
    /\ pc[w] = "next"
    /\ local[w] # << >>
    /\ cur' = [cur EXCEPT ![w] = Head(local[w])]
    /\ local' = [local EXCEPT ![w] = Tail(@)]
    /\ Goto(w, "flag")
    /\ UNCHANGED <<pending, running, runnerQueued, lk, enqueued, postPc, armed, owed>>

BatchDone(w) ==
    /\ pc[w] = "next"
    /\ local[w] = << >>
    /\ Goto(w, "lock")
    /\ UNCHANGED <<pending, running, runnerQueued, lk, enqueued, local, cur, postPc, armed, owed>>

(* Variant with a fault: the flag stays set.                                *)
NeverClearEnqueued(w) ==
    /\ pc[w] = "flag"
    /\ Goto(w, "call")
    /\ UNCHANGED <<pending, running, runnerQueued, lk, enqueued, local, cur, postPc, armed, owed>>

(* store_enqueued(n, false): from here on the waiter can be posted again.   *)
ClearEnqueued(w) ==
    /\ pc[w] = "flag"
    /\ enqueued' = [enqueued EXCEPT ![cur[w]] = FALSE]
    /\ Goto(w, "call")
    /\ UNCHANGED <<pending, running, runnerQueued, lk, local, cur, postPc, armed, owed>>

(* n->func(n) is entered.                                                   *)
CallFunc(w) ==
    /\ pc[w] = "call"
    /\ owed' = [owed EXCEPT ![cur[w]] = FALSE]
    /\ armed' = [armed EXCEPT ![cur[w]] = FALSE]
    /\ Goto(w, "func")
    /\ UNCHANGED <<pending, running, runnerQueued, lk, enqueued, local, cur, postPc>>

(* The callback may register its waiter again (drive_cb) before it returns. *)
CallbackRearms(w) ==
    /\ pc[w] = "func"
    /\ ~ armed[cur[w]]
    /\ armed' = [armed EXCEPT ![cur[w]] = TRUE]
    /\ UNCHANGED <<pending, running, runnerQueued, lk, enqueued, drainVars, postPc, owed>>

FuncReturns(w) ==
    /\ pc[w] = "func"
    /\ cur' = [cur EXCEPT ![w] = NoNode]
    /\ Goto(w, "next")
    /\ UNCHANGED <<pending, running, runnerQueued, lk, enqueued, local, postPc, armed, owed>>

(* After the loop, without the lock: runner.guard is compared with          *)
(* keep_alive, then reset.                                                  *)
TailCompare(w) ==
    /\ pc[w] = "tail"
    /\ Goto(w, "reset")
    /\ UNCHANGED <<pending, running, runnerQueued, lk, enqueued, local, cur, postPc, armed, owed>>

TailReset(w) ==
    /\ pc[w] = "reset"
    /\ Goto(w, "idle")
    /\ UNCHANGED <<pending, running, runnerQueued, lk, enqueued, local, cur, postPc, armed, owed>>

-----------------------------------------------------------------------------

Post(p) ==
    \/ \E n \in Nodes : PostAlready(p, n) \/ PostLink(p, n)
    \/ PostUnlock(p)
    \/ PostSched(p)

DrainStep(w) ==
    \/ KeepAlive(w) \/ DrainEmpty(w) \/ DrainSplice(w) \/ NextEntry(w) \/ BatchDone(w)
    \/ ClearEnqueued(w) \/ CallFunc(w) \/ FuncReturns(w)
    \/ TailCompare(w) \/ TailReset(w)

Next ==
    \/ \E p \in Posters : Post(p)
    \/ \E w \in Workers : TakeRunner(w) \/ DrainStep(w) \/ CallbackRearms(w)

Spec == Init /\ [][Next]_vars

(* A post that has begun ends; executor threads run; the runner, once       *)
(* queued, is taken by some thread; callbacks return.                       *)
Fairness ==
    /\ \A p \in Posters : WF_vars(PostUnlock(p)) /\ WF_vars(PostSched(p))
    /\ WF_vars(\E w \in Workers : TakeRunner(w))
    /\ \A w \in Workers : SF_vars(DrainStep(w))

FairSpec == Spec /\ Fairness

-----------------------------------------------------------------------------
(* Properties.                                                             *)

(* The variables have their types.                                          *)
TypeOK ==
    /\ pending \in Seq(Nodes)
    /\ running \in BOOLEAN /\ runnerQueued \in BOOLEAN
    /\ lk \in Posters \cup {NoThread}
    /\ enqueued \in [Nodes -> BOOLEAN]
    /\ local \in [Workers -> Seq(Nodes)]
    /\ cur \in [Workers -> Nodes \cup {NoNode}]
    /\ pc \in [Workers -> WorkerPcs]
    /\ postPc \in [Posters -> PosterPcs]
    /\ armed \in [Nodes -> BOOLEAN]
    /\ owed \in [Nodes -> BOOLEAN]

(* `At most one runner at any time': two threads are never both inside the  *)
(* drain loop, so two callbacks of one owner never overlap.  A thread may   *)
(* still be after its loop when the next one starts.                        *)
OneRunner == \A v, w \in Workers : Draining(v) /\ Draining(w) => v = w

(* Whoever finds running set can rely on it: the runner is on its way (a    *)
(* poster is about to schedule it), or queued, or draining; and only one of *)
(* these.  Entries are never left on a list nobody is going to drain.       *)
RunnerOnItsWay ==
    /\ running <=> \/ \E p \in Posters : Posting(p)
                   \/ runnerQueued
                   \/ \E w \in Workers : Draining(w)
    /\ \A p, q \in Posters : Posting(p) /\ Posting(q) => p = q
    /\ \A p \in Posters : Posting(p) => ~ runnerQueued
    /\ \A p \in Posters, w \in Workers : ~ (Posting(p) /\ Draining(w))
    /\ runnerQueued => \A w \in Workers : ~ Draining(w)
    /\ pending # << >> => running

(* The lock is held between two steps only by the poster that sets the      *)
(* runner's guard; only a drain in its batch has entries of its own.        *)
LocalInv ==
    /\ \A p \in Posters : postPc[p] = "guard" <=> lk = p
    /\ \A w \in Workers :
          /\ local[w] # << >> => pc[w] \in {"next", "flag", "call", "func"}
          /\ pc[w] \in {"flag", "call", "func"} <=> cur[w] # NoNode

(* The flag of a waiter says where it is: on one of the lists, or just      *)
(* taken off and not yet run.                                               *)
EnqueuedInv ==
    \A n \in Nodes :
        enqueued[n] <=>
            \/ Q!OnList(pending, n)
            \/ \E w \in Workers : \/ Q!OnList(local[w], n)
                                  \/ pc[w] = "flag" /\ cur[w] = n

(* No post is lost, those skipped because of the flag included: after a     *)
(* post of n and until its function is entered, n is on a list, or the      *)
(* drain is about to call it.                                               *)
NoPostLost ==
    \A n \in Nodes : owed[n] =>
        \/ Q!OnList(pending, n)
        \/ \E w \in Workers : \/ Q!OnList(local[w], n)
                              \/ pc[w] \in {"flag", "call"} /\ cur[w] = n

(* A waiter has one pair of links: it is on one list, once, and no longer   *)
(* on any when the drain has taken it off.                                  *)
LinkedOnce ==
    /\ Q!NoDuplicates(pending)
    /\ \A w \in Workers :
          /\ Q!NoDuplicates(local[w])
          /\ \A n \in Nodes : Q!OnList(local[w], n) => ~ Q!OnList(pending, n)
          /\ pc[w] = "flag" => ~ Q!OnList(pending, cur[w]) /\ ~ Q!OnList(local[w], cur[w])

(* The inductive invariant.                                                 *)
CallbackInv ==
    /\ TypeOK
    /\ OneRunner
    /\ RunnerOnItsWay
    /\ LocalInv
    /\ LinkedOnce
    /\ EnqueuedInv
    /\ NoPostLost

(* `Strictly FIFO': whatever the threads do, the callbacks still to be run  *)
(* behave like one queue, filled at the tail and emptied at the head.       *)
CallbacksAreFifo == Q!QueueSpec

(* If threads run and callbacks return, every post is followed by a run of  *)
(* the posted waiter's function.                                            *)
EveryPostRuns == \A n \in Nodes : owed[n] ~> ~ owed[n]
=============================================================================
