----------------------------- MODULE TimerQueue -----------------------------
(***************************************************************************)
(* Timer_check_queue<lock> and DelayAwaiter (sync/timer.hpp) on the        *)
(* executor, with the ticker thread of test/syswork.cpp.  The timer queue  *)
(* has no lock of its own but the executor's, and is itself a worknode     *)
(* whose function, tim_chk_cb, moves due timers from the heap to the run   *)
(* queue.  Time advances on its own, in units in which two threads may     *)
(* read the same time.                                                     *)
(***************************************************************************)
EXTENDS WorkQueue, PairingHeap

CONSTANTS
    Workers,
    TimerNode,          \* the Timer_check_queue as a worknode
    Delays, MaxTime,    \* bounds: delays asked for, last time on the clock
    Watched,            \* the timers EveryDelayEnds follows; timers are alike
    CancelArming,       \* may a timer be cancelled while it is being armed?
    NoThread

ASSUME TimerAssumption ==
    /\ Nodes = Timers \cup {TimerNode}
    /\ NoThread \notin Workers
    /\ Nil \notin Timers \cup Nat
    /\ TimerNode \notin Timers /\ IsFiniteSet(Timers)
    /\ Delays \subseteq Nat /\ MaxTime \in Nat
    /\ Watched \subseteq Timers
    /\ CancelArming \in BOOLEAN

VARIABLES
    lk,                 \* holder of the executor's lock between two steps
    heap, heap_root, expire,
    owner_queue,        \* the timers whose owner_queue points to this queue
    arming,             \* those that post_delayed_work has not linked yet
    now,
    tick,               \* the ticker thread has read a non-null heap_root
    pc, seen            \* the workers; the time tim_chk_cb has read

heapVars == <<heap, heap_root, expire, owner_queue, arming>>
vars == <<queue, lk, heapVars, now, tick, pc, seen>>

Goto(w, p) == pc' = [pc EXCEPT ![w] = p]

Init ==
    /\ queue = << >>
    /\ lk = NoThread
    /\ heap = EmptyHeap /\ heap_root = Nil
    /\ expire = [t \in Timers |-> 0]
    /\ owner_queue = {} /\ arming = {}
    /\ now = 0
    /\ tick = FALSE
    /\ pc = [w \in Workers |-> "idle"]
    /\ seen = [w \in Workers |-> 0]

(* std::chrono::steady_clock                                                *)
Clock ==
    /\ now < MaxTime
    /\ now' = now + 1
    /\ UNCHANGED <<queue, lk, heapVars, tick, pc, seen>>

-----------------------------------------------------------------------------
(* The interface, called by any thread.                                    *)

(* post_delayed_work, for a timer that is nowhere: a DelayAwaiter is armed  *)
(* once per co_await.  The clock is read and the node prepared without the  *)
(* lock ...                                                                 *)
PostDelayedWork(t, ms) ==
    /\ t \notin owner_queue /\ ~ OnList(queue, t)
    /\ now + ms <= MaxTime
    /\ expire' = [expire EXCEPT ![t] = now + ms]
    /\ heap' = ClearLinks(heap, t)
    /\ owner_queue' = owner_queue \cup {t} /\ arming' = arming \cup {t}
    /\ UNCHANGED <<queue, lk, heap_root, now, tick, pc, seen>>

(* ... and linked with it, however much later.                              *)
LinkDelayedWork(t) ==
    /\ lk = NoThread
    /\ t \in arming
    /\ LET m == heap_meld(heap, expire, heap_root, t)
       IN  /\ heap' = SetParent(m.h, m.root, Nil)
           /\ heap_root' = m.root
    /\ arming' = arming \ {t}
    /\ UNCHANGED <<queue, lk, expire, owner_queue, now, tick, pc, seen>>

(* cancel, which ~Timer_worknode calls too.  A timer of no queue is left    *)
(* alone, even one that tim_chk_cb has put on the run queue.  The awaiters  *)
(* of sync/ cancel no timer whose post_delayed_work is still under way.     *)
Cancel(t) ==
    /\ lk = NoThread
    /\ t \in owner_queue /\ (t \in arming => CancelArming)
    /\ LET m == heap_remove(heap, expire, heap_root, t)
       IN  /\ heap' = ClearLinks(m.h, t)
           /\ heap_root' = m.root
    /\ owner_queue' = owner_queue \ {t}
    /\ UNCHANGED <<queue, lk, expire, arming, now, tick, pc, seen>>

-----------------------------------------------------------------------------
(* The ticker thread: tick_update every millisecond.                       *)

(* heap_root is read without the lock ...                                   *)
TickRead ==
    /\ ~ tick
    /\ heap_root # Nil
    /\ tick' = TRUE
    /\ UNCHANGED <<queue, lk, heapVars, now, pc, seen>>

(* ... and the queue's node posted: if it is queued already, it moves to    *)
(* the tail.                                                                *)
TickPost ==
    /\ tick
    /\ lk = NoThread
    /\ QueuePost(TimerNode)
    /\ tick' = FALSE
    /\ UNCHANGED <<lk, heapVars, now, pc, seen>>

-----------------------------------------------------------------------------
(* Executor threads.                                                       *)

(* tim_chk_cb reads the clock before it takes the lock.                     *)
TakeTimer(w) ==
    /\ pc[w] = "idle" /\ lk = NoThread
    /\ queue # << >> /\ Head(queue) = TimerNode
    /\ QueueTake
    /\ seen' = [seen EXCEPT ![w] = now]
    /\ Goto(w, "chk")
    /\ UNCHANGED <<lk, heapVars, now, tick>>

ChkLock(w) ==
    /\ pc[w] = "chk" /\ lk = NoThread
    /\ lk' = w
    /\ Goto(w, "loop")
    /\ UNCHANGED <<queue, heapVars, now, tick, seen>>

(* Variant with a fault: fires a timer only after its time has passed.      *)
DueLate(w) == heap_root # Nil /\ expire[heap_root] < seen[w]

Due(w) == heap_root # Nil /\ expire[heap_root] <= seen[w]

(* One turn of the loop: the root leaves the heap for the run queue.        *)
ChkPop(w) ==
    /\ pc[w] = "loop"
    /\ Due(w)
    /\ LET m == delete_min(heap, expire, heap_root)
       IN  /\ heap' = ClearLinks(m.h, heap_root)
           /\ heap_root' = m.root
    /\ owner_queue' = owner_queue \ {heap_root}
    /\ QueuePost(heap_root)
    /\ UNCHANGED <<lk, expire, arming, now, tick, pc, seen>>

ChkUnlock(w) ==
    /\ pc[w] = "loop"
    /\ ~ Due(w)
    /\ lk' = NoThread
    /\ Goto(w, "idle")
    /\ UNCHANGED <<queue, heapVars, now, tick, seen>>

(* DelayAwaiter::timer_callback resumes the coroutine.                      *)
TakeDelay(w) ==
    /\ pc[w] = "idle" /\ lk = NoThread
    /\ queue # << >> /\ Head(queue) \in Timers
    /\ QueueTake
    /\ UNCHANGED <<lk, heapVars, now, tick, pc, seen>>

-----------------------------------------------------------------------------

WorkerStep(w) ==
    \/ TakeTimer(w) \/ TakeDelay(w)
    \/ ChkLock(w) \/ ChkPop(w) \/ ChkUnlock(w)

Next ==
    \/ Clock
    \/ \E t \in Timers :
          LinkDelayedWork(t) \/ Cancel(t) \/ \E ms \in Delays : PostDelayedWork(t, ms)
    \/ TickRead \/ TickPost
    \/ \E w \in Workers : WorkerStep(w)

Spec == Init /\ [][Next]_vars

(* Time passes, the ticker thread keeps ticking, the workers run and        *)
(* post_delayed_work ends, where it matters.  A thread that finds the         *)
(* executor's lock taken gets it some time.                                 *)
Fairness ==
    /\ WF_vars(Clock)
    /\ \A t \in Watched : SF_vars(LinkDelayedWork(t))
    /\ WF_vars(TickRead) /\ SF_vars(TickPost)
    /\ \A w \in Workers : SF_vars(WorkerStep(w))

FairSpec == Spec /\ Fairness

-----------------------------------------------------------------------------
(* Properties.                                                             *)

(* The variables have their types, the loop of tim_chk_cb runs with the     *)
(* lock, and the time it has read has come.                                 *)
TypeOK ==
    /\ queue \in Seq(Nodes)
    /\ lk \in Workers \cup {NoThread}
    /\ heap \in Heaps
    /\ heap_root \in Timers \cup {Nil}
    /\ expire \in [Timers -> 0 .. MaxTime]
    /\ owner_queue \subseteq Timers /\ arming \subseteq owner_queue
    /\ now \in 0 .. MaxTime
    /\ tick \in BOOLEAN
    /\ pc \in [Workers -> {"idle", "chk", "loop"}]
    /\ seen \in [Workers -> 0 .. MaxTime]
    /\ \A w \in Workers : (pc[w] = "loop" <=> lk = w) /\ seen[w] <= now

(* A timer is armed or queued to run, never both.                           *)
FiredOnce ==
    /\ NoDuplicates(queue)
    /\ \A t \in owner_queue : ~ OnList(queue, t)

(* The timers that are in the heap.                                         *)
Linked == owner_queue \ arming

(* Whatever timers are armed, cancelled and fired, and in whatever order,   *)
(* the links form one tree in heap order that holds exactly the timers that *)
(* think they are in it, but for those still to be linked; a timer outside  *)
(* has no links into it left; and a timer is armed or queued to run, never  *)
(* both.                                                                    *)
HeapInv ==
    /\ TypeOK
    /\ FiredOnce
    /\ WellFormed(heap, expire, heap_root)
    /\ Reached(heap, heap_root) = Linked
    /\ \A t \in Timers \ Linked : ClearLinks(heap, t) = heap

(* The deadlines of the timers in the heap, as far as any link leads to     *)
(* them.                                                                    *)
Deadlines ==
    LET in == {heap_root} \cup Range(heap.child) \cup Range(heap.sibling)
    IN  [t \in Timers |-> IF t \in in THEN expire[t] ELSE Nil]

Abstract == INSTANCE TimerSet
    WITH Never <- Nil, MaxDelay <- MaxTime, deadline <- Deadlines,
         asked <- [t \in Timers |-> IF t \in arming THEN expire[t] ELSE Nil],
         fired <- { t \in Timers : OnList(queue, t) }

(* The heap, with its splitting and melding on pops and cancellations, is a *)
(* set of deadlines: a timer keeps the deadline it was given when its delay *)
(* was asked for, however long it then takes to be armed; it fires when it  *)
(* is due and no armed one is due earlier; and no other timer is lost or    *)
(* moved by a pop or a cancellation.                                        *)
ImplementsTimerSet == Abstract!TimerSpec

(* Every delay ends: an armed timer is resumed (or cancelled), although     *)
(* tick_update reads the heap's root without the lock and both clocks, the  *)
(* one of the deadline and the one of the check, are read before it.        *)
EveryDelayEnds == \A t \in Watched : t \in owner_queue ~> t \notin owner_queue
=============================================================================
