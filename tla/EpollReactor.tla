---------------------------- MODULE EpollReactor ----------------------------
(***************************************************************************)
(* epoll_reactor<lock> (io/epoll_reactor.hpp) for one fd: the waiters of   *)
(* the fd, the mask kept in fd_state, and the reactor thread with its      *)
(* timeouts.  Registrations last for one event; epoll is used in its edge- *)
(* triggered mode, so an event taken from the kernel and not delivered is  *)
(* gone for good.                                                          *)
(*                                                                         *)
(* A waiter that was posted tries its operation; if it would block it      *)
(* registers again.  Waiters stop registering when remove_fd begins;       *)
(* module SerialIo drops this assumption.                               *)
(***************************************************************************)
EXTENDS Integers, FiniteSets

CONSTANTS
    InWaiters, OutWaiters,   \* waiters for EPOLLIN and for EPOLLOUT
    Timed                    \* those registered with a deadline (connect)

Waiters == InWaiters \cup OutWaiters

ASSUME ReactorAssumption ==
    /\ InWaiters \cap OutWaiters = {}
    /\ Timed \subseteq Waiters

VARIABLES
    st_waiters, st_interest,   \* fd_state of the fd
    ready,                     \* the kernel: what the fd is ready for,
    kernel, readyList,         \* the mask in epoll, and whether it is on the ready list
    rpc, got, hand,            \* reactor thread: events, waiters still to be posted
    rm, rmHand,                \* remove_fd: progress, waiters still to be posted
    state                      \* of each waiter

fdVars == <<st_waiters, st_interest>>
kernelVars == <<kernel, readyList>>
reactorVars == <<fdVars, ready, kernelVars, rpc, got, hand, rm, rmHand, state>>

Mask(w) == IF w \in InWaiters THEN "in" ELSE "out"

(* (flags & wi.mask) || (flags & (EPOLLERR | EPOLLHUP))                     *)
Matches(w, flags) == Mask(w) \in flags \/ "err" \in flags

Polled(k) == IF k = {} THEN {} ELSE ready \cap (k \cup {"err"})

(* The first waiters are about to register.                                 *)
ReactorInit ==
    /\ st_waiters = {} /\ st_interest = {}
    /\ ready = {} /\ kernel = {} /\ readyList = FALSE
    /\ rpc = "collect" /\ got = {} /\ hand = {}
    /\ rm = "no" /\ rmHand = {}
    /\ state = [w \in Waiters |-> "new"]

Become(ws, s) == state' = [w \in Waiters |-> IF w \in ws THEN s ELSE state[w]]

-----------------------------------------------------------------------------
(* The kernel (external).                                                  *)

(* The fd becomes ready: an edge, if the mask asks for it.                  *)
KernelReady(f) ==
    /\ rm # "done"
    /\ f \notin ready
    /\ ready' = ready \cup {f}
    /\ readyList' = (readyList \/ (kernel # {} /\ f \in kernel \cup {"err"}))
    /\ UNCHANGED <<fdVars, kernel, rpc, got, hand, rm, rmHand, state>>

(* epoll_ctl ADD or MOD polls the fd again; DEL forgets it.                 *)
EpollCtl(k) ==
    /\ kernel' = k
    /\ readyList' = (Polled(k) # {})

-----------------------------------------------------------------------------
(* The reactor's interface.                                                *)

(* Variant with a fault: a mask that only grows is left as it is.           *)
UpdateOnlyIfEmpty(ws) ==
    LET new_interest == { Mask(w) : w \in ws }
    IN  /\ st_interest' = new_interest
        /\ IF st_interest = {} \/ new_interest = {}
             THEN EpollCtl(new_interest) ELSE UNCHANGED kernelVars

(* update_fd_interest_unlocked: the kernel is told only of changes.         *)
UpdateInterest(ws) ==
    LET new_interest == { Mask(w) : w \in ws }
    IN  /\ st_interest' = new_interest
        /\ IF new_interest = st_interest
             THEN UNCHANGED kernelVars ELSE EpollCtl(new_interest)

(* register_waiter                                                          *)
RegisterWaiter(w) ==
    /\ rm = "no"
    /\ state[w] \in {"new", "rearm"}
    /\ st_waiters' = st_waiters \cup {w}
    /\ UpdateInterest(st_waiters')
    /\ Become({w}, "registered")
    /\ UNCHANGED <<ready, rpc, got, hand, rm, rmHand>>

(* remove_fd: the entry of the fd goes, under the lock ...                  *)
RemoveErase ==
    /\ rm = "no"
    /\ rmHand' = st_waiters
    /\ st_waiters' = {} /\ st_interest' = {}
    /\ rm' = "del"
    /\ UNCHANGED <<ready, kernelVars, rpc, got, hand, state>>

(* ... then the kernel forgets it ...                                       *)
RemoveDel ==
    /\ rm = "del"
    /\ EpollCtl({})
    /\ rm' = "post"
    /\ UNCHANGED <<fdVars, ready, rpc, got, hand, rmHand, state>>

(* Variant with a fault: the waiters of a removed fd are forgotten.         *)
RemoveForgets ==
    /\ rm = "post"
    /\ rmHand' = {}
    /\ rm' = "done"
    /\ UNCHANGED <<fdVars, ready, kernelVars, rpc, got, hand, state>>

(* ... and the waiters are posted.                                          *)
RemovePost ==
    /\ rm = "post"
    /\ Become(rmHand, "posted")
    /\ rmHand' = {}
    /\ rm' = "done"
    /\ UNCHANGED <<fdVars, ready, kernelVars, rpc, got, hand>>

-----------------------------------------------------------------------------
(* The reactor thread.                                                     *)

(* collect_timeouts, at the top and at the end of the loop.                 *)
CollectTimeouts(due) ==
    /\ rpc = "collect"
    /\ due \subseteq st_waiters \cap Timed
    /\ st_waiters' = st_waiters \ due
    /\ IF due # {} THEN UpdateInterest(st_waiters')
                   ELSE UNCHANGED <<st_interest, kernelVars>>
    /\ hand' = due
    /\ rpc' = "timeouts"
    /\ UNCHANGED <<ready, got, rm, rmHand, state>>

(* handle_timeouts: timeout_func, then the post.                            *)
HandleTimeouts ==
    /\ rpc = "timeouts"
    /\ Become(hand, "posted")
    /\ hand' = {}
    /\ rpc' = "wait"
    /\ UNCHANGED <<fdVars, ready, kernelVars, got, rm, rmHand>>

(* epoll_wait: an fd on the ready list is polled once more; or 50 ms pass.  *)
EpollWait ==
    /\ rpc = "wait"
    /\ \/ /\ readyList
          /\ readyList' = FALSE
          /\ got' = Polled(kernel)
          /\ rpc' = IF got' = {} THEN "collect" ELSE "dispatch"
       \/ /\ ~ readyList
          /\ rpc' = "collect"
          /\ UNCHANGED <<readyList, got>>
    /\ UNCHANGED <<fdVars, ready, kernel, hand, rm, rmHand, state>>

(* Variant with a fault: the waiters stay on the list.                      *)
DispatchKeeps ==
    /\ rpc = "dispatch"
    /\ hand' = { w \in st_waiters : Matches(w, got) }
    /\ got' = {}
    /\ rpc' = "post"
    /\ UNCHANGED <<fdVars, kernelVars, ready, rm, rmHand, state>>

(* The waiters the event is for leave the fd's list, under the lock; an fd  *)
(* that was removed meanwhile is not found.                                 *)
Dispatch ==
    /\ rpc = "dispatch"
    /\ hand' = { w \in st_waiters : Matches(w, got) }
    /\ st_waiters' = st_waiters \ hand'
    /\ IF rm = "no" THEN UpdateInterest(st_waiters') ELSE UNCHANGED <<st_interest, kernelVars>>
    /\ got' = {}
    /\ rpc' = "post"
    /\ UNCHANGED <<ready, rm, rmHand, state>>

(* post_via_route for each of them, after the unlock.                       *)
PostResumed ==
    /\ rpc = "post"
    /\ Become(hand, "posted")
    /\ hand' = {}
    /\ rpc' = "collect"
    /\ UNCHANGED <<fdVars, ready, kernelVars, got, rm, rmHand>>

-----------------------------------------------------------------------------
(* The callback of a posted waiter, on an executor thread: the operation    *)
(* succeeds, perhaps using up what the fd was ready for, or would block.    *)
Attempt(w) ==
    /\ state[w] = "posted"
    /\ \/ /\ Mask(w) \in ready
          /\ \/ ready' = ready \ {Mask(w)}
             \/ UNCHANGED ready
          /\ Become({w}, "new")
       \/ /\ Mask(w) \notin ready /\ "err" \notin ready /\ rm = "no"
          /\ Become({w}, "rearm")
          /\ UNCHANGED ready
       \/ /\ "err" \in ready \/ rm # "no"
          /\ Become({w}, "ended")
          /\ UNCHANGED ready
    /\ UNCHANGED <<fdVars, kernelVars, rpc, got, hand, rm, rmHand>>

-----------------------------------------------------------------------------

ReactorStep ==
    \/ \E due \in SUBSET Timed : CollectTimeouts(due)
    \/ HandleTimeouts \/ EpollWait \/ Dispatch \/ PostResumed

RemoveStep == RemoveDel \/ RemovePost

ReactorNext ==
    \/ \E f \in {"in", "out", "err"} : KernelReady(f)
    \/ \E w \in Waiters : RegisterWaiter(w) \/ Attempt(w)
    \/ ReactorStep
    \/ RemoveErase \/ RemoveStep

ReactorSpec == ReactorInit /\ [][ReactorNext]_reactorVars

(* The reactor thread runs and a remove_fd that has begun ends.             *)
ReactorFairSpec == ReactorSpec /\ WF_reactorVars(ReactorStep) /\ WF_reactorVars(RemoveStep)

-----------------------------------------------------------------------------
(* Properties.                                                             *)

(* The variables have their types.                                          *)
ReactorTypeOK ==
    /\ st_waiters \subseteq Waiters /\ st_interest \subseteq {"in", "out"}
    /\ ready \subseteq {"in", "out", "err"}
    /\ kernel \subseteq {"in", "out"} /\ readyList \in BOOLEAN
    /\ rpc \in {"collect", "timeouts", "wait", "dispatch", "post"}
    /\ got \subseteq {"in", "out", "err"}
    /\ hand \subseteq Waiters /\ rmHand \subseteq Waiters
    /\ rm \in {"no", "del", "post", "done"}
    /\ state \in [Waiters -> {"new", "registered", "posted", "rearm", "ended"}]

(* A registration is delivered once: a registered waiter is on the fd's     *)
(* list, or in the hands of the reactor thread, or in those of remove_fd,   *)
(* never in two of them, and no other waiter is.                            *)
DeliveredOnce ==
    /\ st_waiters \cup hand \cup rmHand = { w \in Waiters : state[w] = "registered" }
    /\ st_waiters \cap hand = {} /\ st_waiters \cap rmHand = {} /\ hand \cap rmHand = {}

(* The cached mask is the union of the waiters' masks and is what the       *)
(* kernel has been told, although it is only told of changes.               *)
InterestAgrees ==
    /\ st_interest = { Mask(w) : w \in st_waiters }
    /\ rm = "no" => kernel = st_interest
    /\ rm \in {"post", "done"} => kernel = {}

(* No edge is lost: a registered waiter whose operation is possible has its *)
(* event on the kernel's ready list, or the reactor thread holds an event   *)
(* that will be given to it.                                                *)
NoEdgeLost ==
    \A w \in st_waiters : Matches(w, ready) =>
        readyList \/ (rpc = "dispatch" /\ Matches(w, got))

(* Where the reactor thread keeps its events and waiters; after remove_fd   *)
(* has erased the entry, the fd has no waiters.                             *)
PlaceInv ==
    /\ hand # {} => rpc \in {"timeouts", "post"}
    /\ got # {} <=> rpc = "dispatch"
    /\ rmHand # {} => rm \in {"del", "post"}
    /\ rm # "no" => st_waiters = {}

(* The inductive invariant.                                                 *)
ReactorInv ==
    ReactorTypeOK /\ DeliveredOnce /\ InterestAgrees /\ NoEdgeLost /\ PlaceInv

(* If the reactor thread runs, a waiter whose operation is possible is      *)
(* posted (unless another waiter uses up what the fd was ready for).        *)
ReadyWaiterPosted ==
    \A w \in Waiters :
        state[w] = "registered" /\ Matches(w, ready) ~>
            state[w] # "registered" \/ ~ Matches(w, ready)

(* remove_fd wakes every waiter, whatever the reactor thread was doing.     *)
RemoveWakes ==
    \A w \in Waiters :
        rm # "no" /\ state[w] = "registered" ~> state[w] # "registered"

(* A waiter is woken when it should be, by an event or by the removal.      *)
WaitersWoken == ReadyWaiterPosted /\ RemoveWakes
=============================================================================
