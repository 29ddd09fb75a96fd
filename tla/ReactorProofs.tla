---------------------------- MODULE ReactorProofs ----------------------------
(***************************************************************************)
(* The way of an event to the coroutine that waits for it, for any number  *)
(* of waiters and threads: epoll_reactor hands it over once, callback_wq   *)
(* has one runner, loses no post and runs the callbacks in order.          *)
(***************************************************************************)
EXTENDS EpollReactor, CallbackWq, SequenceTheorems, TLAPS

-----------------------------------------------------------------------------
(* EpollReactor.                                                           *)

(* What epoll_ctl is told about: the masks of some waiters.                 *)
LEMMA MaskTypes ==
    /\ \A w \in Waiters : Mask(w) \in {"in", "out"}
    /\ \A ws \in SUBSET Waiters : { Mask(w) : w \in ws } \subseteq {"in", "out"}
BY DEF Mask

(* The initial states satisfy the invariant.                                *)
LEMMA ReactorInvInit == ReactorInit => ReactorInv
BY DEF ReactorInit, ReactorInv, ReactorTypeOK, DeliveredOnce, InterestAgrees, NoEdgeLost, PlaceInv, Become

(* epoll_ctl with the masks of the waiters of the fd: if one of them could  *)
(* go on, the fd is put on the ready list.                                  *)
LEMMA CtlFindsReady ==
    ASSUME NEW ws \in SUBSET Waiters, NEW v \in ws, Matches(v, ready),
           EpollCtl({ Mask(w) : w \in ws })
    PROVE  readyList'
<1>1. Mask(v) \in { Mask(w) : w \in ws }
  OBVIOUS
<1>2. Polled({ Mask(w) : w \in ws }) # {}
  BY <1>1 DEF Polled, Matches
<1> QED
  BY <1>2 DEF EpollCtl

(* update_fd_interest_unlocked: the mask kept and the kernel's mask agree   *)
(* with the waiters again, and have their types.                            *)
LEMMA UpdateAgrees ==
    ASSUME NEW ws \in SUBSET Waiters, ReactorTypeOK, kernel = st_interest,
           UpdateInterest(ws)
    PROVE  /\ st_interest' = { Mask(w) : w \in ws }
           /\ kernel' = st_interest'
           /\ st_interest' \subseteq {"in", "out"}
           /\ kernel' \subseteq {"in", "out"}
           /\ readyList' \in BOOLEAN
<1>1. { Mask(w) : w \in ws } \subseteq {"in", "out"}
  BY MaskTypes
<1>2. CASE { Mask(w) : w \in ws } = st_interest
  BY <1>1, <1>2 DEF UpdateInterest, kernelVars, ReactorTypeOK
<1>3. CASE { Mask(w) : w \in ws } # st_interest
  BY <1>1, <1>3 DEF UpdateInterest, EpollCtl
<1> QED
  BY <1>2, <1>3

-----------------------------------------------------------------------------
(* Preservation of the parts of the invariant.                             *)

(* Every step keeps the types.                                              *)
LEMMA ReactorTypeStep == ReactorInv /\ [ReactorNext]_reactorVars => ReactorTypeOK'
<1> SUFFICES ASSUME ReactorInv, [ReactorNext]_reactorVars PROVE ReactorTypeOK'
  OBVIOUS
<1> USE DEF ReactorInv
<1>1. ASSUME NEW f \in {"in", "out", "err"}, KernelReady(f) PROVE ReactorTypeOK'
  BY <1>1 DEF KernelReady, ReactorTypeOK, fdVars
<1>2. ASSUME NEW w \in Waiters, RegisterWaiter(w) PROVE ReactorTypeOK'
  <2>1. st_waiters' \in SUBSET Waiters /\ kernel = st_interest
    BY <1>2 DEF RegisterWaiter, ReactorTypeOK, InterestAgrees
  <2>2. UpdateInterest(st_waiters')
    BY <1>2 DEF RegisterWaiter
  <2>3. /\ st_interest' \subseteq {"in", "out"}
        /\ kernel' \subseteq {"in", "out"} /\ readyList' \in BOOLEAN
    BY <2>1, <2>2, UpdateAgrees
  <2> QED
    BY <1>2, <2>1, <2>3 DEF RegisterWaiter, ReactorTypeOK, Become
<1>3. ASSUME NEW w \in Waiters, Attempt(w) PROVE ReactorTypeOK'
  <2>1. ready' \subseteq ready /\ \E s \in {"new", "rearm", "ended"} : Become({w}, s)
    BY <1>3 DEF Attempt
  <2> QED
    BY <1>3, <2>1 DEF Attempt, ReactorTypeOK, Become, fdVars, kernelVars
<1>4. ASSUME NEW due \in SUBSET Timed, CollectTimeouts(due) PROVE ReactorTypeOK'
  <2>1. CASE due = {}
    BY <1>4, <2>1 DEF CollectTimeouts, ReactorTypeOK, kernelVars
  <2>2. CASE due # {}
    <3>1. st_waiters' \in SUBSET Waiters /\ kernel = st_interest
      BY <1>4, <2>2 DEF CollectTimeouts, ReactorTypeOK, InterestAgrees, PlaceInv
    <3>2. UpdateInterest(st_waiters')
      BY <1>4, <2>2 DEF CollectTimeouts
    <3>3. /\ st_interest' \subseteq {"in", "out"}
          /\ kernel' \subseteq {"in", "out"} /\ readyList' \in BOOLEAN
      BY <3>1, <3>2, UpdateAgrees
    <3> QED
      BY <1>4, <3>1, <3>3 DEF CollectTimeouts, ReactorTypeOK
  <2> QED
    BY <2>1, <2>2
<1>5. ASSUME HandleTimeouts PROVE ReactorTypeOK'
  BY <1>5 DEF HandleTimeouts, ReactorTypeOK, Become, fdVars, kernelVars
<1>6. ASSUME EpollWait PROVE ReactorTypeOK'
  BY <1>6 DEF EpollWait, ReactorTypeOK, Polled, fdVars
<1>7. ASSUME Dispatch PROVE ReactorTypeOK'
  <2>1. st_waiters' \in SUBSET Waiters /\ hand' \subseteq Waiters
    BY <1>7 DEF Dispatch, ReactorTypeOK
  <2>2. CASE rm = "no"
    <3>1. kernel = st_interest /\ UpdateInterest(st_waiters')
      BY <1>7, <2>2 DEF Dispatch, InterestAgrees
    <3>2. /\ st_interest' \subseteq {"in", "out"}
          /\ kernel' \subseteq {"in", "out"} /\ readyList' \in BOOLEAN
      BY <2>1, <3>1, UpdateAgrees
    <3> QED
      BY <1>7, <2>1, <3>2 DEF Dispatch, ReactorTypeOK
  <2>3. CASE rm # "no"
    BY <1>7, <2>1, <2>3 DEF Dispatch, ReactorTypeOK, kernelVars
  <2> QED
    BY <2>2, <2>3
<1>8. ASSUME PostResumed PROVE ReactorTypeOK'
  BY <1>8 DEF PostResumed, ReactorTypeOK, Become, fdVars, kernelVars
<1>9. ASSUME RemoveErase PROVE ReactorTypeOK'
  BY <1>9 DEF RemoveErase, ReactorTypeOK, kernelVars
<1>10. ASSUME RemoveDel PROVE ReactorTypeOK'
  BY <1>10 DEF RemoveDel, ReactorTypeOK, EpollCtl, fdVars
<1>11. ASSUME RemovePost PROVE ReactorTypeOK'
  BY <1>11 DEF RemovePost, ReactorTypeOK, Become, fdVars, kernelVars
<1>12. ASSUME UNCHANGED reactorVars PROVE ReactorTypeOK'
  BY <1>12 DEF reactorVars, ReactorTypeOK, fdVars, kernelVars
<1> QED
  BY <1>1, <1>2, <1>3, <1>4, <1>5, <1>6, <1>7, <1>8, <1>9, <1>10, <1>11, <1>12
     DEF ReactorNext, ReactorStep, RemoveStep

(* A waiter changes hands in one step: it leaves the place it was in and    *)
(* its own state changes when it leaves the last.                           *)
LEMMA PlaceStep == ReactorInv /\ [ReactorNext]_reactorVars => DeliveredOnce' /\ PlaceInv'
<1> SUFFICES ASSUME ReactorInv, [ReactorNext]_reactorVars PROVE DeliveredOnce' /\ PlaceInv'
  OBVIOUS
<1> USE DEF ReactorInv, ReactorTypeOK, DeliveredOnce, PlaceInv
<1>1. ASSUME NEW f \in {"in", "out", "err"}, KernelReady(f)
      PROVE DeliveredOnce' /\ PlaceInv'
  BY <1>1 DEF KernelReady, fdVars
<1>2. ASSUME NEW w \in Waiters, RegisterWaiter(w) PROVE DeliveredOnce' /\ PlaceInv'
  BY <1>2 DEF RegisterWaiter, Become
<1>3. ASSUME NEW w \in Waiters, Attempt(w) PROVE DeliveredOnce' /\ PlaceInv'
  <2>1. state[w] = "posted" /\ \E s \in {"new", "rearm", "ended"} : Become({w}, s)
    BY <1>3 DEF Attempt
  <2>2. \A v \in Waiters : state'[v] = "registered" <=> state[v] = "registered"
    BY <2>1 DEF Become
  <2> QED
    BY <1>3, <2>2 DEF Attempt, fdVars
<1>4. ASSUME NEW due \in SUBSET Timed, CollectTimeouts(due)
      PROVE DeliveredOnce' /\ PlaceInv'
  BY <1>4 DEF CollectTimeouts
<1>5. ASSUME HandleTimeouts PROVE DeliveredOnce' /\ PlaceInv'
  BY <1>5 DEF HandleTimeouts, Become, fdVars
<1>6. ASSUME EpollWait PROVE DeliveredOnce' /\ PlaceInv'
  BY <1>6 DEF EpollWait, fdVars
<1>7. ASSUME Dispatch PROVE DeliveredOnce' /\ PlaceInv'
  BY <1>7 DEF Dispatch
<1>8. ASSUME PostResumed PROVE DeliveredOnce' /\ PlaceInv'
  BY <1>8 DEF PostResumed, Become, fdVars
<1>9. ASSUME RemoveErase PROVE DeliveredOnce' /\ PlaceInv'
  BY <1>9 DEF RemoveErase
<1>10. ASSUME RemoveDel PROVE DeliveredOnce' /\ PlaceInv'
  BY <1>10 DEF RemoveDel, fdVars
<1>11. ASSUME RemovePost PROVE DeliveredOnce' /\ PlaceInv'
  BY <1>11 DEF RemovePost, Become, fdVars
<1>12. ASSUME UNCHANGED reactorVars PROVE DeliveredOnce' /\ PlaceInv'
  BY <1>12 DEF reactorVars, fdVars
<1> QED
  BY <1>1, <1>2, <1>3, <1>4, <1>5, <1>6, <1>7, <1>8, <1>9, <1>10, <1>11, <1>12
     DEF ReactorNext, ReactorStep, RemoveStep

(* update_fd_interest_unlocked does not lose an edge: the fd was on the     *)
(* ready list and stays there, or the mask changes and it is put there.     *)
LEMMA UpdateKeepsEdge ==
    ASSUME NEW ws \in SUBSET Waiters, NEW v \in ws, Matches(v, ready),
           UpdateInterest(ws),
           { Mask(w) : w \in ws } = st_interest => readyList
    PROVE  readyList'
<1>1. CASE { Mask(w) : w \in ws } = st_interest
  BY <1>1 DEF UpdateInterest, kernelVars
<1>2. CASE { Mask(w) : w \in ws } # st_interest
  BY <1>2, CtlFindsReady DEF UpdateInterest
<1> QED
  BY <1>1, <1>2

(* Every step keeps the cached mask, the kernel's and the waiters' agreed.  *)
LEMMA InterestStep == ReactorInv /\ [ReactorNext]_reactorVars => InterestAgrees'
<1> SUFFICES ASSUME ReactorInv, [ReactorNext]_reactorVars PROVE InterestAgrees'
  OBVIOUS
<1> USE DEF ReactorInv
<1>1. ASSUME NEW f \in {"in", "out", "err"}, KernelReady(f) PROVE InterestAgrees'
  BY <1>1 DEF KernelReady, InterestAgrees, fdVars
<1>2. ASSUME NEW w \in Waiters, RegisterWaiter(w) PROVE InterestAgrees'
  <2>1. st_waiters' \in SUBSET Waiters /\ kernel = st_interest /\ rm' = "no"
    BY <1>2 DEF RegisterWaiter, ReactorTypeOK, InterestAgrees
  <2>2. UpdateInterest(st_waiters')
    BY <1>2 DEF RegisterWaiter
  <2> QED
    BY <2>1, <2>2, UpdateAgrees DEF InterestAgrees
<1>3. ASSUME NEW w \in Waiters, Attempt(w) PROVE InterestAgrees'
  BY <1>3 DEF Attempt, InterestAgrees, fdVars, kernelVars
<1>4. ASSUME NEW due \in SUBSET Timed, CollectTimeouts(due) PROVE InterestAgrees'
  <2>1. CASE due = {}
    <3>1. st_waiters' = st_waiters
      BY <1>4, <2>1 DEF CollectTimeouts
    <3> QED
      BY <1>4, <2>1, <3>1 DEF CollectTimeouts, InterestAgrees, kernelVars
  <2>2. CASE due # {}
    <3>1. st_waiters' \in SUBSET Waiters /\ kernel = st_interest /\ rm' = "no"
      BY <1>4, <2>2 DEF CollectTimeouts, ReactorTypeOK, InterestAgrees, PlaceInv
    <3>2. UpdateInterest(st_waiters')
      BY <1>4, <2>2 DEF CollectTimeouts
    <3> QED
      BY <3>1, <3>2, UpdateAgrees DEF InterestAgrees
  <2> QED
    BY <2>1, <2>2
<1>5. ASSUME HandleTimeouts PROVE InterestAgrees'
  BY <1>5 DEF HandleTimeouts, InterestAgrees, fdVars, kernelVars
<1>6. ASSUME EpollWait PROVE InterestAgrees'
  BY <1>6 DEF EpollWait, InterestAgrees, fdVars
<1>7. ASSUME Dispatch PROVE InterestAgrees'
  <2>1. CASE rm = "no"
    <3>1. /\ st_waiters' \in SUBSET Waiters /\ kernel = st_interest /\ rm' = "no"
          /\ UpdateInterest(st_waiters')
      BY <1>7, <2>1 DEF Dispatch, ReactorTypeOK, InterestAgrees
    <3> QED
      BY <3>1, UpdateAgrees DEF InterestAgrees
  <2>2. CASE rm # "no"
    <3>1. st_waiters' = {} /\ st_waiters = {}
      BY <1>7, <2>2 DEF Dispatch, PlaceInv
    <3> QED
      BY <1>7, <2>2, <3>1 DEF Dispatch, InterestAgrees, kernelVars
  <2> QED
    BY <2>1, <2>2
<1>8. ASSUME PostResumed PROVE InterestAgrees'
  BY <1>8 DEF PostResumed, InterestAgrees, fdVars, kernelVars
<1>9. ASSUME RemoveErase PROVE InterestAgrees'
  BY <1>9 DEF RemoveErase, InterestAgrees
<1>10. ASSUME RemoveDel PROVE InterestAgrees'
  BY <1>10 DEF RemoveDel, InterestAgrees, EpollCtl, fdVars
<1>11. ASSUME RemovePost PROVE InterestAgrees'
  BY <1>11 DEF RemovePost, InterestAgrees, fdVars, kernelVars
<1>12. ASSUME UNCHANGED reactorVars PROVE InterestAgrees'
  BY <1>12 DEF reactorVars, InterestAgrees, fdVars, kernelVars
<1> QED
  BY <1>1, <1>2, <1>3, <1>4, <1>5, <1>6, <1>7, <1>8, <1>9, <1>10, <1>11, <1>12
     DEF ReactorNext, ReactorStep, RemoveStep

(* What a waiter v needs in the next state: an event on the ready list or   *)
(* in the reactor thread's hands.                                           *)
LEMMA EdgeStep == ReactorInv /\ [ReactorNext]_reactorVars => NoEdgeLost'
<1> DEFINE Safe(v) == readyList \/ (rpc = "dispatch" /\ Matches(v, got))
<1> SUFFICES ASSUME ReactorInv, [ReactorNext]_reactorVars,
                    NEW v \in st_waiters', Matches(v, ready)'
             PROVE  Safe(v)'
  BY DEF NoEdgeLost, Matches
<1>0. /\ v \in st_waiters /\ Matches(v, ready) => Safe(v)
      /\ v \in st_waiters => rm = "no" /\ kernel = st_interest /\ Mask(v) \in kernel
  BY DEF ReactorInv, NoEdgeLost, PlaceInv, InterestAgrees
<1>1. ASSUME NEW f \in {"in", "out", "err"}, KernelReady(f) PROVE Safe(v)'
  BY <1>0, <1>1 DEF KernelReady, Matches, fdVars
<1>2. ASSUME NEW w \in Waiters, RegisterWaiter(w) PROVE Safe(v)'
  <2>1. /\ st_waiters' \in SUBSET Waiters /\ UpdateInterest(st_waiters')
        /\ Matches(v, ready) /\ w \in st_waiters'
        /\ rpc' = rpc /\ got' = got
    BY <1>2 DEF RegisterWaiter, ReactorInv, ReactorTypeOK, Matches
  <2>2. CASE { Mask(u) : u \in st_waiters' } # st_interest
    BY <2>1, <2>2, UpdateKeepsEdge
  <2>3. CASE { Mask(u) : u \in st_waiters' } = st_interest
    <3>1. Mask(v) \in { Mask(u) : u \in st_waiters' }
      OBVIOUS
    <3>2. PICK u \in st_waiters : Mask(u) = Mask(v)
      BY <2>3, <3>1 DEF ReactorInv, InterestAgrees
    <3>3. Safe(v)
      BY <2>1, <3>2 DEF ReactorInv, NoEdgeLost, Matches
    <3>4. readyList' = readyList
      BY <2>1, <2>3 DEF UpdateInterest, kernelVars
    <3> QED
      BY <2>1, <3>3, <3>4 DEF Matches
  <2> QED
    BY <2>2, <2>3
<1>3. ASSUME NEW w \in Waiters, Attempt(w) PROVE Safe(v)'
  BY <1>0, <1>3 DEF Attempt, Matches, fdVars, kernelVars
<1>4. ASSUME NEW due \in SUBSET Timed, CollectTimeouts(due) PROVE Safe(v)'
  <2>1. /\ v \in st_waiters /\ Matches(v, ready) /\ readyList
        /\ st_waiters' \in SUBSET Waiters
    BY <1>0, <1>4 DEF CollectTimeouts, Matches, ReactorInv, ReactorTypeOK
  <2>2. CASE due = {}
    BY <1>4, <2>1, <2>2 DEF CollectTimeouts, kernelVars
  <2>3. CASE due # {}
    <3>1. UpdateInterest(st_waiters')
      BY <1>4, <2>3 DEF CollectTimeouts
    <3> QED
      BY <2>1, <3>1, UpdateKeepsEdge
  <2> QED
    BY <2>2, <2>3
<1>5. ASSUME HandleTimeouts PROVE Safe(v)'
  BY <1>0, <1>5 DEF HandleTimeouts, Matches, fdVars, kernelVars
<1>6. ASSUME EpollWait PROVE Safe(v)'
  <2>1. v \in st_waiters /\ Matches(v, ready) /\ readyList /\ Mask(v) \in kernel
    BY <1>0, <1>6 DEF EpollWait, Matches, fdVars
  <2>2. got' = Polled(kernel) /\ rpc' = IF got' = {} THEN "collect" ELSE "dispatch"
    BY <1>6, <2>1 DEF EpollWait
  <2>3. Matches(v, Polled(kernel)) /\ Polled(kernel) # {}
    BY <2>1 DEF Matches, Polled
  <2> QED
    BY <2>2, <2>3 DEF Matches
<1>7. ASSUME Dispatch PROVE Safe(v)'
  <2>1. /\ v \in st_waiters /\ Matches(v, ready) /\ readyList /\ rm = "no"
        /\ st_waiters' \in SUBSET Waiters
    BY <1>0, <1>7 DEF Dispatch, Matches, ReactorInv, ReactorTypeOK
  <2>2. UpdateInterest(st_waiters')
    BY <1>7, <2>1 DEF Dispatch
  <2> QED
    BY <2>1, <2>2, UpdateKeepsEdge
<1>8. ASSUME PostResumed PROVE Safe(v)'
  BY <1>0, <1>8 DEF PostResumed, Matches, fdVars, kernelVars
<1>9. ASSUME RemoveErase PROVE Safe(v)'
  BY <1>9 DEF RemoveErase
<1>10. ASSUME RemoveDel PROVE Safe(v)'
  BY <1>0, <1>10 DEF RemoveDel, fdVars
<1>11. ASSUME RemovePost PROVE Safe(v)'
  BY <1>0, <1>11 DEF RemovePost, fdVars
<1>12. ASSUME UNCHANGED reactorVars PROVE Safe(v)'
  BY <1>0, <1>12 DEF reactorVars, Matches, fdVars, kernelVars
<1> QED
  BY <1>1, <1>2, <1>3, <1>4, <1>5, <1>6, <1>7, <1>8, <1>9, <1>10, <1>11, <1>12
     DEF ReactorNext, ReactorStep, RemoveStep

-----------------------------------------------------------------------------
(* The theorems.                                                           *)

(* In every reachable state of the reactor, with any waiters, the places of *)
(* the waiters, the cached mask, the kernel's mask and the events in flight *)
(* fit together as ReactorInv says.                                         *)
THEOREM ReactorInvariant == ReactorSpec => []ReactorInv
<1>1. ReactorInv /\ [ReactorNext]_reactorVars => ReactorInv'
  BY ReactorTypeStep, PlaceStep, InterestStep, EdgeStep DEF ReactorInv
<1> QED
  BY ReactorInvInit, <1>1, PTL DEF ReactorSpec

(* epoll is edge-triggered and update_fd_interest_unlocked calls epoll_ctl  *)
(* only when the mask changes; still a registered waiter that could go on   *)
(* always has an event on the ready list or in dispatch.                    *)
THEOREM NoEdgeIsLost == ReactorSpec => []NoEdgeLost
<1>1. ReactorInv => NoEdgeLost
  BY DEF ReactorInv
<1> QED
  BY ReactorInvariant, <1>1, PTL

(* Timeouts, events and remove_fd compete for a registered waiter, and only *)
(* one of them has it.                                                      *)
THEOREM WaiterDeliveredOnce == ReactorSpec => []DeliveredOnce
<1>1. ReactorInv => DeliveredOnce
  BY DEF ReactorInv
<1> QED
  BY ReactorInvariant, <1>1, PTL

-----------------------------------------------------------------------------
(* CallbackWq.                                                             *)

W == INSTANCE WorkQueueProofs WITH queue <- Backlog

(* The facts about lists that the proofs below use.                         *)
LEMMA PendingAppend ==
    ASSUME NEW q \in Seq(Nodes), NEW n \in Nodes
    PROVE  /\ Append(q, n) \in Seq(Nodes)
           /\ Append(q, n) # << >>
           /\ \A m : Q!OnList(Append(q, n), m) <=> Q!OnList(q, m) \/ m = n
           /\ Q!NoDuplicates(q) /\ ~ Q!OnList(q, n) => Q!NoDuplicates(Append(q, n))
  <1>1. /\ Append(q, n) \in Seq(Nodes)
        /\ Append(q, n) # << >>
        /\ \A m : W!OnList(Append(q, n), m) <=> W!OnList(q, m) \/ m = n
        /\ W!NoDuplicates(q) /\ ~ W!OnList(q, n) => W!NoDuplicates(Append(q, n))
    BY W!AppendFacts
  <1>2. \A r, m : Q!OnList(r, m) <=> W!OnList(r, m)
    BY DEF Q!OnList, W!OnList
  <1>3. \A r : Q!NoDuplicates(r) <=> W!NoDuplicates(r)
    BY DEF Q!NoDuplicates, W!NoDuplicates
  <1> QED  BY <1>1, <1>2, <1>3

(* The same for taking the first entry, as drain does.                      *)
LEMMA LocalTail ==
    ASSUME NEW q \in Seq(Nodes), q # << >>
    PROVE  /\ Head(q) \in Nodes
           /\ Q!OnList(q, Head(q))
           /\ Tail(q) \in Seq(Nodes)
           /\ \A m : Q!OnList(q, m) <=> Q!OnList(Tail(q), m) \/ m = Head(q)
           /\ Q!NoDuplicates(q) => Q!NoDuplicates(Tail(q)) /\ ~ Q!OnList(Tail(q), Head(q))
  <1>1. /\ Head(q) \in Nodes /\ W!OnList(q, Head(q))
        /\ Tail(q) \in Seq(Nodes)
        /\ \A m : W!OnList(q, m) <=> W!OnList(Tail(q), m) \/ m = Head(q)
        /\ W!NoDuplicates(q) => W!NoDuplicates(Tail(q)) /\ ~ W!OnList(Tail(q), Head(q))
    BY W!TailFacts
  <1>2. \A r, m : Q!OnList(r, m) <=> W!OnList(r, m)
    BY DEF Q!OnList, W!OnList
  <1>3. \A r : Q!NoDuplicates(r) <=> W!NoDuplicates(r)
    BY DEF Q!NoDuplicates, W!NoDuplicates
  <1> QED  BY <1>1, <1>2, <1>3

-----------------------------------------------------------------------------
(* The conjuncts of CallbackInv, one after the other.                      *)

(* The steps of a poster or a worker that leave the lists, the flags and    *)
(* the current entries alone.                                               *)
Quiet ==
    \/ \E p \in Posters : PostUnlock(p) \/ PostSched(p)
    \/ \E w \in Workers :
          \/ TakeRunner(w) \/ KeepAlive(w) \/ DrainEmpty(w) \/ BatchDone(w)
          \/ CallbackRearms(w) \/ TailCompare(w) \/ TailReset(w)

(* Every step is one of these.                                              *)
LEMMA StepCases ==
    ASSUME [Next]_vars
    PROVE  \/ Quiet
           \/ \E p \in Posters, n \in Nodes : PostAlready(p, n) \/ PostLink(p, n)
           \/ \E w \in Workers : DrainSplice(w) \/ NextEntry(w) \/ ClearEnqueued(w)
                                   \/ CallFunc(w) \/ FuncReturns(w)
           \/ UNCHANGED vars
  BY DEF Next, Post, DrainStep, Quiet

(* All variables have their types in the initial states.                    *)
LEMMA TypeInit == Init => TypeOK
  <1>1. << >> \in Seq(Nodes)
    BY EmptySeq
  <1> QED  BY <1>1, CallbackAssumption DEF Init, TypeOK, WorkerPcs, PosterPcs

(* Every step keeps the types.                                              *)
LEMMA TypeStep ==
    ASSUME TypeOK, [Next]_vars
    PROVE  TypeOK'
  <1> USE DEF TypeOK, WorkerPcs, DrainPcs, PosterPcs, Goto, drainVars
  <1>1. ASSUME NEW p \in Posters, PostUnlock(p) \/ PostSched(p)
        PROVE  TypeOK'
    BY <1>1 DEF PostUnlock, PostSched
  <1>2. ASSUME NEW w \in Workers,
               TakeRunner(w) \/ KeepAlive(w) \/ DrainEmpty(w) \/ BatchDone(w)
        PROVE  TypeOK'
    BY <1>2 DEF TakeRunner, KeepAlive, DrainEmpty, BatchDone
  <1>3. ASSUME NEW w \in Workers, CallbackRearms(w) \/ TailCompare(w) \/ TailReset(w)
        PROVE  TypeOK'
    BY <1>3 DEF CallbackRearms, TailCompare, TailReset
  <1>4. ASSUME NEW p \in Posters, NEW n \in Nodes, PostAlready(p, n) \/ PostLink(p, n)
        PROVE  TypeOK'
    <2>1. Append(pending, n) \in Seq(Nodes)
      BY PendingAppend
    <2> QED  BY <1>4, <2>1 DEF PostAlready, PostLink, Q!list_add_tail
  <1>5. ASSUME NEW w \in Workers, DrainSplice(w)
        PROVE  TypeOK'
    <2>1. << >> \in Seq(Nodes)
      BY EmptySeq
    <2> QED  BY <1>5, <2>1 DEF DrainSplice
  <1>6. ASSUME NEW w \in Workers, NextEntry(w)
        PROVE  TypeOK'
    <2>1. Head(local[w]) \in Nodes /\ Tail(local[w]) \in Seq(Nodes)
      BY <1>6, LocalTail DEF NextEntry
    <2> QED  BY <1>6, <2>1 DEF NextEntry
  <1>7. ASSUME NEW w \in Workers, ClearEnqueued(w) \/ CallFunc(w) \/ FuncReturns(w)
        PROVE  TypeOK'
    BY <1>7 DEF ClearEnqueued, CallFunc, FuncReturns
  <1>8. CASE UNCHANGED vars
    BY <1>8 DEF vars
  <1> QED  BY <1>1, <1>2, <1>3, <1>4, <1>5, <1>6, <1>7, <1>8, StepCases DEF Quiet

(* One runner, and it is on its way while running is set: what a poster     *)
(* that finds running set relies on.                                        *)
LEMMA RunnerStep ==
    ASSUME TypeOK, OneRunner, RunnerOnItsWay, [Next]_vars
    PROVE  (OneRunner /\ RunnerOnItsWay)'
  <1> USE DEF TypeOK, OneRunner, RunnerOnItsWay, Draining, Posting, WorkerPcs, DrainPcs,
              PosterPcs, Goto, drainVars
  <1>1. ASSUME NEW p \in Posters, NEW n \in Nodes, PostLink(p, n)
        PROVE  (OneRunner /\ RunnerOnItsWay)'
    <2>1. CASE running
      BY <1>1, <2>1 DEF PostLink
    <2>2. CASE ~ running
      BY <1>1, <2>2 DEF PostLink
    <2> QED  BY <2>1, <2>2
  <1>2. ASSUME NEW p \in Posters, PostUnlock(p)
        PROVE  (OneRunner /\ RunnerOnItsWay)'
    BY <1>2 DEF PostUnlock
  <1>3. ASSUME NEW p \in Posters, PostSched(p)
        PROVE  (OneRunner /\ RunnerOnItsWay)'
    BY <1>3 DEF PostSched
  <1>4. ASSUME NEW w \in Workers, TakeRunner(w)
        PROVE  (OneRunner /\ RunnerOnItsWay)'
    BY <1>4 DEF TakeRunner
  <1>5. ASSUME NEW w \in Workers, DrainEmpty(w)
        PROVE  (OneRunner /\ RunnerOnItsWay)'
    BY <1>5 DEF DrainEmpty
  <1>6. ASSUME NEW w \in Workers, DrainSplice(w)
        PROVE  (OneRunner /\ RunnerOnItsWay)'
    BY <1>6 DEF DrainSplice
  <1>7. ASSUME NEW w \in Workers,
               KeepAlive(w) \/ BatchDone(w) \/ NextEntry(w) \/ ClearEnqueued(w)
                 \/ CallFunc(w) \/ FuncReturns(w)
        PROVE  (OneRunner /\ RunnerOnItsWay)'
    <2>1. /\ pc[w] \in DrainPcs /\ pc'[w] \in DrainPcs
          /\ \A v \in Workers : v # w => pc'[v] = pc[v]
          /\ UNCHANGED <<postPc, running, runnerQueued, pending>>
      BY <1>7 DEF KeepAlive, BatchDone, NextEntry, ClearEnqueued, CallFunc, FuncReturns
    <2> QED  BY <2>1
  <1>8. ASSUME NEW w \in Workers, TailCompare(w) \/ TailReset(w)
        PROVE  (OneRunner /\ RunnerOnItsWay)'
    <2>1. /\ pc[w] \notin DrainPcs /\ pc'[w] \notin DrainPcs
          /\ \A v \in Workers : v # w => pc'[v] = pc[v]
          /\ UNCHANGED <<postPc, running, runnerQueued, pending>>
      BY <1>8 DEF TailCompare, TailReset
    <2> QED  BY <2>1
  <1>9. ASSUME UNCHANGED <<postPc, running, runnerQueued, pending, pc>>
        PROVE  (OneRunner /\ RunnerOnItsWay)'
    BY <1>9
  <1>10. ASSUME NEW p \in Posters, NEW n \in Nodes, PostAlready(p, n)
         PROVE  (OneRunner /\ RunnerOnItsWay)'
    BY <1>9, <1>10 DEF PostAlready
  <1>11. ASSUME NEW w \in Workers, CallbackRearms(w)
         PROVE  (OneRunner /\ RunnerOnItsWay)'
    BY <1>9, <1>11 DEF CallbackRearms
  <1>12. CASE UNCHANGED vars
    BY <1>9, <1>12 DEF vars
  <1> QED
    BY <1>1, <1>2, <1>3, <1>4, <1>5, <1>6, <1>7, <1>8, <1>10, <1>11, <1>12, StepCases
       DEF Quiet

(* The lock is held between steps by the poster that sets the guard only,   *)
(* and a drain has entries only inside its batch.                           *)
LEMMA LocalStep ==
    ASSUME TypeOK, LocalInv, [Next]_vars
    PROVE  LocalInv'
  <1> USE CallbackAssumption
      DEF TypeOK, LocalInv, WorkerPcs, DrainPcs, PosterPcs, Goto, drainVars
  <1>1. ASSUME NEW p \in Posters, NEW n \in Nodes, PostLink(p, n)
        PROVE  LocalInv'
    BY <1>1 DEF PostLink
  <1>2. ASSUME NEW p \in Posters, PostUnlock(p) \/ PostSched(p)
        PROVE  LocalInv'
    BY <1>2 DEF PostUnlock, PostSched
  <1>3. ASSUME NEW w \in Workers,
               TakeRunner(w) \/ KeepAlive(w) \/ DrainEmpty(w) \/ BatchDone(w)
        PROVE  LocalInv'
    BY <1>3 DEF TakeRunner, KeepAlive, DrainEmpty, BatchDone
  <1>4. ASSUME NEW w \in Workers, CallbackRearms(w) \/ TailCompare(w) \/ TailReset(w)
        PROVE  LocalInv'
    BY <1>4 DEF CallbackRearms, TailCompare, TailReset
  <1>5. ASSUME NEW w \in Workers, DrainSplice(w)
        PROVE  LocalInv'
    BY <1>5 DEF DrainSplice
  <1>6. ASSUME NEW w \in Workers, NextEntry(w)
        PROVE  LocalInv'
    <2>1. Head(local[w]) \in Nodes
      BY <1>6, LocalTail DEF NextEntry
    <2> QED  BY <1>6, <2>1 DEF NextEntry
  <1>7. ASSUME NEW w \in Workers, ClearEnqueued(w) \/ CallFunc(w) \/ FuncReturns(w)
        PROVE  LocalInv'
    BY <1>7 DEF ClearEnqueued, CallFunc, FuncReturns
  <1>8. ASSUME NEW p \in Posters, NEW n \in Nodes, PostAlready(p, n)
        PROVE  LocalInv'
    BY <1>8 DEF PostAlready
  <1>9. CASE UNCHANGED vars
    BY <1>9 DEF vars
  <1> QED
    BY <1>1, <1>2, <1>3, <1>4, <1>5, <1>6, <1>7, <1>8, <1>9, StepCases DEF Quiet

(* Where the waiters are, after a step as before it: on the pending list,   *)
(* on a drain's list, or just taken off.                                    *)
LEMMA Places ==
    /\ \A n : Q!OnList(pending, n)' <=> Q!OnList(pending', n)
    /\ \A w, n : Q!OnList(local[w], n)' <=> Q!OnList(local'[w], n)
    /\ Q!NoDuplicates(pending)' <=> Q!NoDuplicates(pending')
    /\ \A w : Q!NoDuplicates(local[w])' <=> Q!NoDuplicates(local'[w])
    /\ \A n : ~ Q!OnList(<< >>, n)
    /\ Q!NoDuplicates(<< >>)
  BY DEF Q!OnList, Q!NoDuplicates

(* The waiters agree with their flags in the initial states.                *)
LEMMA WaitersInit == Init => LinkedOnce /\ EnqueuedInv /\ NoPostLost
  BY Places DEF Init, LinkedOnce, EnqueuedInv, NoPostLost

(* A step that touches neither lists nor flags keeps them in agreement.     *)
LEMMA WaitersQuiet ==
    ASSUME LinkedOnce, EnqueuedInv, NoPostLost,
           UNCHANGED <<pending, local, cur, enqueued, owed>>,
           \A w \in Workers : /\ pc'[w] = "flag" <=> pc[w] = "flag"
                              /\ pc'[w] = "call" <=> pc[w] = "call"
    PROVE  (LinkedOnce /\ EnqueuedInv /\ NoPostLost)'
  <1>1. LinkedOnce'
    BY Places DEF LinkedOnce
  <1>2. EnqueuedInv'
    BY Places DEF EnqueuedInv
  <1>3. NoPostLost'
    BY Places DEF NoPostLost
  <1> QED  BY <1>1, <1>2, <1>3

(* The waiters and their flags agree after every step: whoever skips a post *)
(* because the flag is set leaves it to a call that is still to come.       *)
LEMMA WaitersStep ==
    ASSUME TypeOK, OneRunner, LocalInv, LinkedOnce, EnqueuedInv, NoPostLost, [Next]_vars
    PROVE  (LinkedOnce /\ EnqueuedInv /\ NoPostLost)'
  <1> DEFINE Inv == LinkedOnce /\ EnqueuedInv /\ NoPostLost
  <1>1. ASSUME NEW p \in Posters, NEW n \in Nodes, PostAlready(p, n)
        PROVE  Inv'
    <2>1. LinkedOnce' /\ EnqueuedInv'
      BY <1>1, Places DEF PostAlready, LinkedOnce, EnqueuedInv, drainVars
    <2>2. NoPostLost'
      BY <1>1, Places DEF PostAlready, NoPostLost, EnqueuedInv, drainVars, TypeOK
    <2> QED  BY <2>1, <2>2
  <1>2. ASSUME NEW p \in Posters, NEW n \in Nodes, PostLink(p, n)
        PROVE  Inv'
    <2>1. /\ pending' = Append(pending, n) /\ ~ enqueued[n]
          /\ enqueued' = [enqueued EXCEPT ![n] = TRUE] /\ owed' = [owed EXCEPT ![n] = TRUE]
          /\ UNCHANGED <<local, cur, pc>>
      BY <1>2 DEF PostLink, Q!list_add_tail, drainVars
    <2>2. /\ ~ Q!OnList(pending, n)
          /\ \A w \in Workers : ~ Q!OnList(local[w], n) /\ ~ (pc[w] = "flag" /\ cur[w] = n)
      BY <2>1 DEF EnqueuedInv
    <2>3. /\ \A m : Q!OnList(pending', m) <=> Q!OnList(pending, m) \/ m = n
          /\ Q!NoDuplicates(pending')
      BY <2>1, <2>2, PendingAppend DEF TypeOK, LinkedOnce
    <2>4. LinkedOnce'
      BY <2>1, <2>2, <2>3, Places DEF LinkedOnce
    <2>5. EnqueuedInv'
      BY <2>1, <2>2, <2>3, Places DEF EnqueuedInv, TypeOK
    <2>6. NoPostLost'
      BY <2>1, <2>3, Places DEF NoPostLost, TypeOK
    <2> QED  BY <2>4, <2>5, <2>6
  <1>3. ASSUME NEW w \in Workers, DrainSplice(w)
        PROVE  Inv'
    <2>1. /\ pending' = << >> /\ local' = [local EXCEPT ![w] = pending] /\ pc[w] = "lock"
          /\ pc' = [pc EXCEPT ![w] = "next"] /\ UNCHANGED <<cur, enqueued, owed>>
      BY <1>3 DEF DrainSplice, Goto
    <2>2. \A v \in Workers : local[v] = << >> /\ pc[v] # "flag"
      BY <2>1 DEF LocalInv, OneRunner, Draining, DrainPcs
    <2>3. /\ local'[w] = pending /\ \A v \in Workers : v # w => local'[v] = << >>
          /\ \A v \in Workers : pc'[v] = "flag" <=> pc[v] = "flag"
          /\ \A v \in Workers : pc'[v] = "call" <=> pc[v] = "call"
      BY <2>1, <2>2 DEF TypeOK
    <2>4. LinkedOnce'
      BY <2>1, <2>2, <2>3, Places DEF LinkedOnce
    <2>5. EnqueuedInv'
      BY <2>1, <2>2, <2>3, Places DEF EnqueuedInv
    <2>6. NoPostLost'
      BY <2>1, <2>2, <2>3, Places DEF NoPostLost
    <2> QED  BY <2>4, <2>5, <2>6
  <1>4. ASSUME NEW w \in Workers, NextEntry(w)
        PROVE  Inv'
    <2> DEFINE n == Head(local[w])
    <2>1. /\ pc[w] = "next" /\ local[w] # << >> /\ local[w] \in Seq(Nodes)
          /\ pc' = [pc EXCEPT ![w] = "flag"] /\ cur' = [cur EXCEPT ![w] = n]
          /\ local' = [local EXCEPT ![w] = Tail(local[w])]
          /\ UNCHANGED <<pending, enqueued, owed>>
      BY <1>4 DEF NextEntry, Goto, TypeOK
    <2>2. /\ pc'[w] = "flag" /\ cur'[w] = n /\ local'[w] = Tail(local[w])
          /\ \A v \in Workers : v # w => pc'[v] = pc[v] /\ cur'[v] = cur[v] /\ local'[v] = local[v]
      BY <2>1 DEF TypeOK
    <2>3. /\ n \in Nodes /\ Q!OnList(local[w], n)
          /\ \A m : Q!OnList(local[w], m) <=> Q!OnList(local'[w], m) \/ m = n
          /\ Q!NoDuplicates(local'[w]) /\ ~ Q!OnList(local'[w], n)
      BY <2>1, <2>2, LocalTail DEF LinkedOnce
    <2> HIDE DEF n
    <2>4. LinkedOnce'
      BY <2>1, <2>2, <2>3, Places DEF LinkedOnce
    <2>5. EnqueuedInv'
      BY <2>1, <2>2, <2>3, Places DEF EnqueuedInv
    <2>6. NoPostLost'
      BY <2>1, <2>2, <2>3, Places DEF NoPostLost
    <2> QED  BY <2>4, <2>5, <2>6
  <1>5. ASSUME NEW w \in Workers, ClearEnqueued(w)
        PROVE  Inv'
    <2> DEFINE n == cur[w]
    <2>1. /\ pc[w] = "flag" /\ n \in Nodes
          /\ pc' = [pc EXCEPT ![w] = "call"] /\ enqueued' = [enqueued EXCEPT ![n] = FALSE]
          /\ UNCHANGED <<pending, local, cur, owed>>
      BY <1>5 DEF ClearEnqueued, Goto, TypeOK, LocalInv
    <2>2. pc'[w] = "call" /\ \A v \in Workers : v # w => pc'[v] = pc[v] /\ pc[v] # "flag"
      BY <2>1 DEF TypeOK, OneRunner, Draining, DrainPcs
    <2>3. ~ Q!OnList(pending, n) /\ \A v \in Workers : ~ Q!OnList(local[v], n)
      BY <2>1, <2>2, Places DEF LinkedOnce, OneRunner, Draining, DrainPcs, LocalInv
    <2>4. LinkedOnce'
      BY <2>1, <2>2, Places DEF LinkedOnce
    <2>5. EnqueuedInv'
      <3>1. /\ \A m \in Nodes : enqueued'[m] <=> m # n /\ enqueued[m]
            /\ \A v \in Workers, m \in Nodes \ {n} :
                  pc'[v] = "flag" /\ cur'[v] = m <=> pc[v] = "flag" /\ cur[v] = m
            /\ \A v \in Workers : pc'[v] # "flag"
        BY <2>1, <2>2 DEF TypeOK
      <3> QED  BY <2>1, <2>3, <3>1, Places DEF EnqueuedInv
    <2>6. NoPostLost'
      BY <2>1, <2>2, Places DEF NoPostLost
    <2> QED  BY <2>4, <2>5, <2>6
  <1>6. ASSUME NEW w \in Workers, CallFunc(w)
        PROVE  Inv'
    <2>1. /\ pc[w] = "call" /\ cur[w] \in Nodes
          /\ pc' = [pc EXCEPT ![w] = "func"] /\ owed' = [owed EXCEPT ![cur[w]] = FALSE]
          /\ UNCHANGED <<pending, local, cur, enqueued>>
      BY <1>6 DEF CallFunc, Goto, TypeOK, LocalInv
    <2>2. pc'[w] = "func" /\ \A v \in Workers : v # w => pc'[v] = pc[v]
      BY <2>1 DEF TypeOK
    <2>3. LinkedOnce' /\ EnqueuedInv'
      BY <2>1, <2>2, Places DEF LinkedOnce, EnqueuedInv
    <2>4. NoPostLost'
      BY <2>1, <2>2, Places DEF NoPostLost, TypeOK
    <2> QED  BY <2>3, <2>4
  <1>7. ASSUME NEW w \in Workers, FuncReturns(w)
        PROVE  Inv'
    <2>1. /\ pc[w] = "func" /\ pc'[w] = "next"
          /\ \A v \in Workers : v # w => pc'[v] = pc[v] /\ cur'[v] = cur[v]
          /\ UNCHANGED <<pending, local, enqueued, owed>>
      BY <1>7 DEF FuncReturns, Goto, TypeOK
    <2>2. LinkedOnce' /\ EnqueuedInv' /\ NoPostLost'
      BY <2>1, Places DEF LinkedOnce, EnqueuedInv, NoPostLost
    <2> QED  BY <2>2
  <1>8. CASE Quiet \/ UNCHANGED vars
    <2>1. /\ UNCHANGED <<pending, local, cur, enqueued, owed>>
          /\ \A w \in Workers : /\ pc'[w] = "flag" <=> pc[w] = "flag"
                                /\ pc'[w] = "call" <=> pc[w] = "call"
      BY <1>8 DEF Quiet, PostUnlock, PostSched, TakeRunner, KeepAlive, DrainEmpty, BatchDone,
                  CallbackRearms, TailCompare, TailReset, Goto, drainVars, vars, TypeOK
    <2> QED  BY <2>1, WaitersQuiet
  <1> QED  BY <1>1, <1>2, <1>3, <1>4, <1>5, <1>6, <1>7, <1>8, StepCases

-----------------------------------------------------------------------------

(* For every set of waiters, posting threads and workers: one runner at a   *)
(* time, on its way whenever running is set; every waiter linked once and   *)
(* flagged exactly while it waits; and no post lost, those that found the   *)
(* flag set included.                                                       *)
THEOREM CallbackInvariant == Spec => []CallbackInv
  <1>1. Init => CallbackInv
    <2>1. Init => OneRunner /\ LocalInv
      BY CallbackAssumption DEF Init, OneRunner, LocalInv, Draining, DrainPcs
    <2>2. Init => RunnerOnItsWay
      BY DEF Init, RunnerOnItsWay, Draining, Posting, DrainPcs
    <2> QED  BY <2>1, <2>2, TypeInit, WaitersInit DEF CallbackInv
  <1>2. CallbackInv /\ [Next]_vars => CallbackInv'
    BY TypeStep, RunnerStep, LocalStep, WaitersStep DEF CallbackInv
  <1> QED  BY <1>1, <1>2, PTL DEF Spec

-----------------------------------------------------------------------------
(* The refinement.                                                         *)

(* The one drain that has entries makes up the front of the backlog.        *)
BacklogSplit ==
    /\ \A w \in Workers : local[w] # << >> => Backlog = local[w] \o pending
    /\ (\A w \in Workers : local[w] = << >>) => Backlog = pending

(* Only one drain holds entries, so Backlog is its list and the pending one.*)
LEMMA BacklogIs == CallbackInv => BacklogSplit
  <1> SUFFICES ASSUME CallbackInv PROVE BacklogSplit
    OBVIOUS
  <1>1. \A v, w \in Workers : local[v] # << >> /\ local[w] # << >> => v = w
    BY DEF CallbackInv, LocalInv, OneRunner, Draining, DrainPcs
  <1>2. ASSUME NEW w \in Workers, local[w] # << >>
        PROVE  Backlog = local[w] \o pending
    <2>1. (CHOOSE v \in Workers : local[v] # << >>) = w
      BY <1>1, <1>2
    <2> QED  BY <1>2, <2>1 DEF Backlog
  <1>3. ASSUME \A w \in Workers : local[w] = << >>
        PROVE  Backlog = pending
    BY <1>3 DEF Backlog
  <1> QED  BY <1>2, <1>3 DEF BacklogSplit

(* Posting behind a drain's list is posting behind both.                    *)
LEMMA BacklogAppend ==
    ASSUME NEW q \in Seq(Nodes), NEW b \in Seq(Nodes), NEW n \in Nodes
    PROVE  /\ q \o Append(b, n) = Append(q \o b, n)
           /\ \A m : Q!OnList(q \o b, m) <=> Q!OnList(q, m) \/ Q!OnList(b, m)
  <1>1. q \o Append(b, n) = Append(q \o b, n)
    BY W!ConcatAppend
  <1>2. \A m : Q!OnList(q \o b, m) <=> Q!OnList(q, m) \/ Q!OnList(b, m)
    <2>1. \A m : W!OnList(q \o b, m) <=> W!OnList(q, m) \/ W!OnList(b, m)
      BY W!ConcatFacts
    <2>2. \A r, m : W!OnList(r, m) <=> Q!OnList(r, m)
      BY DEF W!OnList, Q!OnList
    <2> QED  BY <2>1, <2>2
  <1> QED  BY <1>1, <1>2

(* A post adds its waiter at the tail of the backlog.                       *)
LEMMA PostIsQueuePost ==
    ASSUME CallbackInv, BacklogSplit, BacklogSplit',
           NEW p \in Posters, NEW n \in Nodes, PostLink(p, n)
    PROVE  Q!QueuePost(n)
  <1>1. pending' = Append(pending, n) /\ local' = local /\ ~ enqueued[n]
    BY DEF PostLink, Q!list_add_tail, drainVars
  <1>2. ~ Q!OnList(pending, n) /\ \A w \in Workers : ~ Q!OnList(local[w], n)
    BY <1>1 DEF CallbackInv, EnqueuedInv
  <1>3. pending \in Seq(Nodes) /\ \A w \in Workers : local[w] \in Seq(Nodes)
    BY DEF CallbackInv, TypeOK
  <1>4. Backlog' = Append(Backlog, n) /\ ~ Q!OnList(Backlog, n)
    <2>1. CASE \A w \in Workers : local[w] = << >>
      BY <1>1, <1>2, <2>1 DEF BacklogSplit
    <2>2. CASE \E w \in Workers : local[w] # << >>
      <3>1. PICK w \in Workers : local[w] # << >>
        BY <2>2
      <3>2. Backlog = local[w] \o pending /\ Backlog' = local[w] \o Append(pending, n)
        BY <1>1, <3>1 DEF BacklogSplit
      <3>3. local[w] \in Seq(Nodes)
        BY <1>3
      <3>4. /\ local[w] \o Append(pending, n) = Append(local[w] \o pending, n)
            /\ Q!OnList(local[w] \o pending, n) <=> Q!OnList(local[w], n) \/ Q!OnList(pending, n)
        BY <1>3, <3>3, BacklogAppend
      <3> QED  BY <1>2, <3>2, <3>4
    <2> QED  BY <2>1, <2>2
  <1>5. Q!MoveToTail(Backlog, n) = Append(Backlog, n)
    BY <1>4 DEF Q!MoveToTail, Q!list_del, Q!list_add_tail
  <1> QED  BY <1>4, <1>5 DEF Q!QueuePost

(* Taking the next entry takes the head of the backlog.                     *)
LEMMA EntryIsQueueTake ==
    ASSUME CallbackInv, BacklogSplit, BacklogSplit', NEW w \in Workers, NextEntry(w)
    PROVE  Q!QueueTake
  <1>1. /\ local[w] # << >> /\ local[w] \in Seq(Nodes) /\ pending \in Seq(Nodes)
        /\ local' = [local EXCEPT ![w] = Tail(local[w])] /\ pending' = pending
        /\ local \in [Workers -> Seq(Nodes)]
    BY DEF NextEntry, CallbackInv, TypeOK
  <1>2. \A v \in Workers : v # w => local[v] = << >>
    BY <1>1 DEF CallbackInv, LocalInv, OneRunner, Draining, DrainPcs
  <1>3. Backlog = local[w] \o pending
    BY <1>1 DEF BacklogSplit
  <1>4. Backlog # << >> /\ Tail(Backlog) = Tail(local[w]) \o pending
    BY <1>1, <1>3, W!ConcatTail
  <1>5. local'[w] = Tail(local[w]) /\ \A v \in Workers : v # w => local'[v] = << >>
    BY <1>1, <1>2
  <1>6. Backlog' = Tail(local[w]) \o pending
    <2>1. CASE Tail(local[w]) # << >>
      BY <1>1, <1>5, <2>1 DEF BacklogSplit
    <2>2. CASE Tail(local[w]) = << >>
      <3>1. Backlog' = pending
        BY <1>1, <1>5, <2>2 DEF BacklogSplit
      <3> QED  BY <1>1, <2>2, <3>1, ConcatEmptySeq
    <2> QED  BY <2>1, <2>2
  <1> QED  BY <1>4, <1>6 DEF Q!QueueTake

(* Moving the pending list to a drain that has nothing left changes nothing *)
(* in the backlog.                                                          *)
LEMMA SpliceKeepsBacklog ==
    ASSUME CallbackInv, BacklogSplit, BacklogSplit', NEW w \in Workers, DrainSplice(w)
    PROVE  Backlog' = Backlog
  <1>1. /\ pc[w] = "lock" /\ pending # << >> /\ pending \in Seq(Nodes)
        /\ local' = [local EXCEPT ![w] = pending] /\ pending' = << >>
        /\ local \in [Workers -> Seq(Nodes)]
    BY DEF DrainSplice, CallbackInv, TypeOK
  <1>2. \A v \in Workers : local[v] = << >>
    BY <1>1 DEF CallbackInv, LocalInv, OneRunner, Draining, DrainPcs
  <1>3. Backlog = pending
    BY <1>2 DEF BacklogSplit
  <1>4. Backlog' = pending \o << >>
    BY <1>1 DEF BacklogSplit
  <1> QED  BY <1>1, <1>3, <1>4, ConcatEmptySeq

(* Every step is a post, a take, or nothing that the queue sees.            *)
LEMMA StepIsFifo ==
    ASSUME CallbackInv, BacklogSplit, BacklogSplit', [Next]_vars
    PROVE  [Q!QueueNext]_Backlog
  <1>1. ASSUME UNCHANGED <<pending, local>>
        PROVE  UNCHANGED Backlog
    BY <1>1 DEF Backlog
  <1>2. ASSUME NEW p \in Posters, NEW n \in Nodes, PostAlready(p, n) \/ PostLink(p, n)
        PROVE  [Q!QueueNext]_Backlog
    BY <1>1, <1>2, PostIsQueuePost DEF PostAlready, drainVars, Q!QueueNext
  <1>3. ASSUME NEW w \in Workers, DrainSplice(w) \/ NextEntry(w)
        PROVE  [Q!QueueNext]_Backlog
    BY <1>3, SpliceKeepsBacklog, EntryIsQueueTake DEF Q!QueueNext
  <1>4. ASSUME NEW w \in Workers, ClearEnqueued(w) \/ CallFunc(w) \/ FuncReturns(w)
        PROVE  UNCHANGED <<pending, local>>
    BY <1>4 DEF ClearEnqueued, CallFunc, FuncReturns
  <1>5. CASE Quiet \/ UNCHANGED vars
    <2>1. UNCHANGED <<pending, local>>
      BY <1>5 DEF Quiet, PostUnlock, PostSched, TakeRunner, KeepAlive, DrainEmpty, BatchDone,
                  CallbackRearms, TailCompare, TailReset, drainVars, vars
    <2> QED  BY <1>1, <2>1
  <1> QED  BY <1>1, <1>2, <1>3, <1>4, <1>5, StepCases

(* callback_wq implements the abstract queue: whichever threads post and    *)
(* whichever thread drains, callbacks are run in the order of their posts.  *)
THEOREM CallbackQueueIsFifo == Spec => CallbacksAreFifo
  <1>1. Init => Q!QueueInit
    BY DEF Init, Q!QueueInit, Backlog
  <1>2. CallbackInv /\ CallbackInv' /\ [Next]_vars => [Q!QueueNext]_Backlog
    <2>1. (CallbackInv => BacklogSplit)'
      BY BacklogIs, PTL
    <2> QED  BY <2>1, BacklogIs, StepIsFifo
  <1> QED
    BY <1>1, <1>2, CallbackInvariant, PTL DEF Spec, CallbacksAreFifo, Q!QueueSpec
==============================================================================
