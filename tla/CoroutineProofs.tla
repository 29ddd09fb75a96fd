--------------------------- MODULE CoroutineProofs ---------------------------
(***************************************************************************)
(* What a coroutine relies on when it waits for a semaphore, and what one  *)
(* that serves a WebSocket connection sends.                               *)
(*                                                                         *)
(* SemInv is inductive, for any number of coroutines, workers, signalling  *)
(* threads and tokens.  One lemma per conjunct that needs an argument of   *)
(* its own; each has one step per action that can disturb it.              *)
(*                                                                         *)
(* EchoInv holds for any frames, cut into pieces in any way: the invariant *)
(* EchoInductive says what is left of the stream at every point of the     *)
(* reader, and what is still owed for it.                                  *)
(***************************************************************************)
EXTENDS Semaphore, WebSocket, WorkQueueProofs, FiniteSetTheorems

(* The semaphore's node and the requests are nodes of the run queue.        *)
LEMMA NodeTypes ==
    /\ SemNode \in Nodes
    /\ \A r \in Reqs : r \in Nodes /\ r # SemNode /\ r # NoReq
  BY SemaphoreAssumption

(* A list of requests is a list of nodes.                                   *)
LEMMA ReqSeqIsNodeSeq == \A q \in Seq(Reqs) : q \in Seq(Nodes)
  BY SeqMonotonic, NodeTypes

(* Posting a node puts it on the run queue once and takes no other off it.  *)
LEMMA PostedIsQueued ==
    ASSUME queue \in Seq(Nodes), NEW n \in Nodes
    PROVE  /\ OnList(MoveToTail(queue, n), n)
           /\ \A m : OnList(queue, m) => OnList(MoveToTail(queue, n), m)
           /\ \A m : m # n /\ OnList(MoveToTail(queue, n), m) => OnList(queue, m)
           /\ NoDuplicates(queue) => NoDuplicates(MoveToTail(queue, n))
  <1>1. /\ \A m : OnList(MoveToTail(queue, n), m) <=> OnList(queue, m) \/ m = n
        /\ NoDuplicates(queue) => NoDuplicates(MoveToTail(queue, n))
    BY MoveToTailFacts
  <1> QED  BY <1>1, Zenon

(* The initial states satisfy SemInv.                                       *)
LEMMA SemInit == Init => SemInv
  <1> SUFFICES ASSUME Init PROVE SemInv
    OBVIOUS
  <1>1. /\ queue \in [1 .. Cardinality(Reqs) -> Reqs]
        /\ NoDuplicates(queue) /\ \A r \in Reqs : OnList(queue, r)
    BY DEF Init
  <1>2. queue \in Seq(Nodes)
    <2>1. Cardinality(Reqs) \in Nat
      BY SemaphoreAssumption, FS_CardinalityType
    <2> QED  BY <1>1, <2>1, IsASeq, ReqSeqIsNodeSeq
  <1>3. TypeOK
    BY <1>2, SemaphoreAssumption, EmptySeq DEF Init, TypeOK, CoStates, WorkerPcs
  <1>4. InOnePlace
    BY <1>1, SemaphoreAssumption DEF Init, InOnePlace, NoDuplicates, OnList
  <1>5. Owners = {}
    BY DEF Init, Owners
  <1>6. TokensConserved
    BY <1>5, FS_EmptySet, SemaphoreAssumption DEF Init, TokensConserved
  <1>7. WorkerInv /\ LoopInv /\ DeadInv /\ NoWaiterForgotten
    BY SemaphoreAssumption
       DEF Init, WorkerInv, LoopInv, DeadInv, NoWaiterForgotten
  <1> QED  BY <1>3, <1>4, <1>6, <1>7 DEF SemInv

-----------------------------------------------------------------------------
(* The tokens.                                                             *)

(* A set of coroutines that gains or loses one member changes its size by   *)
(* one.                                                                     *)
LEMMA OwnersFinite == IsFiniteSet(Owners) /\ Cardinality(Owners) \in Nat
  <1>1. Owners \in SUBSET Reqs
    BY DEF Owners
  <1> QED  BY <1>1, SemaphoreAssumption, FS_Subset, FS_CardinalityType

(* A request that gets a token is a new owner.                              *)
LEMMA OwnerGained ==
    ASSUME TypeOK, NEW r \in Reqs, co[r] \notin {"granted", "hold"},
           NEW s \in {"granted", "hold"}, co' = [co EXCEPT ![r] = s]
    PROVE  Cardinality(Owners') = Cardinality(Owners) + 1
  <1>1. Owners' = Owners \cup {r} /\ r \notin Owners
    BY DEF Owners, TypeOK
  <1> QED  BY <1>1, OwnersFinite, FS_AddElement

(* A coroutine that gives its token back is no owner any more.              *)
LEMMA OwnerLost ==
    ASSUME TypeOK, NEW r \in Reqs, co[r] \in {"granted", "hold"},
           NEW s \in CoStates \ {"granted", "hold"}, co' = [co EXCEPT ![r] = s]
    PROVE  Cardinality(Owners') = Cardinality(Owners) - 1
  <1>1. Owners' = Owners \ {r} /\ r \in Owners
    BY DEF Owners, TypeOK
  <1> QED  BY <1>1, OwnersFinite, FS_RemoveElement

(* The entry the loop of sem_chk_cb looks at is a waiting request.          *)
LEMMA EntryWaits ==
    ASSUME TypeOK, InOnePlace, pos <= Len(acquire_list)
    PROVE  /\ acquire_list[pos] \in Reqs
           /\ co[acquire_list[pos]] = "waiting"
           /\ pos \in 1 .. Len(acquire_list)
  <1>1. pos \in 1 .. Len(acquire_list) /\ DOMAIN acquire_list = 1 .. Len(acquire_list)
    BY LenProperties DEF TypeOK
  <1>2. acquire_list[pos] \in Reqs /\ OnList(acquire_list, acquire_list[pos])
    BY <1>1, ElementOfSeq DEF TypeOK, OnList
  <1> QED  BY <1>1, <1>2 DEF InOnePlace

(* The coroutine a worker runs is a coroutine that is running.              *)
LEMMA RunningIsReq ==
    ASSUME TypeOK, InOnePlace, WorkerInv, NEW w \in Workers,
           pc[w] \in {"run", "suspend", "post"}
    PROVE  running[w] \in Reqs /\ co[running[w]] \in {"free", "hold"}
  BY DEF TypeOK, InOnePlace, WorkerInv

(* The head of the run queue, if it is not the semaphore, is a coroutine    *)
(* that waits to be run.                                                    *)
LEMMA HeadIsReq ==
    ASSUME TypeOK, InOnePlace, queue # << >>, Head(queue) # SemNode
    PROVE  Head(queue) \in Reqs /\ co[Head(queue)] \in {"ready", "granted", "failed"}
  <1>1. Head(queue) \in Reqs /\ OnList(queue, Head(queue))
    BY TailFacts, SemaphoreAssumption DEF TypeOK
  <1> QED  BY <1>1 DEF InOnePlace

(* No step loses or duplicates a token.                                     *)
LEMMA TokensStep == SemInv /\ [Next]_vars => TokensConserved'
  <1> SUFFICES ASSUME SemInv, [Next]_vars
               PROVE  TokensConserved'
    OBVIOUS
  <1> USE OwnersFinite DEF SemInv, TokensConserved
  <1>1. ASSUME UNCHANGED <<cur_val, issued, alive>>, Owners' = Owners
        PROVE  TokensConserved'
    BY <1>1
  <1>2. ASSUME NEW w \in Workers,
               TakeSem(w) \/ ReleasePost(w) \/ ChkEmpty(w) \/ ChkLock(w)
                 \/ ChkSkip(w) \/ ChkUnlock(w)
        PROVE  TokensConserved'
    BY <1>1, <1>2 DEF TakeSem, ReleasePost, ChkEmpty, ChkLock, ChkSkip, ChkUnlock,
                      semVars, Owners
  <1>3. ASSUME NEW w \in Workers, TakeReq(w)
        PROVE  TokensConserved'
    <2>1. Head(queue) \in Reqs /\ co[Head(queue)] \in {"ready", "granted", "failed"}
      BY <1>3, HeadIsReq DEF TakeReq
    <2>2. Owners' = Owners
      BY <1>3, <2>1 DEF TakeReq, Owners, TypeOK
    <2> QED  BY <1>1, <1>3, <2>2 DEF TakeReq, semVars
  <1>4. ASSUME NEW w \in Workers, AwaitReady(w)
        PROVE  TokensConserved'
    <2>1. running[w] \in Reqs
      BY <1>4, RunningIsReq DEF AwaitReady
    <2>2. CASE cur_val > 0
      <3>1. cur_val' = cur_val - 1 /\ co' = [co EXCEPT ![running[w]] = "hold"]
        BY <1>4, <2>2 DEF AwaitReady
      <3>2. Cardinality(Owners') = Cardinality(Owners) + 1
        BY <1>4, <2>1, <3>1, OwnerGained DEF AwaitReady
      <3> QED  BY <1>4, <3>1, <3>2 DEF AwaitReady, TypeOK
    <2>3. CASE cur_val = 0
      BY <1>1, <1>4, <2>3 DEF AwaitReady, Owners
    <2> QED  BY <1>4, <2>2, <2>3 DEF AwaitReady
  <1>5. ASSUME NEW w \in Workers, AwaitSuspend(w)
        PROVE  TokensConserved'
    <2>1. running[w] \in Reqs /\ co[running[w]] = "free"
      BY <1>5, RunningIsReq DEF AwaitSuspend, WorkerInv
    <2>2. CASE cur_val > 0
      <3>1. cur_val' = cur_val - 1 /\ co' = [co EXCEPT ![running[w]] = "granted"]
        BY <1>5, <2>2 DEF AwaitSuspend
      <3>2. Cardinality(Owners') = Cardinality(Owners) + 1
        BY <2>1, <3>1, OwnerGained
      <3> QED  BY <1>5, <3>1, <3>2 DEF AwaitSuspend, TypeOK
    <2>3. CASE cur_val = 0
      BY <1>1, <1>5, <2>1, <2>3 DEF AwaitSuspend, Owners, TypeOK
    <2> QED  BY <1>5, <2>2, <2>3 DEF AwaitSuspend
  <1>6. ASSUME NEW w \in Workers, Release(w)
        PROVE  TokensConserved'
    <2>1. running[w] \in Reqs /\ co[running[w]] = "hold"
      BY <1>6, RunningIsReq DEF Release
    <2>2. Cardinality(Owners') = Cardinality(Owners) - 1
      BY <1>6, <2>1, OwnerLost DEF Release, CoStates
    <2> QED  BY <1>6, <2>2, SemaphoreAssumption DEF Release, ReleaseLocked, TypeOK
  <1>7. ASSUME NEW w \in Workers, Finish(w)
        PROVE  TokensConserved'
    <2>1. CASE alive
      <3>1. running[w] \in Reqs /\ co[running[w]] = "free"
        BY <1>7, <2>1, RunningIsReq DEF Finish
      <3>2. Owners' = Owners
        BY <1>7, <3>1 DEF Finish, Owners, TypeOK
      <3> QED  BY <1>1, <1>7, <3>2 DEF Finish, semVars
    <2>2. CASE ~ alive
      BY <1>7, <2>2 DEF Finish, semVars
    <2> QED  BY <2>1, <2>2
  <1>8. ASSUME NEW s \in Signallers, Signal(s)
        PROVE  TokensConserved'
    BY <1>8, SemaphoreAssumption DEF Signal, ReleaseLocked, Owners, TypeOK
  <1>9. ASSUME NEW s \in Signallers, SignalPost(s)
        PROVE  TokensConserved'
    BY <1>1, <1>9 DEF SignalPost, semVars, Owners
  <1>10. ASSUME NEW w \in Workers, ChkGrant(w)
         PROVE  TokensConserved'
    <2>1. acquire_list[pos] \in Reqs /\ co[acquire_list[pos]] = "waiting"
      BY <1>10, EntryWaits DEF ChkGrant
    <2>2. Cardinality(Owners') = Cardinality(Owners) + 1
      BY <1>10, <2>1, OwnerGained DEF ChkGrant
    <2> QED  BY <1>10, <2>2 DEF ChkGrant, TypeOK
  <1>11. CASE DestroySemaphore
    BY <1>11 DEF DestroySemaphore
  <1>12. CASE UNCHANGED vars
    BY <1>1, <1>12 DEF vars, semVars, Owners
  <1> QED
    BY <1>2, <1>3, <1>4, <1>5, <1>6, <1>7, <1>8, <1>9, <1>10, <1>11, <1>12
       DEF Next, CoStep, ChkStep

-----------------------------------------------------------------------------
(* Types.                                                                  *)

(* Granting takes one entry off the list of waiters and leaves a list.      *)
LEMMA GrantShortensList ==
    ASSUME TypeOK, NEW w \in Workers, ChkGrant(w)
    PROVE  /\ acquire_list' \in Seq(Reqs)
           /\ acquire_list[pos] \in Reqs
           /\ queue' \in Seq(Nodes)
  <1>1. pos \in 1 .. Len(acquire_list)
    BY LenProperties DEF ChkGrant, TypeOK
  <1>2. acquire_list[pos] \in Reqs
    BY <1>1, ElementOfSeq DEF TypeOK
  <1>3. acquire_list' \in Seq(Reqs)
    BY <1>1, RemoveAtShifts DEF ChkGrant, TypeOK
  <1> QED  BY <1>2, <1>3, NodeTypes, MoveToTailFacts DEF ChkGrant, TypeOK

(* Every step keeps the types.                                              *)
LEMMA TypeStep == SemInv /\ [Next]_vars => TypeOK'
  <1> SUFFICES ASSUME SemInv, [Next]_vars
               PROVE  TypeOK'
    OBVIOUS
  <1> USE SemaphoreAssumption DEF SemInv, TypeOK, CoStates, WorkerPcs, Goto, semVars
  <1>1. ASSUME NEW w \in Workers, TakeSem(w)
        PROVE  TypeOK'
    BY <1>1, TailFacts DEF TakeSem
  <1>2. ASSUME NEW w \in Workers, TakeReq(w)
        PROVE  TypeOK'
    <2>1. Head(queue) \in Reqs /\ Tail(queue) \in Seq(Nodes)
      BY <1>2, HeadIsReq, TailFacts DEF TakeReq
    <2> QED  BY <1>2, <2>1 DEF TakeReq
  <1>3. ASSUME NEW w \in Workers, AwaitReady(w)
        PROVE  TypeOK'
    BY <1>3, RunningIsReq DEF AwaitReady
  <1>4. ASSUME NEW w \in Workers, AwaitSuspend(w)
        PROVE  TypeOK'
    <2>1. running[w] \in Reqs
      BY <1>4, RunningIsReq DEF AwaitSuspend
    <2>2. /\ MoveToTail(queue, running[w]) \in Seq(Nodes)
          /\ Append(acquire_list, running[w]) \in Seq(Reqs)
      BY <2>1, NodeTypes, MoveToTailFacts, AppendFacts
    <2>3. queue' \in Seq(Nodes) /\ acquire_list' \in Seq(Reqs)
      BY <1>4, <2>2 DEF AwaitSuspend, list_add_tail
    <2>4. /\ cur_val' \in 0 .. MaxVal
          /\ UNCHANGED <<lk, alive, pos, issued, sigPc>>
      BY <1>4 DEF AwaitSuspend
    <2>5. co' \in [Reqs -> CoStates]
      BY <1>4, <2>1 DEF AwaitSuspend
    <2>6. pc' \in [Workers -> WorkerPcs] /\ running' \in [Workers -> Reqs \cup {NoReq}]
      BY <1>4 DEF AwaitSuspend
    <2> QED  BY <2>3, <2>4, <2>5, <2>6
  <1>5. ASSUME NEW w \in Workers, Release(w)
        PROVE  TypeOK'
    BY <1>5, RunningIsReq DEF Release, ReleaseLocked
  <1>6. MoveToTail(queue, SemNode) \in Seq(Nodes)
    BY NodeTypes, MoveToTailFacts
  <1>7. ASSUME NEW w \in Workers, ReleasePost(w)
        PROVE  TypeOK'
    BY <1>6, <1>7 DEF ReleasePost, QueuePost
  <1>8. ASSUME NEW w \in Workers, Finish(w)
        PROVE  TypeOK'
    BY <1>8, RunningIsReq DEF Finish
  <1>9. ASSUME NEW s \in Signallers, Signal(s)
        PROVE  TypeOK'
    BY <1>9 DEF Signal, ReleaseLocked
  <1>10. ASSUME NEW s \in Signallers, SignalPost(s)
         PROVE  TypeOK'
    BY <1>6, <1>10 DEF SignalPost, QueuePost
  <1>11. ASSUME NEW w \in Workers, ChkEmpty(w) \/ ChkLock(w) \/ ChkSkip(w) \/ ChkUnlock(w)
         PROVE  TypeOK'
    BY <1>11 DEF ChkEmpty, ChkLock, ChkSkip, ChkUnlock
  <1>12. ASSUME NEW w \in Workers, ChkGrant(w)
         PROVE  TypeOK'
    BY <1>12, GrantShortensList DEF ChkGrant
  <1>13. ASSUME DestroySemaphore
         PROVE  TypeOK'
    <2>1. queue \o acquire_list \in Seq(Nodes)
      BY ReqSeqIsNodeSeq, ConcatProperties
    <2> QED  BY <1>13, <2>1, EmptySeq DEF DestroySemaphore
  <1>14. CASE UNCHANGED vars
    BY <1>14 DEF vars
  <1> QED
    BY <1>1, <1>2, <1>3, <1>4, <1>5, <1>7, <1>8, <1>9, <1>10, <1>11, <1>12, <1>13, <1>14
       DEF Next, CoStep, ChkStep

-----------------------------------------------------------------------------
(* Workers, the loop, the destructor.                                      *)

(* Every step keeps WorkerInv.                                              *)
LEMMA WorkerStep == SemInv /\ [Next]_vars => WorkerInv'
  <1> SUFFICES ASSUME SemInv, [Next]_vars
               PROVE  WorkerInv'
    OBVIOUS
  <1> USE SemaphoreAssumption DEF SemInv, TypeOK, WorkerInv, Goto, semVars
  <1>1. ASSUME NEW w \in Workers, TakeSem(w) \/ ReleasePost(w) \/ ChkStep(w)
        PROVE  WorkerInv'
    <2>1. CASE TakeSem(w) \/ ReleasePost(w)
      BY <2>1 DEF TakeSem, ReleasePost
    <2>2. CASE ChkEmpty(w) \/ ChkLock(w) \/ ChkSkip(w) \/ ChkUnlock(w)
      BY <2>2 DEF ChkEmpty, ChkLock, ChkSkip, ChkUnlock
    <2>3. CASE ChkGrant(w)
      <3>1. co[acquire_list[pos]] = "waiting" /\ acquire_list[pos] \in Reqs
        BY <2>3, EntryWaits DEF ChkGrant
      <3> QED  BY <2>3, <3>1 DEF ChkGrant
    <2> QED  BY <1>1, <2>1, <2>2, <2>3 DEF ChkStep
  <1>2. ASSUME NEW w \in Workers, TakeReq(w)
        PROVE  WorkerInv'
    <2>1. Head(queue) \in Reqs /\ co[Head(queue)] \in {"ready", "granted", "failed"}
      BY <1>2, HeadIsReq DEF TakeReq
    <2> QED  BY <1>2, <2>1 DEF TakeReq
  <1>3. ASSUME NEW w \in Workers,
               AwaitReady(w) \/ AwaitSuspend(w) \/ Release(w) \/ Finish(w)
        PROVE  WorkerInv'
    <2>1. running[w] \in Reqs
      BY <1>3, RunningIsReq DEF AwaitReady, AwaitSuspend, Release, Finish
    <2>2. \A v \in Workers \ {w} : running[v] # running[w]
      BY <2>1 DEF InOnePlace
    <2>3. CASE AwaitReady(w)
      BY <2>1, <2>2, <2>3 DEF AwaitReady
    <2>4. CASE AwaitSuspend(w)
      BY <2>1, <2>2, <2>4 DEF AwaitSuspend
    <2>5. CASE Release(w)
      BY <2>1, <2>2, <2>5 DEF Release
    <2>6. CASE Finish(w)
      BY <2>1, <2>2, <2>6 DEF Finish
    <2> QED  BY <1>3, <2>3, <2>4, <2>5, <2>6
  <1>4. ASSUME NEW s \in Signallers, Signal(s) \/ SignalPost(s)
        PROVE  WorkerInv'
    BY <1>4 DEF Signal, SignalPost
  <1>5. CASE DestroySemaphore
    BY <1>5 DEF DestroySemaphore
  <1>6. CASE UNCHANGED vars
    BY <1>6 DEF vars
  <1> QED  BY <1>1, <1>2, <1>3, <1>4, <1>5, <1>6 DEF Next, CoStep

(* Every step keeps LoopInv and DeadInv.                                    *)
LEMMA LoopStep == SemInv /\ [Next]_vars => LoopInv' /\ DeadInv'
  <1> SUFFICES ASSUME SemInv, [Next]_vars
               PROVE  LoopInv' /\ DeadInv'
    OBVIOUS
  <1> USE SemaphoreAssumption
      DEF SemInv, TypeOK, LoopInv, DeadInv, Goto, semVars, WorkerPcs
  <1>1. ASSUME NEW w \in Workers, TakeSem(w) \/ TakeReq(w) \/ ReleasePost(w) \/ Finish(w)
        PROVE  LoopInv' /\ DeadInv'
    BY <1>1 DEF TakeSem, TakeReq, ReleasePost, Finish
  <1>2. ASSUME NEW w \in Workers, AwaitReady(w) \/ AwaitSuspend(w) \/ Release(w)
        PROVE  LoopInv' /\ DeadInv'
    BY <1>2 DEF AwaitReady, AwaitSuspend, Release, ReleaseLocked
  <1>3. ASSUME NEW w \in Workers, ChkEmpty(w) \/ ChkLock(w) \/ ChkSkip(w) \/ ChkUnlock(w)
        PROVE  LoopInv' /\ DeadInv'
    BY <1>3 DEF ChkEmpty, ChkLock, ChkSkip, ChkUnlock
  <1>4. ASSUME NEW w \in Workers, ChkGrant(w)
        PROVE  LoopInv' /\ DeadInv'
    <2>1. alive
      BY <1>4, LenProperties, EmptySeq DEF ChkGrant
    <2> QED  BY <1>4, <2>1 DEF ChkGrant
  <1>5. ASSUME NEW s \in Signallers, Signal(s) \/ SignalPost(s)
        PROVE  LoopInv' /\ DeadInv'
    BY <1>5 DEF Signal, SignalPost, ReleaseLocked
  <1>6. CASE DestroySemaphore
    BY <1>6 DEF DestroySemaphore, CallActive
  <1>7. CASE UNCHANGED vars
    BY <1>7 DEF vars
  <1> QED
    BY <1>1, <1>2, <1>3, <1>4, <1>5, <1>6, <1>7 DEF Next, CoStep, ChkStep

-----------------------------------------------------------------------------
(* No waiter is forgotten.                                                 *)

(* Every step keeps NoWaiterForgotten: a step that adds a token to a        *)
(* semaphore with waiters is followed by a post, a post puts the node on    *)
(* the queue, and the loop ends only without a token or without waiters.    *)
LEMMA ForgottenStep == SemInv /\ [Next]_vars => NoWaiterForgotten'
  <1> SUFFICES ASSUME SemInv, [Next]_vars
               PROVE  NoWaiterForgotten'
    OBVIOUS
  <1> USE SemaphoreAssumption
      DEF SemInv, TypeOK, NoWaiterForgotten, Goto, semVars, WorkerPcs
  <1>1. ASSUME NEW w \in Workers, TakeSem(w)
        PROVE  NoWaiterForgotten'
    BY <1>1 DEF TakeSem
  <1>2. ASSUME NEW w \in Workers, TakeReq(w)
        PROVE  NoWaiterForgotten'
    <2>1. OnList(queue, SemNode) => OnList(queue', SemNode)
      BY <1>2, TailFacts DEF TakeReq
    <2> QED  BY <1>2, <2>1 DEF TakeReq
  <1>3. ASSUME NEW w \in Workers, AwaitReady(w) \/ Finish(w)
        PROVE  NoWaiterForgotten'
    BY <1>3 DEF AwaitReady, Finish
  <1>4. ASSUME NEW w \in Workers, AwaitSuspend(w)
        PROVE  NoWaiterForgotten'
    <2>1. CASE cur_val > 0
      <3>1. running[w] \in Nodes
        BY <1>4, RunningIsReq, NodeTypes DEF AwaitSuspend
      <3>2. OnList(queue, SemNode) => OnList(queue', SemNode)
        BY <1>4, <2>1, <3>1, PostedIsQueued DEF AwaitSuspend
      <3> QED  BY <1>4, <2>1, <3>2 DEF AwaitSuspend
    <2>2. CASE cur_val = 0
      BY <1>4, <2>2 DEF AwaitSuspend
    <2> QED  BY <1>4, <2>1, <2>2 DEF AwaitSuspend
  <1>5. ASSUME NEW w \in Workers, Release(w)
        PROVE  NoWaiterForgotten'
    BY <1>5 DEF Release, ReleaseLocked, PostFlag
  <1>6. OnList(MoveToTail(queue, SemNode), SemNode)
    BY NodeTypes, PostedIsQueued
  <1>7. ASSUME NEW w \in Workers, ReleasePost(w)
        PROVE  NoWaiterForgotten'
    BY <1>6, <1>7 DEF ReleasePost, QueuePost, OnList
  <1>8. ASSUME NEW s \in Signallers, Signal(s)
        PROVE  NoWaiterForgotten'
    BY <1>8 DEF Signal, ReleaseLocked, PostFlag
  <1>9. ASSUME NEW s \in Signallers, SignalPost(s)
        PROVE  NoWaiterForgotten'
    BY <1>6, <1>9 DEF SignalPost, QueuePost, OnList
  <1>10. ASSUME NEW w \in Workers, ChkEmpty(w) \/ ChkLock(w) \/ ChkSkip(w) \/ ChkGrant(w)
         PROVE  NoWaiterForgotten'
    BY <1>10 DEF ChkEmpty, ChkLock, ChkSkip, ChkGrant
  <1>11. ASSUME NEW w \in Workers, ChkUnlock(w)
         PROVE  NoWaiterForgotten'
    <2>1. cur_val > 0 => Len(acquire_list) = 0
      BY <1>11, LenProperties DEF ChkUnlock, LoopInv
    <2>2. cur_val > 0 => acquire_list = << >>
      BY <2>1, EmptySeq
    <2> QED  BY <1>11, <2>2 DEF ChkUnlock
  <1>12. CASE DestroySemaphore
    BY <1>12 DEF DestroySemaphore
  <1>13. CASE UNCHANGED vars
    BY <1>13 DEF vars
  <1> QED
    BY <1>1, <1>2, <1>3, <1>4, <1>5, <1>7, <1>8, <1>9, <1>10, <1>11, <1>12, <1>13
       DEF Next, CoStep, ChkStep

-----------------------------------------------------------------------------
(* A coroutine is in one place.                                            *)

(* Taking the head of the run queue takes off exactly that node.            *)
LEMMA TakenHead ==
    ASSUME queue \in Seq(Nodes), NoDuplicates(queue), queue # << >>
    PROVE  /\ NoDuplicates(Tail(queue))
           /\ \A m : OnList(Tail(queue), m) <=> OnList(queue, m) /\ m # Head(queue)
  <1>1. /\ \A m : OnList(queue, m) <=> OnList(Tail(queue), m) \/ m = Head(queue)
        /\ NoDuplicates(Tail(queue)) /\ ~ OnList(Tail(queue), Head(queue))
    BY TailFacts
  <1> QED  BY <1>1, Zenon

(* Granting takes exactly the entry the loop looks at off the list.         *)
LEMMA GrantedEntry ==
    ASSUME TypeOK, NoDuplicates(acquire_list), NEW w \in Workers, ChkGrant(w)
    PROVE  /\ NoDuplicates(acquire_list')
           /\ \A m : OnList(acquire_list', m) <=>
                        OnList(acquire_list, m) /\ m # acquire_list[pos]
  <1> DEFINE r == acquire_list[pos]
             d == list_del(acquire_list, r)
  <1>1. pos \in DOMAIN acquire_list
    BY LenProperties DEF ChkGrant, TypeOK
  <1>2. OnList(acquire_list, r) /\ (CHOOSE i \in DOMAIN acquire_list : acquire_list[i] = r) = pos
    BY <1>1 DEF OnList, NoDuplicates
  <1>3. acquire_list' = d
    BY <1>2 DEF ChkGrant, list_del
  <1>4. /\ \A m : OnList(d, m) => OnList(acquire_list, m)
        /\ \A m : m # r /\ OnList(acquire_list, m) => OnList(d, m)
        /\ NoDuplicates(d) /\ ~ OnList(d, r)
    BY ListDelFacts DEF TypeOK
  <1> HIDE DEF d
  <1>5. \A m : OnList(d, m) <=> OnList(acquire_list, m) /\ m # r
    BY <1>4, Zenon
  <1> QED  BY <1>3, <1>4, <1>5, Zenon

(* Every step keeps InOnePlace.                                             *)
LEMMA PlaceStep == SemInv /\ [Next]_vars => InOnePlace'
  <1> SUFFICES ASSUME SemInv, [Next]_vars
               PROVE  InOnePlace'
    OBVIOUS
  <1>0. /\ NoDuplicates(queue) /\ NoDuplicates(acquire_list)
        /\ queue \in Seq(Nodes) /\ acquire_list \in Seq(Reqs)
        /\ TypeOK /\ InOnePlace /\ WorkerInv
    BY DEF SemInv, TypeOK, InOnePlace
  <1> USE SemaphoreAssumption DEF Goto, semVars
  <1>1. ASSUME NEW w \in Workers, TakeSem(w)
        PROVE  InOnePlace'
    <2>1. NoDuplicates(queue') /\ \A r \in Reqs : OnList(queue', r) <=> OnList(queue, r)
      BY <1>0, <1>1, TakenHead DEF TakeSem
    <2> QED  BY <1>0, <1>1, <2>1 DEF TakeSem, InOnePlace
  <1>2. ASSUME NEW w \in Workers, TakeReq(w)
        PROVE  InOnePlace'
    <2> DEFINE h == Head(queue)
    <2>1. h \in Reqs /\ co[h] \in {"ready", "granted", "failed"}
      BY <1>0, <1>2, HeadIsReq DEF TakeReq
    <2>2. /\ NoDuplicates(queue')
          /\ \A r \in Reqs : OnList(queue', r) <=> OnList(queue, r) /\ r # h
      BY <1>0, <1>2, TakenHead DEF TakeReq
    <2>3. /\ co'[h] \in {"free", "hold"} /\ \A r \in Reqs \ {h} : co'[r] = co[r]
          /\ running'[w] = h /\ \A v \in Workers \ {w} : running'[v] = running[v]
          /\ acquire_list' = acquire_list
      BY <1>0, <1>2, <2>1 DEF TakeReq, TypeOK
    <2>4. running[w] = NoReq
      BY <1>0, <1>2 DEF TakeReq, WorkerInv
    <2> QED  BY <1>0, <2>1, <2>2, <2>3, <2>4 DEF InOnePlace, TypeOK
  <1>3. ASSUME NEW w \in Workers, AwaitReady(w) \/ Release(w)
        PROVE  InOnePlace'
    <2>1. running[w] \in Reqs /\ co[running[w]] \in {"free", "hold"}
      BY <1>0, <1>3, RunningIsReq DEF AwaitReady, Release
    <2>2. /\ UNCHANGED <<queue, acquire_list, running>>
          /\ co'[running[w]] \in {"free", "hold"}
          /\ \A r \in Reqs \ {running[w]} : co'[r] = co[r]
      BY <1>0, <1>3, <2>1 DEF AwaitReady, Release, TypeOK
    <2> QED  BY <1>0, <2>1, <2>2 DEF InOnePlace
  <1>4. ASSUME NEW w \in Workers, AwaitSuspend(w)
        PROVE  InOnePlace'
    <2> DEFINE h == running[w]
    <2>1. h \in Reqs /\ co[h] = "free" /\ ~ OnList(queue, h) /\ ~ OnList(acquire_list, h)
      BY <1>0, <1>4, RunningIsReq DEF AwaitSuspend, WorkerInv, InOnePlace
    <2>2. /\ \A r \in Reqs \ {h} : co'[r] = co[r]
          /\ running'[w] = NoReq /\ \A v \in Workers \ {w} : running'[v] = running[v]
      BY <1>0, <1>4, <2>1 DEF AwaitSuspend, TypeOK
    <2>3. CASE cur_val > 0
      <3>1. acquire_list' = acquire_list /\ co'[h] = "granted" /\ queue' = MoveToTail(queue, h)
        BY <1>0, <1>4, <2>1, <2>3 DEF AwaitSuspend, TypeOK
      <3>2. /\ NoDuplicates(queue')
            /\ OnList(queue', h)
            /\ \A m : m # h => (OnList(queue', m) <=> OnList(queue, m))
        BY <1>0, <2>1, <3>1, NodeTypes, PostedIsQueued
      <3> QED  BY <1>0, <2>1, <2>2, <3>1, <3>2 DEF InOnePlace, TypeOK
    <2>4. CASE cur_val = 0
      <3>1. queue' = queue /\ co'[h] = "waiting" /\ acquire_list' = Append(acquire_list, h)
        BY <1>0, <1>4, <2>1, <2>4 DEF AwaitSuspend, TypeOK, list_add_tail
      <3>2. /\ NoDuplicates(acquire_list')
            /\ \A m : OnList(acquire_list', m) <=> OnList(acquire_list, m) \/ m = h
        BY <1>0, <2>1, <3>1, AppendFacts
      <3> QED  BY <1>0, <2>1, <2>2, <3>1, <3>2 DEF InOnePlace, TypeOK
    <2> QED  BY <1>0, <1>4, <2>3, <2>4 DEF AwaitSuspend
  <1>5. ASSUME UNCHANGED <<acquire_list, co, running>>,
               queue' = MoveToTail(queue, SemNode)
        PROVE  InOnePlace'
    <2>1. /\ NoDuplicates(queue')
          /\ \A m : m # SemNode => (OnList(queue', m) <=> OnList(queue, m))
      BY <1>0, <1>5, NodeTypes, PostedIsQueued
    <2>2. \A r \in Reqs : OnList(queue', r) <=> OnList(queue, r)
      BY <2>1, NodeTypes
    <2> QED  BY <1>0, <1>5, <2>1, <2>2 DEF InOnePlace
  <1>6. ASSUME NEW w \in Workers, Finish(w)
        PROVE  InOnePlace'
    <2>1. running[w] \in Reqs /\ co[running[w]] \in {"free", "hold"}
      BY <1>0, <1>6, RunningIsReq DEF Finish
    <2>2. /\ UNCHANGED <<queue, acquire_list>>
          /\ co'[running[w]] = "done" /\ \A r \in Reqs \ {running[w]} : co'[r] = co[r]
          /\ running'[w] = NoReq /\ \A v \in Workers \ {w} : running'[v] = running[v]
      BY <1>0, <1>6, <2>1 DEF Finish, TypeOK
    <2> QED  BY <1>0, <2>1, <2>2 DEF InOnePlace, TypeOK
  <1>7. ASSUME NEW w \in Workers, ChkGrant(w)
        PROVE  InOnePlace'
    <2> DEFINE h == acquire_list[pos]
    <2>1. h \in Reqs /\ co[h] = "waiting"
      BY <1>0, <1>7, EntryWaits DEF ChkGrant
    <2>2. /\ NoDuplicates(acquire_list')
          /\ \A m : OnList(acquire_list', m) <=> OnList(acquire_list, m) /\ m # h
      BY <1>0, <1>7, GrantedEntry
    <2>3. /\ NoDuplicates(queue')
          /\ OnList(queue', h)
          /\ \A m : m # h => (OnList(queue', m) <=> OnList(queue, m))
      BY <1>0, <1>7, <2>1, NodeTypes, PostedIsQueued DEF ChkGrant
    <2>4. /\ co'[h] = "granted" /\ \A r \in Reqs \ {h} : co'[r] = co[r]
          /\ running' = running
      BY <1>0, <1>7, <2>1 DEF ChkGrant, TypeOK
    <2> HIDE DEF h
    <2> QED  BY <1>0, <2>1, <2>2, <2>3, <2>4 DEF InOnePlace
  <1>8. ASSUME DestroySemaphore
        PROVE  InOnePlace'
    <2>1. \A m : ~ (OnList(queue, m) /\ OnList(acquire_list, m))
      <3>1. \A m : OnList(acquire_list, m) => m \in Reqs
        BY <1>0, ElementOfSeq, LenProperties DEF OnList
      <3> QED  BY <1>0, <3>1 DEF InOnePlace
    <2>2. /\ NoDuplicates(queue')
          /\ \A m : OnList(queue', m) <=> OnList(queue, m) \/ OnList(acquire_list, m)
      BY <1>0, <1>8, <2>1, ReqSeqIsNodeSeq, ConcatFacts DEF DestroySemaphore
    <2>3. NoDuplicates(acquire_list') /\ \A m : ~ OnList(acquire_list', m)
      BY <1>8 DEF DestroySemaphore, NoDuplicates, OnList
    <2>4. /\ \A r \in Reqs : co'[r] = IF co[r] = "waiting" THEN "failed" ELSE co[r]
          /\ running' = running
      BY <1>8 DEF DestroySemaphore
    <2> QED  BY <1>0, <2>2, <2>3, <2>4 DEF InOnePlace
  <1>9. ASSUME UNCHANGED <<queue, acquire_list, co, running>>
        PROVE  InOnePlace'
    BY <1>0, <1>9 DEF InOnePlace, NoDuplicates, OnList
  <1>10. ASSUME NEW w \in Workers,
                ChkEmpty(w) \/ ChkLock(w) \/ ChkSkip(w) \/ ChkUnlock(w)
         PROVE  InOnePlace'
    BY <1>9, <1>10 DEF ChkEmpty, ChkLock, ChkSkip, ChkUnlock
  <1>11. ASSUME NEW w \in Workers, ReleasePost(w)
         PROVE  InOnePlace'
    BY <1>5, <1>11 DEF ReleasePost, QueuePost
  <1>12. ASSUME NEW s \in Signallers, Signal(s) \/ SignalPost(s)
         PROVE  InOnePlace'
    BY <1>5, <1>9, <1>12 DEF Signal, SignalPost, QueuePost
  <1>13. CASE UNCHANGED vars
    BY <1>9, <1>13 DEF vars
  <1> QED
    BY <1>1, <1>2, <1>3, <1>4, <1>6, <1>7, <1>8, <1>10, <1>11, <1>12, <1>13
       DEF Next, CoStep, ChkStep

-----------------------------------------------------------------------------
(* The theorems.                                                           *)

(* SemInv holds in every reachable state, for any number of coroutines,     *)
(* workers and signalling threads, and whenever the destructor may run.     *)
THEOREM SemaphoreInvariant == Spec => []SemInv
  <1>1. SemInv /\ [Next]_vars => SemInv'
    BY TypeStep, PlaceStep, WorkerStep, LoopStep, ForgottenStep, TokensStep DEF SemInv
  <1> QED  BY SemInit, <1>1, PTL DEF Spec

(* Tokens are neither lost nor duplicated by any interleaving of acquire,   *)
(* try_acquire, release and sem_chk_cb.                                     *)
THEOREM TokensAreConserved == Spec => []TokensConserved
  <1>1. SemInv => TokensConserved
    BY DEF SemInv
  <1> QED  BY SemaphoreInvariant, <1>1, PTL

(* A free token and a waiting request never coexist without a callback of   *)
(* the semaphore on its way.                                                *)
THEOREM NoWaiterIsForgotten == Spec => []NoWaiterForgotten
  <1>1. SemInv => NoWaiterForgotten
    BY DEF SemInv
  <1> QED  BY SemaphoreInvariant, <1>1, PTL

(* A coroutine is on at most one list or running on one worker, so no frame *)
(* is resumed twice.                                                        *)
THEOREM CoroutineInOnePlace == Spec => []InOnePlace
  <1>1. SemInv => InOnePlace
    BY DEF SemInv
  <1> QED  BY SemaphoreInvariant, <1>1, PTL

(* Removing the first entry of a list leaves its tail.                      *)
LEMMA RemoveAtOne ==
    ASSUME NEW S, NEW q \in Seq(S), q # << >>
    PROVE  RemoveAt(q, 1) = Tail(q)
  <1> DEFINE r == RemoveAt(q, 1)
  <1>1. Len(q) \in Nat \ {0} /\ 1 \in 1 .. Len(q)
    BY EmptySeq, LenProperties
  <1>2. /\ r \in Seq(S) /\ Len(r) = Len(q) - 1
        /\ \A i \in 1 .. Len(q) - 1 : r[i] = IF i < 1 THEN q[i] ELSE q[i + 1]
    BY <1>1, RemoveAtShifts
  <1>3. /\ Tail(q) \in Seq(S) /\ Len(Tail(q)) = Len(q) - 1
        /\ \A i \in 1 .. Len(Tail(q)) : Tail(q)[i] = q[i + 1]
    BY HeadTailProperties
  <1> HIDE DEF r
  <1>4. \A i \in 1 .. Len(r) : r[i] = Tail(q)[i]
    BY <1>1, <1>2, <1>3
  <1>5. r = Tail(q)
    BY <1>2, <1>3, <1>4, SeqEqual
  <1> QED  BY <1>5 DEF r

(* sem_chk_cb serves the waiters in the order in which they began to        *)
(* wait: the loop only grants at the position where it began, because it    *)
(* moves on only when no token is left, and none comes while it holds the   *)
(* lock.                                                                    *)
THEOREM GrantsAreFifo == Spec => FifoGrant
  <1> DEFINE A == Len(acquire_list') < Len(acquire_list) /\ alive' =>
                     acquire_list' = Tail(acquire_list)
  <1>1. ASSUME SemInv, [Next]_vars PROVE [A]_vars
    <2>0. /\ acquire_list \in Seq(Reqs) /\ Len(acquire_list) \in Nat
          /\ cur_val \in Nat /\ (cur_val > 0 => pos = 1)
      BY <1>1, LenProperties, SemaphoreAssumption DEF SemInv, TypeOK, LoopInv
    <2>1. ASSUME UNCHANGED acquire_list PROVE A
      BY <2>0, <2>1
    <2>2. ASSUME NEW w \in Workers, ChkGrant(w) PROVE A
      <3>1. pos = 1 /\ acquire_list' = RemoveAt(acquire_list, 1) /\ 1 <= Len(acquire_list)
        BY <2>0, <2>2 DEF ChkGrant
      <3>2. acquire_list # << >>
        BY <2>0, <3>1, EmptySeq
      <3> QED  BY <2>0, <3>1, <3>2, RemoveAtOne
    <2>3. ASSUME NEW w \in Workers, AwaitSuspend(w) PROVE A
      <3>1. pc[w] = "suspend" /\ running[w] \in Reqs
        BY <1>1, <2>3, RunningIsReq DEF AwaitSuspend, SemInv
      <3>2. acquire_list' = acquire_list \/ acquire_list' = Append(acquire_list, running[w])
        BY <2>3 DEF AwaitSuspend, list_add_tail
      <3>3. Len(Append(acquire_list, running[w])) = Len(acquire_list) + 1
        BY <2>0, <3>1, AppendProperties
      <3> QED  BY <2>0, <2>1, <3>2, <3>3
    <2>4. ASSUME DestroySemaphore PROVE A
      BY <2>4 DEF DestroySemaphore
    <2>5. ASSUME NEW w \in Workers,
                 TakeSem(w) \/ TakeReq(w) \/ Release(w) \/ ReleasePost(w)
                   \/ AwaitReady(w) \/ Finish(w)
          PROVE  A
      BY <2>1, <2>5 DEF TakeSem, TakeReq, Release, ReleasePost, AwaitReady, Finish, semVars
    <2>6. ASSUME NEW w \in Workers,
                 ChkEmpty(w) \/ ChkLock(w) \/ ChkSkip(w) \/ ChkUnlock(w)
          PROVE  A
      BY <2>1, <2>6 DEF ChkEmpty, ChkLock, ChkSkip, ChkUnlock, semVars
    <2>7. ASSUME NEW s \in Signallers, Signal(s) \/ SignalPost(s) PROVE A
      BY <2>1, <2>7 DEF Signal, SignalPost, semVars
    <2> HIDE DEF A
    <2> QED  BY <1>1, <2>2, <2>3, <2>4, <2>5, <2>6, <2>7 DEF Next, CoStep, ChkStep
  <1> HIDE DEF A
  <1>2. Spec => [][A]_vars
    BY <1>1, SemaphoreInvariant, PTL DEF Spec
  <1> QED  BY <1>2 DEF FifoGrant, A

-----------------------------------------------------------------------------
(* WebSocket: sequences that are cut in pieces.                            *)

(* s and t cut at the same place.                                           *)
LEMMA SplitEqual ==
    ASSUME NEW S, NEW a \in Seq(S), NEW b \in Seq(S), NEW c \in Seq(S), NEW d \in Seq(S),
           a \o b = c \o d, Len(a) = Len(c)
    PROVE  a = c /\ b = d
  <1>1. /\ Len(a) \in Nat /\ Len(b) \in Nat /\ Len(d) \in Nat
    BY LenProperties
  <1>2. ASSUME NEW i \in 1 .. Len(a) PROVE a[i] = c[i]
    <2>1. (a \o b)[i] = a[i]
      <3>1. i \in 1 .. Len(a) + Len(b) /\ i <= Len(a)
        BY <1>1
      <3> QED  BY <3>1, ConcatProperties
    <2>2. (c \o d)[i] = c[i]
      <3>1. i \in 1 .. Len(c) + Len(d) /\ i <= Len(c)
        BY <1>1
      <3> QED  BY <3>1, ConcatProperties
    <2> QED  BY <2>1, <2>2
  <1>3. a = c
    BY <1>2, SeqEqual
  <1>4. a \o b = a \o d
    BY <1>3
  <1> QED  BY <1>3, <1>4, ConcatSimplifications

(* What a sequence begins with.                                             *)
LEMMA PrefixOfConcat ==
    ASSUME NEW S, NEW a \in Seq(S), NEW b \in Seq(S)
    PROVE  IsPrefix(a, a \o b)
  <1> DEFINE c == a \o b  n == Len(a)
  <1>1. /\ c \in Seq(S) /\ Len(c) = n + Len(b) /\ n \in Nat /\ Len(b) \in Nat
        /\ \A i \in 1 .. n : c[i] = a[i]
    <2>1. n \in Nat /\ Len(b) \in Nat
      BY LenProperties
    <2>2. \A i \in 1 .. n : i \in 1 .. n + Len(b) /\ i <= n
      BY <2>1
    <2> QED  BY <2>1, <2>2, ConcatProperties
  <1>2. \A i \in 1 .. n : c[i] \in S /\ a[i] \in S
    <2>1. \A i \in 1 .. n : i \in 1 .. Len(a)
      OBVIOUS
    <2> QED  BY <1>1, <2>1, ElementOfSeq
  <1> HIDE DEF c
  <1>3. /\ SubSeq(c, 1, n) \in Seq(S) /\ Len(SubSeq(c, 1, n)) = n
        /\ \A i \in 1 .. n : SubSeq(c, 1, n)[i] = c[i]
    <2> HIDE DEF n
    <2> QED  BY <1>1, <1>2, SubSeqProperties
  <1>4. /\ SubSeq(a, 1, n) \in Seq(S) /\ Len(SubSeq(a, 1, n)) = n
        /\ \A i \in 1 .. n : SubSeq(a, 1, n)[i] = a[i]
    <2> HIDE DEF n
    <2> QED  BY <1>1, <1>2, SubSeqProperties
  <1>5. SubSeq(a, 1, n) = SubSeq(c, 1, n)
    <2> HIDE DEF n
    <2>1. \A i \in 1 .. Len(SubSeq(a, 1, n)) : SubSeq(a, 1, n)[i] = SubSeq(c, 1, n)[i]
      BY <1>1, <1>3, <1>4
    <2> QED  BY <1>3, <1>4, <2>1, SeqEqual
  <1> QED  BY <1>1, <1>5 DEF IsPrefix, c

(* Prefixes are those and no other.                                         *)
LEMMA PrefixLeavesRest ==
    ASSUME NEW S, NEW a \in Seq(S), NEW c \in Seq(S), IsPrefix(a, c)
    PROVE  \E b \in Seq(S) : c = a \o b
  <1> DEFINE n == Len(a)  b == SubSeq(c, n + 1, Len(c))
  <1>1. n \in Nat /\ Len(c) \in Nat /\ n <= Len(c) /\ SubSeq(a, 1, n) = SubSeq(c, 1, n)
    BY LenProperties DEF IsPrefix
  <1>2. SubSeq(a, 1, n) = a
    BY SubSeqFull
  <1>3. SubSeq(c, 1, n) \o b = SubSeq(c, 1, Len(c)) /\ SubSeq(c, 1, Len(c)) = c
    <2>1. 1 \in 1 .. Len(c) + 1 /\ n \in 1 - 1 .. Len(c) /\ Len(c) \in n .. Len(c)
      BY <1>1
    <2> HIDE DEF n
    <2> QED  BY <2>1, ConcatAdjacentSubSeq, SubSeqFull
  <1>4. b \in Seq(S)
    <2>1. \A i \in n + 1 .. Len(c) : i \in 1 .. Len(c)
      BY <1>1
    <2>2. \A i \in n + 1 .. Len(c) : c[i] \in S
      BY <2>1, ElementOfSeq
    <2>3. n + 1 \in Int /\ Len(c) \in Int
      BY <1>1
    <2> HIDE DEF n
    <2> QED  BY <2>2, <2>3, SubSeqProperties
  <1> QED  BY <1>1, <1>2, <1>3, <1>4

LEMMA PrefixGrows ==
    ASSUME NEW S, NEW a \in Seq(S), NEW b \in Seq(S), NEW c \in Seq(S), IsPrefix(a, b)
    PROVE  IsPrefix(a, b \o c)
  <1>1. PICK d \in Seq(S) : b = a \o d
    BY PrefixLeavesRest
  <1>2. d \o c \in Seq(S)
    BY ConcatProperties
  <1>3. IsPrefix(a, a \o (d \o c))
    BY <1>2, PrefixOfConcat
  <1>4. Associates(a, d, c)
    BY ConcatAssociates
  <1>5. b \o c = a \o (d \o c)
    BY <1>1, <1>4 DEF Associates
  <1> QED  BY <1>3, <1>5

-----------------------------------------------------------------------------
(* A list of parts from its end: T[k] is what follows the first k.          *)
Behind(T, p, n, S) ==
    /\ T \in [0 .. n -> Seq(S)] /\ T[n] = << >>
    /\ \A k \in 1 .. n : T[k - 1] = p[k] \o T[k]

LEMMA BehindAt ==
    ASSUME NEW S, NEW p, NEW n \in Nat, NEW T, Behind(T, p, n, S), NEW k \in 1 .. n
    PROVE  T[k - 1] = p[k] \o T[k] /\ T[k - 1] \in Seq(S) /\ T[k] \in Seq(S)
  <1>1. k \in 0 .. n /\ k - 1 \in 0 .. n
    OBVIOUS
  <1> QED  BY <1>1 DEF Behind

(* One more part at the end is one more part behind each.                   *)
EachGrows(U, T, n, x) == \A k \in 0 .. n : U[k] = T[k] \o x

LEMMA BehindGrows ==
    ASSUME NEW S, NEW n \in Nat, NEW p \in [1 .. n -> Seq(S)], NEW q \in [1 .. n + 1 -> Seq(S)],
           NEW T, Behind(T, p, n, S), SameParts(p, q, n)
    PROVE  \E U : Behind(U, q, n + 1, S) /\ EachGrows(U, T, n, q[n + 1])
  <1> DEFINE x == q[n + 1]
             U == [k \in 0 .. n + 1 |-> IF k = n + 1 THEN << >> ELSE T[k] \o x]
  <1>1. x \in Seq(S) /\ << >> \in Seq(S)
    BY EmptySeq
  <1>2. \A k \in 0 .. n : T[k] \in Seq(S)
    BY DEF Behind
  <1>3. T[n] = << >>
    BY DEF Behind
  <1> HIDE DEF x
  <1>4. \A k \in 0 .. n : T[k] \o x \in Seq(S)
    BY <1>1, <1>2, ConcatProperties
  <1>5. U \in [0 .. n + 1 -> Seq(S)] /\ U[n + 1] = << >>
    BY <1>1, <1>4
  <1>6. \A k \in 0 .. n : U[k] = T[k] \o x
    OBVIOUS
  <1> HIDE DEF U
  <1>7. ASSUME NEW k \in 1 .. n + 1 PROVE U[k - 1] = q[k] \o U[k]
    <2>1. CASE k = n + 1
      <3>1. k - 1 = n /\ n \in 0 .. n
        BY <2>1
      <3>2. U[k - 1] = << >> \o x
        BY <1>3, <1>6, <3>1
      <3>3. q[k] \o U[k] = x \o << >>
        BY <1>5, <2>1 DEF x
      <3> QED  BY <1>1, <3>2, <3>3, ConcatEmptySeq
    <2>2. CASE k # n + 1
      <3>1. k \in 1 .. n /\ k \in 0 .. n /\ k - 1 \in 0 .. n
        BY <2>2
      <3>2. T[k - 1] = p[k] \o T[k]
        BY <3>1, Zenon DEF Behind
      <3>3. p[k] \in Seq(S) /\ T[k] \in Seq(S) /\ q[k] = p[k]
        BY <1>2, <3>1 DEF SameParts
      <3>4. U[k - 1] = T[k - 1] \o x /\ U[k] = T[k] \o x
        BY <1>6, <3>1
      <3>5. U[k - 1] = (p[k] \o T[k]) \o x
        BY <3>2, <3>4
      <3>6. (p[k] \o T[k]) \o x = p[k] \o (T[k] \o x)
        <4>1. Associates(p[k], T[k], x)
          BY <1>1, <3>3, ConcatAssociates
        <4> QED  BY <4>1 DEF Associates
      <3> QED  BY <3>3, <3>4, <3>5, <3>6
    <2> QED  BY <2>1, <2>2
  <1>8. Behind(U, q, n + 1, S)
    BY <1>5, <1>7 DEF Behind
  <1> QED  BY <1>6, <1>8 DEF EachGrows, x

(* Where only empty parts follow, nothing does.                             *)
EmptyAfter(p, m, n) == \A k \in m + 1 .. n : p[k] = << >>

LEMMA NothingBehind ==
    ASSUME NEW S, NEW p, NEW n \in Nat, NEW T, Behind(T, p, n, S), NEW m \in 0 .. n,
           EmptyAfter(p, m, n)
    PROVE  T[m] = << >>
  <1> DEFINE F == [i \in 0 .. n - m |-> T[n - i]]
             G == [i \in 0 .. n - m |-> << >>]
  <1>1. n - m \in Nat
    OBVIOUS
  <1>2. F[0] = G[0]
    BY <1>1 DEF Behind
  <1>3. ASSUME NEW i \in 1 .. n - m, F[i - 1] = G[i - 1] PROVE F[i] = G[i]
    <2> DEFINE k == n - i + 1
    <2>1. k \in 1 .. n /\ k \in m + 1 .. n /\ k - 1 = n - i /\ k = n - (i - 1)
      OBVIOUS
    <2>2. i \in 0 .. n - m /\ i - 1 \in 0 .. n - m
      OBVIOUS
    <2>3. T[k] = << >> /\ p[k] = << >>
      BY <1>3, <2>1, <2>2 DEF EmptyAfter
    <2> HIDE DEF k
    <2>4. T[k - 1] = p[k] \o T[k]
      BY <2>1, Zenon DEF Behind
    <2>5. << >> \o << >> = << >>
      BY EmptySeq, ConcatEmptySeq
    <2>6. T[n - i] = << >>
      BY <2>1, <2>3, <2>4, <2>5
    <2> QED  BY <2>2, <2>6
  <1>4. SameSteps(F, G, n - m)
    BY <1>2, <1>3 DEF SameSteps
  <1>5. n - m \in 0 .. n - m /\ n - (n - m) = m
    BY <1>1
  <1> HIDE DEF F, G
  <1>6. F[n - m] = G[n - m]
    BY <1>1, <1>4, <1>5, RecursionUnique
  <1> QED  BY <1>5, <1>6 DEF F, G

-----------------------------------------------------------------------------
(* Numbers and their digits.                                               *)

(* Shifting by one digit after the other.                                   *)
Shifts(f, n, k) == f[0] = n /\ \A i \in 1 .. k : f[i] = f[i - 1] \div Base

LEMMA ShiftsExist ==
    ASSUME NEW n \in Nat, NEW k \in Nat
    PROVE  \E f : f \in [0 .. k -> Nat] /\ Shifts(f, n, k)
  <1> DEFINE step == [i \in 1 .. k |-> [m \in Nat |-> m \div Base]]
  <1>1. step \in [1 .. k -> [Nat -> Nat]]
    <2>1. \A m \in Nat : m \div Base \in Nat
      BY DEF Base
    <2> QED  BY <2>1
  <1>2. \A i \in 1 .. k : \A m \in Nat : step[i][m] = m \div Base
    OBVIOUS
  <1> HIDE DEF step
  <1>3. PICK f : Solves(f, k, Nat, n, step)
    BY <1>1, RecursionExists
  <1>4. f \in [0 .. k -> Nat] /\ f[0] = n /\ \A i \in 1 .. k : f[i] = step[i][f[i - 1]]
    BY <1>3 DEF Solves
  <1>5. \A i \in 1 .. k : f[i - 1] \in Nat
    BY <1>4
  <1>6. \A i \in 1 .. k : f[i] = f[i - 1] \div Base
    BY <1>2, <1>4, <1>5
  <1> QED  BY <1>4, <1>6 DEF Shifts

LEMMA ShiftRightIs ==
    ASSUME NEW n \in Nat, NEW k \in Nat, NEW f, Shifts(f, n, k)
    PROVE  ShiftRight(n, k) = f[k]
  <1> DEFINE Rec(h) == h = [i \in 0 .. k |-> IF i = 0 THEN n ELSE h[i - 1] \div Base]
             F == CHOOSE h : Rec(h)
  <1>1. ShiftRight(n, k) = F[k]
    BY DEF ShiftRight
  <1>2. f[0] = n /\ \A i \in 1 .. k : f[i] = f[i - 1] \div Base
    BY DEF Shifts
  <1> DEFINE g == [i \in 0 .. k |-> f[i]]
             h == [i \in 0 .. k |-> IF i = 0 THEN n ELSE g[i - 1] \div Base]
  <1>3. ASSUME NEW i \in 0 .. k PROVE g[i] = h[i]
    <2>1. CASE i = 0
      BY <1>2, <2>1
    <2>2. CASE i # 0
      <3>1. i \in 1 .. k /\ i - 1 \in 0 .. k
        BY <2>2
      <3> QED  BY <1>2, <2>2, <3>1
    <2> QED  BY <2>1, <2>2
  <1>4. Rec(g)
    <2>1. g = h
      BY <1>3
    <2> QED  BY <2>1
  <1>5. Rec(F)
    BY <1>4
  <1> HIDE DEF F, g, h
  <1>6. F[0] = n /\ \A i \in 1 .. k : F[i] = F[i - 1] \div Base
    BY <1>5
  <1>7. SameSteps(F, f, k)
    BY <1>2, <1>6 DEF SameSteps
  <1>8. k \in 0 .. k
    OBVIOUS
  <1> QED  BY <1>1, <1>7, <1>8, RecursionUnique

(* All shifts at once.                                                      *)
LEMMA ShiftFacts ==
    ASSUME NEW n \in Nat, NEW k \in Nat
    PROVE  \E f : /\ f \in [0 .. k -> Nat] /\ Shifts(f, n, k)
                  /\ \A j \in 0 .. k : ShiftRight(n, j) = f[j]
  <1>1. PICK f : f \in [0 .. k -> Nat] /\ Shifts(f, n, k)
    BY ShiftsExist
  <1>2. ASSUME NEW j \in 0 .. k PROVE ShiftRight(n, j) = f[j]
    <2>1. Shifts(f, n, j) /\ j \in Nat
      BY <1>1 DEF Shifts
    <2> QED  BY <2>1, ShiftRightIs
  <1> QED  BY <1>1, <1>2

(* Number goes through the digits from the first.                           *)
Adds(f, d) == f[0] = 0 /\ \A i \in 1 .. Len(d) : f[i] = f[i - 1] * Base + d[i]

LEMMA NumberIs ==
    ASSUME NEW d \in Seq(Nat), NEW f, Adds(f, d)
    PROVE  Number(d) = f[Len(d)]
  <1> DEFINE n == Len(d)
             Rec(h) == h = [i \in 0 .. n |-> IF i = 0 THEN 0 ELSE h[i - 1] * Base + d[i]]
             F == CHOOSE h : Rec(h)
  <1>1. Number(d) = F[n]
    BY DEF Number
  <1>2. f[0] = 0 /\ \A i \in 1 .. n : f[i] = f[i - 1] * Base + d[i]
    BY DEF Adds
  <1>3. n \in Nat
    BY LenProperties
  <1> HIDE DEF n
  <1> DEFINE g == [i \in 0 .. n |-> f[i]]
             h == [i \in 0 .. n |-> IF i = 0 THEN 0 ELSE g[i - 1] * Base + d[i]]
  <1>4. ASSUME NEW i \in 0 .. n PROVE g[i] = h[i]
    <2>1. CASE i = 0
      BY <1>2, <2>1
    <2>2. CASE i # 0
      <3>1. i \in 1 .. n /\ i - 1 \in 0 .. n
        BY <1>3, <2>2
      <3> QED  BY <1>2, <2>2, <3>1
    <2> QED  BY <2>1, <2>2
  <1>5. Rec(g)
    <2>1. g = h
      BY <1>4
    <2> QED  BY <2>1
  <1>6. Rec(F)
    BY <1>5
  <1> HIDE DEF F, g, h
  <1>7. F[0] = 0 /\ \A i \in 1 .. n : F[i] = F[i - 1] * Base + d[i]
    BY <1>3, <1>6
  <1>8. SameSteps(F, f, n)
    BY <1>2, <1>7 DEF SameSteps
  <1>9. n \in 0 .. n
    BY <1>3
  <1> QED  BY <1>1, <1>3, <1>8, <1>9, RecursionUnique DEF n

(* The digits of a number.                                                  *)
LEMMA DigitsAre ==
    ASSUME NEW n \in Nat, NEW w \in Nat
    PROVE  /\ Digits(n, w) \in Seq(0 .. Base - 1) /\ Len(Digits(n, w)) = w
           /\ \A i \in 1 .. w : Digits(n, w)[i] = ShiftRight(n, w - i) % Base
  <1>1. PICK f : /\ f \in [0 .. w -> Nat] /\ Shifts(f, n, w)
                 /\ \A j \in 0 .. w : ShiftRight(n, j) = f[j]
    BY ShiftFacts
  <1>2. ASSUME NEW i \in 1 .. w PROVE ShiftRight(n, w - i) % Base \in 0 .. Base - 1
    <2>1. w - i \in 0 .. w
      OBVIOUS
    <2>2. ShiftRight(n, w - i) \in Nat
      BY <1>1, <2>1
    <2> QED  BY <2>2 DEF Base
  <1>3. Digits(n, w) \in [1 .. w -> 0 .. Base - 1]
    BY <1>2 DEF Digits
  <1>4. Digits(n, w) \in Seq(0 .. Base - 1) /\ Len(Digits(n, w)) = w
    <2>1. \A S : \A g \in [1 .. w -> S] : g \in Seq(S) /\ Len(g) = w
      BY FunctionIsSeq
    <2> QED  BY <1>3, <2>1
  <1> QED  BY <1>4 DEF Digits

(* A number that fits is read back from its digits.                         *)
LEMMA NumberOfDigits ==
    ASSUME NEW n \in Nat, NEW w \in Nat, ShiftRight(n, w) = 0
    PROVE  Number(Digits(n, w)) = n
  <1>1. PICK f : /\ f \in [0 .. w -> Nat] /\ Shifts(f, n, w)
                 /\ \A j \in 0 .. w : ShiftRight(n, j) = f[j]
    BY ShiftFacts
  <1> DEFINE d == Digits(n, w)  g == [i \in 0 .. w |-> f[w - i]]
  <1>2. d \in Seq(0 .. Base - 1) /\ Len(d) = w /\ \A i \in 1 .. w : d[i] = ShiftRight(n, w - i) % Base
    BY DigitsAre
  <1>3. d \in Seq(Nat)
    <2>1. 0 .. Base - 1 \subseteq Nat
      BY DEF Base
    <2> QED  BY <1>2, <2>1, SeqMonotonic
  <1> HIDE DEF d
  <1>4. g[0] = 0
    BY <1>1
  <1>5. ASSUME NEW i \in 1 .. w PROVE g[i] = g[i - 1] * Base + d[i]
    <2>1. /\ i \in 0 .. w /\ i - 1 \in 0 .. w /\ w - i \in 0 .. w
          /\ w - i + 1 \in 1 .. w /\ w - (i - 1) = w - i + 1 /\ (w - i + 1) - 1 = w - i
      OBVIOUS
    <2>2. g[i] = f[w - i] /\ g[i - 1] = f[w - i + 1]
      BY <2>1
    <2>3. f[w - i + 1] = f[w - i] \div Base /\ f[w - i] \in Nat
      BY <1>1, <2>1 DEF Shifts
    <2>4. d[i] = f[w - i] % Base
      BY <1>1, <1>2, <2>1
    <2> HIDE DEF g
    <2> QED  BY <2>2, <2>3, <2>4 DEF Base
  <1>6. g[w] = n
    BY <1>1 DEF Shifts
  <1> HIDE DEF g
  <1>7. Adds(g, d)
    BY <1>2, <1>4, <1>5 DEF Adds
  <1> QED  BY <1>2, <1>3, <1>6, <1>7, NumberIs DEF d

(* What two digits hold.                                                    *)
LEMMA ShortNumberFits ==
    ASSUME NEW n \in Nat, n < Base * Base
    PROVE  ShiftRight(n, 2) = 0
  <1>1. PICK f : f \in [0 .. 2 -> Nat] /\ Shifts(f, n, 2) /\ \A j \in 0 .. 2 : ShiftRight(n, j) = f[j]
    BY ShiftFacts
  <1>2. f[0] = n /\ f[1] = f[0] \div Base /\ f[2] = f[1] \div Base
    <2>1. 1 \in 1 .. 2 /\ 2 \in 1 .. 2 /\ 1 - 1 = 0 /\ 2 - 1 = 1
      OBVIOUS
    <2> QED  BY <1>1, <2>1 DEF Shifts
  <1>3. ShiftRight(n, 2) = f[2]
    BY <1>1
  <1> QED  BY <1>2, <1>3 DEF Base

(* Two digits are those of the number they make.                            *)
LEMMA DigitsOfNumber ==
    ASSUME NEW d \in Seq(0 .. Base - 1), Len(d) = 2
    PROVE  Number(d) \in Nat /\ Digits(Number(d), 2) = d
  <1> DEFINE m == d[1] * Base + d[2]
             f == [i \in 0 .. 2 |-> IF i = 0 THEN 0 ELSE IF i = 1 THEN d[1] ELSE m]
  <1>1. d[1] \in 0 .. Base - 1 /\ d[2] \in 0 .. Base - 1
    <2>1. 1 \in 1 .. Len(d) /\ 2 \in 1 .. Len(d)
      OBVIOUS
    <2> QED  BY <2>1, ElementOfSeq
  <1>2. m \in Nat /\ m \div Base = d[1] /\ m % Base = d[2] /\ d[1] % Base = d[1]
    <2>1. \A a, b \in 0 .. Base - 1 :
             /\ a * Base + b \in Nat /\ (a * Base + b) \div Base = a
             /\ (a * Base + b) % Base = b /\ a % Base = a
      BY DEF Base
    <2> QED  BY <1>1, <2>1
  <1>3. d \in Seq(Nat)
    <2>1. 0 .. Base - 1 \subseteq Nat
      BY DEF Base
    <2> QED  BY <2>1, SeqMonotonic
  <1> HIDE DEF m
  <1>4. Adds(f, d)
    <2>1. f[0] = 0 /\ f[1] = d[1] /\ f[2] = m
      OBVIOUS
    <2>2. f[1] = f[0] * Base + d[1] /\ f[2] = f[1] * Base + d[2]
      BY <1>1, <2>1 DEF m, Base
    <2>3. \A i \in 1 .. Len(d) : i = 1 \/ i = 2
      OBVIOUS
    <2>4. 1 - 1 = 0 /\ 2 - 1 = 1
      OBVIOUS
    <2> HIDE DEF f
    <2> QED  BY <2>1, <2>2, <2>3, <2>4 DEF Adds
  <1>5. Number(d) = m
    <2>1. f[2] = m
      OBVIOUS
    <2> HIDE DEF f
    <2> QED  BY <1>3, <1>4, <2>1, NumberIs
  <1>6. PICK g : g \in [0 .. 2 -> Nat] /\ Shifts(g, m, 2) /\ \A j \in 0 .. 2 : ShiftRight(m, j) = g[j]
    BY <1>2, ShiftFacts
  <1>7. ShiftRight(m, 0) = m /\ ShiftRight(m, 1) = m \div Base
    <2>1. 1 \in 1 .. 2 /\ 1 - 1 = 0 /\ 0 \in 0 .. 2 /\ 1 \in 0 .. 2
      OBVIOUS
    <2> QED  BY <1>6, <2>1 DEF Shifts
  <1>8. /\ Digits(m, 2) \in Seq(0 .. Base - 1) /\ Len(Digits(m, 2)) = 2
        /\ \A i \in 1 .. 2 : Digits(m, 2)[i] = ShiftRight(m, 2 - i) % Base
    BY <1>2, DigitsAre
  <1>9. Digits(m, 2)[1] = d[1] /\ Digits(m, 2)[2] = d[2]
    <2>1. 1 \in 1 .. 2 /\ 2 \in 1 .. 2 /\ 2 - 1 = 1 /\ 2 - 2 = 0
      OBVIOUS
    <2> QED  BY <1>2, <1>7, <1>8, <2>1
  <1>10. \A i \in 1 .. Len(d) : Digits(m, 2)[i] = d[i]
    <2>1. \A i \in 1 .. Len(d) : i = 1 \/ i = 2
      OBVIOUS
    <2> QED  BY <1>9, <2>1
  <1>11. Digits(m, 2) = d
    BY <1>8, <1>10, SeqEqual
  <1> QED  BY <1>2, <1>5, <1>11

-----------------------------------------------------------------------------
(* The bytes of a frame.                                                   *)

Bits == 0 .. Base - 1
Octets == [b : Bits] \cup [fin : BOOLEAN, rsv : BOOLEAN, op : Opcodes]
          \cup [mask : BOOLEAN, len : Nat]

(* Frames whose key has its length, if they are masked.                     *)
Keyed == { f \in Frames : f.mask => Len(f.key) = MaskLen }

LEMMA FrameFields ==
    ASSUME NEW f \in Keyed
    PROVE  /\ f.fin \in BOOLEAN /\ f.rsv \in BOOLEAN /\ f.mask \in BOOLEAN /\ f.op \in Opcodes
           /\ f.key \in Seq(Bits) /\ f.payload \in Seq(Bits)
           /\ f.mask => Len(f.key) = MaskLen
           /\ Len(f.payload) \in Nat
  <1>1. f \in Frames /\ (f.mask => Len(f.key) = MaskLen)
    BY DEF Keyed
  <1>2. f.payload \in Seq(Bits) /\ f.key \in Seq(Bits)
    BY <1>1 DEF Frames, Bits
  <1>3. f.fin \in BOOLEAN /\ f.rsv \in BOOLEAN /\ f.mask \in BOOLEAN /\ f.op \in Opcodes
    BY <1>1 DEF Frames
  <1>4. Len(f.payload) \in Nat
    BY <1>2, LenProperties
  <1> QED  BY <1>1, <1>2, <1>3, <1>4

LEMMA ClientFramesKeyed == ClientFrames \subseteq Keyed
  BY FrameAssumption DEF Keyed

LEMMA BytesFacts ==
    ASSUME NEW d \in Seq(Bits)
    PROVE  Bytes(d) \in Seq(Octets) /\ Len(Bytes(d)) = Len(d) /\ Value(Bytes(d)) = d
  <1> DEFINE n == Len(d)  c == [i \in 1 .. n |-> [b |-> d[i]]]
  <1>1. n \in Nat /\ d \in [1 .. n -> Bits] /\ DOMAIN d = 1 .. n
    BY LenProperties
  <1>2. Bytes(d) = c
    BY <1>1 DEF Bytes
  <1> HIDE DEF n
  <1>3. c \in [1 .. n -> Octets] /\ DOMAIN c = 1 .. n
    BY <1>1 DEF Octets
  <1>4. c \in Seq(Octets) /\ Len(c) = n
    <2> HIDE DEF c
    <2>1. \A S : \A g \in [1 .. n -> S] : g \in Seq(S) /\ Len(g) = n
      BY <1>1, FunctionIsSeq
    <2> QED  BY <1>3, <2>1
  <1>5. Value(c) = d
    <2>1. Value(c) = [i \in 1 .. n |-> c[i].b]
      BY <1>3 DEF Value
    <2>2. \A i \in 1 .. n : c[i].b = d[i]
      OBVIOUS
    <2> HIDE DEF c
    <2> QED  BY <1>1, <2>1, <2>2
  <1> QED  BY <1>2, <1>4, <1>5 DEF n

(* Masking keeps the length, and twice it is undone.                        *)
LEMMA XorFacts ==
    ASSUME NEW p \in Seq(Bits), NEW key \in Seq(Bits), Len(key) = MaskLen
    PROVE  /\ xor_mask(p, key) \in Seq(Bits) /\ Len(xor_mask(p, key)) = Len(p)
           /\ xor_mask(xor_mask(p, key), key) = p
  <1> DEFINE n == Len(p)  at(i) == key[((i - 1) % MaskLen) + 1]
             x == [i \in 1 .. n |-> (p[i] + at(i)) % Base]
             y == [i \in 1 .. n |-> (x[i] + at(i)) % Base]
  <1>1. n \in Nat /\ p \in [1 .. n -> Bits] /\ DOMAIN p = 1 .. n
    BY LenProperties
  <1>2. ASSUME NEW i \in 1 .. n PROVE at(i) \in Bits
    <2>1. i - 1 \in Nat /\ MaskLen \in Nat \ {0}
      BY <1>1, FrameAssumption
    <2>2. (i - 1) % MaskLen \in 0 .. MaskLen - 1
      BY <2>1
    <2>3. ((i - 1) % MaskLen) + 1 \in 1 .. Len(key)
      BY <2>1, <2>2
    <2> QED  BY <2>3, ElementOfSeq
  <1>3. xor_mask(p, key) = x
    BY <1>1 DEF xor_mask
  <1> HIDE DEF n, at
  <1>4. \A a, b \in Bits : (a + b) % Base \in Bits /\ (((a + b) % Base) + b) % Base = a
    BY DEF Bits, Base
  <1>5. \A i \in 1 .. n : p[i] \in Bits
    BY <1>1
  <1>6. x \in [1 .. n -> Bits] /\ DOMAIN x = 1 .. n
    BY <1>2, <1>4, <1>5
  <1>7. x \in Seq(Bits) /\ Len(x) = n
    <2> HIDE DEF x
    <2>1. \A S : \A g \in [1 .. n -> S] : g \in Seq(S) /\ Len(g) = n
      BY <1>1, FunctionIsSeq
    <2> QED  BY <1>6, <2>1
  <1>8. xor_mask(x, key) = y
    <2> HIDE DEF x
    <2> QED  BY <1>6 DEF xor_mask, at
  <1>9. y = p
    <2>1. \A i \in 1 .. n : x[i] = (p[i] + at(i)) % Base
      OBVIOUS
    <2>2. \A i \in 1 .. n : y[i] = (x[i] + at(i)) % Base
      OBVIOUS
    <2>3. \A i \in 1 .. n : y[i] = p[i]
      <3> HIDE DEF x, y
      <3> QED  BY <1>2, <1>4, <1>5, <2>1, <2>2
    <2>4. DOMAIN y = 1 .. n /\ y = [i \in 1 .. n |-> y[i]]
      OBVIOUS
    <2> HIDE DEF y
    <2> QED  BY <1>1, <2>3, <2>4
  <1> QED  BY <1>3, <1>7, <1>8, <1>9 DEF n

(* The two bytes at the beginning, the key and the rest.                    *)
First(f) ==
    <<[fin |-> f.fin, rsv |-> f.rsv, op |-> f.op],
      [mask |-> f.mask, len |-> LengthCode(Len(f.payload))]>>
Length(f) == LengthBytes(Len(f.payload))
Key(f) == IF f.mask THEN Bytes(f.key) ELSE << >>

LEMMA FirstFacts ==
    ASSUME NEW f \in Keyed
    PROVE  First(f) \in Seq(Octets) /\ Len(First(f)) = 2
  <1>1. Len(f.payload) \in Nat /\ f.fin \in BOOLEAN /\ f.rsv \in BOOLEAN /\ f.mask \in BOOLEAN
        /\ f.op \in Opcodes
    BY FrameFields
  <1>2. LengthCode(Len(f.payload)) \in Nat
    BY <1>1, FrameAssumption DEF LengthCode
  <1> QED  BY <1>1, <1>2 DEF First, Octets

(* The length is read back from its bytes.                                  *)
LEMMA LengthFacts ==
    ASSUME NEW n \in Nat
    PROVE  /\ LengthBytes(n) \in Seq(Octets)
           /\ n <= SmallMax => LengthBytes(n) = << >> /\ LengthCode(n) = n
           /\ n > SmallMax /\ n < Base * Base =>
                LengthCode(n) = SmallMax + 1 /\ Len(LengthBytes(n)) = 2
                /\ Number(Value(LengthBytes(n))) = n
           /\ n > SmallMax /\ ~ n < Base * Base =>
                LengthCode(n) = SmallMax + 2 /\ Len(LengthBytes(n)) = WideLen
                /\ (ShiftRight(n, WideLen) = 0 => Number(Value(LengthBytes(n))) = n)
  <1>1. SmallMax \in Nat /\ WideLen \in Nat
    BY FrameAssumption
  <1>2. << >> \in Seq(Octets)
    BY EmptySeq
  <1>3. ASSUME NEW w \in Nat
        PROVE  /\ Bytes(Digits(n, w)) \in Seq(Octets) /\ Len(Bytes(Digits(n, w))) = w
               /\ (ShiftRight(n, w) = 0 => Number(Value(Bytes(Digits(n, w)))) = n)
    <2> DEFINE d == Digits(n, w)
    <2>1. d \in Seq(Bits) /\ Len(d) = w
      BY DigitsAre DEF Bits
    <2>2. ShiftRight(n, w) = 0 => Number(d) = n
      BY NumberOfDigits
    <2> HIDE DEF d
    <2>3. Bytes(d) \in Seq(Octets) /\ Len(Bytes(d)) = w /\ Value(Bytes(d)) = d
      BY <2>1, BytesFacts
    <2> QED  BY <2>2, <2>3 DEF d
  <1>4. CASE n <= SmallMax
    BY <1>1, <1>2, <1>4 DEF LengthBytes, LengthCode
  <1>5. CASE n > SmallMax /\ n < Base * Base
    <2>1. LengthBytes(n) = Bytes(Digits(n, 2)) /\ LengthCode(n) = SmallMax + 1
      BY <1>1, <1>5 DEF LengthBytes, LengthCode
    <2>2. ShiftRight(n, 2) = 0
      BY <1>5, ShortNumberFits
    <2>3. /\ Bytes(Digits(n, 2)) \in Seq(Octets) /\ Len(Bytes(Digits(n, 2))) = 2
          /\ Number(Value(Bytes(Digits(n, 2)))) = n
      BY <1>3, <2>2
    <2>4. ~ n <= SmallMax
      BY <1>1, <1>5
    <2> QED  BY <1>5, <2>1, <2>3, <2>4
  <1>6. CASE n > SmallMax /\ ~ n < Base * Base
    <2>1. LengthBytes(n) = Bytes(Digits(n, WideLen)) /\ LengthCode(n) = SmallMax + 2
      BY <1>1, <1>6 DEF LengthBytes, LengthCode
    <2>2. ~ n <= SmallMax
      BY <1>1, <1>6
    <2> QED  BY <1>1, <1>3, <1>6, <2>1, <2>2
  <1> QED  BY <1>1, <1>4, <1>5, <1>6

LEMMA KeyFacts ==
    ASSUME NEW f \in Keyed
    PROVE  Key(f) \in Seq(Octets) /\ (f.mask => Len(Key(f)) = MaskLen /\ Value(Key(f)) = f.key)
  <1>1. f.mask \in BOOLEAN /\ f.key \in Seq(Bits) /\ (f.mask => Len(f.key) = MaskLen)
    BY FrameFields
  <1>2. /\ Bytes(f.key) \in Seq(Octets) /\ Len(Bytes(f.key)) = Len(f.key)
        /\ Value(Bytes(f.key)) = f.key
    BY <1>1, BytesFacts
  <1>3. << >> \in Seq(Octets)
    BY EmptySeq
  <1> QED  BY <1>1, <1>2, <1>3 DEF Key

LEMMA BodyFacts ==
    ASSUME NEW f \in Keyed
    PROVE  /\ Body(f) \in Seq(Octets) /\ Len(Body(f)) = Len(f.payload)
           /\ f.mask => xor_mask(Value(Body(f)), f.key) = f.payload
  <1> DEFINE d == IF f.mask THEN xor_mask(f.payload, f.key) ELSE f.payload
  <1>1. /\ f.mask \in BOOLEAN /\ f.key \in Seq(Bits) /\ f.payload \in Seq(Bits)
        /\ (f.mask => Len(f.key) = MaskLen)
    BY FrameFields
  <1>2. f.mask => /\ xor_mask(f.payload, f.key) \in Seq(Bits)
                  /\ Len(xor_mask(f.payload, f.key)) = Len(f.payload)
                  /\ xor_mask(xor_mask(f.payload, f.key), f.key) = f.payload
    BY <1>1, XorFacts
  <1>3. d \in Seq(Bits) /\ Len(d) = Len(f.payload) /\ (f.mask => xor_mask(d, f.key) = f.payload)
    BY <1>1, <1>2
  <1>4. Body(f) = Bytes(d)
    BY DEF Body
  <1> HIDE DEF d
  <1>5. Bytes(d) \in Seq(Octets) /\ Len(Bytes(d)) = Len(d) /\ Value(Bytes(d)) = d
    BY <1>3, BytesFacts
  <1> QED  BY <1>3, <1>4, <1>5

(* A frame on the wire, item by item.                                       *)
LEMMA WireParts ==
    ASSUME NEW f \in Keyed
    PROVE  /\ Wire(f) = First(f) \o (Length(f) \o (Key(f) \o Body(f)))
           /\ Header(f) \in Seq(Octets) /\ Wire(f) \in Seq(Octets)
           /\ Length(f) \in Seq(Octets) /\ Key(f) \o Body(f) \in Seq(Octets)
           /\ Length(f) \o (Key(f) \o Body(f)) \in Seq(Octets)
  <1>1. First(f) \in Seq(Octets) /\ Key(f) \in Seq(Octets) /\ Body(f) \in Seq(Octets)
    BY FirstFacts, KeyFacts, BodyFacts
  <1>2. Length(f) \in Seq(Octets)
    BY FrameFields, LengthFacts DEF Length
  <1>3. Header(f) = (First(f) \o Length(f)) \o Key(f)
    BY DEF Header, First, Length, Key
  <1>4. First(f) \o Length(f) \in Seq(Octets) /\ Key(f) \o Body(f) \in Seq(Octets)
    BY <1>1, <1>2, ConcatProperties
  <1>5. Header(f) \in Seq(Octets) /\ Length(f) \o (Key(f) \o Body(f)) \in Seq(Octets)
    BY <1>1, <1>2, <1>3, <1>4, ConcatProperties
  <1>6. Wire(f) \in Seq(Octets)
    BY <1>1, <1>5, ConcatProperties DEF Wire
  <1>7. Associates(First(f) \o Length(f), Key(f), Body(f))
    BY <1>1, <1>4, ConcatAssociates
  <1>8. Associates(First(f), Length(f), Key(f) \o Body(f))
    BY <1>1, <1>2, <1>4, ConcatAssociates
  <1>9. Wire(f) = First(f) \o (Length(f) \o (Key(f) \o Body(f)))
    <2>1. Wire(f) = ((First(f) \o Length(f)) \o Key(f)) \o Body(f)
      BY <1>3 DEF Wire
    <2>2. ((First(f) \o Length(f)) \o Key(f)) \o Body(f) = (First(f) \o Length(f)) \o (Key(f) \o Body(f))
      BY <1>7 DEF Associates
    <2>3. (First(f) \o Length(f)) \o (Key(f) \o Body(f)) = First(f) \o (Length(f) \o (Key(f) \o Body(f)))
      BY <1>8 DEF Associates
    <2> QED  BY <2>1, <2>2, <2>3
  <1> QED  BY <1>2, <1>4, <1>5, <1>6, <1>9

-----------------------------------------------------------------------------
(* What a list of frames calls for.                                        *)

LEMMA MaxIs ==
    ASSUME NEW T, T \subseteq Int, NEW b \in T, \A y \in T : b >= y
    PROVE  Max(T) = b
  <1>1. Max(T) \in T /\ \A y \in T : Max(T) >= y
    BY DEF Max
  <1>2. Max(T) \in Int /\ b \in Int
    BY <1>1
  <1>3. Max(T) >= b /\ b >= Max(T)
    BY <1>1
  <1> QED  BY <1>2, <1>3

LEMMA MinIs ==
    ASSUME NEW T, T \subseteq Int, NEW b \in T, \A y \in T : b <= y
    PROVE  Min(T) = b
  <1>1. Min(T) \in T /\ \A y \in T : Min(T) <= y
    BY DEF Min
  <1>2. Min(T) \in Int /\ b \in Int
    BY <1>1
  <1>3. Min(T) <= b /\ b <= Min(T)
    BY <1>1
  <1> QED  BY <1>2, <1>3

LEMMA FramesAt ==
    ASSUME NEW s \in Seq(Keyed)
    PROVE  /\ Len(s) \in Nat /\ DOMAIN s = 1 .. Len(s)
           /\ \A i \in 1 .. Len(s) : /\ s[i] \in Keyed /\ s[i].payload \in Seq(Bits)
                                     /\ s[i].fin \in BOOLEAN
  <1>1. \A i \in 1 .. Len(s) : s[i] \in Keyed
    BY ElementOfSeq
  <1> QED  BY <1>1, LenProperties, FrameFields

(* b is the last of the first n frames that ends a message, or 0.           *)
LastEnd(s, n, b) ==
    /\ b \in 0 .. n /\ (b # 0 => b \in DataFrames(s) /\ s[b].fin)
    /\ \A j \in b + 1 .. n : j \in DataFrames(s) => ~ s[j].fin

(* The data frames behind it.                                               *)
Open(s, b, n) == { j \in b + 1 .. n : j \in DataFrames(s) }

LEMMA PartsAre ==
    ASSUME NEW s \in Seq(Keyed), NEW n \in 0 .. Len(s), NEW b, LastEnd(s, n, b)
    PROVE  Parts(s, n + 1) = Open(s, b, n + 1)
  <1> DEFINE T == {0} \cup { j \in DataFrames(s) : j < n + 1 /\ s[j].fin }
  <1>1. Len(s) \in Nat /\ DataFrames(s) \subseteq 1 .. Len(s)
    BY FramesAt DEF DataFrames
  <1>2. T \subseteq Int
    BY <1>1
  <1>3. b \in 0 .. n /\ b \in T
    BY <1>1 DEF LastEnd
  <1>4. ASSUME NEW y \in T PROVE b >= y
    <2>1. CASE y = 0
      BY <1>1, <1>3, <2>1
    <2>2. CASE y # 0
      <3>1. y \in DataFrames(s) /\ y < n + 1 /\ s[y].fin /\ y \in 1 .. Len(s)
        BY <1>1, <2>2
      <3>2. ~ y \in b + 1 .. n
        BY <3>1 DEF LastEnd
      <3> QED  BY <1>1, <1>3, <3>1, <3>2
    <2> QED  BY <2>1, <2>2
  <1>5. Max(T) = b
    <2> HIDE DEF T
    <2> QED  BY <1>2, <1>3, <1>4, MaxIs
  <1>6. FirstPart(s, n + 1) = 1 + b
    BY <1>5 DEF FirstPart
  <1>7. 1 + b = b + 1
    BY <1>1, <1>3
  <1> QED  BY <1>6, <1>7 DEF Parts, Open

(* The payloads of the parts among the first n.                             *)
Payloads(s, P, n) == [k \in 1 .. n |-> IF k \in P THEN s[k].payload ELSE << >>]
Gather(s, P, n) == FlattenSeq(Payloads(s, P, n))

LEMMA PayloadsAre ==
    ASSUME NEW s \in Seq(Keyed), NEW P, NEW n \in 0 .. Len(s)
    PROVE  /\ Payloads(s, P, n) \in Seq(Seq(Bits)) /\ Len(Payloads(s, P, n)) = n
           /\ \A k \in 1 .. n : Payloads(s, P, n)[k] = IF k \in P THEN s[k].payload ELSE << >>
  <1>1. Len(s) \in Nat /\ \A k \in 1 .. Len(s) : s[k].payload \in Seq(Bits)
    BY FramesAt
  <1>2. << >> \in Seq(Bits)
    BY EmptySeq
  <1>3. \A k \in 1 .. n : k \in 1 .. Len(s)
    BY <1>1
  <1>4. Payloads(s, P, n) \in [1 .. n -> Seq(Bits)]
    BY <1>1, <1>2, <1>3 DEF Payloads
  <1>5. \A S : \A g \in [1 .. n -> S] : g \in Seq(S) /\ Len(g) = n
    BY <1>1, FunctionIsSeq
  <1> QED  BY <1>4, <1>5 DEF Payloads

LEMMA GatherNothing ==
    ASSUME NEW s \in Seq(Keyed), NEW P, NEW n \in 0 .. Len(s), \A k \in 1 .. n : k \notin P
    PROVE  Gather(s, P, n) = << >>
  <1> DEFINE q == Payloads(s, P, n)
  <1>1. q \in Seq(Seq(Bits)) /\ \A i \in 1 .. Len(q) : q[i] = << >>
    BY PayloadsAre
  <1> HIDE DEF q
  <1>2. FlattenSeq(q) = << >>
    BY <1>1, FlattenEmptyParts
  <1> QED  BY <1>2 DEF Gather, q

LEMMA GatherNext ==
    ASSUME NEW s \in Seq(Keyed), NEW P, NEW Q, NEW n \in 0 .. Len(s) - 1,
           \A k \in 1 .. n : k \in P <=> k \in Q
    PROVE  /\ Gather(s, P, n) \in Seq(Bits)
           /\ Gather(s, Q, n + 1) =
                Gather(s, P, n) \o (IF n + 1 \in Q THEN s[n + 1].payload ELSE << >>)
  <1> DEFINE q == Payloads(s, P, n)  r == Payloads(s, Q, n + 1)
             x == IF n + 1 \in Q THEN s[n + 1].payload ELSE << >>
  <1>1. Len(s) \in Nat /\ n \in 0 .. Len(s) /\ n + 1 \in 0 .. Len(s) /\ n + 1 \in 1 .. n + 1
    BY FramesAt
  <1>2. /\ q \in Seq(Seq(Bits)) /\ Len(q) = n
        /\ \A k \in 1 .. n : q[k] = IF k \in P THEN s[k].payload ELSE << >>
    BY <1>1, PayloadsAre
  <1>3. /\ r \in Seq(Seq(Bits)) /\ Len(r) = n + 1
        /\ \A k \in 1 .. n + 1 : r[k] = IF k \in Q THEN s[k].payload ELSE << >>
    BY <1>1, PayloadsAre
  <1>4. r[n + 1] = x
    BY <1>1, <1>3
  <1> HIDE DEF q, r
  <1>5. x \in Seq(Bits)
    <2>1. n + 1 \in 1 .. Len(s)
      BY <1>1
    <2>2. s[n + 1].payload \in Seq(Bits) /\ << >> \in Seq(Bits)
      BY <2>1, FramesAt, EmptySeq
    <2> QED  BY <2>2
  <1> HIDE DEF x
  <1>6. \A k \in 1 .. Len(q) : r[k] = q[k]
    <2>1. \A k \in 1 .. n : k \in 1 .. n + 1
      BY <1>1
    <2> QED  BY <1>2, <1>3, <2>1
  <1>7. FlattenSeq(r) = FlattenSeq(q) \o x /\ FlattenSeq(q) \in Seq(Bits)
    <2>1. Len(r) = Len(q) + 1 /\ r[Len(r)] = x
      BY <1>2, <1>3, <1>4
    <2> QED  BY <1>2, <1>3, <1>5, <1>6, <2>1, FlattenAppend
  <1> QED  BY <1>7 DEF Gather, q, r, x

LEMMA GatherType ==
    ASSUME NEW s \in Seq(Keyed), NEW P, NEW n \in 0 .. Len(s)
    PROVE  Gather(s, P, n) \in Seq(Bits)
  <1> DEFINE q == Payloads(s, P, n)
  <1>1. q \in Seq(Seq(Bits))
    BY PayloadsAre
  <1> HIDE DEF q
  <1>2. PICK f : Concats(f, q, Bits)
    BY <1>1, ConcatsExist
  <1>3. FlattenSeq(q) \in Seq(Bits)
    BY <1>1, <1>2, FlattenIsConcat
  <1> QED  BY <1>3 DEF Gather, q

LEMMA WholeIs ==
    ASSUME NEW s, NEW i
    PROVE  Whole(s, i) = Gather(s, Parts(s, i), i)
  BY DEF Whole, Gather, Payloads

(* Some frame among the first n was refused, or closed the connection.      *)
Dead(s, n) == \E j \in 1 .. n : Refused(s, j) \/ s[j].op = "close"

LEMMA HandledIs ==
    ASSUME NEW s, NEW n \in Nat
    PROVE  /\ Handled(s, n + 1) <=> ~ Dead(s, n)
           /\ \A k \in Nat : k > n /\ Dead(s, n) => ~ Handled(s, k)
  <1>1. n + 1 - 1 = n
    OBVIOUS
  <1>2. Handled(s, n + 1) <=> ~ Dead(s, n)
    BY <1>1 DEF Handled, Dead
  <1>3. ASSUME NEW k \in Nat, k > n, Dead(s, n) PROVE ~ Handled(s, k)
    <2>1. \A j \in 1 .. n : j \in 1 .. k - 1
      BY <1>3
    <2> QED  BY <1>3, <2>1 DEF Handled, Dead
  <1> QED  BY <1>2, <1>3

(* A reply is a frame that can be sent.                                     *)
LEMMA FrameType ==
    ASSUME NEW op \in Opcodes, NEW payload \in Seq(Bits)
    PROVE  Frame(op, payload) \in Keyed /\ Frame(op, payload) # None
  <1>1. << >> \in Seq(Bits)
    BY EmptySeq
  <1>2. Frame(op, payload) \in Frames /\ ~ Frame(op, payload).mask
    BY <1>1 DEF Frame, Frames, Bits
  <1> QED  BY <1>2, NoneAssumption DEF Keyed

LEMMA ReplyType ==
    ASSUME NEW s \in Seq(Keyed), NEW i \in 1 .. Len(s)
    PROVE  (Reply(s, i) = None \/ Reply(s, i) \in Keyed) /\ ReplyBytes(s, i) \in Seq(Octets)
  <1>1. s[i].payload \in Seq(Bits)
    BY FramesAt
  <1>2. Digits(DefaultCode, 2) \in Seq(Bits)
    BY DigitsAre DEF DefaultCode, Bits
  <1>3. Whole(s, i) \in Seq(Bits)
    <2>1. Len(s) \in Nat
      BY FramesAt
    <2>2. i \in 0 .. Len(s)
      BY <2>1
    <2> QED  BY <2>2, GatherType, WholeIs
  <1>4. "pong" \in Opcodes /\ "close" \in Opcodes /\ {"text", "binary"} \subseteq Opcodes
    BY DEF Opcodes, Control
  <1> DEFINE InKeyed(op, p) == Frame(op, p) \in Keyed
  <1>8. \A op \in Opcodes : \A p \in Seq(Bits) : InKeyed(op, p)
    BY FrameType
  <1>5. Reply(s, i) = None \/ Reply(s, i) \in Keyed
    <2> DEFINE type == s[Min(Parts(s, i))].op
    <2>1. InKeyed("pong", s[i].payload)
      <3> HIDE DEF InKeyed
      <3> QED  BY <1>1, <1>4, <1>8
    <2>2. InKeyed("close", IF Len(s[i].payload) < 2 THEN Digits(DefaultCode, 2) ELSE s[i].payload)
      <3>1. (IF Len(s[i].payload) < 2 THEN Digits(DefaultCode, 2) ELSE s[i].payload) \in Seq(Bits)
        BY <1>1, <1>2
      <3> HIDE DEF InKeyed
      <3> QED  BY <1>4, <1>8, <3>1
    <2>3. type \in {"text", "binary"} => InKeyed(type, Whole(s, i))
      <3> HIDE DEF type, InKeyed
      <3> QED  BY <1>3, <1>4, <1>8
    <2> QED  BY <2>1, <2>2, <2>3, Zenon DEF Reply
  <1>6. \A f \in Keyed : Wire(f) \in Seq(Octets)
    BY WireParts
  <1>7. << >> \in Seq(Octets)
    BY EmptySeq
  <1> QED  BY <1>5, <1>6, <1>7 DEF ReplyBytes

(* The list with another frame.                                            *)
Appended(s, f, t) == t = Append(s, f)

(* Another frame changes nothing of what the frames before it call for.     *)
LEMMA AppendKeeps ==
    ASSUME NEW s \in Seq(Keyed), NEW f \in Keyed, NEW t, Appended(s, f, t)
    PROVE  /\ t \in Seq(Keyed) /\ Len(t) = Len(s) + 1 /\ t[Len(t)] = f
           /\ \A i \in 1 .. Len(s) : t[i] = s[i]
           /\ \A i \in 1 .. Len(s) : (i \in DataFrames(t)) = (i \in DataFrames(s))
  <1>1. /\ t \in Seq(Keyed) /\ Len(t) = Len(s) + 1 /\ Len(s) \in Nat
        /\ \A i \in 1 .. Len(s) : t[i] = s[i]
        /\ t[Len(s) + 1] = f
    BY AppendProperties, LenProperties DEF Appended
  <1>2. DOMAIN t = 1 .. Len(t) /\ DOMAIN s = 1 .. Len(s)
    BY <1>1, FramesAt
  <1>3. \A i \in 1 .. Len(s) : i \in 1 .. Len(t)
    BY <1>1
  <1>4. \A i \in 1 .. Len(s) : i \in DataFrames(t) <=> i \in DataFrames(s)
    BY <1>1, <1>2, <1>3 DEF DataFrames
  <1> QED  BY <1>1, <1>4

LEMMA AppendParts ==
    ASSUME NEW s \in Seq(Keyed), NEW f \in Keyed, NEW t, Appended(s, f, t),
           NEW i \in 1 .. Len(s)
    PROVE  Parts(t, i) = Parts(s, i)
  <1> DEFINE D(q) == { j \in DataFrames(q) : j < i /\ q[j].fin }
  <1>1. /\ Len(s) \in Nat /\ Len(t) = Len(s) + 1
        /\ \A j \in 1 .. Len(s) : t[j] = s[j]
        /\ \A j \in 1 .. Len(s) : j \in DataFrames(t) <=> j \in DataFrames(s)
        /\ DataFrames(s) \subseteq 1 .. Len(s) /\ DataFrames(t) \subseteq 1 .. Len(t)
    BY AppendKeeps, FramesAt DEF DataFrames
  <1>2. D(t) = D(s)
    <2>1. \A j \in 1 .. Len(t) : j < i => j \in 1 .. Len(s)
      BY <1>1
    <2> QED  BY <1>1, <2>1
  <1>3. FirstPart(t, i) = FirstPart(s, i)
    BY <1>2 DEF FirstPart
  <1>4. FirstPart(s, i) .. i = FirstPart(t, i) .. i
    BY <1>3
  <1>5. ASSUME NEW j
        PROVE  j \in Parts(t, i) <=> j \in Parts(s, i)
    <2>1. j \in FirstPart(s, i) .. i => j <= i /\ j \in Int
      BY <1>1
    <2>2. j \in Int /\ j <= i => (j \in DataFrames(t) <=> j \in DataFrames(s))
      BY <1>1
    <2> QED  BY <1>4, <2>1, <2>2 DEF Parts
  <1> QED  BY <1>5

LEMMA AppendRefused ==
    ASSUME NEW s \in Seq(Keyed), NEW f \in Keyed, NEW t, Appended(s, f, t),
           NEW i \in 1 .. Len(s)
    PROVE  Refused(t, i) <=> Refused(s, i)
  <1>0. \A j \in 1 .. Len(s) : t[j] = s[j]
    BY AppendKeeps
  <1>a. \A j \in 1 .. Len(s) : j \in DataFrames(t) <=> j \in DataFrames(s)
    BY AppendKeeps
  <1>1. t[i] = s[i] /\ (i \in DataFrames(t) <=> i \in DataFrames(s))
    BY <1>0, <1>a
  <1>2. Parts(t, i) = Parts(s, i)
    BY AppendParts
  <1> QED  BY <1>1, <1>2 DEF Refused

LEMMA AppendDead ==
    ASSUME NEW s \in Seq(Keyed), NEW f \in Keyed, NEW t, Appended(s, f, t),
           NEW n \in 0 .. Len(s)
    PROVE  Dead(t, n) <=> Dead(s, n)
  <1>1. \A j \in 1 .. n : j \in 1 .. Len(s)
    BY FramesAt
  <1>2. \A j \in 1 .. Len(s) : Refused(t, j) <=> Refused(s, j)
    BY AppendRefused
  <1>3. \A j \in 1 .. Len(s) : t[j] = s[j]
    BY AppendKeeps
  <1> QED  BY <1>1, <1>2, <1>3 DEF Dead

LEMMA AppendGather ==
    ASSUME NEW s \in Seq(Keyed), NEW f \in Keyed, NEW t, Appended(s, f, t),
           NEW n \in 0 .. Len(s), NEW P
    PROVE  Gather(t, P, n) = Gather(s, P, n)
  <1>1. \A k \in 1 .. n : k \in 1 .. Len(s)
    BY FramesAt
  <1>2. \A k \in 1 .. n : t[k] = s[k]
    BY <1>1, AppendKeeps
  <1>3. Payloads(t, P, n) = Payloads(s, P, n)
    BY <1>2 DEF Payloads
  <1> QED  BY <1>3 DEF Gather

LEMMA AppendReply ==
    ASSUME NEW s \in Seq(Keyed), NEW f \in Keyed, NEW t, Appended(s, f, t),
           NEW i \in 1 .. Len(s)
    PROVE  Reply(t, i) = Reply(s, i) /\ ReplyBytes(t, i) = ReplyBytes(s, i)
  <1>0. \A j \in 1 .. Len(s) : t[j] = s[j]
    BY AppendKeeps
  <1>a. \A j \in 1 .. Len(s) : j \in DataFrames(t) <=> j \in DataFrames(s)
    BY AppendKeeps
  <1>1. /\ t[i] = s[i] /\ (i \in DataFrames(t) <=> i \in DataFrames(s))
        /\ Len(s) \in Nat
        /\ \A j \in 1 .. Len(s) : t[j] = s[j]
    BY <1>0, <1>a, FramesAt
  <1>2. Parts(t, i) = Parts(s, i) /\ (Refused(t, i) <=> Refused(s, i))
    BY AppendParts, AppendRefused
  <1>3. Handled(t, i) <=> Handled(s, i)
    <2>1. i - 1 \in 0 .. Len(s) /\ i - 1 \in Nat /\ (i - 1) + 1 = i
      BY <1>1
    <2>2. Dead(t, i - 1) <=> Dead(s, i - 1)
      BY <2>1, AppendDead
    <2>3. (Handled(t, (i - 1) + 1) <=> ~ Dead(t, i - 1)) /\ (Handled(s, (i - 1) + 1) <=> ~ Dead(s, i - 1))
      BY <2>1, HandledIs
    <2> QED  BY <2>1, <2>2, <2>3
  <1>4. Whole(t, i) = Whole(s, i)
    <2>1. i \in 0 .. Len(s)
      BY <1>1
    <2> DEFINE P == Parts(s, i)
    <2> HIDE DEF P
    <2>2. Gather(t, P, i) = Gather(s, P, i)
      BY <2>1, AppendGather
    <2> QED  BY <1>2, <2>2, WholeIs DEF P
  <1> DEFINE type(q) == q[Min(Parts(q, i))].op
  <1>5. Parts(s, i) \subseteq 1 .. Len(s)
    <2>1. DataFrames(s) \subseteq 1 .. Len(s)
      BY FramesAt DEF DataFrames
    <2> QED  BY <2>1 DEF Parts
  <1>6. i \in DataFrames(s) => type(t) = type(s)
    <2> SUFFICES ASSUME i \in DataFrames(s) PROVE type(t) = type(s)
      OBVIOUS
    <2>1. i \in Parts(s, i)
      <3> DEFINE T == {0} \cup { j \in DataFrames(s) : j < i /\ s[j].fin }
      <3>1. T \subseteq Nat /\ \A y \in T : y < i
        <4>1. DataFrames(s) \subseteq 1 .. Len(s) /\ i \in Nat /\ 0 < i
          BY FramesAt DEF DataFrames
        <4> QED  BY <4>1
      <3>2. \E m \in T : \A y \in T : m >= y
        <4>0. 0 \in T
          OBVIOUS
        <4> HIDE DEF T
        <4> DEFINE U == { k \in 0 .. i : \A y \in T : y <= k }
        <4>1. i \in U
          <5>1. i \in 0 .. i
            BY <1>1
          <5>2. \A y \in T : y <= i
            BY <1>1, <3>1
          <5> QED  BY <5>1, <5>2
        <4>2. U \subseteq Nat /\ U # {}
          <5>1. \A k \in 0 .. i : k \in Nat
            BY <1>1
          <5> QED  BY <4>1, <5>1
        <4>3. PICK k \in U : \A j \in U : k <= j
          <5> HIDE DEF U
          <5> QED  BY <4>2, FirstPosition
        <4>4. CASE k \in T
          BY <3>1, <4>3, <4>4
        <4>5. CASE k \notin T
          <5>1. k # 0
            BY <4>0, <4>5
          <5>2. \A y \in T : y <= k - 1
            BY <3>1, <4>3, <4>5
          <5>3. k - 1 \in U
            BY <4>3, <5>1, <5>2
          <5> QED  BY <4>3, <5>3
        <4> QED  BY <4>4, <4>5
      <3>3. Max(T) \in T
        <4>1. PICK m \in T : \A y \in T : m >= y
          BY <3>2
        <4>2. T \subseteq Int
          BY <3>1
        <4> HIDE DEF T
        <4>3. Max(T) = m
          BY <4>1, <4>2, MaxIs
        <4> QED  BY <4>3
      <3>4. FirstPart(s, i) = 1 + Max(T)
        BY DEF FirstPart
      <3> HIDE DEF T
      <3>5. FirstPart(s, i) \in Int /\ FirstPart(s, i) <= i
        <4>1. Max(T) \in Nat /\ Max(T) < i
          BY <3>1, <3>3
        <4> QED  BY <1>1, <3>4, <4>1
      <3> QED  BY <1>1, <3>5 DEF Parts
    <2>2. \E m \in Parts(s, i) : \A j \in Parts(s, i) : m <= j
      <3>1. Parts(s, i) \subseteq Nat /\ Parts(s, i) # {}
        BY <1>1, <1>5, <2>1
      <3> QED  BY <3>1, FirstPosition
    <2>3. Min(Parts(s, i)) \in Parts(s, i)
      <3>1. PICK m \in Parts(s, i) : \A j \in Parts(s, i) : m <= j
        BY <2>2
      <3>2. Parts(s, i) \subseteq Int
        BY <1>1, <1>5
      <3>3. Min(Parts(s, i)) = m
        BY <3>1, <3>2, MinIs
      <3> QED  BY <3>1, <3>3
    <2> QED  BY <1>1, <1>2, <1>5, <2>3
  <1>7. Reply(t, i) = Reply(s, i)
    <2>1. CASE i \in DataFrames(s)
      <3>1. type(t) = type(s)
        BY <1>6, <2>1
      <3> QED  BY <1>1, <1>2, <1>3, <1>4, <3>1 DEF Reply
    <2>2. CASE i \notin DataFrames(s)
      BY <1>1, <1>2, <1>3, <1>4, <2>2 DEF Reply
    <2> QED  BY <2>1, <2>2
  <1> QED  BY <1>7 DEF ReplyBytes

-----------------------------------------------------------------------------
(* What comes in and what is to go out, frame by frame.                     *)

Wires(s) == [i \in 1 .. Len(s) |-> Wire(s[i])]
Replies(s) == [i \in 1 .. Len(s) |-> ReplyBytes(s, i)]

LEMMA WiresGrow ==
    ASSUME NEW s \in Seq(Keyed), NEW f \in Keyed, NEW t, Appended(s, f, t)
    PROVE  /\ Wires(s) \in [1 .. Len(s) -> Seq(Octets)]
           /\ Wires(t) \in [1 .. Len(s) + 1 -> Seq(Octets)]
           /\ \A i \in 1 .. Len(s) : Wires(t)[i] = Wires(s)[i]
           /\ Wires(t)[Len(s) + 1] = Wire(f)
  <1>1. /\ t \in Seq(Keyed) /\ Len(t) = Len(s) + 1 /\ t[Len(t)] = f /\ Len(s) \in Nat
        /\ \A i \in 1 .. Len(s) : t[i] = s[i]
    BY AppendKeeps, FramesAt
  <1>2. \A r \in Seq(Keyed) : \A i \in 1 .. Len(r) : Wire(r[i]) \in Seq(Octets)
    BY FramesAt, WireParts
  <1>3. \A i \in 1 .. Len(s) : i \in 1 .. Len(s) + 1
    BY <1>1
  <1>4. Len(s) + 1 \in 1 .. Len(s) + 1
    BY <1>1
  <1> QED  BY <1>1, <1>2, <1>3, <1>4 DEF Wires

LEMMA RepliesGrow ==
    ASSUME NEW s \in Seq(Keyed), NEW f \in Keyed, NEW t, Appended(s, f, t)
    PROVE  /\ Replies(s) \in [1 .. Len(s) -> Seq(Octets)]
           /\ Replies(t) \in [1 .. Len(s) + 1 -> Seq(Octets)]
           /\ \A i \in 1 .. Len(s) : Replies(t)[i] = Replies(s)[i]
  <1>1. t \in Seq(Keyed) /\ Len(t) = Len(s) + 1 /\ Len(s) \in Nat
    BY AppendKeeps, FramesAt
  <1>2. \A r \in Seq(Keyed) : \A i \in 1 .. Len(r) : ReplyBytes(r, i) \in Seq(Octets)
    BY ReplyType
  <1>3. \A i \in 1 .. Len(s) : i \in 1 .. Len(s) + 1
    BY <1>1
  <1>4. \A i \in 1 .. Len(s) : ReplyBytes(t, i) = ReplyBytes(s, i)
    BY AppendReply
  <1> QED  BY <1>1, <1>2, <1>3, <1>4 DEF Replies

LEMMA AnswerIs ==
    ASSUME NEW s \in Seq(Keyed)
    PROVE  /\ Answer(s) = FlattenSeq(Replies(s)) /\ Replies(s) \in Seq(Seq(Octets))
           /\ Len(Replies(s)) = Len(s) /\ Answer(s) \in Seq(Octets)
  <1>1. DOMAIN s = 1 .. Len(s) /\ Len(s) \in Nat
    BY FramesAt
  <1>2. Answer(s) = FlattenSeq(Replies(s))
    BY <1>1 DEF Answer, Replies
  <1>3. Replies(s) \in [1 .. Len(s) -> Seq(Octets)]
    BY ReplyType DEF Replies
  <1>4. \A S : \A g \in [1 .. Len(s) -> S] : g \in Seq(S) /\ Len(g) = Len(s)
    BY <1>1, FunctionIsSeq
  <1>5. Replies(s) \in Seq(Seq(Octets)) /\ Len(Replies(s)) = Len(s)
    BY <1>3, <1>4
  <1>6. PICK g : Concats(g, Replies(s), Octets)
    BY <1>5, ConcatsExist
  <1>7. FlattenSeq(Replies(s)) \in Seq(Octets)
    BY <1>5, <1>6, FlattenIsConcat
  <1> QED  BY <1>2, <1>5, <1>7

LEMMA AnswerGrows ==
    ASSUME NEW s \in Seq(Keyed), NEW f \in Keyed, NEW t, Appended(s, f, t)
    PROVE  Answer(t) = Answer(s) \o Replies(t)[Len(s) + 1]
  <1> DEFINE x == Replies(t)[Len(s) + 1]
  <1>1. t \in Seq(Keyed) /\ Len(t) = Len(s) + 1 /\ Len(s) \in Nat
    BY AppendKeeps, FramesAt
  <1>2. /\ Answer(s) = FlattenSeq(Replies(s)) /\ Replies(s) \in Seq(Seq(Octets))
        /\ Len(Replies(s)) = Len(s)
    BY AnswerIs
  <1>3. /\ Answer(t) = FlattenSeq(Replies(t)) /\ Replies(t) \in Seq(Seq(Octets))
        /\ Len(Replies(t)) = Len(t)
    BY <1>1, AnswerIs
  <1>4. x \in Seq(Octets)
    <2>1. Len(s) + 1 \in 1 .. Len(s) + 1
      BY <1>1
    <2> QED  BY <2>1, RepliesGrow
  <1>5. \A i \in 1 .. Len(s) : Replies(t)[i] = Replies(s)[i]
    BY RepliesGrow
  <1>6. Len(Replies(t)) = Len(Replies(s)) + 1 /\ Replies(t)[Len(Replies(t))] = x
    BY <1>1, <1>2, <1>3
  <1> DEFINE q == Replies(s)  r == Replies(t)
  <1>7. /\ q \in Seq(Seq(Octets)) /\ r \in Seq(Seq(Octets)) /\ Len(r) = Len(q) + 1
        /\ r[Len(r)] = x /\ \A i \in 1 .. Len(q) : r[i] = q[i]
    BY <1>2, <1>3, <1>5, <1>6
  <1> HIDE DEF x, q, r
  <1>8. FlattenSeq(r) = FlattenSeq(q) \o x
    BY <1>4, <1>7, FlattenAppend
  <1> QED  BY <1>2, <1>3, <1>8 DEF x, q, r

LEMMA AnswerOfNothing == Answer(<< >>) = << >>
  <1>1. << >> \in Seq(Keyed) /\ Len(<< >>) = 0
    BY EmptySeq
  <1> DEFINE q == Replies(<< >>)
  <1>2. Answer(<< >>) = FlattenSeq(q) /\ q \in Seq(Seq(Octets)) /\ Len(q) = 0
    BY <1>1, AnswerIs
  <1> HIDE DEF q
  <1>3. \A i \in 1 .. Len(q) : q[i] = << >>
    BY <1>2
  <1>4. FlattenSeq(q) = << >>
    BY <1>2, <1>3, FlattenEmptyParts
  <1> QED  BY <1>2, <1>4

(* Nothing is due for what comes after a refused frame or a close.          *)
LEMMA DeadIsSilent ==
    ASSUME NEW s \in Seq(Keyed), NEW n \in 0 .. Len(s), Dead(s, n),
           NEW R, Behind(R, Replies(s), Len(s), Octets)
    PROVE  R[n] = << >>
  <1>1. Len(s) \in Nat /\ n \in Nat
    BY FramesAt
  <1>2. ASSUME NEW k \in n + 1 .. Len(s) PROVE Replies(s)[k] = << >>
    <2>1. k \in Nat /\ k > n /\ k \in 1 .. Len(s)
      BY <1>1
    <2>2. ~ Handled(s, k)
      BY <1>1, <2>1, HandledIs
    <2>3. ReplyBytes(s, k) = << >>
      BY <2>2 DEF Reply, ReplyBytes
    <2> QED  BY <2>1, <2>3 DEF Replies
  <1>3. EmptyAfter(Replies(s), n, Len(s))
    BY <1>2 DEF EmptyAfter
  <1> QED  BY <1>1, <1>3, NothingBehind

-----------------------------------------------------------------------------
(* The first of some parts has this type.                                   *)
FirstIs(s, P, type) == \E m \in P : type = s[m].op /\ \A j \in P : m <= j

(* The message that the first n frames leave open: whether one is, what has *)
(* come of it and its type.                                                 *)
Assembled(s, n, b, open, buf, type) ==
    /\ LastEnd(s, n, b) /\ open = (Open(s, b, n) # {})
    /\ buf \in Seq(Bits) /\ (open => buf = Gather(s, Open(s, b, n), n))
    /\ open => FirstIs(s, Open(s, b, n), type)

(* It so far, nothing if none is open.                                      *)
SoFar(open, buf) == IF open THEN buf ELSE << >>

LEMMA AssembledNothing ==
    ASSUME NEW type
    PROVE  Assembled(<< >>, 0, 0, FALSE, << >>, type)
  <1>1. Open(<< >>, 0, 0) = {}
    BY DEF Open
  <1>2. LastEnd(<< >>, 0, 0)
    BY DEF LastEnd
  <1>3. << >> \in Seq(Bits)
    BY EmptySeq
  <1> QED  BY <1>1, <1>2, <1>3 DEF Assembled

LEMMA SoFarIs ==
    ASSUME NEW s \in Seq(Keyed), NEW n \in 0 .. Len(s), NEW b, NEW open, NEW buf, NEW type,
           Assembled(s, n, b, open, buf, type)
    PROVE  /\ SoFar(open, buf) = Gather(s, Open(s, b, n), n)
           /\ SoFar(open, buf) \in Seq(Bits) /\ open \in BOOLEAN
  <1>0. open \in BOOLEAN
    BY DEF Assembled
  <1>1. CASE open
    BY <1>0, <1>1 DEF Assembled, SoFar
  <1>2. CASE ~ open
    <2> DEFINE P == Open(s, b, n)
    <2>1. P = {}
      BY <1>2 DEF Assembled
    <2> HIDE DEF P
    <2>2. \A k \in 1 .. n : k \notin P
      BY <2>1
    <2>3. Gather(s, P, n) = << >>
      BY <2>2, GatherNothing
    <2> QED  BY <1>0, <1>2, <2>3, EmptySeq DEF SoFar, P
  <1> QED  BY <1>0, <1>1, <1>2

(* One frame more: the open parts are the same, or it is the last of them.  *)
LEMMA OpenNext ==
    ASSUME NEW s \in Seq(Keyed), NEW n \in 0 .. Len(s) - 1, NEW b, LastEnd(s, n, b)
    PROVE  /\ b \in 0 .. n /\ Open(s, b, n) \subseteq 1 .. n
           /\ n + 1 \notin DataFrames(s) => Open(s, b, n + 1) = Open(s, b, n)
           /\ n + 1 \in DataFrames(s) => Open(s, b, n + 1) = Open(s, b, n) \cup {n + 1}
           /\ (n + 1 \in DataFrames(s) => ~ s[n + 1].fin) => LastEnd(s, n + 1, b)
  <1>1. Len(s) \in Nat /\ n \in Nat
    BY FramesAt
  <1>2. b \in 0 .. n
    BY DEF LastEnd
  <1>3. \A j : j \in b + 1 .. n + 1 <=> (j \in b + 1 .. n \/ j = n + 1)
    BY <1>1, <1>2
  <1>4. n + 1 \notin DataFrames(s) => Open(s, b, n + 1) = Open(s, b, n)
    BY <1>3 DEF Open
  <1>5. n + 1 \in DataFrames(s) => Open(s, b, n + 1) = Open(s, b, n) \cup {n + 1}
    BY <1>3 DEF Open
  <1>6. (n + 1 \in DataFrames(s) => ~ s[n + 1].fin) => LastEnd(s, n + 1, b)
    BY <1>1, <1>2, <1>3 DEF LastEnd
  <1>7. Open(s, b, n) \subseteq 1 .. n
    BY <1>1, <1>2 DEF Open
  <1> QED  BY <1>2, <1>4, <1>5, <1>6, <1>7

(* What is gathered of the open parts with one frame more.                  *)
LEMMA GatherOpen ==
    ASSUME NEW s \in Seq(Keyed), NEW n \in 0 .. Len(s) - 1, NEW b, LastEnd(s, n, b)
    PROVE  Gather(s, Open(s, b, n + 1), n + 1) =
             Gather(s, Open(s, b, n), n) \o
               (IF n + 1 \in DataFrames(s) THEN s[n + 1].payload ELSE << >>)
  <1> DEFINE P == Open(s, b, n)  Q == Open(s, b, n + 1)
  <1>1. Len(s) \in Nat /\ n \in Nat
    BY FramesAt
  <1>2. \A k \in 1 .. n : k \in P <=> k \in Q
    <2>1. \A k \in 1 .. n : k # n + 1
      BY <1>1
    <2> QED  BY <2>1, OpenNext
  <1>3. n + 1 \in Q <=> n + 1 \in DataFrames(s)
    <2>1. n + 1 \notin 1 .. n
      BY <1>1
    <2> QED  BY <2>1, OpenNext
  <1> HIDE DEF P, Q
  <1>4. Gather(s, Q, n + 1) =
          Gather(s, P, n) \o (IF n + 1 \in Q THEN s[n + 1].payload ELSE << >>)
    BY <1>2, GatherNext
  <1> QED  BY <1>3, <1>4 DEF P, Q

(* A control frame in between changes nothing.                              *)
LEMMA AssembledControl ==
    ASSUME NEW s \in Seq(Keyed), NEW n \in 0 .. Len(s) - 1, NEW b, NEW open, NEW buf, NEW type,
           Assembled(s, n, b, open, buf, type), n + 1 \notin DataFrames(s)
    PROVE  Assembled(s, n + 1, b, open, buf, type)
  <1>1. LastEnd(s, n, b)
    BY DEF Assembled
  <1>2. Open(s, b, n + 1) = Open(s, b, n) /\ LastEnd(s, n + 1, b)
    BY <1>1, OpenNext
  <1>3. n \in 0 .. Len(s)
    BY FramesAt
  <1>4. Gather(s, Open(s, b, n), n) \in Seq(Bits)
    BY <1>3, GatherType
  <1>5. Gather(s, Open(s, b, n + 1), n + 1) = Gather(s, Open(s, b, n), n) \o << >>
    BY <1>1, GatherOpen
  <1>6. Gather(s, Open(s, b, n + 1), n + 1) = Gather(s, Open(s, b, n), n)
    BY <1>4, <1>5, ConcatEmptySeq
  <1> QED  BY <1>2, <1>6 DEF Assembled

(* A fragment is put behind the others.                                     *)
LEMMA AssembledWhole ==
    ASSUME NEW s \in Seq(Keyed), NEW n \in 0 .. Len(s) - 1, NEW b, NEW open, NEW buf, NEW type,
           Assembled(s, n, b, open, buf, type), n + 1 \in DataFrames(s)
    PROVE  /\ SoFar(open, buf) \o s[n + 1].payload = Gather(s, Open(s, b, n + 1), n + 1)
           /\ SoFar(open, buf) \o s[n + 1].payload \in Seq(Bits)
  <1>1. LastEnd(s, n, b) /\ Len(s) \in Nat /\ n \in 0 .. Len(s) /\ n + 1 \in 1 .. Len(s)
    BY FramesAt DEF Assembled
  <1>2. SoFar(open, buf) = Gather(s, Open(s, b, n), n) /\ SoFar(open, buf) \in Seq(Bits)
    BY <1>1, SoFarIs
  <1>3. s[n + 1].payload \in Seq(Bits)
    BY <1>1, FramesAt
  <1>4. SoFar(open, buf) \o s[n + 1].payload \in Seq(Bits)
    BY <1>2, <1>3, ConcatProperties
  <1> QED  BY <1>1, <1>2, <1>4, GatherOpen

(* The first gives the type.                                                *)
LEMMA AssembledType ==
    ASSUME NEW s \in Seq(Keyed), NEW n \in 0 .. Len(s) - 1, NEW b, NEW open, NEW buf, NEW type,
           Assembled(s, n, b, open, buf, type), n + 1 \in DataFrames(s)
    PROVE  FirstIs(s, Open(s, b, n + 1), IF open THEN type ELSE s[n + 1].op)
  <1>0. LastEnd(s, n, b) /\ Len(s) \in Nat /\ n \in 0 .. Len(s)
    BY FramesAt DEF Assembled
  <1>1. Open(s, b, n) \subseteq 1 .. n /\ Open(s, b, n + 1) = Open(s, b, n) \cup {n + 1}
    BY <1>0, OpenNext
  <1>2. CASE open
    <2>1. PICK m \in Open(s, b, n) : type = s[m].op /\ \A j \in Open(s, b, n) : m <= j
      BY <1>2 DEF Assembled, FirstIs
    <2>2. m \in 1 .. n /\ m <= n + 1
      BY <1>0, <1>1
    <2>3. m \in Open(s, b, n + 1) /\ \A j \in Open(s, b, n + 1) : m <= j
      BY <1>1, <2>1, <2>2
    <2> QED  BY <1>2, <2>1, <2>3 DEF FirstIs
  <1>3. CASE ~ open
    <2>1. Open(s, b, n) = {}
      BY <1>3 DEF Assembled
    <2>2. n + 1 <= n + 1
      BY <1>0
    <2> QED  BY <1>1, <1>3, <2>1, <2>2 DEF FirstIs
  <1> QED  BY <1>2, <1>3

(* Whether it is the only part.                                             *)
LEMMA AssembledAlone ==
    ASSUME NEW s \in Seq(Keyed), NEW n \in 0 .. Len(s) - 1, NEW b, NEW open, NEW buf, NEW type,
           Assembled(s, n, b, open, buf, type), n + 1 \in DataFrames(s)
    PROVE  Open(s, b, n + 1) # {n + 1} <=> open
  <1>0. LastEnd(s, n, b) /\ Len(s) \in Nat /\ n \in 0 .. Len(s)
    BY FramesAt DEF Assembled
  <1>1. Open(s, b, n) \subseteq 1 .. n /\ Open(s, b, n + 1) = Open(s, b, n) \cup {n + 1}
    BY <1>0, OpenNext
  <1>2. n + 1 \notin Open(s, b, n)
    BY <1>0, <1>1
  <1>3. open = (Open(s, b, n) # {})
    BY DEF Assembled
  <1> QED  BY <1>1, <1>2, <1>3

LEMMA AssembledFragment ==
    ASSUME NEW s \in Seq(Keyed), NEW n \in 0 .. Len(s) - 1, NEW b, NEW open, NEW buf, NEW type,
           Assembled(s, n, b, open, buf, type), n + 1 \in DataFrames(s), ~ s[n + 1].fin
    PROVE  Assembled(s, n + 1, b, TRUE, SoFar(open, buf) \o s[n + 1].payload,
                     IF open THEN type ELSE s[n + 1].op)
  <1> DEFINE whole == SoFar(open, buf) \o s[n + 1].payload
             first == IF open THEN type ELSE s[n + 1].op
  <1>1. LastEnd(s, n, b) /\ n + 1 \in 1 .. Len(s)
    BY FramesAt DEF Assembled
  <1>2. LastEnd(s, n + 1, b) /\ Open(s, b, n + 1) # {}
    BY <1>1, OpenNext
  <1>3. whole = Gather(s, Open(s, b, n + 1), n + 1) /\ whole \in Seq(Bits)
    BY AssembledWhole
  <1>4. FirstIs(s, Open(s, b, n + 1), first)
    BY AssembledType
  <1> HIDE DEF whole, first
  <1>5. Assembled(s, n + 1, b, TRUE, whole, first)
    BY <1>2, <1>3, <1>4 DEF Assembled
  <1> QED  BY <1>5 DEF whole, first

(* The last part ends the message.                                          *)
LEMMA AssembledEnd ==
    ASSUME NEW s \in Seq(Keyed), NEW n \in 0 .. Len(s) - 1, NEW type,
           n + 1 \in DataFrames(s), s[n + 1].fin
    PROVE  Assembled(s, n + 1, n + 1, FALSE, << >>, type)
  <1>1. Len(s) \in Nat /\ n \in Nat
    BY FramesAt
  <1>2. \A j : j \notin n + 1 + 1 .. n + 1
    BY <1>1
  <1>3. Open(s, n + 1, n + 1) = {}
    BY <1>2 DEF Open
  <1>4. LastEnd(s, n + 1, n + 1)
    BY <1>1, <1>2 DEF LastEnd
  <1> QED  BY <1>3, <1>4, EmptySeq DEF Assembled

LEMMA AssembledAppend ==
    ASSUME NEW s \in Seq(Keyed), NEW f \in Keyed, NEW t, Appended(s, f, t),
           NEW n \in 0 .. Len(s), NEW b, NEW open, NEW buf, NEW type,
           Assembled(s, n, b, open, buf, type)
    PROVE  Assembled(t, n, b, open, buf, type)
  <1>1. Len(s) \in Nat /\ n \in Nat /\ b \in 0 .. n
    BY FramesAt DEF Assembled, LastEnd
  <1>2. \A j \in b + 1 .. n : j \in 1 .. Len(s)
    BY <1>1
  <1>a. b # 0 => b \in 1 .. Len(s)
    BY <1>1
  <1>3. \A j \in 1 .. Len(s) : t[j] = s[j]
    BY AppendKeeps
  <1>4. \A j \in 1 .. Len(s) : (j \in DataFrames(t)) = (j \in DataFrames(s))
    BY AppendKeeps
  <1>5. Open(t, b, n) = Open(s, b, n)
    BY <1>2, <1>4 DEF Open
  <1>6. LastEnd(t, n, b)
    BY <1>2, <1>a, <1>3, <1>4 DEF LastEnd, Assembled
  <1>7. Gather(t, Open(s, b, n), n) = Gather(s, Open(s, b, n), n)
    BY AppendGather
  <1>8. \A m \in Open(s, b, n) : t[m] = s[m]
    BY <1>2, <1>3 DEF Open
  <1>9. ASSUME FirstIs(s, Open(s, b, n), type) PROVE FirstIs(t, Open(s, b, n), type)
    BY <1>8, <1>9 DEF FirstIs
  <1> QED  BY <1>5, <1>6, <1>7, <1>9 DEF Assembled

-----------------------------------------------------------------------------
(* What the next frame calls for, if all before it were handled.            *)

(* It is not refused for itself.                                            *)
Readable(f) == ~ f.rsv /\ f.mask /\ Len(f.payload) <= MaxFrameSize

LEMMA ReplyToControl ==
    ASSUME NEW s \in Seq(Keyed), NEW n \in 0 .. Len(s) - 1, ~ Dead(s, n),
           NEW f, f = s[n + 1], Readable(f), f.op \in Control
    PROVE  /\ n + 1 \notin DataFrames(s) /\ ~ Refused(s, n + 1)
           /\ f.op = "ping" => Reply(s, n + 1) = Frame("pong", f.payload)
           /\ f.op = "pong" => Reply(s, n + 1) = None
           /\ f.op = "close" => Reply(s, n + 1) =
                Frame("close", IF Len(f.payload) < 2 THEN Digits(DefaultCode, 2) ELSE f.payload)
  <1>1. n \in Nat /\ Len(s) \in Nat
    BY FramesAt
  <1>2. n + 1 \notin DataFrames(s)
    BY DEF DataFrames
  <1>3. ~ Refused(s, n + 1)
    <2>1. Len(f.payload) \in Nat /\ MaxFrameSize \in Nat
      <3>1. n + 1 \in 1 .. Len(s)
        BY <1>1
      <3> QED  BY <3>1, FramesAt, FrameFields, FrameAssumption
    <2> QED  BY <1>2, <2>1 DEF Refused, Readable
  <1>4. Handled(s, n + 1)
    BY <1>1, HandledIs
  <1> QED  BY <1>2, <1>3, <1>4 DEF Reply

LEMMA ReplyToData ==
    ASSUME NEW s \in Seq(Keyed), NEW n \in 0 .. Len(s) - 1, ~ Dead(s, n),
           NEW b, NEW open, NEW buf, NEW type, Assembled(s, n, b, open, buf, type),
           NEW f, f = s[n + 1], Readable(f), f.op \notin Control
    PROVE  /\ n + 1 \in DataFrames(s)
           /\ Refused(s, n + 1) <=> (f.op = "continuation") # open
           /\ Refused(s, n + 1) \/ ~ f.fin => Reply(s, n + 1) = None
           /\ ~ Refused(s, n + 1) /\ f.fin => Reply(s, n + 1) =
                LET op == IF open THEN type ELSE f.op
                IN  IF op \in {"text", "binary"}
                    THEN Frame(op, SoFar(open, buf) \o f.payload) ELSE None
  <1>1. n \in Nat /\ Len(s) \in Nat /\ n + 1 \in 1 .. Len(s) /\ n \in 0 .. Len(s)
    BY FramesAt
  <1>2. n + 1 \in DataFrames(s)
    BY <1>1, FramesAt DEF DataFrames
  <1>3. Parts(s, n + 1) = Open(s, b, n + 1)
    BY <1>1, PartsAre DEF Assembled
  <1>4. SoFar(open, buf) \o s[n + 1].payload = Gather(s, Open(s, b, n + 1), n + 1)
    BY <1>2, AssembledWhole
  <1>a. Open(s, b, n + 1) # {n + 1} <=> open
    BY <1>2, AssembledAlone
  <1>b. FirstIs(s, Open(s, b, n + 1), IF open THEN type ELSE s[n + 1].op)
    BY <1>2, AssembledType
  <1>5. PICK m \in Open(s, b, n + 1) : /\ (IF open THEN type ELSE s[n + 1].op) = s[m].op
                                       /\ \A j \in Open(s, b, n + 1) : m <= j
    BY <1>b DEF FirstIs
  <1>6. Min(Parts(s, n + 1)) = m
    <2>1. Open(s, b, n + 1) \subseteq Int
      <3>1. b \in 0 .. n
        BY DEF Assembled, LastEnd
      <3> QED  BY <1>1, <3>1 DEF Open
    <2> DEFINE T == Open(s, b, n + 1)
    <2>2. T \subseteq Int /\ m \in T /\ \A j \in T : m <= j
      BY <1>5, <2>1
    <2> HIDE DEF T
    <2>3. Min(T) = m
      BY <2>2, MinIs
    <2> QED  BY <1>3, <2>3 DEF T
  <1>7. Refused(s, n + 1) <=> (f.op = "continuation") # open
    <2>1. Len(f.payload) \in Nat /\ MaxFrameSize \in Nat
      BY <1>1, FramesAt, FrameFields, FrameAssumption
    <2>2. open \in BOOLEAN
      BY DEF Assembled
    <2> QED  BY <1>2, <1>3, <1>a, <2>1, <2>2 DEF Refused, Readable
  <1>8. Handled(s, n + 1)
    BY <1>1, HandledIs
  <1>9. Whole(s, n + 1) = SoFar(open, buf) \o f.payload
    BY <1>3, <1>4, WholeIs
  <1>10. f.op # "ping" /\ f.op # "close"
    BY DEF Control
  <1>11. Refused(s, n + 1) \/ ~ f.fin => Reply(s, n + 1) = None
    BY <1>8, <1>10 DEF Reply
  <1>12. s[Min(Parts(s, n + 1))].op = IF open THEN type ELSE f.op
    BY <1>5, <1>6
  <1>13. ~ Refused(s, n + 1) /\ f.fin => Reply(s, n + 1) =
                IF s[Min(Parts(s, n + 1))].op \in {"text", "binary"}
                THEN Frame(s[Min(Parts(s, n + 1))].op, Whole(s, n + 1)) ELSE None
    BY <1>2, <1>8, <1>10 DEF Reply
  <1> QED  BY <1>2, <1>7, <1>9, <1>11, <1>12, <1>13

(* The first n + 1 frames are handled if the first n are and this one is.   *)
LEMMA DeadNext ==
    ASSUME NEW s \in Seq(Keyed), NEW n \in 0 .. Len(s) - 1
    PROVE  Dead(s, n + 1) <=> Dead(s, n) \/ Refused(s, n + 1) \/ s[n + 1].op = "close"
  <1>1. n \in Nat
    BY FramesAt
  <1>2. \A j : j \in 1 .. n + 1 <=> (j \in 1 .. n \/ j = n + 1)
    BY <1>1
  <1> QED  BY <1>2 DEF Dead

(* The code of a close and the reason are sent back as they came.           *)
LEMMA CloseEchoes ==
    ASSUME NEW p \in Seq(Bits),
           NEW code, code = IF Len(p) >= 2 THEN Number(SubSeq(p, 1, 2)) ELSE DefaultCode
    PROVE  Digits(code, 2) \o SubSeq(p, 3, Len(p)) =
             IF Len(p) < 2 THEN Digits(DefaultCode, 2) ELSE p
  <1> DEFINE Echoed == Digits(code, 2) \o SubSeq(p, 3, Len(p)) =
                         IF Len(p) < 2 THEN Digits(DefaultCode, 2) ELSE p
  <1>1. Len(p) \in Nat
    BY LenProperties
  <1>2. ASSUME Len(p) >= 2 PROVE Echoed
    <2> DEFINE h == SubSeq(p, 1, 2)
    <2>1. h \in Seq(Bits) /\ Len(h) = 2
      BY <1>1, <1>2, SubSeqProperties
    <2> HIDE DEF h
    <2>2. Digits(Number(h), 2) = h
      BY <2>1, DigitsOfNumber DEF Bits
    <2> DEFINE k == 2  m == Len(p)
    <2>3. 1 \in 1 .. Len(p) + 1 /\ k \in 1 - 1 .. Len(p) /\ m \in k .. Len(p) /\ k + 1 = 3
      BY <1>1, <1>2
    <2> HIDE DEF k, m
    <2>4. SubSeq(p, 1, k) \o SubSeq(p, k + 1, m) = SubSeq(p, 1, m)
      BY <2>3, ConcatAdjacentSubSeq
    <2>5. SubSeq(p, 1, Len(p)) = p
      BY SubSeqFull
    <2>6. h \o SubSeq(p, 3, Len(p)) = p
      BY <2>3, <2>4, <2>5 DEF h, k, m
    <2>7. code = Number(h) /\ ~ Len(p) < 2
      BY <1>1, <1>2 DEF h
    <2> QED  BY <2>2, <2>6, <2>7
  <1>3. ASSUME Len(p) < 2 PROVE Echoed
    <2>1. SubSeq(p, 3, Len(p)) = << >>
      BY <1>1, <1>3, SubSeqEmpty
    <2>2. Digits(DefaultCode, 2) \in Seq(Bits)
      BY DigitsAre DEF DefaultCode, Bits
    <2>3. Digits(DefaultCode, 2) \o << >> = Digits(DefaultCode, 2)
      BY <2>2, ConcatEmptySeq
    <2>4. code = DefaultCode
      BY <1>1, <1>3
    <2> QED  BY <1>3, <2>1, <2>3, <2>4
  <1>4. Len(p) >= 2 \/ Len(p) < 2
    BY <1>1
  <1> HIDE DEF Echoed
  <1>5. Echoed
    BY <1>2, <1>3, <1>4
  <1> QED  BY <1>5 DEF Echoed

-----------------------------------------------------------------------------
(* The bytes that are still to be read.                                     *)

Lengths == {"length16", "length64"}
Reads == {"head", "mask", "payload"} \cup Lengths

(* What follows of a frame when this item is next.                          *)
Left(stage, f) ==
    IF stage \in Lengths THEN Length(f) \o (Key(f) \o Body(f))
    ELSE IF stage = "mask" THEN Key(f) \o Body(f) ELSE Body(f)

Rest(stage, s, n, T) == IF stage = "head" THEN T[n] ELSE Left(stage, s[n + 1]) \o T[n + 1]

(* What read_frame knows of a frame.                                        *)
Parsed(f, len, key) == [fin |-> f.fin, op |-> f.op, mask |-> f.mask, len |-> len, key |-> key]

FrameAt(stage, f, known) ==
    /\ stage \in Lengths =>
         /\ ~ f.rsv /\ Len(f.payload) > SmallMax
         /\ (stage = "length16") = (Len(f.payload) < Base * Base)
         /\ known = Parsed(f, LengthCode(Len(f.payload)), << >>)
    /\ stage = "mask" => Readable(f) /\ known = Parsed(f, Len(f.payload), << >>)
    /\ stage = "payload" => Readable(f) /\ known = Parsed(f, Len(f.payload), f.key)

(* The item that comes next.                                                *)
NextItem(stage, f) ==
    IF stage \in Lengths THEN Length(f) ELSE IF stage = "mask" THEN Key(f) ELSE Body(f)
ItemLength(stage, known) ==
    IF stage \in {"head", "length16"} THEN 2 ELSE IF stage = "length64" THEN WideLen
    ELSE IF stage = "mask" THEN MaskLen ELSE known.len

LEMMA NextFacts ==
    ASSUME NEW f \in Keyed, NEW stage \in Reads \ {"head"}, NEW known, FrameAt(stage, f, known)
    PROVE  /\ NextItem(stage, f) \in Seq(Octets)
           /\ Len(NextItem(stage, f)) = ItemLength(stage, known)
           /\ ItemLength(stage, known) \in Nat
  <1>1. Len(f.payload) \in Nat /\ f.mask \in BOOLEAN
    BY FrameFields
  <1>2. SmallMax \in Nat /\ WideLen \in Nat /\ MaskLen \in Nat
    BY FrameAssumption
  <1>3. CASE stage \in Lengths
    <2>1. Len(f.payload) > SmallMax /\ (stage = "length16") = (Len(f.payload) < Base * Base)
      BY <1>3 DEF FrameAt
    <2>2. NextItem(stage, f) = LengthBytes(Len(f.payload))
      BY <1>3 DEF NextItem, Length
    <2>3. LengthBytes(Len(f.payload)) \in Seq(Octets)
      BY <1>1, LengthFacts
    <2>4. CASE stage = "length16"
      <3>1. Len(LengthBytes(Len(f.payload))) = 2
        BY <1>1, <2>1, <2>4, LengthFacts
      <3> QED  BY <2>2, <2>3, <2>4, <3>1 DEF ItemLength
    <2>5. CASE stage = "length64"
      <3>1. Len(LengthBytes(Len(f.payload))) = WideLen
        BY <1>1, <2>1, <2>5, LengthFacts
      <3> QED  BY <1>2, <2>2, <2>3, <2>5, <3>1 DEF ItemLength
    <2> QED  BY <1>3, <2>4, <2>5 DEF Lengths
  <1>4. CASE stage = "mask"
    <2>1. f.mask
      BY <1>4 DEF FrameAt, Readable
    <2> QED  BY <1>2, <1>4, <2>1, KeyFacts DEF NextItem, ItemLength, Lengths
  <1>5. CASE stage = "payload"
    <2>1. known.len = Len(f.payload)
      BY <1>5 DEF FrameAt, Parsed
    <2> QED  BY <1>1, <1>5, <2>1, BodyFacts DEF NextItem, ItemLength, Lengths
  <1> QED  BY <1>3, <1>4, <1>5 DEF Reads

(* What is left is the next item and what comes after it.                   *)
LEMMA LeftIs ==
    ASSUME NEW f \in Keyed
    PROVE  /\ \A stage \in Lengths : Left(stage, f) = NextItem(stage, f) \o Left("mask", f)
           /\ Left("mask", f) = NextItem("mask", f) \o Left("payload", f)
           /\ Left("payload", f) = NextItem("payload", f)
           /\ \A stage \in Reads : Left(stage, f) \in Seq(Octets)
  <1>1. Key(f) \o Body(f) \in Seq(Octets) /\ Length(f) \o (Key(f) \o Body(f)) \in Seq(Octets)
    BY WireParts
  <1>2. Body(f) \in Seq(Octets)
    BY BodyFacts
  <1> QED  BY <1>1, <1>2 DEF Left, NextItem, Lengths

SameStream(g, i, l, x, y, z) == (g \o i) \o l = (x \o y) \o z
SameRest(i, l, y, z) == i \o l = y \o z

(* Of x \o y \o z the first item is received.                               *)
LEMMA Taken ==
    ASSUME NEW S, NEW g \in Seq(S), NEW i \in Seq(S), NEW l \in Seq(S),
           NEW x \in Seq(S), NEW y \in Seq(S), NEW z \in Seq(S),
           SameStream(g, i, l, x, y, z), Len(g) = Len(x)
    PROVE  g = x /\ SameRest(i, l, y, z)
  <1>1. i \o l \in Seq(S) /\ y \o z \in Seq(S)
    BY ConcatProperties
  <1>2. Associates(g, i, l) /\ Associates(x, y, z)
    BY ConcatAssociates
  <1>3. g \o (i \o l) = x \o (y \o z)
    BY <1>2 DEF Associates, SameStream
  <1> QED  BY <1>1, <1>3, SplitEqual DEF SameRest

(* What the received item and the rest make up has at least its length.     *)
LEMMA Enough ==
    ASSUME NEW S, NEW g \in Seq(S), NEW x \in Seq(S), NEW y \in Seq(S), NEW z \in Seq(S),
           (g \o << >>) \o << >> = (x \o y) \o z
    PROVE  Len(g) >= Len(x)
  <1>1. x \o y \in Seq(S) /\ Len(x \o y) = Len(x) + Len(y)
    BY ConcatProperties
  <1>2. Len((x \o y) \o z) = Len(x \o y) + Len(z)
    BY <1>1, ConcatProperties
  <1>3. (g \o << >>) \o << >> = g
    BY ConcatEmptySeq
  <1>4. Len(x) \in Nat /\ Len(y) \in Nat /\ Len(z) \in Nat
    BY LenProperties
  <1> QED  BY <1>1, <1>2, <1>3, <1>4

(* A piece moves from what comes in to what was received.                   *)
Piece(g, i, k, g1, i1) == g1 = g \o SubSeq(i, 1, k) /\ i1 = SubSeq(i, k + 1, Len(i))

LEMMA PieceMoves ==
    ASSUME NEW S, NEW g \in Seq(S), NEW i \in Seq(S), NEW k \in 1 .. Len(i),
           NEW g1, NEW i1, Piece(g, i, k, g1, i1)
    PROVE  g1 \in Seq(S) /\ i1 \in Seq(S) /\ SameRest(g1, i1, g, i) /\ Len(g1) = Len(g) + k
  <1> DEFINE h == SubSeq(i, 1, k)  t == SubSeq(i, k + 1, Len(i))  m == Len(i)
  <1>1. m \in Nat /\ \A j \in 1 .. m : i[j] \in S
    BY ElementOfSeq, LenProperties
  <1>2. 1 \in Int /\ k \in Int /\ k + 1 \in Int /\ m \in Int /\ 1 <= k
        /\ 1 \in 1 .. m + 1 /\ k \in 1 - 1 .. m /\ m \in k .. m
    BY <1>1
  <1>3. \A j \in 1 .. k : i[j] \in S
    BY <1>1
  <1>4. \A j \in k + 1 .. m : i[j] \in S
    BY <1>1
  <1>5. h \in Seq(S) /\ Len(h) = k - 1 + 1
    BY <1>2, <1>3, SubSeqProperties
  <1>6. t \in Seq(S)
    BY <1>2, <1>4, SubSeqProperties
  <1>7. h \o t = i
    <2>1. SubSeq(i, 1, m) = i
      BY SubSeqFull
    <2> HIDE DEF m
    <2>2. SubSeq(i, 1, k) \o SubSeq(i, k + 1, m) = SubSeq(i, 1, m)
      BY <1>2, ConcatAdjacentSubSeq DEF m
    <2> QED  BY <2>1, <2>2 DEF m
  <1> HIDE DEF h, t
  <1>8. Associates(g, h, t)
    BY <1>5, <1>6, ConcatAssociates
  <1>9. g \o h \in Seq(S) /\ Len(g \o h) = Len(g) + k
    <2>1. Len(h) = k
      BY <1>2, <1>5
    <2>2. g \o h \in Seq(S) /\ Len(g \o h) = Len(g) + Len(h)
      BY <1>5, ConcatProperties
    <2> QED  BY <2>1, <2>2
  <1>10. (g \o h) \o t = g \o i
    BY <1>7, <1>8 DEF Associates
  <1>11. g1 = g \o h /\ i1 = t
    BY DEF Piece, h, t
  <1> QED  BY <1>6, <1>9, <1>10, <1>11 DEF SameRest

-----------------------------------------------------------------------------
(* The inductive invariant.                                                *)

Sending == {"send_header", "send_payload"}

(* Where the reader is, or will be when the frame is sent.                  *)
Stage == IF place \in Sending THEN after ELSE place

(* What is still to be sent of the frame being sent.                        *)
Due ==
    IF place = "send_header" THEN Wire(msg) ELSE IF place = "send_payload" THEN Body(msg) ELSE << >>

(* A request that is to be granted.                                         *)
Fits(r, o) ==
    LET Origins == { x[1] : x \in o.allowed_origins }
    IN  /\ ~ r.malformed /\ r.get /\ Wanted \subseteq r.headers
        /\ o.check_origin /\ Origins # {} => r.origin # None /\ r.origin[1] \in Origins

(* Before the protocols are switched.                                       *)
Asking ==
    /\ result = [ok |-> FALSE, status_code |-> result.status_code, protocol |-> None]
    /\ result.status_code \in {None, 0, 400, 403, 405, 431, 500}
    /\ result.status_code \in {400, 403, 405} => ~ Fits(req, opts)
    /\ place \in {"recv_request", "verdict", "return", "closed"}
    /\ sent = << >> /\ out = << >> /\ msg = None /\ got = << >> /\ buffer = << >>
    /\ started = FALSE
    /\ place = "recv_request" => in \in Seq([http : Nat]) /\ Len(in) <= req.parts - total
    /\ place = "verdict" =>
         in = << >> /\ total = req.parts /\ total <= opts.max_request_size /\ ~ req.malformed

Switched ==
    /\ result = [ok |-> TRUE, status_code |-> 101,
                 protocol |-> pick_subprotocol(req.protocols, opts.subprotocols)]
    /\ Fits(req, opts) /\ total = req.parts /\ total <= opts.max_request_size

(* n frames were read to their end; T follows them in the stream, R is due  *)
(* for what follows them.                                                   *)
Lists(n, T, R) ==
    /\ n \in 0 .. Len(sent)
    /\ Behind(T, Wires(sent), Len(sent), Octets)
    /\ Behind(R, Replies(sent), Len(sent), Octets)

(* lost is what a broken connection did not deliver.                        *)
Streams(lost) ==
    /\ got \in Seq(Octets) /\ in \in Seq(Octets) /\ lost \in Seq(Octets)
    /\ client # "reset" => lost = << >>
    /\ place \in Reads => Len(got) <= ItemLength(place, fr)

Sends ==
    /\ place \in Reads \cup Sending \cup {"close", "closed"}
    /\ place \in Sending => got = << >> /\ after \in {"head", "close"} /\ msg \in Keyed
    /\ place \notin Sending => msg = None

(* The reader is in the middle of the stream, and has put the open message  *)
(* together; the last that ended did with frame b.                          *)
Reader(n, b, T, lost) ==
    Stage \in Reads =>
      /\ (got \o in) \o lost = Rest(Stage, sent, n, T)
      /\ Stage # "head" => n < Len(sent) /\ FrameAt(Stage, sent[n + 1], fr)
      /\ ~ Dead(sent, n) /\ Assembled(sent, n, b, started, buffer, current_opcode)

(* Or it has ended for a reason.                                            *)
Ended(n) ==
    Stage \notin Reads =>
      Dead(sent, n) \/ (client = "shut" /\ n = Len(sent)) \/ client = "reset"

Owed(n, R) == client # "reset" => Answer(sent) = out \o (Due \o R[n])

Serving(n, b, T, R, lost) ==
    /\ Switched /\ Lists(n, T, R) /\ Streams(lost) /\ Sends
    /\ Reader(n, b, T, lost) /\ Ended(n) /\ Owed(n, R)
    /\ started \in BOOLEAN /\ buffer \in Seq(Bits)

Types ==
    /\ req \in Requests /\ opts \in Options /\ client \in {"open", "shut", "reset"}
    /\ sent \in Seq(ClientFrames) /\ Len(sent) <= MaxFrames /\ out \in Seq(Octets)
    /\ total \in 0 .. req.parts

EchoInductive ==
    /\ Types /\ EchoInOrder
    /\ Asking \/ \E n, b, T, R, lost : Serving(n, b, T, R, lost)

-----------------------------------------------------------------------------
(* The steps of the connection once the protocols are switched.             *)

LEMMA SentFacts ==
    ASSUME Types
    PROVE  /\ sent \in Seq(Keyed) /\ Len(sent) \in Nat /\ out \in Seq(Octets)
           /\ \A i \in 1 .. Len(sent) :
                sent[i] \in Keyed /\ ShiftRight(Len(sent[i].payload), WideLen) = 0
  <1>1. sent \in Seq(ClientFrames) /\ out \in Seq(Octets)
    BY DEF Types
  <1>2. \A i \in 1 .. Len(sent) : sent[i] \in ClientFrames
    BY <1>1, ElementOfSeq
  <1>3. Len(sent) \in Nat /\ sent \in Seq(Keyed)
    BY <1>1, ClientFramesKeyed, LenProperties
  <1> QED  BY <1>1, <1>2, <1>3, ClientFramesKeyed, FrameAssumption

(* What is behind the first n frames begins with the next one.              *)
LEMMA ListsNext ==
    ASSUME Types, NEW n, NEW T, NEW R, Lists(n, T, R), n < Len(sent)
    PROVE  /\ n \in 0 .. Len(sent) - 1 /\ n + 1 \in 0 .. Len(sent) /\ n + 1 \in 1 .. Len(sent)
           /\ T[n] = Wire(sent[n + 1]) \o T[n + 1] /\ T[n + 1] \in Seq(Octets)
           /\ R[n] = ReplyBytes(sent, n + 1) \o R[n + 1] /\ R[n + 1] \in Seq(Octets)
  <1>1. Len(sent) \in Nat /\ n \in 0 .. Len(sent)
    BY SentFacts DEF Lists
  <1>2. n + 1 \in 1 .. Len(sent) /\ (n + 1) - 1 = n
    BY <1>1
  <1> DEFINE k == n + 1
  <1>3. k \in 1 .. Len(sent) /\ k - 1 = n
    BY <1>2
  <1> HIDE DEF k
  <1>4. Behind(T, Wires(sent), Len(sent), Octets) /\ Behind(R, Replies(sent), Len(sent), Octets)
    BY DEF Lists
  <1>a. k \in 0 .. Len(sent)
    BY <1>1, <1>3
  <1>5. T[k - 1] = Wires(sent)[k] \o T[k] /\ T[k] \in Seq(Octets)
    BY <1>a, <1>3, <1>4, Zenon DEF Behind
  <1>6. R[k - 1] = Replies(sent)[k] \o R[k] /\ R[k] \in Seq(Octets)
    BY <1>a, <1>3, <1>4, Zenon DEF Behind
  <1>7. Wires(sent)[k] = Wire(sent[k]) /\ Replies(sent)[k] = ReplyBytes(sent, k)
    BY <1>3 DEF Wires, Replies
  <1>8. n \in 0 .. Len(sent) - 1 /\ n + 1 \in 0 .. Len(sent)
    BY <1>1
  <1>9. /\ T[n] = Wire(sent[k]) \o T[k] /\ T[k] \in Seq(Octets)
        /\ R[n] = ReplyBytes(sent, k) \o R[k] /\ R[k] \in Seq(Octets)
    BY <1>3, <1>5, <1>6, <1>7
  <1> QED  BY <1>2, <1>8, <1>9 DEF k

(* The lists are what they were.                                            *)
LEMMA ListsKept ==
    ASSUME UNCHANGED sent, NEW n, NEW T, NEW R, Lists(n, T, R), NEW m \in 0 .. Len(sent)
    PROVE  Lists(m, T, R)'
  BY DEF Lists

(* read_frame goes on with this frame.                                      *)
LEMMA ReadGoesOn ==
    ASSUME Types, NEW n, NEW b, NEW T, NEW R, NEW lost, Serving(n, b, T, R, lost),
           UNCHANGED <<acceptVars, clientVars, messageVars, sendVars>>,
           place \in Reads, place' \in Reads, got' \in Seq(Octets), in' \in Seq(Octets),
           Len(got') <= ItemLength(place', fr'),
           (got' \o in') \o lost = Rest(place', sent, n, T),
           place' # "head" => n < Len(sent) /\ FrameAt(place', sent[n + 1], fr')
    PROVE  Serving(n, b, T, R, lost)'
  <1>1. place \notin Sending /\ place' \notin Sending
    BY DEF Reads, Lengths, Sending
  <1>2. Stage = place /\ Stage' = place' /\ Due = << >> /\ Due' = << >>
    BY <1>1 DEF Stage, Due, Sending
  <1>3. /\ Switched /\ Lists(n, T, R) /\ Streams(lost) /\ Sends
        /\ Reader(n, b, T, lost) /\ Ended(n) /\ Owed(n, R)
        /\ started \in BOOLEAN /\ buffer \in Seq(Bits)
    BY DEF Serving
  <1>4. Switched'
    BY <1>3 DEF Switched, acceptVars
  <1>5. Lists(n, T, R)'
    BY <1>3 DEF Lists, clientVars
  <1>6. Streams(lost)'
    BY <1>3 DEF Streams, clientVars
  <1>7. Sends'
    BY <1>1, <1>3 DEF Sends, sendVars
  <1>8. Reader(n, b, T, lost)'
    BY <1>2, <1>3 DEF Reader, clientVars, messageVars
  <1>9. Ended(n)'
    BY <1>2 DEF Ended
  <1>10. Owed(n, R)'
    BY <1>2, <1>3 DEF Owed, clientVars, sendVars
  <1>11. started' \in BOOLEAN /\ buffer' \in Seq(Bits)
    BY <1>3 DEF messageVars
  <1> QED  BY <1>4, <1>5, <1>6, <1>7, <1>8, <1>9, <1>10, <1>11 DEF Serving

(* The next frame is dealt with.                                            *)
Answered(n, next) ==
    \/ place' = next /\ msg' = None /\ Reply(sent, n + 1) = None
    \/ /\ place' = "send_header" /\ after' = next
       /\ msg' = Reply(sent, n + 1) /\ Reply(sent, n + 1) # None

LEMMA FrameEnds ==
    ASSUME Types, NEW n, NEW b, NEW T, NEW R, NEW lost, Serving(n, b, T, R, lost),
           UNCHANGED <<acceptVars, clientVars, in, out>>,
           place \in Reads, got' = << >>, n < Len(sent),
           NEW next \in {"head", "close"}, Answered(n, next), NEW b1,
           next = "head" => /\ in \o lost = T[n + 1] /\ ~ Dead(sent, n + 1)
                            /\ Assembled(sent, n + 1, b1, started', buffer', current_opcode'),
           next = "close" => Dead(sent, n + 1),
           started' \in BOOLEAN, buffer' \in Seq(Bits)
    PROVE  Serving(n + 1, b1, T, R, lost)'
  <1>1. place \notin Sending /\ next \notin Sending
    BY DEF Reads, Lengths, Sending
  <1>2. /\ Switched /\ Lists(n, T, R) /\ Streams(lost) /\ Sends
        /\ Reader(n, b, T, lost) /\ Ended(n) /\ Owed(n, R)
    BY DEF Serving
  <1>3. /\ n \in 0 .. Len(sent) - 1 /\ n + 1 \in 0 .. Len(sent) /\ n + 1 \in 1 .. Len(sent)
        /\ R[n] = ReplyBytes(sent, n + 1) \o R[n + 1] /\ R[n + 1] \in Seq(Octets)
    BY <1>2, ListsNext
  <1>4. sent \in Seq(Keyed) /\ UNCHANGED sent /\ UNCHANGED client
    BY SentFacts DEF clientVars
  <1>5. (Reply(sent, n + 1) = None \/ Reply(sent, n + 1) \in Keyed)
        /\ ReplyBytes(sent, n + 1) \in Seq(Octets)
    BY <1>3, <1>4, ReplyType
  <1>6. place' = next \/ place' = "send_header"
    BY DEF Answered
  <1>7. Stage' = next
    BY <1>1 DEF Stage, Answered, Sending
  <1>8. Due' = ReplyBytes(sent, n + 1)
    BY <1>1 DEF Due, Answered, ReplyBytes, Sending
  <1>9. Switched'
    BY <1>2 DEF Switched, acceptVars
  <1>10. Lists(n + 1, T, R)'
    BY <1>2, <1>3, <1>4 DEF Lists
  <1>11. Streams(lost)'
    <2>1. << >> \in Seq(Octets) /\ Len(<< >>) = 0
      BY EmptySeq
    <2>2. place' \in Reads => place' = "head"
      BY <1>6 DEF Reads, Lengths
    <2>3. place' \in Reads => Len(got') <= ItemLength(place', fr')
      BY <2>1, <2>2 DEF ItemLength
    <2> QED  BY <1>2, <1>4, <2>1, <2>3 DEF Streams
  <1>12. Sends'
    BY <1>1, <1>5 DEF Sends, Answered, Reads, Sending
  <1>13. Reader(n + 1, b1, T, lost)'
    <2> SUFFICES ASSUME Stage' \in Reads
                 PROVE  /\ (got' \o in') \o lost = Rest("head", sent, n + 1, T)
                        /\ ~ Dead(sent, n + 1)
                        /\ Assembled(sent, n + 1, b1, started', buffer', current_opcode')
                        /\ Stage' = "head"
      BY <1>4 DEF Reader
    <2>1. next = "head"
      BY <1>7 DEF Reads, Lengths
    <2>2. << >> \o in = in
      BY <1>2, ConcatEmptySeq DEF Streams
    <2> QED  BY <1>7, <2>1, <2>2 DEF Rest
  <1>14. Ended(n + 1)'
    BY <1>4, <1>7 DEF Ended, Reads
  <1>15. Owed(n + 1, R)'
    <2> SUFFICES ASSUME client # "reset"
                 PROVE  Answer(sent) = out \o (Due' \o R[n + 1])
      BY <1>4 DEF Owed
    <2>1. Due = << >>
      BY <1>1 DEF Due, Sending
    <2>2. R[n] \in Seq(Octets)
      BY <1>3, <1>5, ConcatProperties
    <2>3. << >> \o R[n] = R[n]
      BY <2>2, ConcatEmptySeq
    <2>4. Answer(sent) = out \o (Due \o R[n])
      BY <1>2 DEF Owed
    <2> QED  BY <1>3, <1>8, <2>1, <2>3, <2>4
  <1> QED  BY <1>9, <1>10, <1>11, <1>12, <1>13, <1>14, <1>15 DEF Serving

(* A frame that is refused ends the connection without an answer.           *)
LEMMA FrameRefused ==
    ASSUME Types, NEW n, NEW b, NEW T, NEW R, NEW lost, Serving(n, b, T, R, lost),
           UNCHANGED <<acceptVars, clientVars, in, messageVars, sendVars>>,
           place \in Reads, got' = << >>, n < Len(sent), place' = "close", Refused(sent, n + 1)
    PROVE  Serving(n + 1, b, T, R, lost)'
  <1>1. Lists(n, T, R) /\ Sends /\ started \in BOOLEAN /\ buffer \in Seq(Bits)
    BY DEF Serving
  <1>2. n \in 0 .. Len(sent) - 1 /\ sent \in Seq(Keyed)
    BY <1>1, ListsNext, SentFacts
  <1>3. Dead(sent, n + 1)
    BY <1>2, DeadNext
  <1>4. Reply(sent, n + 1) = None
    BY DEF Reply
  <1>5. place \notin Sending
    BY DEF Reads, Lengths, Sending
  <1>6. msg' = None
    BY <1>1, <1>5 DEF Sends, sendVars
  <1>7. Answered(n, "close")
    BY <1>4, <1>6 DEF Answered
  <1>8. UNCHANGED <<acceptVars, clientVars, in, out>> /\ UNCHANGED messageVars
    BY DEF sendVars
  <1>9. started' \in BOOLEAN /\ buffer' \in Seq(Bits)
    BY <1>1 DEF messageVars
  <1> DEFINE next == "close"
  <1>10. next \in {"head", "close"} /\ Answered(n, next) /\ next # "head"
    BY <1>7
  <1> HIDE DEF next
  <1> QED  BY <1>3, <1>8, <1>9, <1>10, FrameEnds

-----------------------------------------------------------------------------
(* read_frame.                                                             *)

LEMMA ItemIs ==
    /\ Reading <=> place \in Reads
    /\ place \in Reads => Item(place) = ItemLength(place, fr)
  <1>1. Reading <=> place \in Reads
    BY DEF Reading, Reads, Lengths
  <1>2. ASSUME place \in Reads PROVE Item(place) = ItemLength(place, fr)
    <2>1. CASE place = "head"
      BY <2>1 DEF Item, ItemLength
    <2>2. CASE place = "length16"
      BY <2>2 DEF Item, ItemLength
    <2>3. CASE place = "length64"
      BY <2>3 DEF Item, ItemLength
    <2>4. CASE place = "mask"
      BY <2>4 DEF Item, ItemLength
    <2>5. CASE place = "payload"
      BY <2>5 DEF Item, ItemLength
    <2> QED  BY <1>2, <2>1, <2>2, <2>3, <2>4, <2>5 DEF Reads, Lengths
  <1> QED  BY <1>1, <1>2

(* The item that is received and what comes after it.                       *)
Ahead(stage, f) == IF stage = "head" THEN First(f) ELSE NextItem(stage, f)
Beyond(stage, f) ==
    IF stage = "head" THEN Left("length16", f) ELSE IF stage \in Lengths THEN Left("mask", f)
    ELSE IF stage = "mask" THEN Left("payload", f) ELSE << >>

LEMMA AheadFacts ==
    ASSUME NEW f \in Keyed, NEW stage \in Reads, NEW known,
           stage # "head" => FrameAt(stage, f, known)
    PROVE  /\ Ahead(stage, f) \in Seq(Octets) /\ Beyond(stage, f) \in Seq(Octets)
           /\ Len(Ahead(stage, f)) = ItemLength(stage, known) /\ ItemLength(stage, known) \in Nat
           /\ (IF stage = "head" THEN Wire(f) ELSE Left(stage, f)) =
                Ahead(stage, f) \o Beyond(stage, f)
  <1>1. << >> \in Seq(Octets)
    BY EmptySeq
  <1>2. "length16" \in Reads /\ "length16" \in Lengths /\ "mask" \in Reads /\ "payload" \in Reads
        /\ "mask" \notin Lengths /\ "head" \notin Lengths /\ "payload" \notin Lengths
    BY DEF Reads, Lengths
  <1>3. /\ Left("length16", f) \in Seq(Octets) /\ Left("mask", f) \in Seq(Octets)
        /\ Left("payload", f) \in Seq(Octets)
    BY <1>2, LeftIs
  <1>4. CASE stage = "head"
    <2>1. Wire(f) = First(f) \o Left("length16", f)
      BY <1>2, WireParts DEF Left
    <2>2. First(f) \in Seq(Octets) /\ Len(First(f)) = 2
      BY FirstFacts
    <2> QED  BY <1>3, <1>4, <2>1, <2>2 DEF Ahead, Beyond, ItemLength
  <1>5. CASE stage # "head"
    <2>1. /\ NextItem(stage, f) \in Seq(Octets)
          /\ Len(NextItem(stage, f)) = ItemLength(stage, known)
          /\ ItemLength(stage, known) \in Nat
      BY <1>5, NextFacts
    <2>2. Beyond(stage, f) \in Seq(Octets)
      BY <1>1, <1>3, <1>5 DEF Beyond
    <2>3. Left(stage, f) = NextItem(stage, f) \o Beyond(stage, f)
      <3>1. CASE stage \in Lengths
        BY <1>5, <3>1, LeftIs DEF Beyond
      <3>2. CASE stage = "mask"
        BY <1>2, <3>2, LeftIs DEF Beyond
      <3>3. CASE stage = "payload"
        <4>1. Left("payload", f) = NextItem("payload", f)
          BY LeftIs
        <4>2. NextItem("payload", f) \o << >> = NextItem("payload", f)
          BY <2>1, <3>3, ConcatEmptySeq
        <4> QED  BY <1>2, <3>3, <4>1, <4>2 DEF Beyond
      <3> QED  BY <1>5, <3>1, <3>2, <3>3 DEF Reads
    <2> QED  BY <1>5, <2>1, <2>2, <2>3 DEF Ahead
  <1> QED  BY <1>4, <1>5

(* Where the reader stands in the stream.                                   *)
LEMMA ReaderFacts ==
    ASSUME Types, NEW n, NEW b, NEW T, NEW R, NEW lost, Serving(n, b, T, R, lost), place \in Reads
    PROVE  /\ Stage = place /\ Lists(n, T, R) /\ n \in 0 .. Len(sent)
           /\ got \in Seq(Octets) /\ in \in Seq(Octets) /\ lost \in Seq(Octets)
           /\ (got \o in) \o lost = Rest(place, sent, n, T)
           /\ place # "head" => n < Len(sent) /\ FrameAt(place, sent[n + 1], fr)
           /\ ~ Dead(sent, n) /\ Assembled(sent, n, b, started, buffer, current_opcode)
           /\ started \in BOOLEAN /\ buffer \in Seq(Bits)
           /\ n < Len(sent) =>
                /\ sent[n + 1] \in Keyed
                /\ ShiftRight(Len(sent[n + 1].payload), WideLen) = 0
                /\ T[n + 1] \in Seq(Octets)
                /\ Rest(place, sent, n, T) =
                     (Ahead(place, sent[n + 1]) \o Beyond(place, sent[n + 1])) \o T[n + 1]
                /\ Ahead(place, sent[n + 1]) \in Seq(Octets) /\ Beyond(place, sent[n + 1]) \in Seq(Octets)
                /\ Len(Ahead(place, sent[n + 1])) = ItemLength(place, fr)
  <1>1. Stage = place
    BY DEF Stage, Reads, Lengths, Sending
  <1>2. /\ Lists(n, T, R) /\ n \in 0 .. Len(sent)
        /\ got \in Seq(Octets) /\ in \in Seq(Octets) /\ lost \in Seq(Octets)
        /\ started \in BOOLEAN /\ buffer \in Seq(Bits)
    BY DEF Serving, Lists, Streams
  <1>3. Reader(n, b, T, lost)
    BY DEF Serving
  <1>4. /\ (got \o in) \o lost = Rest(place, sent, n, T)
        /\ place # "head" => n < Len(sent) /\ FrameAt(place, sent[n + 1], fr)
        /\ ~ Dead(sent, n) /\ Assembled(sent, n, b, started, buffer, current_opcode)
    BY <1>1, <1>3 DEF Reader
  <1>5. ASSUME n < Len(sent)
        PROVE  /\ sent[n + 1] \in Keyed
               /\ ShiftRight(Len(sent[n + 1].payload), WideLen) = 0
               /\ T[n + 1] \in Seq(Octets)
               /\ Rest(place, sent, n, T) =
                    (Ahead(place, sent[n + 1]) \o Beyond(place, sent[n + 1])) \o T[n + 1]
               /\ Ahead(place, sent[n + 1]) \in Seq(Octets) /\ Beyond(place, sent[n + 1]) \in Seq(Octets)
               /\ Len(Ahead(place, sent[n + 1])) = ItemLength(place, fr)
    <2>1. /\ n + 1 \in 1 .. Len(sent) /\ T[n + 1] \in Seq(Octets)
          /\ T[n] = Wire(sent[n + 1]) \o T[n + 1]
      BY <1>2, <1>5, ListsNext
    <2>2. sent[n + 1] \in Keyed /\ ShiftRight(Len(sent[n + 1].payload), WideLen) = 0
      BY <2>1, SentFacts
    <2> DEFINE f == sent[n + 1]
    <2>3. f \in Keyed /\ (place # "head" => FrameAt(place, f, fr))
      BY <1>4, <2>2
    <2>4. Rest(place, sent, n, T) = (IF place = "head" THEN Wire(f) ELSE Left(place, f)) \o T[n + 1]
      BY <2>1 DEF Rest
    <2> HIDE DEF f
    <2>5. /\ Ahead(place, f) \in Seq(Octets) /\ Beyond(place, f) \in Seq(Octets)
          /\ Len(Ahead(place, f)) = ItemLength(place, fr)
          /\ (IF place = "head" THEN Wire(f) ELSE Left(place, f)) = Ahead(place, f) \o Beyond(place, f)
      BY <2>3, AheadFacts
    <2>6. Rest(place, sent, n, T) = (Ahead(place, f) \o Beyond(place, f)) \o T[n + 1]
      BY <2>4, <2>5
    <2> QED  BY <2>1, <2>2, <2>5, <2>6 DEF f
  <1> QED  BY <1>1, <1>2, <1>4, <1>5

(* An item that is complete is the next one of the stream.                  *)
LEMMA ItemTaken ==
    ASSUME Types, NEW n, NEW b, NEW T, NEW R, NEW lost, Serving(n, b, T, R, lost), place \in Reads,
           Len(got) = ItemLength(place, fr)
    PROVE  /\ n < Len(sent)
           /\ got = Ahead(place, sent[n + 1])
           /\ in \o lost = Beyond(place, sent[n + 1]) \o T[n + 1]
  <1>1. /\ n \in 0 .. Len(sent) /\ Len(sent) \in Nat /\ Lists(n, T, R)
        /\ got \in Seq(Octets) /\ in \in Seq(Octets) /\ lost \in Seq(Octets)
        /\ (got \o in) \o lost = Rest(place, sent, n, T)
    BY ReaderFacts, SentFacts
  <1>2. n < Len(sent)
    <2>1. CASE place # "head"
      BY <2>1, ReaderFacts
    <2>2. CASE place = "head"
      <3> SUFFICES ASSUME ~ n < Len(sent) PROVE FALSE
        OBVIOUS
      <3>1. n = Len(sent)
        BY <1>1
      <3>2. T[n] = << >>
        BY <1>1, <3>1 DEF Lists, Behind
      <3>3. (got \o in) \o lost = << >>
        BY <1>1, <2>2, <3>2 DEF Rest
      <3>4. got \o in \in Seq(Octets) /\ Len(got \o in) = Len(got) + Len(in)
        BY <1>1, ConcatProperties
      <3>5. Len((got \o in) \o lost) = Len(got \o in) + Len(lost)
        BY <1>1, <3>4, ConcatProperties
      <3>6. Len(got) \in Nat /\ Len(in) \in Nat /\ Len(lost) \in Nat
        BY <1>1, LenProperties
      <3>7. Len(got) = 2
        BY <2>2 DEF ItemLength
      <3>8. Len((got \o in) \o lost) = 0
        BY <3>3, EmptySeq
      <3> QED  BY <3>4, <3>5, <3>6, <3>7, <3>8
    <2> QED  BY <2>1, <2>2
  <1> DEFINE x == Ahead(place, sent[n + 1])  y == Beyond(place, sent[n + 1])  z == T[n + 1]
  <1>3. /\ x \in Seq(Octets) /\ y \in Seq(Octets) /\ z \in Seq(Octets)
        /\ SameStream(got, in, lost, x, y, z) /\ Len(got) = Len(x)
    BY <1>1, <1>2, ReaderFacts DEF SameStream
  <1> HIDE DEF x, y, z
  <1>4. got = x /\ SameRest(in, lost, y, z)
    BY <1>1, <1>3, Taken
  <1> QED  BY <1>2, <1>4 DEF SameRest, x, y, z

LEMMA MinPair ==
    ASSUME NEW x \in Int, NEW y \in Int
    PROVE  Min({x, y}) <= x /\ Min({x, y}) <= y /\ Min({x, y}) \in {x, y}
  <1> DEFINE T == {x, y}
  <1>1. CASE x <= y
    <2>1. T \subseteq Int /\ x \in T /\ \A z \in T : x <= z
      BY <1>1
    <2> HIDE DEF T
    <2>2. Min(T) = x
      BY <2>1, MinIs
    <2> QED  BY <1>1, <2>2 DEF T
  <1>2. CASE y <= x
    <2>1. T \subseteq Int /\ y \in T /\ \A z \in T : y <= z
      BY <1>2
    <2> HIDE DEF T
    <2>2. Min(T) = y
      BY <2>1, MinIs
    <2> QED  BY <1>2, <2>2 DEF T
  <1> QED  BY <1>1, <1>2

LEMMA RecvPieceStep ==
    ASSUME Types, NEW n, NEW b, NEW T, NEW R, NEW lost, Serving(n, b, T, R, lost), RecvPiece
    PROVE  Serving(n, b, T, R, lost)'
  <1>1. place \in Reads /\ Item(place) = ItemLength(place, fr)
    BY ItemIs DEF RecvPiece
  <1>2. /\ got \in Seq(Octets) /\ in \in Seq(Octets) /\ lost \in Seq(Octets)
        /\ (got \o in) \o lost = Rest(place, sent, n, T)
        /\ place # "head" => n < Len(sent) /\ FrameAt(place, sent[n + 1], fr)
    BY <1>1, ReaderFacts
  <1>3. Len(got) \in Nat /\ Len(in) \in Nat /\ ItemLength(place, fr) \in Int
    <2>1. place = "head" => ItemLength(place, fr) = 2
      BY DEF ItemLength
    <2>2. place # "head" => sent[n + 1] \in Keyed
      BY <1>1, <1>2, ReaderFacts
    <2>3. place # "head" => ItemLength(place, fr) \in Nat
      BY <1>1, <1>2, <2>2, AheadFacts
    <2> QED  BY <1>2, <2>1, <2>3, LenProperties
  <1> DEFINE room == ItemLength(place, fr) - Len(got)  m == Len(in)
  <1>4. PICK k \in 1 .. Min({room, m}) :
           /\ got' = got \o SubSeq(in, 1, k)
           /\ in' = SubSeq(in, k + 1, Len(in))
    BY <1>1 DEF RecvPiece
  <1>5. room \in Int /\ m \in Int
    BY <1>3
  <1>6. k \in 1 .. m /\ k <= room
    <2> HIDE DEF room, m
    <2> QED  BY <1>5, MinPair
  <1>7. /\ got' \in Seq(Octets) /\ in' \in Seq(Octets)
        /\ got' \o in' = got \o in /\ Len(got') = Len(got) + k
    <2>1. k \in 1 .. Len(in)
      BY <1>6
    <2>2. Piece(got, in, k, got', in')
      BY <1>4 DEF Piece
    <2>3. /\ got' \in Seq(Octets) /\ in' \in Seq(Octets)
          /\ SameRest(got', in', got, in) /\ Len(got') = Len(got) + k
      BY <1>2, <2>1, <2>2, PieceMoves
    <2> QED  BY <2>3 DEF SameRest
  <1>8. Len(got') <= ItemLength(place, fr)
    BY <1>3, <1>6, <1>7
  <1>9. UNCHANGED <<acceptVars, clientVars, messageVars, sendVars>> /\ place' = place /\ fr' = fr
    BY DEF RecvPiece
  <1>10. /\ place' \in Reads /\ Len(got') <= ItemLength(place', fr')
         /\ (got' \o in') \o lost = Rest(place', sent, n, T)
         /\ place' # "head" => n < Len(sent) /\ FrameAt(place', sent[n + 1], fr')
    BY <1>1, <1>2, <1>7, <1>8, <1>9
  <1> QED  BY <1>1, <1>7, <1>9, <1>10, ReadGoesOn

LEMMA RecvFailsStep ==
    ASSUME Types, NEW n, NEW b, NEW T, NEW R, NEW lost, Serving(n, b, T, R, lost), RecvFails
    PROVE  Serving(n, b, T, R, lost)'
  <1>1. place \in Reads /\ Item(place) = ItemLength(place, fr) /\ place' = "close"
        /\ Len(got) < ItemLength(place, fr) /\ in = << >>
    BY ItemIs DEF RecvFails
  <1>2. UNCHANGED <<acceptVars, clientVars, in, got, fr, messageVars, sendVars>>
    BY DEF RecvFails
  <1>3. place \notin Sending /\ place' \notin Sending /\ "close" \notin Reads
    BY <1>1 DEF Reads, Lengths, Sending
  <1>4. Stage = place /\ Stage' = "close" /\ Due = << >> /\ Due' = << >>
    BY <1>1, <1>3 DEF Stage, Due, Sending
  <1>5. /\ Switched /\ Lists(n, T, R) /\ Streams(lost) /\ Sends /\ Owed(n, R)
        /\ started \in BOOLEAN /\ buffer \in Seq(Bits)
    BY DEF Serving
  <1>6. ASSUME client # "reset" PROVE n = Len(sent)
    <2> SUFFICES ASSUME n # Len(sent) PROVE FALSE
      OBVIOUS
    <2>1. n < Len(sent)
      <3>1. n \in 0 .. Len(sent) /\ Len(sent) \in Nat
        BY <1>1, ReaderFacts, SentFacts
      <3> QED  BY <3>1
    <2> DEFINE x == Ahead(place, sent[n + 1])  y == Beyond(place, sent[n + 1])  z == T[n + 1]
    <2>2. /\ x \in Seq(Octets) /\ y \in Seq(Octets) /\ z \in Seq(Octets)
          /\ (got \o in) \o lost = (x \o y) \o z /\ Len(x) = ItemLength(place, fr)
          /\ got \in Seq(Octets)
      BY <1>1, <2>1, ReaderFacts
    <2>3. lost = << >>
      BY <1>5, <1>6 DEF Streams
    <2> HIDE DEF x, y, z
    <2>4. (got \o << >>) \o << >> = (x \o y) \o z
      BY <1>1, <2>2, <2>3
    <2>5. Len(got) >= Len(x)
      BY <2>2, <2>4, Enough
    <2>6. Len(got) \in Nat /\ Len(x) \in Nat
      BY <2>2, LenProperties
    <2> QED  BY <1>1, <2>2, <2>5, <2>6
  <1>7. client = "shut" \/ client = "reset"
    BY DEF RecvFails, Types
  <1>8. Switched'
    BY <1>2, <1>5 DEF Switched, acceptVars
  <1>9. Lists(n, T, R)'
    BY <1>2, <1>5 DEF Lists, clientVars
  <1>10. Streams(lost)'
    BY <1>1, <1>2, <1>3, <1>5 DEF Streams, clientVars
  <1>11. Sends'
    BY <1>1, <1>2, <1>3, <1>5 DEF Sends, sendVars
  <1>12. Reader(n, b, T, lost)'
    BY <1>3, <1>4 DEF Reader
  <1>13. Ended(n)'
    BY <1>2, <1>6, <1>7 DEF Ended, clientVars
  <1>14. Owed(n, R)'
    BY <1>2, <1>4, <1>5 DEF Owed, clientVars, sendVars
  <1>15. started' \in BOOLEAN /\ buffer' \in Seq(Bits)
    BY <1>2, <1>5 DEF messageVars
  <1> QED  BY <1>8, <1>9, <1>10, <1>11, <1>12, <1>13, <1>14, <1>15 DEF Serving

(* The length is known: the frame is too long, goes on or has no mask.      *)
LEMMA LengthKnown ==
    ASSUME Types, NEW n, NEW b, NEW T, NEW R, NEW lost, Serving(n, b, T, R, lost),
           UNCHANGED <<acceptVars, clientVars, in, messageVars, sendVars>>,
           place \in Reads, got' = << >>, n < Len(sent), ~ sent[n + 1].rsv,
           fr' = Parsed(sent[n + 1], Len(sent[n + 1].payload), << >>),
           place' = AfterLength(fr'), in \o lost = Left("mask", sent[n + 1]) \o T[n + 1]
    PROVE  \E m : Serving(m, b, T, R, lost)'
  <1> DEFINE f == sent[n + 1]
  <1>1. f \in Keyed /\ in \in Seq(Octets)
    BY ReaderFacts
  <1>2. Len(f.payload) \in Nat /\ MaxFrameSize \in Nat /\ f.mask \in BOOLEAN
    BY <1>1, FrameFields, FrameAssumption
  <1>3. fr'.len = Len(f.payload) /\ fr'.mask = f.mask
    BY DEF Parsed
  <1>4. CASE Len(f.payload) > MaxFrameSize \/ ~ f.mask
    <2>1. place' = "close"
      BY <1>3, <1>4 DEF AfterLength
    <2>2. Refused(sent, n + 1)
      BY <1>4 DEF Refused
    <2> QED  BY <2>1, <2>2, FrameRefused
  <1>5. CASE ~ Len(f.payload) > MaxFrameSize /\ f.mask
    <2>1. place' = "mask" /\ "mask" \in Reads /\ "mask" \notin Lengths
      BY <1>3, <1>5 DEF AfterLength, Reads, Lengths
    <2>2. Readable(f)
      BY <1>2, <1>5 DEF Readable
    <2>3. FrameAt("mask", f, fr')
      BY <2>1, <2>2 DEF FrameAt
    <2>4. << >> \in Seq(Octets) /\ Len(<< >>) = 0 /\ MaskLen \in Nat /\ << >> \o in = in
      BY <1>1, EmptySeq, FrameAssumption, ConcatEmptySeq
    <2>5. Len(got') <= ItemLength(place', fr')
      BY <2>1, <2>4 DEF ItemLength
    <2>6. (got' \o in') \o lost = Rest(place', sent, n, T)
      BY <2>1, <2>4 DEF Rest
    <2>7. got' \in Seq(Octets) /\ in' \in Seq(Octets)
      BY <1>1, <2>4
    <2>8. place' # "head" => n < Len(sent) /\ FrameAt(place', sent[n + 1], fr')
      BY <2>1, <2>3
    <2>9. UNCHANGED <<acceptVars, clientVars, messageVars, sendVars>>
      OBVIOUS
    <2>10. place' \in Reads
      BY <2>1
    <2> HIDE DEF f
    <2>11. Serving(n, b, T, R, lost)'
      BY <2>5, <2>6, <2>7, <2>8, <2>9, <2>10, ReadGoesOn
    <2> QED  BY <2>11
  <1> QED  BY <1>2, <1>4, <1>5

LEMMA HeadDoneStep ==
    ASSUME Types, NEW n, NEW b, NEW T, NEW R, NEW lost, Serving(n, b, T, R, lost), HeadDone
    PROVE  \E m : Serving(m, b, T, R, lost)'
  <1> DEFINE f == sent[n + 1]  len == Len(f.payload)
  <1>1. place = "head" /\ place \in Reads /\ Len(got) = ItemLength(place, fr)
    BY DEF HeadDone, Reads, ItemLength
  <1>2. /\ n < Len(sent) /\ got = First(f)
        /\ in \o lost = Left("length16", f) \o T[n + 1]
    <2>1. got = Ahead(place, f) /\ in \o lost = Beyond(place, f) \o T[n + 1] /\ n < Len(sent)
      BY <1>1, ItemTaken
    <2> QED  BY <1>1, <2>1 DEF Ahead, Beyond
  <1>3. f \in Keyed /\ in \in Seq(Octets) /\ ShiftRight(len, WideLen) = 0
    BY <1>1, <1>2, ReaderFacts
  <1>4. len \in Nat /\ SmallMax \in Nat /\ f.rsv \in BOOLEAN
    BY <1>3, FrameFields, FrameAssumption
  <1>5. /\ got[1].fin = f.fin /\ got[1].rsv = f.rsv /\ got[1].op = f.op
        /\ got[2].mask = f.mask /\ got[2].len = LengthCode(len)
    BY <1>2 DEF First
  <1>6. fr' = Parsed(f, LengthCode(len), << >>)
    BY <1>5 DEF HeadDone, Parsed
  <1>7. fr'.len = LengthCode(len)
    BY <1>6 DEF Parsed
  <1>8. UNCHANGED <<acceptVars, clientVars, in, messageVars, sendVars>> /\ got' = << >>
    BY DEF HeadDone
  <1>9. CASE f.rsv
    <2>1. place' = "close"
      BY <1>5, <1>9 DEF HeadDone
    <2>2. Refused(sent, n + 1)
      BY <1>9 DEF Refused
    <2> QED  BY <1>1, <1>2, <1>8, <2>1, <2>2, FrameRefused
  <1>10. CASE ~ f.rsv /\ len > SmallMax
    <2> DEFINE next == IF len < Base * Base THEN "length16" ELSE "length64"
    <2>1. LengthCode(len) = IF len < Base * Base THEN SmallMax + 1 ELSE SmallMax + 2
      BY <1>4, <1>10, LengthFacts
    <2>2. place' = next
      BY <1>4, <1>5, <1>7, <1>10, <2>1 DEF HeadDone
    <2>3. next \in Lengths /\ (next = "length16") = (len < Base * Base) /\ next \in Reads
          /\ next # "head" /\ next # "mask" /\ next # "payload"
      BY DEF Lengths, Reads
    <2>4. FrameAt(next, f, fr')
      BY <1>6, <1>10, <2>3 DEF FrameAt
    <2>5. Rest(next, sent, n, T) = Left("length16", f) \o T[n + 1]
      BY <2>3 DEF Rest, Left, Lengths
    <2> HIDE DEF next
    <2>6. << >> \in Seq(Octets) /\ Len(<< >>) = 0 /\ << >> \o in = in
      BY <1>3, EmptySeq, ConcatEmptySeq
    <2>7. Len(got') <= ItemLength(place', fr')
      <3>1. ItemLength(next, fr') \in Nat
        BY <1>3, <2>3, <2>4, NextFacts
      <3> QED  BY <1>8, <2>2, <2>6, <3>1
    <2>8. (got' \o in') \o lost = Rest(place', sent, n, T)
      BY <1>2, <1>8, <2>2, <2>5, <2>6
    <2>9. got' \in Seq(Octets) /\ in' \in Seq(Octets) /\ place' \in Reads
      BY <1>3, <1>8, <2>2, <2>3, <2>6
    <2>10. place' # "head" => n < Len(sent) /\ FrameAt(place', sent[n + 1], fr')
      BY <1>2, <2>2, <2>4
    <2>11. UNCHANGED <<acceptVars, clientVars, messageVars, sendVars>>
      BY <1>8
    <2> HIDE DEF f, len
    <2>12. Serving(n, b, T, R, lost)'
      BY <1>1, <2>7, <2>8, <2>9, <2>10, <2>11, ReadGoesOn
    <2> QED  BY <2>12
  <1>11. CASE ~ f.rsv /\ len <= SmallMax
    <2>1. LengthCode(len) = len /\ Length(f) = << >>
      BY <1>4, <1>11, LengthFacts DEF Length
    <2>2. place' = AfterLength(fr')
      BY <1>4, <1>5, <1>7, <1>11, <2>1 DEF HeadDone
    <2>3. Left("length16", f) = Left("mask", f)
      <3>1. Left("length16", f) = << >> \o Left("mask", f)
        BY <2>1 DEF Left, Lengths
      <3>2. Left("mask", f) \in Seq(Octets)
        BY <1>3, LeftIs DEF Reads
      <3> QED  BY <3>1, <3>2, ConcatEmptySeq
    <2>4. fr' = Parsed(f, len, << >>)
      BY <1>6, <2>1
    <2>5. in \o lost = Left("mask", f) \o T[n + 1]
      BY <1>2, <2>3
    <2> QED  BY <1>1, <1>2, <1>8, <1>11, <2>2, <2>4, <2>5, LengthKnown
  <1> QED  BY <1>4, <1>9, <1>10, <1>11

LEMMA LengthDoneStep ==
    ASSUME Types, NEW n, NEW b, NEW T, NEW R, NEW lost, Serving(n, b, T, R, lost), LengthDone
    PROVE  \E m : Serving(m, b, T, R, lost)'
  <1> DEFINE f == sent[n + 1]  len == Len(f.payload)
  <1>1. place \in Lengths /\ place \in Reads /\ place # "head" /\ place # "mask" /\ place # "payload"
        /\ Len(got) = ItemLength(place, fr)
    BY ItemIs DEF LengthDone, Reads, Lengths
  <1>2. /\ n < Len(sent) /\ got = Length(f) /\ in \o lost = Left("mask", f) \o T[n + 1]
    <2>1. got = Ahead(place, f) /\ in \o lost = Beyond(place, f) \o T[n + 1] /\ n < Len(sent)
      BY <1>1, ItemTaken
    <2> QED  BY <1>1, <2>1 DEF Ahead, Beyond, NextItem
  <1>3. f \in Keyed /\ ShiftRight(len, WideLen) = 0 /\ FrameAt(place, f, fr)
    BY <1>1, <1>2, ReaderFacts
  <1>4. len \in Nat /\ SmallMax \in Nat
    BY <1>3, FrameFields, FrameAssumption
  <1>5. len > SmallMax /\ ~ f.rsv /\ fr = Parsed(f, LengthCode(len), << >>)
    BY <1>1, <1>3 DEF FrameAt
  <1>6. Number(Value(got)) = len
    BY <1>2, <1>3, <1>4, <1>5, LengthFacts DEF Length
  <1>7. fr' = Parsed(f, len, << >>)
    BY <1>5, <1>6 DEF LengthDone, Parsed
  <1>8. /\ UNCHANGED <<acceptVars, clientVars, in, messageVars, sendVars>> /\ got' = << >>
        /\ place' = AfterLength(fr')
    BY DEF LengthDone
  <1> QED  BY <1>1, <1>2, <1>5, <1>7, <1>8, LengthKnown

LEMMA MaskDoneStep ==
    ASSUME Types, NEW n, NEW b, NEW T, NEW R, NEW lost, Serving(n, b, T, R, lost), MaskDone
    PROVE  Serving(n, b, T, R, lost)'
  <1> DEFINE f == sent[n + 1]
  <1>1. place = "mask" /\ place \in Reads /\ place # "head" /\ place \notin Lengths
        /\ Len(got) = ItemLength(place, fr)
    BY DEF MaskDone, Reads, Lengths, ItemLength
  <1>2. /\ n < Len(sent) /\ got = Key(f) /\ in \o lost = Left("payload", f) \o T[n + 1]
    <2>1. got = Ahead(place, f) /\ in \o lost = Beyond(place, f) \o T[n + 1] /\ n < Len(sent)
      BY <1>1, ItemTaken
    <2> QED  BY <1>1, <2>1 DEF Ahead, Beyond, NextItem
  <1>3. f \in Keyed /\ FrameAt(place, f, fr) /\ in \in Seq(Octets)
    BY <1>1, <1>2, ReaderFacts
  <1>4. Readable(f) /\ fr = Parsed(f, Len(f.payload), << >>)
    BY <1>1, <1>3 DEF FrameAt
  <1>5. Value(got) = f.key
    <2>1. f.mask
      BY <1>4 DEF Readable
    <2> QED  BY <1>2, <1>3, <2>1, KeyFacts
  <1>6. fr' = Parsed(f, Len(f.payload), f.key)
    BY <1>4, <1>5 DEF MaskDone, Parsed
  <1>7. /\ UNCHANGED <<acceptVars, clientVars, in, messageVars, sendVars>> /\ got' = << >>
        /\ place' = "payload"
    BY DEF MaskDone
  <1>8. "payload" \in Reads /\ "payload" \notin Lengths
    BY DEF Reads, Lengths
  <1>9. FrameAt("payload", f, fr')
    BY <1>4, <1>6, <1>8 DEF FrameAt
  <1>10. << >> \in Seq(Octets) /\ Len(<< >>) = 0 /\ << >> \o in = in
    BY <1>3, EmptySeq, ConcatEmptySeq
  <1>11. Len(got') <= ItemLength(place', fr')
    <2>1. ItemLength("payload", fr') \in Nat
      BY <1>3, <1>8, <1>9, NextFacts
    <2> QED  BY <1>7, <1>10, <2>1
  <1>12. (got' \o in') \o lost = Rest(place', sent, n, T)
    BY <1>2, <1>7, <1>10 DEF Rest
  <1>13. got' \in Seq(Octets) /\ in' \in Seq(Octets) /\ place' \in Reads
    BY <1>3, <1>7, <1>8, <1>10
  <1>14. place' # "head" => n < Len(sent) /\ FrameAt(place', sent[n + 1], fr')
    BY <1>2, <1>7, <1>9
  <1>15. UNCHANGED <<acceptVars, clientVars, messageVars, sendVars>>
    BY <1>7
  <1> HIDE DEF f
  <1> QED  BY <1>1, <1>11, <1>12, <1>13, <1>14, <1>15, ReadGoesOn

-----------------------------------------------------------------------------
(* read_message.                                                           *)

LEMMA FrameReadFacts ==
    ASSUME Types, NEW n, NEW b, NEW T, NEW R, NEW lost, Serving(n, b, T, R, lost), FrameRead
    PROVE  /\ place \in Reads /\ n < Len(sent) /\ n \in 0 .. Len(sent) - 1
           /\ sent \in Seq(Keyed) /\ sent[n + 1] \in Keyed /\ Readable(sent[n + 1])
           /\ Payload = sent[n + 1].payload
           /\ fr.op = sent[n + 1].op /\ fr.fin = sent[n + 1].fin
           /\ in \o lost = T[n + 1]
           /\ ~ Dead(sent, n) /\ Assembled(sent, n, b, started, buffer, current_opcode)
           /\ started \in BOOLEAN /\ buffer \in Seq(Bits)
  <1> DEFINE f == sent[n + 1]
  <1>1. place = "payload" /\ place \in Reads /\ place # "head" /\ place \notin Lengths
        /\ Len(got) = ItemLength(place, fr)
    BY DEF FrameRead, Reads, Lengths, ItemLength
  <1>2. /\ n < Len(sent) /\ got = Body(f) /\ in \o lost = << >> \o T[n + 1]
    <2>1. got = Ahead(place, f) /\ in \o lost = Beyond(place, f) \o T[n + 1] /\ n < Len(sent)
      BY <1>1, ItemTaken
    <2> QED  BY <1>1, <2>1 DEF Ahead, Beyond, NextItem
  <1>3. f \in Keyed /\ FrameAt(place, f, fr) /\ T[n + 1] \in Seq(Octets) /\ Lists(n, T, R)
    BY <1>1, <1>2, ReaderFacts
  <1>4. Readable(f) /\ fr = Parsed(f, Len(f.payload), f.key)
    BY <1>1, <1>3 DEF FrameAt
  <1>5. fr.op = f.op /\ fr.fin = f.fin /\ fr.key = f.key
    BY <1>4 DEF Parsed
  <1>6. Payload = f.payload
    <2>1. f.mask
      BY <1>4 DEF Readable
    <2> QED  BY <1>2, <1>3, <1>5, <2>1, BodyFacts DEF Payload
  <1>7. in \o lost = T[n + 1]
    BY <1>2, <1>3, ConcatEmptySeq
  <1>8. n \in 0 .. Len(sent) - 1 /\ sent \in Seq(Keyed)
    BY <1>2, <1>3, ListsNext, SentFacts
  <1>9. /\ ~ Dead(sent, n) /\ Assembled(sent, n, b, started, buffer, current_opcode)
        /\ started \in BOOLEAN /\ buffer \in Seq(Bits)
    BY <1>1, ReaderFacts
  <1> QED  BY <1>1, <1>2, <1>3, <1>4, <1>5, <1>6, <1>7, <1>8, <1>9

(* A frame that is handled and is no close leaves the first n + 1 handled.  *)
LEMMA AliveNext ==
    ASSUME NEW s \in Seq(Keyed), NEW n \in 0 .. Len(s) - 1, ~ Dead(s, n),
           ~ Refused(s, n + 1), s[n + 1].op # "close"
    PROVE  ~ Dead(s, n + 1)
  BY DeadNext

LEMMA OnPingStep ==
    ASSUME Types, NEW n, NEW b, NEW T, NEW R, NEW lost, Serving(n, b, T, R, lost), OnPing
    PROVE  Serving(n + 1, b, T, R, lost)'
  <1> DEFINE f == sent[n + 1]
  <1>1. FrameRead
    BY DEF OnPing
  <1>2. /\ place \in Reads /\ n < Len(sent) /\ n \in 0 .. Len(sent) - 1
        /\ sent \in Seq(Keyed) /\ f \in Keyed /\ Readable(f)
        /\ Payload = f.payload /\ fr.op = f.op /\ in \o lost = T[n + 1]
        /\ ~ Dead(sent, n) /\ Assembled(sent, n, b, started, buffer, current_opcode)
        /\ started \in BOOLEAN /\ buffer \in Seq(Bits)
    BY <1>1, FrameReadFacts
  <1>3. f.op = "ping" /\ f.op \in Control
    BY <1>2 DEF OnPing, Control
  <1>4. /\ n + 1 \notin DataFrames(sent) /\ ~ Refused(sent, n + 1)
        /\ Reply(sent, n + 1) = Frame("pong", f.payload)
    BY <1>2, <1>3, ReplyToControl
  <1>5. Frame("pong", f.payload) # None
    <2>1. "pong" \in Opcodes /\ f.payload \in Seq(Bits)
      BY <1>2, FrameFields DEF Opcodes, Control
    <2> QED  BY <2>1, FrameType
  <1>6. Answered(n, "head")
    BY <1>2, <1>4, <1>5 DEF Answered, OnPing, Send
  <1>7. Assembled(sent, n + 1, b, started, buffer, current_opcode)
    BY <1>2, <1>4, AssembledControl
  <1>8. ~ Dead(sent, n + 1)
    BY <1>2, <1>3, <1>4, AliveNext
  <1>9. UNCHANGED <<acceptVars, clientVars, in, out>> /\ UNCHANGED messageVars /\ got' = << >>
    BY DEF OnPing
  <1>10. /\ Assembled(sent, n + 1, b, started', buffer', current_opcode')
         /\ started' \in BOOLEAN /\ buffer' \in Seq(Bits)
    BY <1>2, <1>7, <1>9 DEF messageVars
  <1> DEFINE next == "head"
  <1>11. next \in {"head", "close"} /\ Answered(n, next) /\ next # "close"
    BY <1>6
  <1> HIDE DEF next, f
  <1> QED  BY <1>2, <1>8, <1>9, <1>10, <1>11, FrameEnds

LEMMA OnPongStep ==
    ASSUME Types, NEW n, NEW b, NEW T, NEW R, NEW lost, Serving(n, b, T, R, lost), OnPong
    PROVE  Serving(n + 1, b, T, R, lost)'
  <1> DEFINE f == sent[n + 1]
  <1>1. FrameRead
    BY DEF OnPong
  <1>2. /\ place \in Reads /\ n < Len(sent) /\ n \in 0 .. Len(sent) - 1
        /\ sent \in Seq(Keyed) /\ f \in Keyed /\ Readable(f)
        /\ fr.op = f.op /\ in \o lost = T[n + 1]
        /\ ~ Dead(sent, n) /\ Assembled(sent, n, b, started, buffer, current_opcode)
        /\ started \in BOOLEAN /\ buffer \in Seq(Bits)
    BY <1>1, FrameReadFacts
  <1>3. f.op = "pong" /\ f.op \in Control
    BY <1>2 DEF OnPong, Control
  <1>4. /\ n + 1 \notin DataFrames(sent) /\ ~ Refused(sent, n + 1)
        /\ Reply(sent, n + 1) = None
    BY <1>2, <1>3, ReplyToControl
  <1>5. msg' = None
    <2>1. msg = None
      <3>1. Sends
        BY DEF Serving
      <3>2. place \notin Sending
        BY <1>2 DEF Reads, Lengths, Sending
      <3> QED  BY <3>1, <3>2 DEF Sends
    <2> QED  BY <2>1 DEF OnPong, sendVars
  <1>6. Answered(n, "head")
    BY <1>4, <1>5 DEF Answered, OnPong
  <1>7. Assembled(sent, n + 1, b, started, buffer, current_opcode)
    BY <1>2, <1>4, AssembledControl
  <1>8. ~ Dead(sent, n + 1)
    BY <1>2, <1>3, <1>4, AliveNext
  <1>9. UNCHANGED <<acceptVars, clientVars, in, out>> /\ UNCHANGED messageVars /\ got' = << >>
    BY DEF OnPong, sendVars
  <1>10. /\ Assembled(sent, n + 1, b, started', buffer', current_opcode')
         /\ started' \in BOOLEAN /\ buffer' \in Seq(Bits)
    BY <1>2, <1>7, <1>9 DEF messageVars
  <1> DEFINE next == "head"
  <1>11. next \in {"head", "close"} /\ Answered(n, next) /\ next # "close"
    BY <1>6
  <1> HIDE DEF next, f
  <1> QED  BY <1>2, <1>8, <1>9, <1>10, <1>11, FrameEnds

LEMMA OnCloseStep ==
    ASSUME Types, NEW n, NEW b, NEW T, NEW R, NEW lost, Serving(n, b, T, R, lost), OnClose
    PROVE  Serving(n + 1, b, T, R, lost)'
  <1> DEFINE f == sent[n + 1]
             code == IF Len(Payload) >= 2 THEN Number(SubSeq(Payload, 1, 2)) ELSE DefaultCode
             reply == IF Len(f.payload) < 2 THEN Digits(DefaultCode, 2) ELSE f.payload
  <1>1. FrameRead
    BY DEF OnClose
  <1>2. /\ place \in Reads /\ n < Len(sent) /\ n \in 0 .. Len(sent) - 1
        /\ sent \in Seq(Keyed) /\ f \in Keyed /\ Readable(f)
        /\ Payload = f.payload /\ fr.op = f.op
        /\ ~ Dead(sent, n)
        /\ started \in BOOLEAN /\ buffer \in Seq(Bits)
    BY <1>1, FrameReadFacts
  <1>3. f.op = "close" /\ f.op \in Control
    BY <1>2 DEF OnClose, Control
  <1>4. Reply(sent, n + 1) = Frame("close", reply)
    BY <1>2, <1>3, ReplyToControl
  <1>5. f.payload \in Seq(Bits)
    BY <1>2, FrameFields
  <1>6. Digits(code, 2) \o SubSeq(Payload, 3, Len(Payload)) = reply
    <2> DEFINE p == Payload
    <2>1. p \in Seq(Bits) /\ reply = IF Len(p) < 2 THEN Digits(DefaultCode, 2) ELSE p
      BY <1>2, <1>5
    <2>2. code = IF Len(p) >= 2 THEN Number(SubSeq(p, 1, 2)) ELSE DefaultCode
      OBVIOUS
    <2> HIDE DEF p, code, reply
    <2>3. Digits(code, 2) \o SubSeq(p, 3, Len(p)) =
            IF Len(p) < 2 THEN Digits(DefaultCode, 2) ELSE p
      BY <2>1, <2>2, CloseEchoes
    <2> QED  BY <2>1, <2>3 DEF p
  <1>7. place' = "send_header" /\ after' = "close"
        /\ msg' = Frame("close", Digits(code, 2) \o SubSeq(Payload, 3, Len(Payload)))
    BY DEF OnClose, Send
  <1>8. Frame("close", reply) # None
    <2>1. "close" \in Opcodes /\ reply \in Seq(Bits)
      <3>1. Digits(DefaultCode, 2) \in Seq(Bits)
        BY DigitsAre DEF DefaultCode, Bits
      <3> QED  BY <1>5, <3>1 DEF Opcodes, Control
    <2> HIDE DEF reply
    <2> QED  BY <2>1, FrameType
  <1>9. Answered(n, "close")
    BY <1>4, <1>6, <1>7, <1>8 DEF Answered
  <1>10. Dead(sent, n + 1)
    BY <1>2, <1>3, DeadNext
  <1>11. UNCHANGED <<acceptVars, clientVars, in, out>> /\ UNCHANGED messageVars /\ got' = << >>
    BY DEF OnClose
  <1>12. started' \in BOOLEAN /\ buffer' \in Seq(Bits)
    BY <1>2, <1>11 DEF messageVars
  <1> DEFINE next == "close"
  <1>13. next \in {"head", "close"} /\ Answered(n, next) /\ next # "head"
    BY <1>9
  <1> HIDE DEF next, f
  <1> QED  BY <1>2, <1>10, <1>11, <1>12, <1>13, FrameEnds

LEMMA OnBadSequenceStep ==
    ASSUME Types, NEW n, NEW b, NEW T, NEW R, NEW lost, Serving(n, b, T, R, lost), OnBadSequence
    PROVE  Serving(n + 1, b, T, R, lost)'
  <1> DEFINE f == sent[n + 1]
  <1>1. FrameRead
    BY DEF OnBadSequence
  <1>2. /\ place \in Reads /\ n < Len(sent) /\ n \in 0 .. Len(sent) - 1
        /\ sent \in Seq(Keyed) /\ Readable(f) /\ fr.op = f.op
        /\ ~ Dead(sent, n) /\ Assembled(sent, n, b, started, buffer, current_opcode)
    BY <1>1, FrameReadFacts
  <1>3. f.op \notin Control /\ (f.op = "continuation") # started
    BY <1>2 DEF OnBadSequence, OutOfSequence
  <1>4. Refused(sent, n + 1) <=> (f.op = "continuation") # started
    BY <1>2, <1>3, ReplyToData
  <1>5. /\ UNCHANGED <<acceptVars, clientVars, in, messageVars, sendVars>>
        /\ place' = "close" /\ got' = << >>
    BY DEF OnBadSequence
  <1> HIDE DEF f
  <1> QED  BY <1>2, <1>3, <1>4, <1>5, FrameRefused

LEMMA OnFragmentStep ==
    ASSUME Types, NEW n, NEW b, NEW T, NEW R, NEW lost, Serving(n, b, T, R, lost), OnFragment
    PROVE  Serving(n + 1, b, T, R, lost)'
  <1> DEFINE f == sent[n + 1]
  <1>1. FrameRead
    BY DEF OnFragment
  <1>2. /\ place \in Reads /\ n < Len(sent) /\ n \in 0 .. Len(sent) - 1
        /\ sent \in Seq(Keyed) /\ f \in Keyed /\ Readable(f) /\ Payload = f.payload
        /\ fr.op = f.op /\ fr.fin = f.fin /\ in \o lost = T[n + 1]
        /\ ~ Dead(sent, n) /\ Assembled(sent, n, b, started, buffer, current_opcode)
        /\ started \in BOOLEAN /\ buffer \in Seq(Bits)
    BY <1>1, FrameReadFacts
  <1>3. f.op \notin Control /\ (f.op = "continuation") = started /\ ~ f.fin
    BY <1>2 DEF OnFragment, OutOfSequence
  <1>4. n + 1 \in DataFrames(sent) /\ ~ Refused(sent, n + 1) /\ Reply(sent, n + 1) = None
    BY <1>2, <1>3, ReplyToData
  <1>5. msg' = None
    <2>1. msg = None
      <3>1. Sends
        BY DEF Serving
      <3>2. place \notin Sending
        BY <1>2 DEF Reads, Lengths, Sending
      <3> QED  BY <3>1, <3>2 DEF Sends
    <2> QED  BY <2>1 DEF OnFragment, sendVars
  <1>6. Answered(n, "head")
    BY <1>4, <1>5 DEF Answered, OnFragment
  <1>7. /\ buffer' = SoFar(started, buffer) \o f.payload
        /\ current_opcode' = IF started THEN current_opcode ELSE f.op
        /\ started' = TRUE
    BY <1>2 DEF OnFragment, SoFar
  <1>8. Assembled(sent, n + 1, b, started', buffer', current_opcode')
    <2>1. Assembled(sent, n + 1, b, TRUE, SoFar(started, buffer) \o sent[n + 1].payload,
                    IF started THEN current_opcode ELSE sent[n + 1].op)
      BY <1>2, <1>3, <1>4, AssembledFragment
    <2> QED  BY <1>7, <2>1
  <1>9. ~ Dead(sent, n + 1)
    <2>1. f.op # "close"
      BY <1>3 DEF Control
    <2> QED  BY <1>2, <1>4, <2>1, AliveNext
  <1>10. UNCHANGED <<acceptVars, clientVars, in, out>> /\ got' = << >>
    BY DEF OnFragment, sendVars
  <1>11. started' \in BOOLEAN /\ buffer' \in Seq(Bits)
    BY <1>7, <1>8 DEF Assembled
  <1> DEFINE next == "head"
  <1>12. next \in {"head", "close"} /\ Answered(n, next) /\ next # "close"
    BY <1>6
  <1> HIDE DEF next, f
  <1> QED  BY <1>2, <1>8, <1>9, <1>10, <1>11, <1>12, FrameEnds

LEMMA OnMessageStep ==
    ASSUME Types, NEW n, NEW b, NEW T, NEW R, NEW lost, Serving(n, b, T, R, lost), OnMessage
    PROVE  Serving(n + 1, n + 1, T, R, lost)'
  <1> DEFINE f == sent[n + 1]
             op == IF started THEN current_opcode ELSE f.op
             whole == SoFar(started, buffer) \o f.payload
  <1>1. FrameRead
    BY DEF OnMessage
  <1>2. /\ place \in Reads /\ n < Len(sent) /\ n \in 0 .. Len(sent) - 1
        /\ sent \in Seq(Keyed) /\ f \in Keyed /\ Readable(f) /\ Payload = f.payload
        /\ fr.op = f.op /\ fr.fin = f.fin /\ in \o lost = T[n + 1]
        /\ ~ Dead(sent, n) /\ Assembled(sent, n, b, started, buffer, current_opcode)
        /\ started \in BOOLEAN /\ buffer \in Seq(Bits)
    BY <1>1, FrameReadFacts
  <1>3. f.op \notin Control /\ (f.op = "continuation") = started /\ f.fin
    BY <1>2 DEF OnMessage, OutOfSequence
  <1>4. n + 1 \in DataFrames(sent) /\ ~ Refused(sent, n + 1)
    <2>1. n + 1 \in DataFrames(sent) /\ (Refused(sent, n + 1) <=> (f.op = "continuation") # started)
      BY <1>2, <1>3, ReplyToData, SMTT(60)
    <2> QED  BY <1>3, <2>1
  <1>5. Reply(sent, n + 1) = IF op \in {"text", "binary"} THEN Frame(op, whole) ELSE None
    BY <1>2, <1>3, <1>4, ReplyToData
  <1>6. whole \in Seq(Bits)
    BY <1>2, <1>4, AssembledWhole
  <1>7. IF op \in {"text", "binary"}
        THEN msg' = Frame(op, whole) /\ after' = "head" /\ place' = "send_header"
        ELSE place' = "head" /\ UNCHANGED <<msg, after>>
    BY <1>2 DEF OnMessage, Send, SoFar
  <1>8. msg = None
    <2>1. Sends
      BY DEF Serving
    <2>2. place \notin Sending
      BY <1>2 DEF Reads, Lengths, Sending
    <2> QED  BY <2>1, <2>2 DEF Sends
  <1> HIDE DEF op, whole
  <1>9. Answered(n, "head")
    <2>1. CASE op \in {"text", "binary"}
      <3>1. op \in Opcodes
        BY <2>1 DEF Opcodes
      <3>2. Frame(op, whole) # None
        BY <1>6, <3>1, FrameType
      <3> QED  BY <1>5, <1>7, <2>1, <3>2 DEF Answered
    <2>2. CASE op \notin {"text", "binary"}
      BY <1>5, <1>7, <1>8, <2>2 DEF Answered
    <2> QED  BY <2>1, <2>2
  <1>10. buffer' = << >> /\ started' = FALSE
    BY DEF OnMessage
  <1>11. Assembled(sent, n + 1, n + 1, started', buffer', current_opcode')
    <2>1. Assembled(sent, n + 1, n + 1, FALSE, << >>, current_opcode')
      BY <1>2, <1>3, <1>4, AssembledEnd
    <2> QED  BY <1>10, <2>1
  <1>12. ~ Dead(sent, n + 1)
    <2>1. f.op # "close"
      BY <1>3 DEF Control
    <2> QED  BY <1>2, <1>4, <2>1, AliveNext
  <1>13. UNCHANGED <<acceptVars, clientVars, in, out>> /\ got' = << >>
    BY DEF OnMessage
  <1>14. started' \in BOOLEAN /\ buffer' \in Seq(Bits)
    BY <1>10, EmptySeq
  <1> DEFINE next == "head"  b1 == n + 1
  <1>15. next \in {"head", "close"} /\ Answered(n, next) /\ next # "close"
    BY <1>9
  <1>16. Assembled(sent, n + 1, b1, started', buffer', current_opcode')
    BY <1>11
  <1> HIDE DEF next, f, b1
  <1>17. Serving(n + 1, b1, T, R, lost)'
    BY <1>2, <1>12, <1>13, <1>14, <1>15, <1>16, FrameEnds
  <1> QED  BY <1>17 DEF b1

-----------------------------------------------------------------------------
(* send_frame, the end of the handler and the client.                      *)

(* What has been sent of what is owed.                                      *)
LEMMA OwedMoves ==
    ASSUME NEW x \in Seq(Octets), NEW y \in Seq(Octets), NEW z \in Seq(Octets)
    PROVE  SameRest(x \o y, z, x, y \o z)
  BY ConcatAssociates DEF Associates, SameRest

LEMMA SendsOn ==
    ASSUME Types, NEW n, NEW b, NEW T, NEW R, NEW lost, Serving(n, b, T, R, lost),
           UNCHANGED <<acceptVars, clientVars, in, got, fr, messageVars>>, place \in Sending,
           \/ place' = after /\ msg' = None
           \/ place' = "send_payload" /\ UNCHANGED <<msg, after>>,
           client # "reset" => Answer(sent) = out' \o (Due' \o R[n])
    PROVE  Serving(n, b, T, R, lost)'
  <1>1. /\ Switched /\ Lists(n, T, R) /\ Streams(lost) /\ Sends
        /\ Reader(n, b, T, lost) /\ Ended(n)
        /\ started \in BOOLEAN /\ buffer \in Seq(Bits)
    BY DEF Serving
  <1>2. got = << >> /\ after \in {"head", "close"} /\ msg \in Keyed
    BY <1>1 DEF Sends
  <1>3. Stage = after /\ Stage' = after
    BY <1>2 DEF Stage, Sending
  <1>4. Switched'
    BY <1>1 DEF Switched, acceptVars
  <1>5. Lists(n, T, R)'
    BY <1>1 DEF Lists, clientVars
  <1>6. Streams(lost)'
    <2>1. place' \in Reads => place' = "head"
      BY <1>2 DEF Reads, Lengths
    <2>2. got' = << >> /\ Len(<< >>) = 0
      BY <1>2, EmptySeq
    <2>3. place' \in Reads => Len(got') <= ItemLength(place', fr')
      BY <2>1, <2>2 DEF ItemLength
    <2> QED  BY <1>1, <2>3 DEF Streams, clientVars
  <1>7. Sends'
    BY <1>2 DEF Sends, Sending, Reads
  <1>8. Reader(n, b, T, lost)'
    <2>1. after \in Reads => after = "head"
      BY <1>2 DEF Reads, Lengths
    <2> QED  BY <1>1, <1>3, <2>1 DEF Reader, Rest, clientVars, messageVars
  <1>9. Ended(n)'
    BY <1>1, <1>3 DEF Ended, clientVars
  <1>10. Owed(n, R)'
    BY DEF Owed, clientVars
  <1>11. started' \in BOOLEAN /\ buffer' \in Seq(Bits)
    BY <1>1 DEF messageVars
  <1> QED  BY <1>4, <1>5, <1>6, <1>7, <1>8, <1>9, <1>10, <1>11 DEF Serving

LEMMA SendHeaderStep ==
    ASSUME Types, NEW n, NEW b, NEW T, NEW R, NEW lost, Serving(n, b, T, R, lost), SendHeader
    PROVE  /\ Serving(n, b, T, R, lost)' /\ out' \in Seq(Octets)
           /\ client = "reset" => UNCHANGED out
  <1>1. place = "send_header" /\ place \in Sending
    BY DEF SendHeader, Sending
  <1>2. Lists(n, T, R) /\ Sends /\ Owed(n, R) /\ out \in Seq(Octets)
    BY DEF Serving, Types
  <1>3. msg \in Keyed /\ Due = Wire(msg) /\ after \in {"head", "close"}
    BY <1>1, <1>2 DEF Sends, Due
  <1>4. Header(msg) \in Seq(Octets) /\ Body(msg) \in Seq(Octets) /\ R[n] \in Seq(Octets)
        /\ Len(Body(msg)) = Len(msg.payload) /\ msg.payload \in Seq(Bits)
    BY <1>2, <1>3, WireParts, BodyFacts, FrameFields, Zenon DEF Lists, Behind
  <1>5. UNCHANGED <<acceptVars, clientVars, in, got, fr, messageVars>>
    BY DEF SendHeader
  <1>6. CASE client = "reset"
    <2>1. place' = after /\ msg' = None /\ UNCHANGED out
      BY <1>6 DEF SendHeader, SendDone
    <2>2. Serving(n, b, T, R, lost)'
      BY <1>1, <1>5, <1>6, <2>1, SendsOn
    <2> QED  BY <1>2, <2>1, <2>2
  <1>7. CASE client # "reset"
    <2>1. out' = out \o Header(msg)
      BY <1>7 DEF SendHeader
    <2>2. \/ place' = after /\ msg' = None /\ msg.payload = << >>
          \/ place' = "send_payload" /\ UNCHANGED <<msg, after>>
      BY <1>7 DEF SendHeader, SendDone
    <2>3. Due' = Body(msg)
      <3>1. CASE place' = after /\ msg' = None /\ msg.payload = << >>
        <4>1. Due' = << >>
          BY <1>3, <3>1 DEF Due
        <4>2. Len(Body(msg)) = 0
          BY <1>4, <3>1, EmptySeq
        <4>3. Body(msg) = << >>
          BY <1>4, <4>2, EmptySeq
        <4> QED  BY <4>1, <4>3
      <3>2. CASE place' = "send_payload" /\ UNCHANGED <<msg, after>>
        BY <3>2 DEF Due
      <3> QED  BY <2>2, <3>1, <3>2
    <2>4. Answer(sent) = out \o ((Header(msg) \o Body(msg)) \o R[n])
      BY <1>2, <1>3, <1>7 DEF Owed, Wire
    <2> DEFINE h == Header(msg)  y == Body(msg)  z == R[n]
    <2>5. h \in Seq(Octets) /\ y \in Seq(Octets) /\ z \in Seq(Octets)
          /\ Answer(sent) = out \o ((h \o y) \o z)
      BY <1>4, <2>4
    <2> HIDE DEF h, y, z
    <2>6. y \o z \in Seq(Octets)
      BY <2>5, ConcatProperties
    <2>7. SameRest(h \o y, z, h, y \o z) /\ SameRest(out \o h, y \o z, out, h \o (y \o z))
      BY <1>2, <2>5, <2>6, OwedMoves
    <2>8. Answer(sent) = (out \o h) \o (y \o z)
      BY <2>5, <2>7 DEF SameRest
    <2>9. Answer(sent) = out' \o (Due' \o R[n])
      BY <2>1, <2>3, <2>8 DEF h, y, z
    <2>10. Serving(n, b, T, R, lost)'
      BY <1>1, <1>5, <2>2, <2>9, SendsOn
    <2>11. out' \in Seq(Octets)
      BY <1>2, <1>4, <2>1, ConcatProperties
    <2> QED  BY <1>7, <2>10, <2>11
  <1> QED  BY <1>6, <1>7

LEMMA SendPayloadStep ==
    ASSUME Types, NEW n, NEW b, NEW T, NEW R, NEW lost, Serving(n, b, T, R, lost), SendPayload
    PROVE  /\ Serving(n, b, T, R, lost)' /\ out' \in Seq(Octets)
           /\ client = "reset" => UNCHANGED out
  <1>1. place = "send_payload" /\ place \in Sending
    BY DEF SendPayload, Sending
  <1>2. Lists(n, T, R) /\ Sends /\ Owed(n, R) /\ out \in Seq(Octets)
    BY DEF Serving, Types
  <1>3. msg \in Keyed /\ Due = Body(msg) /\ after \in {"head", "close"}
    BY <1>1, <1>2 DEF Sends, Due
  <1>4. Body(msg) \in Seq(Octets) /\ R[n] \in Seq(Octets)
    BY <1>2, <1>3, BodyFacts, Zenon DEF Lists, Behind
  <1>5. UNCHANGED <<acceptVars, clientVars, in, got, fr, messageVars>>
        /\ place' = after /\ msg' = None
        /\ out' = IF client = "reset" THEN out ELSE out \o Body(msg)
    BY DEF SendPayload, SendDone
  <1>6. Due' = << >>
    BY <1>3, <1>5 DEF Due
  <1>7. ASSUME client # "reset" PROVE Answer(sent) = out' \o (Due' \o R[n])
    <2> DEFINE y == Body(msg)  z == R[n]
    <2>1. y \in Seq(Octets) /\ z \in Seq(Octets) /\ Answer(sent) = out \o (y \o z)
      BY <1>2, <1>3, <1>4, <1>7 DEF Owed
    <2>2. out' = out \o y
      BY <1>5, <1>7
    <2> HIDE DEF y, z
    <2>3. SameRest(out \o y, z, out, y \o z)
      BY <1>2, <2>1, OwedMoves
    <2>4. << >> \o z = z
      BY <2>1, ConcatEmptySeq
    <2>5. Answer(sent) = (out \o y) \o z
      BY <2>1, <2>3 DEF SameRest
    <2> QED  BY <1>6, <2>2, <2>4, <2>5 DEF z
  <1>8. Serving(n, b, T, R, lost)'
    BY <1>1, <1>5, <1>7, SendsOn
  <1>9. out' \in Seq(Octets)
    <2>1. out \o Body(msg) \in Seq(Octets)
      BY <1>2, <1>4, ConcatProperties
    <2> QED  BY <1>2, <1>5, <2>1
  <1> QED  BY <1>5, <1>8, <1>9

LEMMA CloseStep ==
    ASSUME Types, NEW n, NEW b, NEW T, NEW R, NEW lost, Serving(n, b, T, R, lost), Close
    PROVE  Serving(n, b, T, R, lost)'
  <1>1. /\ Switched /\ Lists(n, T, R) /\ Streams(lost) /\ Sends
        /\ Reader(n, b, T, lost) /\ Ended(n) /\ Owed(n, R)
        /\ started \in BOOLEAN /\ buffer \in Seq(Bits)
    BY DEF Serving
  <1>2. place = "close" /\ place' = "closed"
    BY <1>1 DEF Close, Sends, Reads, Lengths, Sending
  <1>3. UNCHANGED <<acceptVars, clientVars, in, got, fr, messageVars, sendVars>>
    BY DEF Close
  <1>4. /\ Stage = "close" /\ Stage' = "closed" /\ Due = << >> /\ Due' = << >>
        /\ "close" \notin Reads /\ "closed" \notin Reads
    BY <1>2 DEF Stage, Due, Sending, Reads, Lengths
  <1>5. Switched'
    BY <1>1, <1>3 DEF Switched, acceptVars
  <1>6. Lists(n, T, R)'
    BY <1>1, <1>3 DEF Lists, clientVars
  <1>7. Streams(lost)'
    BY <1>1, <1>2, <1>3, <1>4 DEF Streams, clientVars
  <1>8. Sends'
    BY <1>1, <1>2, <1>3 DEF Sends, sendVars, Sending
  <1>9. Reader(n, b, T, lost)'
    BY <1>4 DEF Reader
  <1>10. Ended(n)'
    BY <1>1, <1>3, <1>4 DEF Ended, clientVars
  <1>11. Owed(n, R)'
    BY <1>1, <1>3, <1>4 DEF Owed, clientVars, sendVars
  <1>12. started' \in BOOLEAN /\ buffer' \in Seq(Bits)
    BY <1>1, <1>3 DEF messageVars
  <1> QED  BY <1>5, <1>6, <1>7, <1>8, <1>9, <1>10, <1>11, <1>12 DEF Serving

LEMMA ClientShutsStep ==
    ASSUME Types, NEW n, NEW b, NEW T, NEW R, NEW lost, Serving(n, b, T, R, lost), ClientShuts
    PROVE  Serving(n, b, T, R, lost)'
  <1>1. /\ Switched /\ Lists(n, T, R) /\ Streams(lost) /\ Sends
        /\ Reader(n, b, T, lost) /\ Ended(n) /\ Owed(n, R)
        /\ started \in BOOLEAN /\ buffer \in Seq(Bits)
    BY DEF Serving
  <1>2. /\ client = "open" /\ client' = "shut"
        /\ UNCHANGED <<acceptVars, in, sent, place, got, fr, messageVars, sendVars>>
    BY DEF ClientShuts
  <1>3. UNCHANGED <<Stage, Due>>
    BY <1>2 DEF Stage, Due, sendVars
  <1>4. Switched'
    BY <1>1, <1>2 DEF Switched, acceptVars
  <1>5. Lists(n, T, R)'
    BY <1>1, <1>2 DEF Lists
  <1>6. Streams(lost)'
    BY <1>1, <1>2 DEF Streams
  <1>7. Sends'
    BY <1>1, <1>2 DEF Sends, sendVars
  <1>8. Reader(n, b, T, lost)'
    BY <1>1, <1>2, <1>3 DEF Reader, messageVars
  <1>9. Ended(n)'
    BY <1>1, <1>2, <1>3 DEF Ended
  <1>10. Owed(n, R)'
    BY <1>1, <1>2, <1>3 DEF Owed, sendVars
  <1>11. started' \in BOOLEAN /\ buffer' \in Seq(Bits)
    BY <1>1, <1>2 DEF messageVars
  <1> QED  BY <1>4, <1>5, <1>6, <1>7, <1>8, <1>9, <1>10, <1>11 DEF Serving

LEMMA ClientResetsStep ==
    ASSUME Types, NEW n, NEW b, NEW T, NEW R, NEW lost, Serving(n, b, T, R, lost), ClientResets
    PROVE  \E rest : Serving(n, b, T, R, rest)'
  <1>1. /\ Switched /\ Lists(n, T, R) /\ Streams(lost) /\ Sends
        /\ Reader(n, b, T, lost) /\ Ended(n) /\ Owed(n, R)
        /\ started \in BOOLEAN /\ buffer \in Seq(Bits)
    BY DEF Serving
  <1>2. /\ client' = "reset" /\ in' = << >>
        /\ UNCHANGED <<acceptVars, sent, place, got, fr, messageVars, sendVars>>
    BY DEF ClientResets
  <1>3. UNCHANGED Stage
    BY <1>2 DEF Stage, sendVars
  <1>4. /\ got \in Seq(Octets) /\ in \in Seq(Octets) /\ lost \in Seq(Octets)
        /\ in \o lost \in Seq(Octets) /\ << >> \in Seq(Octets)
    BY <1>1, EmptySeq, ConcatProperties DEF Streams
  <1>5. (got \o << >>) \o (in \o lost) = (got \o in) \o lost
    <2>1. got \o << >> = got
      BY <1>4, ConcatEmptySeq
    <2>2. SameRest(got \o in, lost, got, in \o lost)
      BY <1>4, OwedMoves
    <2> QED  BY <2>1, <2>2 DEF SameRest
  <1>6. Switched'
    BY <1>1, <1>2 DEF Switched, acceptVars
  <1>7. Lists(n, T, R)'
    BY <1>1, <1>2 DEF Lists
  <1>8. PICK rest : rest \in Seq(Octets) /\ (got \o << >>) \o rest = (got \o in) \o lost
    BY <1>4, <1>5
  <1>9. Streams(rest)'
    BY <1>1, <1>2, <1>4, <1>8 DEF Streams
  <1>10. Sends'
    BY <1>1, <1>2 DEF Sends, sendVars
  <1>11. Reader(n, b, T, rest)'
    BY <1>1, <1>2, <1>3, <1>8 DEF Reader, messageVars
  <1>12. Ended(n)' /\ Owed(n, R)'
    BY <1>2 DEF Ended, Owed
  <1>13. started' \in BOOLEAN /\ buffer' \in Seq(Bits)
    BY <1>1, <1>2 DEF messageVars
  <1>14. Serving(n, b, T, R, rest)'
    BY <1>6, <1>7, <1>9, <1>10, <1>11, <1>12, <1>13 DEF Serving
  <1> QED  BY <1>14

LEMMA ClientSendsStep ==
    ASSUME Types, NEW n, NEW b, NEW T, NEW R, NEW lost, Serving(n, b, T, R, lost),
           NEW f \in ClientFrames, ClientSends(f)
    PROVE  \E T1, R1 : Serving(n, b, T1, R1, lost)'
  <1> DEFINE t == Append(sent, f)  w == Wire(f)  x == Replies(t)[Len(sent) + 1]
  <1>1. /\ Switched /\ Lists(n, T, R) /\ Streams(lost) /\ Sends
        /\ Reader(n, b, T, lost) /\ Ended(n) /\ Owed(n, R)
        /\ started \in BOOLEAN /\ buffer \in Seq(Bits)
    BY DEF Serving
  <1>2. /\ client = "open" /\ in' = in \o w /\ sent' = t
        /\ UNCHANGED <<acceptVars, client, place, got, fr, messageVars, sendVars>>
    BY DEF ClientSends
  <1>3. UNCHANGED <<Stage, Due>>
    BY <1>2 DEF Stage, Due, sendVars
  <1>4. sent \in Seq(Keyed) /\ Len(sent) \in Nat /\ out \in Seq(Octets) /\ f \in Keyed
    BY SentFacts, ClientFramesKeyed
  <1>5. Appended(sent, f, t)
    BY DEF Appended
  <1>6. lost = << >>
    BY <1>1, <1>2 DEF Streams
  <1>7. w \in Seq(Octets)
    BY <1>4, WireParts
  <1>8. n \in 0 .. Len(sent)
    BY <1>1 DEF Lists
  <1> HIDE DEF t, w
  <1>9. /\ t \in Seq(Keyed) /\ Len(t) = Len(sent) + 1
        /\ \A i \in 1 .. Len(sent) : t[i] = sent[i]
    BY <1>4, <1>5, AppendKeeps
  <1>10. PICK T1 : Behind(T1, Wires(t), Len(t), Octets) /\ EachGrows(T1, T, Len(sent), w)
    <2> DEFINE p == Wires(sent)  q == Wires(t)  m == Len(sent)
    <2>1. /\ p \in [1 .. m -> Seq(Octets)] /\ q \in [1 .. m + 1 -> Seq(Octets)]
          /\ SameParts(p, q, m)
          /\ q[m + 1] = w /\ m \in Nat
      BY <1>4, <1>5, WiresGrow DEF SameParts, w
    <2>2. Behind(T, p, m, Octets)
      BY <1>1 DEF Lists
    <2> HIDE DEF p, q, m
    <2>3. PICK U : Behind(U, q, m + 1, Octets) /\ EachGrows(U, T, m, q[m + 1])
      BY <2>1, <2>2, BehindGrows
    <2> QED  BY <1>9, <2>1, <2>3 DEF p, q, m
  <1>11. /\ x \in Seq(Octets)
         /\ \E U : Behind(U, Replies(t), Len(t), Octets) /\ EachGrows(U, R, Len(sent), x)
    <2> DEFINE p == Replies(sent)  q == Replies(t)  m == Len(sent)
    <2>1. /\ p \in [1 .. m -> Seq(Octets)] /\ q \in [1 .. m + 1 -> Seq(Octets)]
          /\ SameParts(p, q, m)
      BY <1>4, <1>5, RepliesGrow DEF SameParts
    <2>2. q[m + 1] = x /\ m \in Nat /\ m + 1 \in 1 .. m + 1
      BY <1>4
    <2>3. Behind(R, p, m, Octets)
      BY <1>1 DEF Lists
    <2> HIDE DEF p, q, m, x
    <2>4. PICK U : Behind(U, q, m + 1, Octets) /\ EachGrows(U, R, m, q[m + 1])
      BY <2>1, <2>2, <2>3, BehindGrows
    <2>5. x \in Seq(Octets)
      BY <2>1, <2>2
    <2> QED  BY <1>9, <2>2, <2>4, <2>5 DEF p, q, m
  <1>12. PICK R1 : Behind(R1, Replies(t), Len(t), Octets) /\ EachGrows(R1, R, Len(sent), x)
    BY <1>11
  <1>13. Answer(t) = Answer(sent) \o x
    BY <1>4, <1>5, AnswerGrows
  <1>14. Switched'
    BY <1>1, <1>2 DEF Switched, acceptVars
  <1>15. n \in 0 .. Len(t)
    BY <1>4, <1>8, <1>9
  <1>16. Lists(n, T1, R1)'
    BY <1>2, <1>10, <1>12, <1>15 DEF Lists
  <1>17. got \in Seq(Octets) /\ in \in Seq(Octets) /\ in \o w \in Seq(Octets)
    BY <1>1, <1>7, ConcatProperties DEF Streams
  <1>18. Streams(lost)'
    BY <1>1, <1>2, <1>17 DEF Streams
  <1>19. Sends'
    BY <1>1, <1>2 DEF Sends, sendVars
  <1>20. Reader(n, b, T1, lost)'
    <2> SUFFICES ASSUME Stage \in Reads
                 PROVE  /\ (got \o (in \o w)) \o lost = Rest(Stage, t, n, T1)
                        /\ Stage # "head" => n < Len(t) /\ FrameAt(Stage, t[n + 1], fr)
                        /\ ~ Dead(t, n) /\ Assembled(t, n, b, started, buffer, current_opcode)
      BY <1>2, <1>3 DEF Reader, messageVars
    <2>1. /\ (got \o in) \o lost = Rest(Stage, sent, n, T)
          /\ Stage # "head" => n < Len(sent) /\ FrameAt(Stage, sent[n + 1], fr)
          /\ ~ Dead(sent, n) /\ Assembled(sent, n, b, started, buffer, current_opcode)
      BY <1>1 DEF Reader
    <2>2. ~ Dead(t, n)
      BY <1>4, <1>5, <1>8, <2>1, AppendDead
    <2>3. Assembled(t, n, b, started, buffer, current_opcode)
      BY <1>4, <1>5, <1>8, <2>1, AssembledAppend
    <2>4. Stage # "head" => n + 1 \in 1 .. Len(sent) /\ n + 1 \in 0 .. Len(sent)
      BY <1>4, <1>8, <2>1
    <2>5. Stage # "head" => n < Len(t) /\ FrameAt(Stage, t[n + 1], fr)
      BY <1>4, <1>8, <1>9, <2>1, <2>4
    <2>6. (got \o in) \o << >> = got \o in /\ (got \o (in \o w)) \o << >> = got \o (in \o w)
          /\ got \o in \in Seq(Octets)
      <3>1. got \o in \in Seq(Octets) /\ got \o (in \o w) \in Seq(Octets)
        BY <1>17, ConcatProperties
      <3> QED  BY <3>1, ConcatEmptySeq
    <2>7. (got \o in) \o w = got \o (in \o w)
      <3>1. SameRest(got \o in, w, got, in \o w)
        BY <1>7, <1>17, OwedMoves
      <3> QED  BY <3>1 DEF SameRest
    <2>8. Rest(Stage, t, n, T1) = Rest(Stage, sent, n, T) \o w
      <3>1. CASE Stage = "head"
        BY <1>8, <1>10, <3>1 DEF Rest, EachGrows
      <3>2. CASE Stage # "head"
        <4> DEFINE l == Left(Stage, sent[n + 1])  y == T[n + 1]
        <4>1. l \in Seq(Octets) /\ y \in Seq(Octets)
          <5>1. sent[n + 1] \in Keyed
            BY <2>4, <3>2, SentFacts
          <5>2. Left(Stage, sent[n + 1]) \in Seq(Octets)
            BY <5>1, LeftIs
          <5>3. T[n + 1] \in Seq(Octets)
            BY <1>1, <2>4, <3>2, Zenon DEF Lists, Behind
          <5> QED  BY <5>2, <5>3
        <4>2. t[n + 1] = sent[n + 1] /\ T1[n + 1] = T[n + 1] \o w
          BY <1>9, <1>10, <2>4, <3>2 DEF EachGrows
        <4>3. Rest(Stage, t, n, T1) = l \o (y \o w) /\ Rest(Stage, sent, n, T) = l \o y
          BY <3>2, <4>2 DEF Rest
        <4> HIDE DEF l, y
        <4>4. SameRest(l \o y, w, l, y \o w)
          BY <1>7, <4>1, OwedMoves
        <4> QED  BY <4>3, <4>4 DEF SameRest
      <3> QED  BY <3>1, <3>2
    <2>9. (got \o (in \o w)) \o lost = Rest(Stage, t, n, T1)
      BY <1>6, <2>1, <2>6, <2>7, <2>8
    <2> QED  BY <2>2, <2>3, <2>5, <2>9
  <1>21. Ended(n)'
    <2>1. Dead(sent, n) => Dead(t, n)
      BY <1>4, <1>5, <1>8, AppendDead
    <2> QED  BY <1>1, <1>2, <1>3, <2>1 DEF Ended
  <1>22. Owed(n, R1)'
    <2>1. Answer(sent) = out \o (Due \o R[n])
      BY <1>1, <1>2 DEF Owed
    <2>2. R1[n] = R[n] \o x /\ R[n] \in Seq(Octets)
      BY <1>1, <1>8, <1>12, Zenon DEF Lists, Behind, EachGrows
    <2>3. Due \in Seq(Octets)
      BY <1>1, WireParts, BodyFacts, EmptySeq DEF Due, Sends, Sending
    <2> DEFINE d == Due  y == R[n]
    <2>4. d \in Seq(Octets) /\ y \in Seq(Octets) /\ Answer(sent) = out \o (d \o y)
      BY <2>1, <2>2, <2>3
    <2>5. x \in Seq(Octets)
      BY <1>11
    <2> HIDE DEF d, y, x
    <2>6. d \o y \in Seq(Octets)
      BY <2>4, ConcatProperties
    <2>7. SameRest(out \o (d \o y), x, out, (d \o y) \o x) /\ SameRest(d \o y, x, d, y \o x)
      BY <1>4, <2>4, <2>5, <2>6, OwedMoves
    <2>8. Answer(t) = out \o (d \o (y \o x))
      BY <1>13, <2>4, <2>7 DEF SameRest
    <2>9. Answer(t) = out \o (Due \o R1[n])
      BY <2>2, <2>8 DEF d, y
    <2> QED  BY <1>2, <1>3, <2>9 DEF Owed, sendVars
  <1>23. started' \in BOOLEAN /\ buffer' \in Seq(Bits)
    BY <1>1, <1>2 DEF messageVars
  <1>24. Serving(n, b, T1, R1, lost)'
    BY <1>14, <1>16, <1>18, <1>19, <1>20, <1>21, <1>22, <1>23 DEF Serving
  <1> QED  BY <1>24

-----------------------------------------------------------------------------
(* accept.                                                                 *)

LEMMA OriginsAre ==
    ASSUME RequestAssumption, Types
    PROVE  OriginAllowed <=>
             (opts.check_origin /\ { x[1] : x \in opts.allowed_origins } # {} =>
                req.origin # None /\ req.origin[1] \in { x[1] : x \in opts.allowed_origins })
  <1>1. opts.check_origin \in BOOLEAN
    BY DEF RequestAssumption, Types
  <1>2. { x[1] : x \in opts.allowed_origins } = {} <=> opts.allowed_origins = {}
    OBVIOUS
  <1>3. req.origin[1] \in { x[1] : x \in opts.allowed_origins } <=>
          \E o \in opts.allowed_origins : req.origin[1] = o[1]
    OBVIOUS
  <1> QED  BY <1>1, <1>2, <1>3 DEF OriginAllowed, to_lower

(* The verdict is right.                                                    *)
LEMMA VerdictIs ==
    ASSUME Types, ~ req.malformed
    PROVE  req.get /\ HeadersValid /\ OriginAllowed <=> Fits(req, opts)
  <1>1. req.get \in BOOLEAN /\ req.malformed \in BOOLEAN
    BY RequestAssumption DEF Types
  <1> QED  BY <1>1, RequestAssumption, OriginsAre DEF Fits, HeadersValid

(* The subprotocol that is picked.                                          *)
LEMMA PickFacts ==
    ASSUME NEW c, NEW p, DOMAIN c \subseteq Nat, DOMAIN p \subseteq Nat,
           NEW C, C = { i \in DOMAIN c : \E q \in Range(p) : q[1] = c[i][1] }
    PROVE  IF C = {} THEN pick_subprotocol(c, p) = None
           ELSE pick_subprotocol(c, p) \in Range(p) /\ pick_subprotocol(c, p)[1] = c[Min(C)][1]
  <1> DEFINE Match(i) == { j \in DOMAIN p : to_lower(c[i]) = to_lower(p[j]) }
             Hits == { i \in DOMAIN c : Match(i) # {} }
  <1>1. Hits = C
    BY DEF to_lower, Range
  <1>2. pick_subprotocol(c, p) = IF Hits = {} THEN None ELSE p[Min(Match(Min(Hits)))]
    BY DEF pick_subprotocol
  <1>3. CASE C = {}
    BY <1>1, <1>2, <1>3
  <1>4. CASE C # {}
    <2>1. C \subseteq Nat
      OBVIOUS
    <2>2. Min(C) \in C
      <3>1. PICK b \in C : \A y \in C : b <= y
        BY <1>4, <2>1, FirstPosition
      <3>2. C \subseteq Int
        BY <2>1
      <3>3. Min(C) = b
        BY <3>1, <3>2, MinIs
      <3> QED  BY <3>1, <3>3
    <2> DEFINE M == Match(Min(C))
    <2>3. M \subseteq Nat /\ M # {}
      BY <1>1, <2>2
    <2>4. Min(M) \in M
      <3> HIDE DEF M
      <3>1. PICK b \in M : \A y \in M : b <= y
        BY <2>3, FirstPosition
      <3>2. M \subseteq Int
        BY <2>3
      <3>3. Min(M) = b
        BY <3>1, <3>2, MinIs
      <3> QED  BY <3>1, <3>3
    <2>5. pick_subprotocol(c, p) = p[Min(M)]
      BY <1>1, <1>2, <1>4
    <2>6. Min(M) \in DOMAIN p /\ c[Min(C)][1] = p[Min(M)][1]
      BY <2>4 DEF to_lower
    <2> QED  BY <1>4, <2>5, <2>6 DEF Range
  <1> QED  BY <1>3, <1>4

(* Before the protocols are switched there is nothing to answer.            *)
LEMMA NothingSent ==
    ASSUME NEW s, s = << >>, NEW o, o = << >>
    PROVE  IsPrefix(o, Answer(s)) /\ o \in Seq(Octets) /\ s \in Seq(ClientFrames) /\ Len(s) = 0
  <1>1. << >> \in Seq(Octets) /\ << >> \in Seq(ClientFrames) /\ Len(<< >>) = 0
    BY EmptySeq
  <1>2. IsPrefix(<< >>, << >> \o << >>) /\ << >> \o << >> = << >>
    BY <1>1, PrefixOfConcat, ConcatEmptySeq
  <1> QED  BY <1>1, <1>2, AnswerOfNothing

LEMMA AskingInit == WebSocketInit => EchoInductive
  <1> SUFFICES ASSUME WebSocketInit PROVE EchoInductive
    OBVIOUS
  <1>1. req \in Requests /\ opts \in Options /\ req.parts \in Nat
    BY RequestAssumption DEF WebSocketInit
  <1>2. IsPrefix(out, Answer(sent)) /\ out \in Seq(Octets) /\ sent \in Seq(ClientFrames)
        /\ Len(sent) = 0
    BY NothingSent DEF WebSocketInit
  <1>3. Types
    BY <1>1, <1>2, FrameAssumption DEF WebSocketInit, Types
  <1>4. << >> \in Seq([http : Nat]) /\ Len(<< >>) = 0
    BY EmptySeq
  <1>5. Asking
    BY <1>1, <1>4, NoneAssumption DEF WebSocketInit, Asking
  <1> QED  BY <1>2, <1>3, <1>5 DEF EchoInductive, EchoInOrder

(* A refusal, and a step that leaves accept where it is.                    *)
LEMMA AskingRefused ==
    ASSUME Asking, req' = req, opts' = opts, sent' = sent, out' = out, msg' = msg, got' = got,
           buffer' = buffer, started' = started, place' = "return",
           NEW code \in {None, 0, 400, 403, 405, 431, 500}, code \in {400, 403, 405} => ~ Fits(req, opts),
           result' = [result EXCEPT !.status_code = code]
    PROVE  Asking'
  <1>1. result = [ok |-> FALSE, status_code |-> result.status_code, protocol |-> None]
    BY DEF Asking
  <1> DEFINE c == result.status_code
  <1>2. result' = [ok |-> FALSE, status_code |-> code, protocol |-> None]
    <2>1. result = [ok |-> FALSE, status_code |-> c, protocol |-> None]
      BY <1>1
    <2> HIDE DEF c
    <2> QED  BY <2>1
  <1>3. result'.status_code = code
    BY <1>2
  <1>4. result' = [ok |-> FALSE, status_code |-> result'.status_code, protocol |-> None]
    BY <1>2, <1>3
  <1>5. Fits(req', opts') = Fits(req, opts)
    OBVIOUS
  <1>6. /\ sent' = << >> /\ out' = << >> /\ msg' = None /\ got' = << >> /\ buffer' = << >>
        /\ started' = FALSE
    BY DEF Asking
  <1>7. result'.status_code \in {400, 403, 405} => ~ Fits(req, opts)'
    BY <1>3
  <1> QED  BY <1>3, <1>4, <1>6, <1>7 DEF Asking

LEMMA AskingStays ==
    ASSUME Asking, req' = req, opts' = opts, sent' = sent, out' = out, msg' = msg, got' = got,
           buffer' = buffer, started' = started, result' = result,
           place' \in {"recv_request", "verdict", "return", "closed"},
           place' = "recv_request" => in' \in Seq([http : Nat]) /\ Len(in') <= req.parts - total',
           place' = "verdict" => /\ in' = << >> /\ total' = req.parts
                              /\ total' <= opts.max_request_size /\ ~ req.malformed
    PROVE  Asking'
  <1>1. result = [ok |-> FALSE, status_code |-> result.status_code, protocol |-> None]
        /\ result.status_code \in {None, 0, 400, 403, 405, 431, 500}
    BY DEF Asking
  <1>2. result' = [ok |-> FALSE, status_code |-> result'.status_code, protocol |-> None]
    BY <1>1
  <1>3. result'.status_code \in {None, 0, 400, 403, 405, 431, 500}
    BY <1>1
  <1>4. result'.status_code \in {400, 403, 405} => ~ Fits(req, opts)'
    BY DEF Asking
  <1>5. /\ sent' = << >> /\ out' = << >> /\ msg' = None /\ got' = << >> /\ buffer' = << >>
        /\ started' = FALSE
    BY DEF Asking
  <1> QED  BY <1>2, <1>3, <1>4, <1>5 DEF Asking

(* accept: requests, answers and refusals.                                  *)
LEMMA AskingStep ==
    ASSUME Types, Asking, WebSocketNext
    PROVE  /\ Types' /\ EchoInOrder'
           /\ Asking' \/ \E n, b, T, R, lost : Serving(n, b, T, R, lost)'
  <1>1. /\ result.ok = FALSE
        /\ place \in {"recv_request", "verdict", "return", "closed"}
        /\ sent = << >> /\ out = << >> /\ got = << >> /\ buffer = << >> /\ started = FALSE
        /\ msg = None
    BY DEF Asking
  <1>2. /\ req \in Requests /\ opts \in Options /\ req.parts \in Nat /\ total \in 0 .. req.parts
        /\ MaxFrames \in Nat
    BY RequestAssumption, FrameAssumption DEF Types
  <1>3. << >> \in Seq([http : Nat]) /\ Len(<< >>) = 0
    BY EmptySeq
  <1>4. ASSUME UNCHANGED <<req, opts, sent, out>>, total' \in 0 .. req.parts,
               client' \in {"open", "shut", "reset"}
        PROVE  Types' /\ EchoInOrder'
    <2>1. sent' = << >> /\ out' = << >>
      BY <1>1, <1>4
    <2>2. IsPrefix(out', Answer(sent')) /\ out' \in Seq(Octets) /\ sent' \in Seq(ClientFrames)
          /\ Len(sent') = 0
      BY <2>1, NothingSent
    <2> QED  BY <1>2, <1>4, <2>2 DEF Types, EchoInOrder
  <1>5. ASSUME ClientRequests PROVE Types' /\ EchoInOrder' /\ Asking'
    <2>1. PICK k \in 1 .. req.parts - total : in' = [i \in 1 .. k |-> [http |-> total + i]]
      BY <1>5 DEF ClientRequests
    <2>2. in' \in Seq([http : Nat]) /\ Len(in') = k
      <3>1. k \in Nat
        BY <1>2
      <3>2. in' \in [1 .. k -> [http : Nat]]
        BY <1>2, <2>1
      <3> QED  BY <3>1, <3>2, FunctionIsSeq
    <2>3. place = "recv_request" /\ UNCHANGED <<acceptVars, clientVars, place, got, fr, messageVars, sendVars>>
      BY <1>5 DEF ClientRequests
    <2>4. Asking'
      BY <1>2, <2>2, <2>3 DEF Asking, acceptVars, clientVars, messageVars, sendVars
    <2>5. UNCHANGED <<req, opts, sent, out>> /\ total' \in 0 .. req.parts
          /\ client' \in {"open", "shut", "reset"}
      BY <1>2, <2>3 DEF Types, acceptVars, clientVars, sendVars
    <2> QED  BY <1>4, <2>4, <2>5
  <1>6. ASSUME ClientShuts \/ ClientResets PROVE Types' /\ EchoInOrder' /\ Asking'
    <2>1. UNCHANGED <<acceptVars, sent, place, got, fr, messageVars, sendVars>>
          /\ (in' = in \/ in' = << >>) /\ client' \in {"open", "shut", "reset"}
      BY <1>6 DEF ClientShuts, ClientResets
    <2>2. /\ req' = req /\ opts' = opts /\ sent' = sent /\ out' = out /\ msg' = msg /\ got' = got
          /\ buffer' = buffer /\ started' = started /\ result' = result /\ place' = place
          /\ total' = total
      BY <2>1 DEF acceptVars, messageVars, sendVars
    <2>3. UNCHANGED <<req, opts, sent, out>> /\ total' \in 0 .. req.parts
      BY <1>2, <2>2
    <2>4. place' = "recv_request" => in' \in Seq([http : Nat]) /\ Len(in') <= req.parts - total'
      <3>1. 0 <= req.parts - total
        BY <1>2
      <3>2. place = "recv_request" => in \in Seq([http : Nat]) /\ Len(in) <= req.parts - total
        BY DEF Asking
      <3>3. CASE in' = in
        BY <2>2, <3>2, <3>3
      <3>4. CASE in' = << >>
        BY <1>3, <2>2, <3>1, <3>4
      <3> QED  BY <2>1, <3>3, <3>4
    <2>5. place' = "verdict" => /\ in' = << >> /\ total' = req.parts
                             /\ total' <= opts.max_request_size /\ ~ req.malformed
      BY <2>1, <2>2 DEF Asking
    <2>6. Asking'
      BY <1>1, <2>2, <2>4, <2>5, AskingStays
    <2> QED  BY <1>4, <2>1, <2>3, <2>6
  <1>7. ASSUME NEW f \in ClientFrames, ClientSends(f) PROVE FALSE
    BY <1>1, <1>7 DEF ClientSends
  <1>8. ASSUME AcceptNoData PROVE Types' /\ EchoInOrder' /\ Asking'
    <2>1. UNCHANGED <<req, opts, clientVars, in, total, got, fr, messageVars, sendVars>>
      BY <1>8 DEF AcceptNoData
    <2>2. place' = "return"
          /\ \E code \in {500, 0} : result' = [result EXCEPT !.status_code = code]
      BY <1>8 DEF AcceptNoData, Reject
    <2>5. /\ req' = req /\ opts' = opts /\ sent' = sent /\ out' = out /\ msg' = msg /\ got' = got
          /\ buffer' = buffer /\ started' = started
      BY <2>1 DEF clientVars, messageVars, sendVars
    <2>3. Asking'
      BY <2>2, <2>5, AskingRefused
    <2>4. UNCHANGED <<req, opts, sent, out>> /\ total' \in 0 .. req.parts
          /\ client' \in {"open", "shut", "reset"}
      BY <1>2, <2>1 DEF Types, clientVars, sendVars
    <2> QED  BY <1>4, <2>3, <2>4
  <1>9. ASSUME AcceptData PROVE Types' /\ EchoInOrder' /\ Asking'
    <2>1. /\ UNCHANGED <<req, opts, clientVars, got, fr, messageVars, sendVars>>
          /\ in' = << >> /\ total' = total + Len(in) /\ place = "recv_request"
      BY <1>9 DEF AcceptData
    <2>2. Len(in) \in Nat /\ Len(in) <= req.parts - total
      BY <2>1, LenProperties DEF Asking
    <2>3. total' \in 0 .. req.parts
      BY <1>2, <2>1, <2>2
    <2>9. /\ req' = req /\ opts' = opts /\ sent' = sent /\ out' = out /\ msg' = msg /\ got' = got
          /\ buffer' = buffer /\ started' = started
      BY <2>1 DEF clientVars, messageVars, sendVars
    <2>4. ASSUME place' = "return", result' = [result EXCEPT !.status_code = 431] PROVE Asking'
      BY <2>4, <2>9, AskingRefused
    <2>5. ASSUME req.malformed, place' = "return", result' = [result EXCEPT !.status_code = 400]
          PROVE  Asking'
      <3>1. ~ Fits(req, opts)
        BY <2>5 DEF Fits
      <3> QED  BY <2>5, <2>9, <3>1, AskingRefused
    <2>6. ASSUME ~ total' > opts.max_request_size, ~ req.malformed, UNCHANGED result,
                 place' = (IF message_complete(total') THEN "verdict" ELSE place)
          PROVE  Asking'
      <3>1. opts.max_request_size \in Nat
        BY <1>2, RequestAssumption
      <3>2. total' <= opts.max_request_size
        BY <1>2, <2>3, <2>6, <3>1
      <3>3. CASE message_complete(total')
        <4>1. total' = req.parts /\ place' = "verdict"
          BY <2>6, <3>3 DEF message_complete
        <4> QED  BY <2>1, <2>6, <2>9, <3>2, <4>1, AskingStays
      <3>4. CASE ~ message_complete(total')
        <4>1. place' = place
          BY <2>6, <3>4
        <4>2. in' \in Seq([http : Nat]) /\ Len(in') <= req.parts - total'
          BY <1>2, <1>3, <2>1, <2>3
        <4> QED  BY <2>1, <2>6, <2>9, <4>1, <4>2, AskingStays
      <3> QED  BY <3>3, <3>4
    <2>7. Asking'
      BY <1>9, <2>4, <2>5, <2>6 DEF AcceptData, Reject
    <2>8. UNCHANGED <<req, opts, sent, out>> /\ client' \in {"open", "shut", "reset"}
      BY <2>1 DEF Types, clientVars, sendVars
    <2> QED  BY <1>4, <2>3, <2>7, <2>8
  <1>10. ASSUME AcceptRefuses PROVE Types' /\ EchoInOrder' /\ Asking'
    <2>1. /\ UNCHANGED <<req, opts, clientVars, in, total, got, fr, messageVars, sendVars>>
          /\ place = "verdict" /\ place' = "return"
          /\ \E code \in {400, 403, 405} : result' = [result EXCEPT !.status_code = code]
          /\ ~ (req.get /\ HeadersValid /\ OriginAllowed)
      BY <1>10 DEF AcceptRefuses, Reject
    <2>2. ~ Fits(req, opts)
      BY <2>1, VerdictIs DEF Asking
    <2>5. /\ req' = req /\ opts' = opts /\ sent' = sent /\ out' = out /\ msg' = msg /\ got' = got
          /\ buffer' = buffer /\ started' = started
      BY <2>1 DEF clientVars, messageVars, sendVars
    <2>3. Asking'
      BY <2>1, <2>2, <2>5, AskingRefused
    <2>4. UNCHANGED <<req, opts, sent, out>> /\ total' \in 0 .. req.parts
          /\ client' \in {"open", "shut", "reset"}
      BY <1>2, <2>1 DEF Types, clientVars, sendVars
    <2> QED  BY <1>4, <2>3, <2>4
  <1>11. ASSUME AcceptSwitches
         PROVE  Types' /\ EchoInOrder' /\ (Asking' \/ \E n, b, T, R, lost : Serving(n, b, T, R, lost)')
    <2>1. /\ UNCHANGED <<req, opts, clientVars, in, total, got, fr, messageVars, sendVars>>
          /\ place = "verdict" /\ req.get /\ HeadersValid /\ OriginAllowed
          /\ \/ place' = "return" /\ result' = [result EXCEPT !.status_code = 500]
             \/ /\ client # "reset" /\ place' = "head"
                /\ result' = [ok |-> TRUE, status_code |-> 101,
                              protocol |-> pick_subprotocol(req.protocols, opts.subprotocols)]
      BY <1>11 DEF AcceptSwitches, Reject
    <2>2. UNCHANGED <<req, opts, sent, out>> /\ total' \in 0 .. req.parts
          /\ client' \in {"open", "shut", "reset"}
      BY <1>2, <2>1 DEF Types, clientVars, sendVars
    <2>3. CASE place' = "return" /\ result' = [result EXCEPT !.status_code = 500]
      <3>2. /\ req' = req /\ opts' = opts /\ sent' = sent /\ out' = out /\ msg' = msg /\ got' = got
            /\ buffer' = buffer /\ started' = started
        BY <2>1 DEF clientVars, messageVars, sendVars
      <3>1. Asking'
        BY <2>3, <3>2, AskingRefused
      <3> QED  BY <1>4, <2>2, <3>1
    <2>4. CASE /\ client # "reset" /\ place' = "head"
               /\ result' = [ok |-> TRUE, status_code |-> 101,
                             protocol |-> pick_subprotocol(req.protocols, opts.subprotocols)]
      <3>1. PICK T : T \in [0 .. 0 -> Seq(Octets)] /\ T[0] = << >>
        <4> DEFINE E == [k \in 0 .. 0 |-> << >>]
        <4>1. << >> \in Seq(Octets)
          BY EmptySeq
        <4>2. E \in [0 .. 0 -> Seq(Octets)]
          BY <4>1
        <4>3. 0 \in 0 .. 0
          OBVIOUS
        <4>4. E[0] = << >>
          BY <4>3
        <4> HIDE DEF E
        <4> QED  BY <4>2, <4>4
      <3>2. /\ in = << >> /\ total = req.parts /\ total <= opts.max_request_size
            /\ ~ req.malformed
        BY <2>1 DEF Asking
      <3>3. Fits(req, opts)
        BY <2>1, <3>2, VerdictIs
      <3>4. Switched'
        BY <2>1, <2>4, <3>2, <3>3 DEF Switched
      <3>5. sent' = << >> /\ Len(sent') = 0 /\ out' = << >> /\ msg' = None /\ got' = << >>
            /\ in' = << >> /\ buffer' = << >> /\ started' = FALSE /\ client' = client
        BY <1>1, <1>3, <2>1, <3>2 DEF clientVars, messageVars, sendVars
      <3>6. Lists(0, T, T)'
        BY <3>1, <3>5 DEF Lists, Behind
      <3>7. << >> \in Seq(Octets) /\ << >> \in Seq(Bits)
        BY EmptySeq
      <3>8. Streams(<< >>)'
        <4>1. ItemLength("head", fr') = 2
          BY DEF ItemLength
        <4> QED  BY <1>3, <2>4, <3>5, <3>7, <4>1 DEF Streams
      <3>9. Sends'
        BY <2>4, <3>5 DEF Sends, Sending, Reads
      <3>10. Stage' = "head" /\ Due' = << >>
        BY <2>4 DEF Stage, Due, Sending
      <3>11. (<< >> \o << >>) \o << >> = << >>
        BY <3>7, ConcatEmptySeq
      <3>12. Reader(0, 0, T, << >>)'
        <4>1. ~ Dead(<< >>, 0)
          BY DEF Dead
        <4>2. Assembled(<< >>, 0, 0, FALSE, << >>, current_opcode')
          BY AssembledNothing
        <4> QED  BY <3>1, <3>5, <3>10, <3>11, <4>1, <4>2 DEF Reader, Rest
      <3>13. Ended(0)'
        BY <3>10 DEF Ended, Reads
      <3>14. Owed(0, T)'
        BY <3>1, <3>5, <3>7, <3>10, <3>11, AnswerOfNothing, ConcatEmptySeq DEF Owed
      <3>15. Serving(0, 0, T, T, << >>)'
        BY <3>4, <3>5, <3>6, <3>7, <3>8, <3>9, <3>12, <3>13, <3>14 DEF Serving
      <3> QED  BY <1>4, <2>2, <3>15
    <2> QED  BY <2>1, <2>3, <2>4
  <1>12. ASSUME Close PROVE Types' /\ EchoInOrder' /\ Asking'
    <2>1. /\ UNCHANGED <<acceptVars, clientVars, in, got, fr, messageVars, sendVars>>
          /\ place' = "closed"
      BY <1>12 DEF Close
    <2>4. /\ req' = req /\ opts' = opts /\ sent' = sent /\ out' = out /\ msg' = msg /\ got' = got
          /\ buffer' = buffer /\ started' = started /\ result' = result
      BY <2>1 DEF acceptVars, clientVars, messageVars, sendVars
    <2>2. Asking'
      BY <2>1, <2>4, AskingStays
    <2>3. UNCHANGED <<req, opts, sent, out>> /\ total' \in 0 .. req.parts
          /\ client' \in {"open", "shut", "reset"}
      BY <1>2, <2>1 DEF Types, acceptVars, clientVars, sendVars
    <2> QED  BY <1>4, <2>2, <2>3
  <1>13. ASSUME ReadFrame \/ ReadMessage \/ SendFrame PROVE FALSE
    <2>1. CASE ReadFrame
      BY <1>1, <2>1 DEF ReadFrame, RecvPiece, RecvFails, HeadDone, LengthDone, MaskDone, Reading
    <2>2. CASE ReadMessage
      BY <1>1, <2>2 DEF ReadMessage, OnPing, OnPong, OnClose, OnBadSequence, OnFragment,
                        OnMessage, FrameRead
    <2>3. CASE SendFrame
      BY <1>1, <2>3 DEF SendFrame, SendHeader, SendPayload
    <2> QED  BY <1>13, <2>1, <2>2, <2>3
  <1> QED
    BY <1>5, <1>6, <1>7, <1>8, <1>9, <1>10, <1>11, <1>12, <1>13
       DEF WebSocketNext, Server, Client, Accept

-----------------------------------------------------------------------------
(* Every step.                                                             *)

(* What the server has sent is the beginning of what it owes.               *)
LEMMA SentIsPrefix ==
    ASSUME NEW a, NEW o \in Seq(Octets), NEW d \in Seq(Octets), NEW r \in Seq(Octets),
           a = o \o (d \o r)
    PROVE  IsPrefix(o, a)
  <1> DEFINE x == d \o r
  <1>1. x \in Seq(Octets)
    OBVIOUS
  <1>2. a = o \o x
    OBVIOUS
  <1> HIDE DEF x
  <1>3. IsPrefix(o, o \o x)
    BY <1>1, PrefixOfConcat
  <1> QED  BY <1>2, <1>3

LEMMA EchoIs ==
    ASSUME Types', NEW n, NEW b, NEW T, NEW R, NEW lost, Serving(n, b, T, R, lost)',
           client' = "reset" => EchoInOrder'
    PROVE  EchoInOrder'
  <1>1. Lists(n, T, R)' /\ Sends' /\ Owed(n, R)'
    BY DEF Serving
  <1>2. CASE client' = "reset"
    BY <1>2
  <1>3. CASE client' # "reset"
    <2>1. out' \in Seq(Octets)
      BY DEF Types
    <2>2. R[n] \in Seq(Octets)
      BY <1>1 DEF Lists, Behind
    <2>3. Due' \in Seq(Octets)
      <3>1. CASE place' \in Sending
        <4>1. msg' \in Keyed
          BY <1>1, <3>1 DEF Sends
        <4>2. Wire(msg') \in Seq(Octets)
          BY <4>1, WireParts
        <4>3. Body(msg') \in Seq(Octets)
          BY <4>1, BodyFacts
        <4> QED  BY <3>1, <4>2, <4>3 DEF Due, Sending
      <3>2. CASE place' \notin Sending
        BY <3>2, EmptySeq DEF Due, Sending
      <3> QED  BY <3>1, <3>2
    <2>4. Answer(sent') = out' \o (Due' \o R[n])
      BY <1>1, <1>3 DEF Owed
    <2>5. IsPrefix(out', Answer(sent'))
      BY <2>1, <2>2, <2>3, <2>4, SentIsPrefix
    <2> QED  BY <2>5 DEF EchoInOrder
  <1> QED  BY <1>2, <1>3

(* A step that sends nothing on either side keeps the types and the order.  *)
LEMMA QuietStep ==
    ASSUME Types, EchoInOrder, UNCHANGED <<acceptVars, sent, out>>,
           client' \in {"open", "shut", "reset"}
    PROVE  Types' /\ EchoInOrder'
  BY DEF Types, EchoInOrder, acceptVars

(* Once the protocols are switched, the connection is served.               *)
LEMMA ServingStep ==
    ASSUME Types, EchoInOrder, NEW n, NEW b, NEW T, NEW R, NEW lost, Serving(n, b, T, R, lost),
           WebSocketNext
    PROVE  /\ Types' /\ EchoInOrder'
           /\ \E n1, b1, T1, R1, lost1 : Serving(n1, b1, T1, R1, lost1)'
  <1>1. place \in {"head", "length16", "length64", "mask", "payload", "send_header", "send_payload",
                "close", "closed"}
    BY DEF Serving, Sends, Reads, Lengths, Sending
  <1>2. client \in {"open", "shut", "reset"}
    BY DEF Types
  <1>3. CASE Accept
    BY <1>1, <1>3 DEF Accept, AcceptNoData, AcceptData, AcceptRefuses, AcceptSwitches
  <1>4. CASE ReadFrame
    <2>1. UNCHANGED <<acceptVars, sent, out>> /\ client' = client
      BY <1>4 DEF ReadFrame, RecvPiece, RecvFails, HeadDone, LengthDone, MaskDone, clientVars, sendVars
    <2>2. Types' /\ EchoInOrder'
      BY <1>2, <2>1, QuietStep
    <2>3. \/ Serving(n, b, T, R, lost)' \/ \E m : Serving(m, b, T, R, lost)'
      BY <1>4, RecvPieceStep, RecvFailsStep, HeadDoneStep, LengthDoneStep, MaskDoneStep DEF ReadFrame
    <2> QED  BY <2>2, <2>3
  <1>5. CASE ReadMessage
    <2>1. UNCHANGED <<acceptVars, sent, out>> /\ client' = client
      BY <1>5 DEF ReadMessage, OnPing, OnPong, OnClose, OnBadSequence, OnFragment, OnMessage,
                  clientVars, sendVars
    <2>2. Types' /\ EchoInOrder'
      BY <1>2, <2>1, QuietStep
    <2>3. \/ Serving(n + 1, b, T, R, lost)' \/ Serving(n + 1, n + 1, T, R, lost)'
      BY <1>5, OnPingStep, OnPongStep, OnCloseStep, OnBadSequenceStep, OnFragmentStep, OnMessageStep
         DEF ReadMessage
    <2> QED  BY <2>2, <2>3
  <1>6. CASE SendFrame
    <2>1. /\ Serving(n, b, T, R, lost)' /\ out' \in Seq(Octets)
          /\ client = "reset" => UNCHANGED out
      BY <1>6, SendHeaderStep, SendPayloadStep DEF SendFrame
    <2>2. UNCHANGED <<acceptVars, sent, client>>
      BY <1>6 DEF SendFrame, SendHeader, SendPayload, clientVars
    <2>3. Types'
      BY <2>1, <2>2 DEF Types, acceptVars
    <2>4. client' = "reset" => EchoInOrder'
      BY <2>1, <2>2 DEF EchoInOrder
    <2>5. EchoInOrder'
      BY <2>1, <2>3, <2>4, EchoIs
    <2> QED  BY <2>1, <2>3, <2>5
  <1>7. CASE Close
    <2>1. UNCHANGED <<acceptVars, sent, out>> /\ client' = client
      BY <1>7 DEF Close, clientVars, sendVars
    <2>2. Types' /\ EchoInOrder'
      BY <1>2, <2>1, QuietStep
    <2> QED  BY <1>7, <2>2, CloseStep
  <1>8. CASE ClientRequests
    BY <1>1, <1>8 DEF ClientRequests
  <1>9. CASE ClientShuts
    <2>1. UNCHANGED <<acceptVars, sent, out>> /\ client' = "shut"
      BY <1>9 DEF ClientShuts, sendVars
    <2>2. Types' /\ EchoInOrder'
      BY <2>1, QuietStep
    <2> QED  BY <1>9, <2>2, ClientShutsStep
  <1>10. CASE ClientResets
    <2>1. UNCHANGED <<acceptVars, sent, out>> /\ client' = "reset"
      BY <1>10 DEF ClientResets, sendVars
    <2>2. Types' /\ EchoInOrder'
      BY <2>1, QuietStep
    <2>3. \E rest : Serving(n, b, T, R, rest)'
      BY <1>10, ClientResetsStep
    <2> QED  BY <2>2, <2>3
  <1>11. ASSUME NEW f \in ClientFrames, ClientSends(f)
         PROVE  /\ Types' /\ EchoInOrder'
                /\ \E n1, b1, T1, R1, lost1 : Serving(n1, b1, T1, R1, lost1)'
    <2>1. /\ client = "open" /\ client' = client /\ Len(sent) < MaxFrames
          /\ sent' = Append(sent, f) /\ UNCHANGED <<acceptVars, out>>
      BY <1>11 DEF ClientSends, sendVars
    <2>2. sent \in Seq(ClientFrames) /\ MaxFrames \in Nat /\ Len(sent) \in Nat
      BY FrameAssumption, LenProperties DEF Types
    <2>3. sent' \in Seq(ClientFrames) /\ Len(sent') = Len(sent) + 1
      BY <2>1, <2>2
    <2>4. Types'
      BY <2>1, <2>2, <2>3 DEF Types, acceptVars
    <2>5. PICK T1, R1 : Serving(n, b, T1, R1, lost)'
      BY <1>11, ClientSendsStep
    <2>6. EchoInOrder'
      BY <2>1, <2>4, <2>5, EchoIs
    <2> QED  BY <2>4, <2>5, <2>6
  <1> QED
    BY <1>3, <1>4, <1>5, <1>6, <1>7, <1>8, <1>9, <1>10, <1>11 DEF WebSocketNext, Server, Client

(* A step that changes nothing.                                             *)
LEMMA EchoStutters ==
    ASSUME EchoInductive, UNCHANGED webSocketVars
    PROVE  EchoInductive'
  <1>1. /\ UNCHANGED <<req, opts, total, result, client, sent, in, place, got, fr>>
        /\ UNCHANGED <<buffer, started, current_opcode, out, msg, after>>
    BY DEF webSocketVars, acceptVars, clientVars, messageVars, sendVars
  <1>2. Types' /\ EchoInOrder'
    BY <1>1 DEF EchoInductive, Types, EchoInOrder
  <1>3. CASE Asking
    <2>1. Asking'
      BY <1>1, <1>3 DEF Asking
    <2> QED  BY <1>2, <2>1 DEF EchoInductive
  <1>4. ASSUME NEW n, NEW b, NEW T, NEW R, NEW lost, Serving(n, b, T, R, lost)
        PROVE  EchoInductive'
    <2>1. Stage' = Stage /\ Due' = Due
      BY <1>1 DEF Stage, Due
    <2>2. /\ Switched /\ Lists(n, T, R) /\ Streams(lost) /\ Sends
          /\ Reader(n, b, T, lost) /\ Ended(n) /\ Owed(n, R)
          /\ started \in BOOLEAN /\ buffer \in Seq(Bits)
      BY <1>4 DEF Serving
    <2>3. Switched'
      BY <1>1, <2>2 DEF Switched
    <2>4. Lists(n, T, R)'
      BY <1>1, <2>2 DEF Lists
    <2>5. Streams(lost)'
      BY <1>1, <2>2 DEF Streams
    <2>6. Sends'
      BY <1>1, <2>2 DEF Sends
    <2>7. Reader(n, b, T, lost)'
      BY <1>1, <2>1, <2>2 DEF Reader
    <2>8. Ended(n)'
      BY <1>1, <2>1, <2>2 DEF Ended
    <2>9. Owed(n, R)'
      BY <1>1, <2>1, <2>2 DEF Owed
    <2>10. Serving(n, b, T, R, lost)'
      BY <1>1, <2>2, <2>3, <2>4, <2>5, <2>6, <2>7, <2>8, <2>9 DEF Serving
    <2> QED  BY <1>2, <2>10 DEF EchoInductive
  <1> QED  BY <1>3, <1>4 DEF EchoInductive

-----------------------------------------------------------------------------
(* What the invariant says of the runs' property.                          *)

LEMMA WebSocketTypes ==
    ASSUME EchoInductive
    PROVE  WebSocketTypeOK
  <1>1. /\ req \in Requests /\ opts \in Options /\ client \in {"open", "shut", "reset"}
        /\ sent \in Seq(ClientFrames) /\ Len(sent) <= MaxFrames /\ total \in 0 .. req.parts
    BY DEF EchoInductive, Types
  <1>2. CASE Asking
    <2>1. /\ place \in {"recv_request", "verdict", "return", "closed"}
          /\ result.status_code \in {None, 0, 400, 403, 405, 431, 500}
          /\ msg = None /\ buffer = << >> /\ started = FALSE
      BY <1>2 DEF Asking
    <2>2. place \in Places /\ ~ Reading /\ (msg = None) = (place \notin {"send_header", "send_payload"})
      BY <2>1 DEF Places, Reading
    <2>3. buffer \in Seq(0 .. Base - 1)
      BY <2>1, EmptySeq
    <2>4. started \in BOOLEAN /\ result.status_code \in {None, 0, 101, 400, 403, 405, 431, 500}
      <3>1. started \in BOOLEAN
        BY <2>1
      <3>2. result.status_code \in {None, 0, 101, 400, 403, 405, 431, 500}
        BY <2>1
      <3> QED  BY <3>1, <3>2
    <2>5. Reading => Len(got) <= Item(place)
      BY <2>2
    <2> QED  BY <1>1, <2>2, <2>3, <2>4, <2>5 DEF WebSocketTypeOK
  <1>3. ASSUME NEW n, NEW b, NEW T, NEW R, NEW lost, Serving(n, b, T, R, lost)
        PROVE  WebSocketTypeOK
    <2>1. Switched /\ Streams(lost) /\ Sends /\ started \in BOOLEAN /\ buffer \in Seq(Bits)
      BY <1>3 DEF Serving
    <2>2. result.status_code = 101
      BY <2>1 DEF Switched
    <2>3. place \in Places
      BY <2>1 DEF Sends, Places, Reads, Lengths, Sending
    <2>4. (msg = None) = (place \notin {"send_header", "send_payload"})
      <3>1. msg \in Keyed => msg # None
        BY NoneAssumption DEF Keyed
      <3> QED  BY <2>1, <3>1 DEF Sends, Sending
    <2>5. Reading => Len(got) <= Item(place)
      BY <2>1, ItemIs DEF Streams
    <2>6. buffer \in Seq(0 .. Base - 1)
      BY <2>1 DEF Bits
    <2> QED  BY <1>1, <2>1, <2>2, <2>3, <2>4, <2>5, <2>6 DEF WebSocketTypeOK
  <1> QED  BY <1>2, <1>3 DEF EchoInductive

LEMMA Answers ==
    ASSUME EchoInductive
    PROVE  AllAnswered
  <1> SUFFICES ASSUME place = "closed", result.ok, client # "reset" PROVE out = Answer(sent)
    BY DEF AllAnswered
  <1>1. ~ Asking
    BY DEF Asking
  <1>2. PICK n, b, T, R, lost : Serving(n, b, T, R, lost)
    BY <1>1 DEF EchoInductive
  <1>3. Lists(n, T, R) /\ Ended(n) /\ Owed(n, R) /\ Types
    BY <1>2 DEF Serving, EchoInductive
  <1>4. Stage = "closed" /\ Due = << >> /\ Stage \notin Reads
    BY DEF Stage, Due, Sending, Reads, Lengths
  <1>5. /\ sent \in Seq(Keyed) /\ Len(sent) \in Nat /\ n \in 0 .. Len(sent)
        /\ Behind(R, Replies(sent), Len(sent), Octets) /\ out \in Seq(Octets)
    BY <1>3, SentFacts DEF Lists
  <1>6. R[n] = << >>
    <2>1. CASE Dead(sent, n)
      BY <1>5, <2>1, DeadIsSilent
    <2>2. CASE n = Len(sent)
      BY <1>5, <2>2 DEF Behind
    <2> QED  BY <1>3, <1>4, <2>1, <2>2 DEF Ended
  <1>7. Answer(sent) = out \o (<< >> \o << >>)
    BY <1>3, <1>4, <1>6 DEF Owed
  <1>8. << >> \o << >> = << >>
    BY EmptySeq, ConcatEmptySeq
  <1> QED  BY <1>5, <1>7, <1>8, ConcatEmptySeq

LEMMA Handshake ==
    ASSUME EchoInductive
    PROVE  HandshakeSound
  <1> DEFINE Origins == { o[1] : o \in opts.allowed_origins }
             Good == /\ ~ req.malformed /\ req.get /\ Wanted \subseteq req.headers
                     /\ opts.check_origin /\ Origins # {} =>
                          req.origin # None /\ req.origin[1] \in Origins
             Common == { i \in DOMAIN req.protocols :
                           \E q \in Range(opts.subprotocols) : q[1] = req.protocols[i][1] }
  <1>1. Good <=> Fits(req, opts)
    BY DEF Fits
  <1>2. CASE Asking
    <2>1. result.ok = FALSE /\ (result.status_code \in {400, 403, 405} => ~ Good)
      BY <1>1, <1>2 DEF Asking
    <2> QED  BY <2>1 DEF HandshakeSound
  <1>3. ASSUME NEW n, NEW b, NEW T, NEW R, NEW lost, Serving(n, b, T, R, lost)
        PROVE  HandshakeSound
    <2>1. /\ result = [ok |-> TRUE, status_code |-> 101,
                       protocol |-> pick_subprotocol(req.protocols, opts.subprotocols)]
          /\ Good /\ total = req.parts /\ total <= opts.max_request_size
      BY <1>1, <1>3 DEF Serving, Switched
    <2>2. result.status_code = 101
          /\ result.protocol = pick_subprotocol(req.protocols, opts.subprotocols)
      BY <2>1
    <2>3. DOMAIN req.protocols \subseteq Nat /\ DOMAIN opts.subprotocols \subseteq Nat
      BY RequestAssumption DEF EchoInductive, Types
    <2>4. IF Common = {} THEN result.protocol = None
          ELSE /\ result.protocol \in Range(opts.subprotocols)
               /\ result.protocol[1] = req.protocols[Min(Common)][1]
      BY <2>2, <2>3, PickFacts
    <2>5. result.status_code \notin {400, 403, 405}
      BY <2>2
    <2> HIDE DEF Good, Common
    <2>6. /\ result.ok => Good /\ total = req.parts /\ total <= opts.max_request_size
          /\ result.status_code \in {400, 403, 405} => ~ Good
          /\ result.ok => IF Common = {} THEN result.protocol = None
                          ELSE /\ result.protocol \in Range(opts.subprotocols)
                               /\ result.protocol[1] = req.protocols[Min(Common)][1]
      BY <2>1, <2>4, <2>5
    <2> QED  BY <2>6 DEF HandshakeSound, Good, Common
  <1> QED  BY <1>2, <1>3 DEF EchoInductive

(* Types; whatever the client sends, and in whatever pieces the bytes       *)
(* arrive, the server sends what the frames call for, in order, all of it   *)
(* before it closes; accept decides the handshake rightly.                  *)
THEOREM EchoInvariant == WebSocketSpec => []EchoInv
  <1>1. WebSocketInit => EchoInductive
    BY AskingInit
  <1>2. EchoInductive /\ [WebSocketNext]_webSocketVars => EchoInductive'
    <2>1. ASSUME EchoInductive, WebSocketNext, Asking PROVE EchoInductive'
      BY <2>1, AskingStep DEF EchoInductive
    <2>2. ASSUME EchoInductive, WebSocketNext,
                 NEW n, NEW b, NEW T, NEW R, NEW lost, Serving(n, b, T, R, lost)
          PROVE  EchoInductive'
      BY <2>2, ServingStep DEF EchoInductive
    <2>3. ASSUME EchoInductive, UNCHANGED webSocketVars PROVE EchoInductive'
      BY <2>3, EchoStutters
    <2> QED  BY <2>1, <2>2, <2>3 DEF EchoInductive
  <1>3. EchoInductive => EchoInv
    <2>1. ASSUME EchoInductive PROVE EchoInv
      BY <2>1, WebSocketTypes, Answers, Handshake DEF EchoInductive, EchoInv
    <2> QED  BY <2>1
  <1> QED  BY <1>1, <1>2, <1>3, PTL DEF WebSocketSpec
=============================================================================
