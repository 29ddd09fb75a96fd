--------------------------- MODULE ConnectionProofs ---------------------------
(* Connections, and the executor that their coroutines run on.  The        *)
(* executor loses no wake-up and serves in order, for any number of workers *)
(* and threads.  No lookup is lost, its answer fits the socket it is for,   *)
(* and connect reports the truth, for any number of clients, threads of the *)
(* pool and acceptors.  The stream arrives as it was sent, and its end is   *)
(* real, for any number of operations, any buffers and iovecs and any       *)
(* socket buffer, however the calls split them.                             *)
EXTENDS Executor, Dial, StreamTransfer, WorkQueueProofs, FiniteSetTheorems

-----------------------------------------------------------------------------
(* The executor.                                                           *)

(* Every batch a thread can post is a non-empty list of nodes.              *)
LEMMA BatchIsSeq ==
    ASSUME NEW b \in Batches
    PROVE  b \in Seq(Nodes)
  <1>1. PICK k \in 1 .. 2 : b \in [1 .. k -> Nodes]
    BY DEF Batches
  <1> QED  BY <1>1, IsASeq

(* ExecutorInv holds initially.                                             *)
LEMMA ExecutorStarts == ExecutorInit => ExecutorInv
  BY ExecutorAssumption, EmptySeq
     DEF ExecutorInit, ExecutorInv, ExecutorTypeOK, WorkerPcs, LockDiscipline, InsideLock,
         SleepOnEmpty, NoLostWakeup, ExitOnlyWhenStopping

(* Every step a worker takes by itself, in its loop, in get_work_node, in   *)
(* cv.wait or in trig, keeps ExecutorInv.                                   *)
LEMMA WorkerStepKeepsInv ==
    ASSUME ExecutorInv, NEW w \in Workers, WorkerStep(w)
    PROVE  ExecutorInv'
  <1> USE ExecutorAssumption
      DEF ExecutorInv, ExecutorTypeOK, WorkerPcs, LockDiscipline, InsideLock,
          SleepOnEmpty, NoLostWakeup, ExitOnlyWhenStopping, Goto, Asleep
  <1>1. CASE WorkerLoop(w)
    BY <1>1 DEF WorkerLoop
  <1>2. CASE WorkOnceLock(w)
    BY <1>2 DEF WorkOnceLock
  <1>3. CASE WaitAndGet(w)
    <2>1. queue # << >> => Tail(queue) \in Seq(Nodes)
      BY TailFacts
    <2> QED  BY <1>3, <2>1 DEF WaitAndGet
  <1>4. CASE CvPredicate(w)
    BY <1>4 DEF CvPredicate
  <1>5. CASE CvSleep(w)
    BY <1>5 DEF CvSleep
  <1>6. CASE CvRelock(w)
    BY <1>6 DEF CvRelock
  <1>7. CASE RunTrig(w)
    BY <1>7 DEF RunTrig, CvNotifyOne
  <1> QED  BY <1>1, <1>2, <1>3, <1>4, <1>5, <1>6, <1>7 DEF WorkerStep

(* Every step keeps ExecutorInv.                                            *)
LEMMA ExecutorStep == ExecutorInv /\ [ExecutorNext]_executorVars => ExecutorInv'
  <1> SUFFICES ASSUME ExecutorInv, [ExecutorNext]_executorVars
               PROVE  ExecutorInv'
    OBVIOUS
  <1>1. ASSUME NEW w \in Workers, WorkerStep(w)
        PROVE  ExecutorInv'
    BY <1>1, WorkerStepKeepsInv
  <1> USE ExecutorAssumption
      DEF ExecutorInv, ExecutorTypeOK, WorkerPcs, LockDiscipline, InsideLock,
          SleepOnEmpty, NoLostWakeup, ExitOnlyWhenStopping, Goto, Asleep
  <1>2. ASSUME NEW w \in Workers, SpuriousWake(w)
        PROVE  ExecutorInv'
    BY <1>2 DEF SpuriousWake
  <1>3. ASSUME NEW w \in Workers, RunReturn(w)
        PROVE  ExecutorInv'
    BY <1>3 DEF RunReturn
  <1>4. ASSUME NEW n \in Nodes
        PROVE  MoveToTail(queue, n) \in Seq(Nodes) /\ MoveToTail(queue, n) # << >>
    BY MoveToTailFacts
  <1>5. ASSUME NEW w \in Workers, NEW n \in Nodes, RunPost(w, n)
        PROVE  ExecutorInv'
    BY <1>4, <1>5 DEF RunPost, QueuePost
  <1>6. ASSUME NEW w \in Workers, NEW n \in Nodes, RunAddNoTrig(w, n)
        PROVE  ExecutorInv'
    BY <1>4, <1>6 DEF RunAddNoTrig
  <1>7. ASSUME NEW p \in Posters, NEW n \in Nodes, Post(p, n)
        PROVE  ExecutorInv'
    BY <1>4, <1>7 DEF Post, QueuePost
  <1>8. ASSUME NEW p \in Posters, NEW b \in Batches, PostBatch(p, b)
        PROVE  ExecutorInv'
    <2>1. queue \o b \in Seq(Nodes)
      BY BatchIsSeq, ConcatProperties
    <2> QED  BY <1>8, <2>1 DEF PostBatch, QueuePostBatch, SpliceTail
  <1>9. ASSUME NEW p \in Posters, Trig(p)
        PROVE  ExecutorInv'
    <2>1. p \notin Workers
      BY <1>9
    <2>2. CASE \E v \in Workers : pc[v] = "asleep"
      BY <1>9, <2>1, <2>2 DEF Trig, CvNotifyOne
    <2>3. CASE ~ \E v \in Workers : pc[v] = "asleep"
      BY <1>9, <2>1, <2>3 DEF Trig, CvNotifyOne
    <2> QED  BY <2>2, <2>3
  <1>10. CASE StopStore
    BY <1>10 DEF StopStore
  <1>11. CASE StopNotifyAll
    BY <1>11 DEF StopNotifyAll
  <1>12. CASE UNCHANGED executorVars
    BY <1>12 DEF executorVars
  <1> QED
    BY <1>1, <1>2, <1>3, <1>5, <1>6, <1>7, <1>8, <1>9, <1>10, <1>11, <1>12
       DEF ExecutorNext

(* For every set of workers, outside threads and nodes: the executor keeps  *)
(* its inductive invariant.                                                 *)
THEOREM ExecutorInvariant == ExecutorSpec => []ExecutorInv
  BY ExecutorStarts, ExecutorStep, PTL DEF ExecutorSpec

(* Queued work never waits while every worker is asleep and nobody is about *)
(* to wake one, as long as the executor is not stopping.                    *)
THEOREM NoWakeupIsLost == ExecutorSpec => []NoLostWakeup
  <1>1. ExecutorInv => NoLostWakeup
    BY DEF ExecutorInv
  <1> QED  BY ExecutorInvariant, <1>1, PTL

(* Splicing a batch of nodes that are not queued leaves every node on the   *)
(* queue at most once.                                                      *)
LEMMA SpliceFacts ==
    ASSUME queue \in Seq(Nodes), NoDuplicates(queue), NEW b \in Batches
    PROVE  NoDuplicates(queue \o b)
  <1>1. NoDuplicates(b) /\ \A i \in DOMAIN b : ~ OnList(queue, b[i])
    BY DEF Batches
  <1>2. \A m : ~ (OnList(queue, m) /\ OnList(b, m))
    BY <1>1 DEF OnList
  <1> QED  BY <1>1, <1>2, BatchIsSeq, ConcatFacts

(* What one step of the executor does to the queue is one operation of the  *)
(* abstract run queue, or nothing.                                          *)
LEMMA StepIsQueueStep == [ExecutorNext]_executorVars => [QueueNext]_queue
  <1> USE DEF QueueNext
  <1>1. ASSUME NEW w \in Workers, WorkerStep(w)
        PROVE  [QueueNext]_queue
    BY <1>1 DEF WorkerStep, WorkerLoop, WorkOnceLock, WaitAndGet, CvPredicate,
                CvSleep, CvRelock, RunTrig, QueueTake
  <1>2. ASSUME NEW w \in Workers, SpuriousWake(w) \/ RunReturn(w)
        PROVE  UNCHANGED queue
    BY <1>2 DEF SpuriousWake, RunReturn
  <1>3. ASSUME NEW w \in Workers, NEW n \in Nodes,
               RunPost(w, n) \/ RunAddNoTrig(w, n)
        PROVE  QueueNext
    BY <1>3 DEF RunPost, RunAddNoTrig, QueuePost
  <1>4. ASSUME NEW p \in Posters, NEW n \in Nodes, Post(p, n)
        PROVE  QueueNext
    BY <1>4 DEF Post
  <1>5. ASSUME NEW p \in Posters, NEW b \in Batches, PostBatch(p, b)
        PROVE  QueueNext
    BY <1>5 DEF PostBatch
  <1>6. ASSUME NEW p \in Posters, Trig(p)
        PROVE  UNCHANGED queue
    BY <1>6 DEF Trig
  <1>7. StopStore \/ StopNotifyAll \/ UNCHANGED executorVars => UNCHANGED queue
    BY DEF StopStore, StopNotifyAll, executorVars
  <1> QED  BY <1>1, <1>2, <1>3, <1>4, <1>5, <1>6, <1>7 DEF ExecutorNext

(* The executor implements the abstract FIFO run queue, for every set of    *)
(* threads and nodes.                                                       *)
THEOREM ExecutorImplementsQueue == ExecutorSpec => QueueSpec
  <1>1. ExecutorInit => QueueInit
    BY DEF ExecutorInit, QueueInit
  <1> QED  BY <1>1, StepIsQueueStep, PTL DEF ExecutorSpec, QueueSpec

(* A node is on the run queue at most once, whoever posts it and however    *)
(* often.                                                                   *)
THEOREM NodeQueuedOnce == ExecutorSpec => []QueuedOnce
  <1>1. ExecutorInit => QueuedOnce
    BY DEF ExecutorInit, QueuedOnce, NoDuplicates
  <1>2. ExecutorTypeOK /\ QueuedOnce /\ [QueueNext]_queue => QueuedOnce'
    <2> SUFFICES ASSUME queue \in Seq(Nodes), NoDuplicates(queue), [QueueNext]_queue
                 PROVE  NoDuplicates(queue)'
      BY DEF ExecutorTypeOK, QueuedOnce
    <2>1. ASSUME NEW n \in Nodes, QueuePost(n)
          PROVE  NoDuplicates(queue)'
      <3>1. NoDuplicates(MoveToTail(queue, n))
        BY MoveToTailFacts
      <3> QED  BY <2>1, <3>1 DEF QueuePost, NoDuplicates
    <2>2. ASSUME NEW b \in Batches, QueuePostBatch(b)
          PROVE  NoDuplicates(queue)'
      BY <2>2, SpliceFacts DEF QueuePostBatch, SpliceTail, NoDuplicates
    <2>3. ASSUME QueueTake
          PROVE  NoDuplicates(queue)'
      <3>1. NoDuplicates(Tail(queue))
        BY <2>3, TailFacts DEF QueueTake
      <3> QED  BY <2>3, <3>1 DEF QueueTake, NoDuplicates
    <2>4. CASE UNCHANGED queue
      BY <2>4 DEF NoDuplicates
    <2> QED  BY <2>1, <2>2, <2>3, <2>4 DEF QueueNext
  <1>3. ExecutorInv => ExecutorTypeOK
    BY DEF ExecutorInv
  <1> QED
    BY <1>1, <1>2, <1>3, ExecutorInvariant, StepIsQueueStep, PTL DEF ExecutorSpec

-----------------------------------------------------------------------------
(* The jobs of the resolver's pool.                                         *)
J == INSTANCE WorkQueueProofs WITH queue <- jobs, Nodes <- Lookups

-----------------------------------------------------------------------------
(* resolve_core.                                                           *)

(* The addresses that getaddrinfo gives for the hints and that the          *)
(* selection loop accepts are those that the socket can be connected to.    *)
LEMMA UsableIsAccepted ==
    ASSUME NEW t \in Targets, NEW i \in DOMAIN t.host
    PROVE  i \in GetAddrInfo(t.host, Hints(t)) /\ Usable(t.host[i], t)
             <=> Fits(t.host[i], t) \/ (t.host[i] = "inet" /\ Fits("mapped", t))
  <1>1. /\ t.host[i] \in {"inet", "inet6"}
        /\ t.family \in {"unspec", "inet", "inet6"} /\ t.dual \in BOOLEAN
    BY ResolverAssumption, ElementOfSeq, LenProperties
  <1>2. CASE t.family = "unspec"
    BY <1>1, <1>2 DEF GetAddrInfo, Hints, Usable, Fits
  <1>3. CASE t.family = "inet"
    BY <1>1, <1>3 DEF GetAddrInfo, Hints, Usable, Fits
  <1>4. CASE t.family = "inet6"
    BY <1>1, <1>4 DEF GetAddrInfo, Hints, Usable, Fits
  <1> QED  BY <1>1, <1>2, <1>3, <1>4

(* What resolve_core gives: success exactly if there is an address for the  *)
(* socket, and then an address that fits.                                   *)
LEMMA ResolveCoreFits ==
    ASSUME NEW t \in Targets
    PROVE  /\ ResolveCore(t) \in [success : BOOLEAN, storage : {"none", "inet", "inet6", "mapped"}]
           /\ ResolveCore(t).success <=>
                 \E i \in DOMAIN t.host : Fits(t.host[i], t) \/ (t.host[i] = "inet" /\ Fits("mapped", t))
           /\ ResolveCore(t).success => Fits(ResolveCore(t).storage, t)
  <1> DEFINE fits == { i \in GetAddrInfo(t.host, Hints(t)) : Usable(t.host[i], t) }
             first == CHOOSE i \in fits : \A j \in fits : i <= j
             f == t.host[first]
             found == [success |-> TRUE,
                       storage |-> IF t.family \in {f, "unspec"} THEN f ELSE "mapped"]
  <1>1. ResolveCore(t) = IF fits = {} THEN Failure ELSE found
    BY DEF ResolveCore
  <1>2. fits \subseteq DOMAIN t.host
    BY DEF GetAddrInfo
  <1>3. \A i \in DOMAIN t.host :
           i \in fits <=> Fits(t.host[i], t) \/ (t.host[i] = "inet" /\ Fits("mapped", t))
    BY UsableIsAccepted
  <1>4. CASE fits = {}
    <2>1. ResolveCore(t) = Failure
      BY <1>1, <1>4
    <2> QED  BY <1>3, <1>4, <2>1 DEF Failure
  <1>5. CASE fits # {}
    <2>1. fits \subseteq Nat
      <3>1. DOMAIN t.host = 1 .. Len(t.host) /\ Len(t.host) \in Nat
        BY ResolverAssumption, LenProperties
      <3> QED  BY <1>2, <3>1
    <2>2. first \in fits
      <3>1. \E i \in fits : \A j \in fits : i <= j
        BY <1>5, <2>1, J!FirstPosition
      <3> QED  BY <3>1
    <2> HIDE DEF first, fits
    <2>3. f \in {"inet", "inet6"}
      BY <1>2, <2>2, ResolverAssumption, ElementOfSeq, LenProperties
    <2>4. Fits(f, t) \/ (f = "inet" /\ Fits("mapped", t))
      BY <1>2, <1>3, <2>2
    <2> HIDE DEF f
    <2>5. Fits(found.storage, t)
      BY <2>3, <2>4, ResolverAssumption DEF Fits
    <2>6. /\ found.success = TRUE
          /\ found \in [success : BOOLEAN, storage : {"none", "inet", "inet6", "mapped"}]
      BY <2>3
    <2>7. ResolveCore(t) = found
      BY <1>1, <1>5
    <2>8. \E i \in DOMAIN t.host : Fits(t.host[i], t) \/ (t.host[i] = "inet" /\ Fits("mapped", t))
      BY <1>2, <1>3, <2>2
    <2> HIDE DEF found
    <2> QED  BY <2>5, <2>6, <2>7, <2>8
  <1> QED  BY <1>4, <1>5

-----------------------------------------------------------------------------
(* The resolver.  Its steps are those of the pool and the two in which a   *)
(* coroutine asks and is resumed.                                          *)

(* Every step of the system is one of these for the resolver.               *)
LEMMA ResolverCases ==
    ASSUME [DialNext]_dialVars
    PROVE  \/ \E j \in Lookups : Resolve(j) \/ NotifyOne(j) \/ ResumeLookup(j)
           \/ \E t \in Threads : WorkerWait(t) \/ WorkerLookup(t)
           \/ StopPool \/ NotifyAll \/ JoinPool
           \/ UNCHANGED resolverVars
  BY DialAssumption DEF DialNext, DialText, DialPath, DialResolve, DialResume, PoolNext,
     PoolThread, Teardowns, dialVars

(* The facts about the queue of jobs.                                       *)
LEMMA JobsAppend ==
    ASSUME jobs \in Seq(Lookups), NEW j \in Lookups
    PROVE  /\ Append(jobs, j) \in Seq(Lookups)
           /\ \A m : (\E i \in DOMAIN Append(jobs, j) : Append(jobs, j)[i] = m) <=> Queued(m) \/ m = j
           /\ (\A i, k \in DOMAIN jobs : jobs[i] = jobs[k] => i = k) /\ ~ Queued(j) =>
                 \A i, k \in DOMAIN Append(jobs, j) :
                    Append(jobs, j)[i] = Append(jobs, j)[k] => i = k
  <1>1. /\ Append(jobs, j) \in Seq(Lookups)
        /\ \A m : J!OnList(Append(jobs, j), m) <=> J!OnList(jobs, m) \/ m = j
        /\ J!NoDuplicates(jobs) /\ ~ J!OnList(jobs, j) => J!NoDuplicates(Append(jobs, j))
    BY J!AppendFacts
  <1> QED  BY <1>1 DEF Queued, J!OnList, J!NoDuplicates

(* Taking the first job takes that job and no other.                        *)
LEMMA JobsTail ==
    ASSUME jobs \in Seq(Lookups), jobs # << >>
    PROVE  /\ Head(jobs) \in Lookups /\ Tail(jobs) \in Seq(Lookups)
           /\ Queued(Head(jobs))
           /\ \A m : Queued(m) <=> (\E i \in DOMAIN Tail(jobs) : Tail(jobs)[i] = m) \/ m = Head(jobs)
           /\ (\A i, k \in DOMAIN jobs : jobs[i] = jobs[k] => i = k) =>
                 /\ \A i, k \in DOMAIN Tail(jobs) : Tail(jobs)[i] = Tail(jobs)[k] => i = k
                 /\ ~ \E i \in DOMAIN Tail(jobs) : Tail(jobs)[i] = Head(jobs)
  <1>1. /\ Head(jobs) \in Lookups /\ J!OnList(jobs, Head(jobs))
        /\ Tail(jobs) \in Seq(Lookups)
        /\ \A m : J!OnList(jobs, m) <=> J!OnList(Tail(jobs), m) \/ m = Head(jobs)
        /\ J!NoDuplicates(jobs) =>
              J!NoDuplicates(Tail(jobs)) /\ ~ J!OnList(Tail(jobs), Head(jobs))
    BY J!TailFacts
  <1> QED  BY <1>1 DEF Queued, J!OnList, J!NoDuplicates

(* The types hold at the start.                                             *)
LEMMA ResolverTypeInit == ResolverInit => ResolverTypeOK
  <1>1. << >> \in Seq(Lookups)
    BY EmptySeq
  <1> QED  BY <1>1 DEF ResolverInit, ResolverTypeOK, Failure

(* Every step keeps the types.                                              *)
LEMMA ResolverTypeStep ==
    ASSUME ResolverTypeOK, PlaceInv, [DialNext]_dialVars
    PROVE  ResolverTypeOK'
  <1> USE DEF ResolverTypeOK, ThreadGoto, poolVars
  <1>1. ASSUME NEW j \in Lookups, Resolve(j)
        PROVE  ResolverTypeOK'
    BY <1>1, JobsAppend DEF Resolve
  <1>2. ASSUME NEW j \in Lookups, NotifyOne(j) \/ ResumeLookup(j)
        PROVE  ResolverTypeOK'
    BY <1>2 DEF NotifyOne, ResumeLookup
  <1>3. ASSUME NEW t \in Threads, WorkerWait(t)
        PROVE  ResolverTypeOK'
    <2>1. CASE jobs # << >> /\ ThreadGoto(t, "lookup", Head(jobs)) /\ jobs' = Tail(jobs)
      BY <1>3, <2>1, JobsTail DEF WorkerWait
    <2>2. CASE \E p \in {"exited", "asleep"} : ThreadGoto(t, p, NoLookup) /\ UNCHANGED jobs
      BY <1>3, <2>2 DEF WorkerWait
    <2> QED  BY <1>3, <2>1, <2>2 DEF WorkerWait
  <1>4. ASSUME NEW t \in Threads, WorkerLookup(t)
        PROVE  ResolverTypeOK'
    <2>1. tjob[t] \in Lookups /\ target[tjob[t]] \in Targets
      BY <1>4 DEF WorkerLookup, PlaceInv
    <2>2. ResolveCore(target[tjob[t]]) \in
             [success : BOOLEAN, storage : {"none", "inet", "inet6", "mapped"}]
      BY <2>1, ResolveCoreFits
    <2> QED  BY <1>4, <2>1, <2>2 DEF WorkerLookup
  <1>5. CASE StopPool \/ NotifyAll \/ JoinPool
    BY <1>5 DEF StopPool, NotifyAll, JoinPool
  <1>6. CASE UNCHANGED resolverVars
    BY <1>6 DEF resolverVars
  <1> QED  BY <1>1, <1>2, <1>3, <1>4, <1>5, <1>6, ResolverCases

(* No lookup is queued, with a thread or posted at the start.               *)
LEMMA PlaceInit == ResolverInit => PlaceInv
  BY DEF ResolverInit, PlaceInv, Queued

(* A step moves a lookup from one place to the next, never to two.          *)
LEMMA PlaceStep ==
    ASSUME ResolverTypeOK, PlaceInv, [DialNext]_dialVars
    PROVE  PlaceInv'
  <1> USE DEF ResolverTypeOK, PlaceInv, ThreadGoto, poolVars
  <1>1. ASSUME NEW j \in Lookups, Resolve(j)
        PROVE  PlaceInv'
    <2>1. ~ Queued(j)
      BY <1>1 DEF Resolve
    <2>2. /\ \A m : Queued(m)' <=> Queued(m) \/ m = j
          /\ \A i, k \in DOMAIN jobs' : jobs'[i] = jobs'[k] => i = k
      BY <1>1, <2>1, JobsAppend DEF Resolve, Queued
    <2>3. /\ lookup[j] = "new" /\ lookup'[j] = "waiting"
          /\ \A k \in Lookups : k # j => lookup'[k] = lookup[k]
          /\ UNCHANGED <<tpc, tjob, resumeNodes>>
      BY <1>1 DEF Resolve
    <2> QED  BY <2>1, <2>2, <2>3, ResolverAssumption
  <1>2. ASSUME UNCHANGED <<jobs, resumeNodes, lookup>>,
               \A t \in Threads : tjob'[t] = tjob[t],
               \A t \in Threads : tpc'[t] = "lookup" <=> tpc[t] = "lookup"
        PROVE  PlaceInv'
    <2>1. \A m : Queued(m)' <=> Queued(m)
      BY <1>2 DEF Queued
    <2> QED  BY <1>2, <2>1
  <1>3. ASSUME NEW j \in Lookups, NotifyOne(j)
        PROVE  PlaceInv'
    BY <1>2, <1>3 DEF NotifyOne
  <1>4. ASSUME NEW j \in Lookups, ResumeLookup(j)
        PROVE  PlaceInv'
    <2>1. \A m : Queued(m)' <=> Queued(m)
      BY <1>4 DEF Queued, ResumeLookup
    <2>2. /\ j \in resumeNodes /\ resumeNodes' = resumeNodes \ {j}
          /\ lookup'[j] = "resumed" /\ \A k \in Lookups : k # j => lookup'[k] = lookup[k]
          /\ UNCHANGED <<jobs, tpc, tjob>>
      BY <1>4 DEF ResumeLookup
    <2> QED  BY <2>1, <2>2
  <1>5. ASSUME NEW t \in Threads, WorkerWait(t)
        PROVE  PlaceInv'
    <2>1. CASE jobs # << >> /\ ThreadGoto(t, "lookup", Head(jobs)) /\ jobs' = Tail(jobs)
      <3>1. /\ Head(jobs) \in Lookups /\ Queued(Head(jobs))
            /\ \A m : Queued(m)' <=> Queued(m) /\ m # Head(jobs)
            /\ \A i, k \in DOMAIN jobs' : jobs'[i] = jobs'[k] => i = k
        BY <2>1, JobsTail DEF Queued
      <3>2. /\ tpc'[t] = "lookup" /\ tjob'[t] = Head(jobs) /\ tjob[t] = NoLookup
            /\ \A u \in Threads : u # t => tpc'[u] = tpc[u] /\ tjob'[u] = tjob[u]
            /\ UNCHANGED <<resumeNodes, lookup>>
        BY <1>5, <2>1 DEF WorkerWait
      <3>3. \A u \in Threads : u # t => tjob'[u] # Head(jobs)
        BY <3>1, <3>2, ResolverAssumption
      <3>4. \A u, v \in Threads : tjob'[u] = tjob'[v] /\ tjob'[u] # NoLookup => u = v
        BY <3>2, <3>3
      <3>5. \A u \in Threads : tjob'[u] # NoLookup =>
               lookup'[tjob'[u]] = "waiting" /\ ~ Queued(tjob[u])'
        BY <3>1, <3>2, <3>3
      <3>6. \A j \in resumeNodes' :
               lookup'[j] = "waiting" /\ ~ Queued(j)' /\ \A u \in Threads : tjob'[u] # j
        BY <3>1, <3>2
      <3>7. \A j \in Lookups : lookup'[j] = "waiting" =>
               Queued(j)' \/ (\E u \in Threads : tjob'[u] = j) \/ j \in resumeNodes'
        BY <3>1, <3>2, ResolverAssumption
      <3>8. \A u \in Threads : tpc'[u] = "lookup" <=> tjob'[u] # NoLookup
        BY <3>1, <3>2, ResolverAssumption
      <3> QED  BY <3>1, <3>2, <3>4, <3>5, <3>6, <3>7, <3>8
    <2>2. CASE \E p \in {"exited", "asleep"} : ThreadGoto(t, p, NoLookup) /\ UNCHANGED jobs
      <3>1. tpc[t] = "wait" /\ tjob[t] = NoLookup /\ UNCHANGED <<resumeNodes, lookup>>
        BY <1>5 DEF WorkerWait
      <3>2. \A u \in Threads : tjob'[u] = tjob[u] /\ (tpc'[u] = "lookup" <=> tpc[u] = "lookup")
        BY <2>2, <3>1
      <3> QED  BY <1>2, <2>2, <3>1, <3>2
    <2> QED  BY <1>5, <2>1, <2>2 DEF WorkerWait
  <1>6. ASSUME NEW t \in Threads, WorkerLookup(t)
        PROVE  PlaceInv'
    <2>1. /\ tjob[t] # NoLookup /\ tjob[t] \in Lookups
          /\ tpc'[t] = "wait" /\ tjob'[t] = NoLookup
          /\ \A u \in Threads : u # t => tpc'[u] = tpc[u] /\ tjob'[u] = tjob[u]
          /\ resumeNodes' = resumeNodes \cup {tjob[t]} /\ UNCHANGED <<jobs, lookup>>
      BY <1>6 DEF WorkerLookup
    <2>2. \A m : Queued(m)' <=> Queued(m)
      BY <2>1 DEF Queued
    <2>3. \A j \in resumeNodes' :
             lookup'[j] = "waiting" /\ ~ Queued(j)' /\ \A u \in Threads : tjob'[u] # j
      BY <2>1, <2>2, ResolverAssumption
    <2>4. \A j \in Lookups : lookup'[j] = "waiting" =>
             Queued(j)' \/ (\E u \in Threads : tjob'[u] = j) \/ j \in resumeNodes'
      BY <2>1, <2>2
    <2>5. \A u \in Threads : tjob'[u] # NoLookup =>
             u # t /\ lookup'[tjob'[u]] = "waiting" /\ ~ Queued(tjob[u])
      BY <2>1
    <2> QED  BY <2>1, <2>2, <2>3, <2>4, <2>5
  <1>7. CASE StopPool \/ JoinPool
    BY <1>2, <1>7 DEF StopPool, JoinPool
  <1>8. CASE NotifyAll
    BY <1>2, <1>8 DEF NotifyAll
  <1>9. CASE UNCHANGED resolverVars
    BY <1>2, <1>9 DEF resolverVars
  <1> QED  BY <1>1, <1>3, <1>4, <1>5, <1>6, <1>7, <1>8, <1>9, ResolverCases

(* The counting form: a waiting lookup is in exactly one place.             *)
LEMMA PlacesCounted == ResolverTypeOK /\ PlaceInv => LookupInOnePlace
  <1> SUFFICES ASSUME ResolverTypeOK, PlaceInv, NEW j \in Lookups
               PROVE  Cardinality(LookupPlaces(j)) = IF lookup[j] = "waiting" THEN 1 ELSE 0
    BY DEF LookupInOnePlace
  <1> USE DEF PlaceInv, Queued
  <1>1. CASE lookup[j] # "waiting"
    <2>1. \A t \in Threads : tjob[t] # j
      BY <1>1, ResolverAssumption
    <2>2. LookupPlaces(j) = {}
      BY <1>1, <2>1 DEF LookupPlaces
    <2> QED  BY <1>1, <2>2, FS_EmptySet
  <1>2. ASSUME lookup[j] = "waiting", NEW k \in DOMAIN jobs, jobs[k] = j
        PROVE  Cardinality(LookupPlaces(j)) = 1
    <2>1. \A t \in Threads : tjob[t] # j
      BY <1>2, ResolverAssumption
    <2>2. j \notin resumeNodes /\ \A i \in DOMAIN jobs : jobs[i] = j => i = k
      BY <1>2
    <2>3. LookupPlaces(j) = {<<"queued", k>>}
      BY <1>2, <2>1, <2>2 DEF LookupPlaces
    <2> QED  BY <2>3, FS_Singleton
  <1>3. ASSUME lookup[j] = "waiting", NEW t \in Threads, tjob[t] = j
        PROVE  Cardinality(LookupPlaces(j)) = 1
    <2>1. /\ \A i \in DOMAIN jobs : jobs[i] # j
          /\ j \notin resumeNodes /\ \A u \in Threads : tjob[u] = j => u = t
      BY <1>3, ResolverAssumption
    <2>2. LookupPlaces(j) = {<<"thread", t>>}
      BY <1>3, <2>1 DEF LookupPlaces
    <2> QED  BY <2>2, FS_Singleton
  <1>4. ASSUME lookup[j] = "waiting", j \in resumeNodes
        PROVE  Cardinality(LookupPlaces(j)) = 1
    <2>1. LookupPlaces(j) = {<<"posted", j>>}
      BY <1>4 DEF LookupPlaces
    <2> QED  BY <2>1, FS_Singleton
  <1> QED  BY <1>1, <1>2, <1>3, <1>4

(* A thread that leaves, leaves an empty queue, and a pool with a queue is  *)
(* awake: the thread that finds no job and the destructor do not miss each  *)
(* other.                                                                   *)
LEMMA PoolStep ==
    ASSUME ResolverTypeOK, ExitInv, PoolAwake, [DialNext]_dialVars
    PROVE  (ExitInv /\ PoolAwake)'
  <1> USE DEF ResolverTypeOK, ExitInv, PoolAwake, ThreadGoto, poolVars
  <1>1. ASSUME NEW j \in Lookups, Resolve(j)
        PROVE  (ExitInv /\ PoolAwake)'
    BY <1>1 DEF Resolve
  <1>2. ASSUME NEW j \in Lookups, NotifyOne(j)
        PROVE  (ExitInv /\ PoolAwake)'
    <2>1. CASE \E t \in Threads : tpc[t] = "asleep" /\ tpc' = [tpc EXCEPT ![t] = "wait"]
      BY <1>2, <2>1 DEF NotifyOne
    <2>2. CASE (\A t \in Threads : tpc[t] # "asleep") /\ UNCHANGED tpc
      BY <1>2, <2>2, ResolverAssumption DEF NotifyOne
    <2> QED  BY <1>2, <2>1, <2>2 DEF NotifyOne
  <1>3. ASSUME NEW t \in Threads, WorkerWait(t)
        PROVE  (ExitInv /\ PoolAwake)'
    <2>1. CASE jobs # << >> /\ ThreadGoto(t, "lookup", Head(jobs)) /\ jobs' = Tail(jobs)
      BY <1>3, <2>1 DEF WorkerWait
    <2>2. CASE stop /\ jobs = << >> /\ ThreadGoto(t, "exited", NoLookup) /\ UNCHANGED jobs
      BY <1>3, <2>2 DEF WorkerWait
    <2>3. CASE ~ stop /\ jobs = << >> /\ ThreadGoto(t, "asleep", NoLookup) /\ UNCHANGED jobs
      BY <1>3, <2>3 DEF WorkerWait
    <2> QED  BY <1>3, <2>1, <2>2, <2>3 DEF WorkerWait
  <1>4. ASSUME NEW t \in Threads, WorkerLookup(t)
        PROVE  (ExitInv /\ PoolAwake)'
    BY <1>4 DEF WorkerLookup
  <1>5. ASSUME NEW j \in Lookups, ResumeLookup(j)
        PROVE  (ExitInv /\ PoolAwake)'
    BY <1>5 DEF ResumeLookup
  <1>6. CASE StopPool
    BY <1>6 DEF StopPool
  <1>7. CASE NotifyAll
    BY <1>7, ResolverAssumption DEF NotifyAll
  <1>8. CASE JoinPool
    BY <1>8, ResolverAssumption DEF JoinPool
  <1>9. CASE UNCHANGED resolverVars
    BY <1>9 DEF resolverVars
  <1> QED  BY <1>1, <1>2, <1>3, <1>4, <1>5, <1>6, <1>7, <1>8, <1>9, ResolverCases

(* The answer is stored before the coroutine is posted and stays.           *)
LEMMA AnswerStep ==
    ASSUME ResolverTypeOK, PlaceInv, AnswerInv, [DialNext]_dialVars
    PROVE  AnswerInv'
  <1> USE DEF ResolverTypeOK, AnswerInv, poolVars
  <1>1. ASSUME NEW j \in Lookups, Resolve(j) \/ NotifyOne(j) \/ ResumeLookup(j)
        PROVE  AnswerInv'
    BY <1>1 DEF Resolve, NotifyOne, ResumeLookup
  <1>2. ASSUME NEW t \in Threads, WorkerWait(t)
        PROVE  AnswerInv'
    BY <1>2 DEF WorkerWait
  <1>3. ASSUME NEW t \in Threads, WorkerLookup(t)
        PROVE  AnswerInv'
    <2>1. tjob[t] \in Lookups
      BY <1>3 DEF WorkerLookup, PlaceInv
    <2>2. /\ answer'[tjob[t]] = ResolveCore(target[tjob[t]])
          /\ \A j \in Lookups : j # tjob[t] => answer'[j] = answer[j]
          /\ resumeNodes' = resumeNodes \cup {tjob[t]}
          /\ UNCHANGED <<target, lookup>>
      BY <1>3, <2>1 DEF WorkerLookup
    <2> QED  BY <2>1, <2>2
  <1>4. CASE StopPool \/ NotifyAll \/ JoinPool \/ UNCHANGED resolverVars
    BY <1>4 DEF StopPool, NotifyAll, JoinPool, resolverVars
  <1> QED  BY <1>1, <1>2, <1>3, <1>4, ResolverCases

(* So a coroutine goes on with an address for its socket, if there is one.  *)
LEMMA AnswerFits == ResolverTypeOK /\ AnswerInv => AnswersFit
  BY ResolveCoreFits DEF ResolverTypeOK, AnswerInv, AnswersFit

-----------------------------------------------------------------------------
(* Clients, listener and acceptors.                                        *)

(* The end of a dial whose lookup failed.                                   *)
GivesUp(c) ==
    /\ conn' = [conn EXCEPT ![c] = "done"]
    /\ result' = [result EXCEPT ![c] = "failed"]
    /\ UNCHANGED <<kind, link, listenerVars, ret, timed_out, sock>>

(* Every step of the system is one of these for the connections.            *)
LEMMA ConnectCases ==
    ASSUME [DialNext]_dialVars
    PROVE  \/ BindListenTcp \/ BindListenUnix \/ ListenerEvent \/ ListenerDispatch
           \/ CloseListener \/ CloseListenerFd
           \/ \E a \in Acceptors : AwaitReady(a) \/ AwaitSuspend(a) \/ AwaitResume(a)
           \/ \E c \in Clients :
                 \/ KernelEstablish(c) \/ KernelFail(c)
                 \/ ConnectRegister(c) \/ ConnectEvent(c) \/ ConnectDeadline(c)
                 \/ ConnectResume(c) \/ CloseClient(c) \/ CloseClientFd(c) \/ GivesUp(c)
           \/ \E c \in Clients, usable \in BOOLEAN : AwaitSuspendConnect(c, usable)
           \/ UNCHANGED connectVars
  <1>1. ASSUME NEW c \in Clients, DialText(c)
        PROVE  \E usable \in BOOLEAN : AwaitSuspendConnect(c, usable)
    <2>1. PICK u : u = Fits(IpEndpoint(target[c]), target[c]) /\ AwaitSuspendConnect(c, u)
      BY <1>1 DEF DialText
    <2>2. CASE u
      BY <2>1, <2>2 DEF AwaitSuspendConnect
    <2>3. CASE ~ u
      BY <2>1, <2>3 DEF AwaitSuspendConnect
    <2> QED  BY <2>2, <2>3
  <1>2. ASSUME NEW c \in Clients, DialResume(c)
        PROVE  GivesUp(c) \/ \E usable \in BOOLEAN : AwaitSuspendConnect(c, usable)
    <2>1. CASE ~ answer[c].success
      BY <1>2, <2>1 DEF DialResume, GivesUp
    <2>2. CASE answer[c].success
      <3>1. PICK u : u = Fits(answer[c].storage, target[c]) /\ AwaitSuspendConnect(c, u)
        BY <1>2, <2>2 DEF DialResume
      <3>2. CASE u
        BY <3>1, <3>2 DEF AwaitSuspendConnect
      <3>3. CASE ~ u
        BY <3>1, <3>3 DEF AwaitSuspendConnect
      <3> QED  BY <3>2, <3>3
    <2> QED  BY <2>1, <2>2
  <1>3. ASSUME NEW c \in Clients, DialPath(c)
        PROVE  \E usable \in BOOLEAN : AwaitSuspendConnect(c, usable)
    BY <1>3 DEF DialPath
  <1>4. CASE ConnectNext
    BY <1>4 DEF ConnectNext, AcceptorStep, ConnectEnds
  <1> QED  BY <1>1, <1>2, <1>3, <1>4 DEF DialNext, DialResolve, dialVars

(* The types hold at the start.                                             *)
LEMMA ConnectTypeInit == ConnectInit => ConnectTypeOK
  <1> SUFFICES ASSUME ConnectInit
               PROVE  ConnectTypeOK
    OBVIOUS
  <1> USE DEF ConnectInit
  <1>1. backlog \in Seq(Clients) /\ Len(backlog) <= Backlog
    BY EmptySeq, ConnectAssumption
  <1>2. faults \in 0 .. MaxFaults
    BY ConnectAssumption
  <1>3. ret \in [Clients -> {0, -1}] /\ timed_out \in [Clients -> BOOLEAN]
    OBVIOUS
  <1> QED  BY <1>1, <1>2, <1>3 DEF ConnectTypeOK

(* try_accept keeps the types, whatever it finds.                           *)
LEMMA TryAcceptTypes ==
    ASSUME ConnectTypeOK, NEW a \in Acceptors, NEW blocked \in {"suspend", "ready"},
           TryAccept(a, blocked)
    PROVE  /\ backlog' \in Seq(Clients) /\ Len(backlog') <= Backlog
           /\ acc' \in [Acceptors -> {"ready", "suspend", "registered", "posted", "stopped"}]
           /\ accepted' \subseteq Clients /\ faults' \in 0 .. MaxFaults
  <1> USE DEF ConnectTypeOK
  <1>1. CASE backlog # << >> /\ accepted' = accepted \cup {Head(backlog)} /\ backlog' = Tail(backlog)
               /\ acc' = [acc EXCEPT ![a] = "ready"] /\ UNCHANGED faults
    <2>1. /\ Head(backlog) \in Clients /\ Tail(backlog) \in Seq(Clients)
          /\ Len(Tail(backlog)) = Len(backlog) - 1
      BY <1>1, HeadTailProperties
    <2> QED  BY <1>1, <2>1, ConnectAssumption, LenProperties
  <1>2. CASE UNCHANGED <<accepted, backlog>> /\ (UNCHANGED faults \/ (faults < MaxFaults /\ faults' = faults + 1))
               /\ \E p \in {blocked, "stopped"} : acc' = [acc EXCEPT ![a] = p]
    BY <1>2, ConnectAssumption
  <1> QED  BY <1>1, <1>2 DEF TryAccept

(* Every step keeps the types; the queue of the listener keeps its bound.   *)
LEMMA ConnectTypeStep ==
    ASSUME ConnectTypeOK, [DialNext]_dialVars
    PROVE  ConnectTypeOK'
  <1> USE DEF ConnectTypeOK, listenerVars, clientVars
  <1>1. \A c \in Clients : /\ Append(backlog, c) \in Seq(Clients)
                           /\ Len(backlog) < Backlog => Len(Append(backlog, c)) <= Backlog
    BY AppendProperties, LenProperties, ConnectAssumption
  <1>2. CASE BindListenTcp \/ BindListenUnix \/ ListenerEvent
    BY <1>2 DEF BindListenTcp, BindListenUnix, ListenerEvent
  <1>15. CASE ListenerDispatch \/ CloseListener
    <2>1. acc' \in [Acceptors -> {"ready", "suspend", "registered", "posted", "stopped"}]
      BY <1>15 DEF ListenerDispatch, CloseListener, PostAcceptors
    <2> QED  BY <1>15, <2>1 DEF ListenerDispatch, CloseListener
  <1>3. CASE CloseListenerFd
    <2>1. << >> \in Seq(Clients) /\ Len(<< >>) = 0
      BY EmptySeq
    <2> QED  BY <1>3, <2>1, ConnectAssumption DEF CloseListenerFd
  <1>4. ASSUME NEW a \in Acceptors, AwaitReady(a)
        PROVE  ConnectTypeOK'
    BY <1>4, TryAcceptTypes DEF AwaitReady
  <1>5. ASSUME NEW a \in Acceptors, AwaitResume(a)
        PROVE  ConnectTypeOK'
    BY <1>5, TryAcceptTypes DEF AwaitResume
  <1>6. ASSUME NEW a \in Acceptors, AwaitSuspend(a)
        PROVE  ConnectTypeOK'
    BY <1>6 DEF AwaitSuspend
  <1>7. ASSUME NEW c \in Clients, KernelEstablish(c)
        PROVE  ConnectTypeOK'
    BY <1>1, <1>7 DEF KernelEstablish
  <1>8. ASSUME NEW c \in Clients, KernelFail(c) \/ ConnectEvent(c) \/ ConnectDeadline(c)
        PROVE  ConnectTypeOK'
    BY <1>8 DEF KernelFail, ConnectEvent, ConnectDeadline
  <1>9. ASSUME NEW c \in Clients, ConnectResume(c)
        PROVE  ConnectTypeOK'
    <2>1. /\ conn' \in [Clients -> {"new", "suspend", "registered", "posted", "done"}]
          /\ result' \in [Clients -> {"none", "ok", "failed"}]
          /\ timed_out' \in [Clients -> BOOLEAN]
      BY <1>9 DEF ConnectResume
    <2> QED  BY <1>9, <2>1 DEF ConnectResume
  <1>14. ASSUME NEW c \in Clients, ConnectRegister(c) \/ GivesUp(c)
         PROVE  ConnectTypeOK'
    BY <1>14 DEF ConnectRegister, GivesUp
  <1>12. ASSUME NEW c \in Clients, CloseClient(c)
         PROVE  ConnectTypeOK'
    BY <1>12 DEF CloseClient
  <1>13. ASSUME NEW c \in Clients, CloseClientFd(c)
         PROVE  ConnectTypeOK'
    BY <1>13 DEF CloseClientFd
  <1>10. ASSUME NEW c \in Clients, NEW usable \in BOOLEAN, AwaitSuspendConnect(c, usable)
         PROVE  ConnectTypeOK'
    <2>1. CASE ConnectFails(c)
      BY <1>10, <2>1 DEF AwaitSuspendConnect, ConnectFails
    <2>2. CASE ConnectAtOnce(c)
      BY <1>1, <1>10, <2>2 DEF AwaitSuspendConnect, ConnectAtOnce
    <2>3. CASE ConnectWaits(c)
      BY <1>10, <2>3 DEF AwaitSuspendConnect, ConnectWaits
    <2> QED  BY <1>10, <2>1, <2>2, <2>3 DEF AwaitSuspendConnect
  <1>11. CASE UNCHANGED connectVars
    BY <1>11 DEF connectVars
  <1> QED
    BY <1>2, <1>3, <1>4, <1>5, <1>6, <1>7, <1>8, <1>9, <1>10, <1>11, <1>12, <1>13,
       <1>14, <1>15, ConnectCases

(* A connection is settled before its client is posted without an error:    *)
(* the deadline leaves an error, and close() first posts whoever waits and  *)
(* then takes the attempt to connect away.                                  *)
LEMMA SettledStep ==
    ASSUME ConnectTypeOK, SettledInv, [DialNext]_dialVars
    PROVE  SettledInv'
  <1> USE DEF ConnectTypeOK, SettledInv, ConnectMisled, CloseOvertaken, listenerVars, clientVars
  <1>1. ASSUME UNCHANGED <<kind, link, clientVars>>
        PROVE  SettledInv'
    BY <1>1
  <1>2. CASE BindListenTcp \/ BindListenUnix \/ ListenerEvent \/ ListenerDispatch \/ CloseListener
    BY <1>1, <1>2 DEF BindListenTcp, BindListenUnix, ListenerEvent, ListenerDispatch, CloseListener
  <1>3. CASE CloseListenerFd
    BY <1>3 DEF CloseListenerFd
  <1>4. ASSUME NEW a \in Acceptors, AwaitReady(a) \/ AwaitSuspend(a) \/ AwaitResume(a)
        PROVE  SettledInv'
    BY <1>1, <1>4 DEF AwaitReady, AwaitSuspend, AwaitResume
  <1>5. ASSUME NEW c \in Clients, KernelEstablish(c) \/ KernelFail(c)
        PROVE  SettledInv'
    BY <1>5 DEF KernelEstablish, KernelFail
  <1>6. ASSUME NEW c \in Clients, ConnectEvent(c) \/ ConnectDeadline(c)
        PROVE  SettledInv'
    BY <1>6 DEF ConnectEvent, ConnectDeadline
  <1>7. ASSUME NEW c \in Clients, ConnectRegister(c) \/ ConnectResume(c) \/ GivesUp(c)
        PROVE  SettledInv'
    BY <1>7 DEF ConnectRegister, ConnectResume, GivesUp
  <1>10. ASSUME NEW c \in Clients, CloseClient(c)
         PROVE  SettledInv'
    BY <1>10 DEF CloseClient
  <1>11. ASSUME NEW c \in Clients, CloseClientFd(c)
         PROVE  SettledInv'
    BY <1>11 DEF CloseClientFd
  <1>8. ASSUME NEW c \in Clients, NEW usable \in BOOLEAN, AwaitSuspendConnect(c, usable)
        PROVE  SettledInv'
    <2>1. CASE ConnectFails(c)
      BY <1>8, <2>1 DEF AwaitSuspendConnect, ConnectFails
    <2>2. CASE ConnectAtOnce(c)
      BY <1>8, <2>2 DEF AwaitSuspendConnect, ConnectAtOnce
    <2>3. CASE sock[c] # "closed" /\ ConnectWaits(c)
      BY <1>8, <2>3 DEF AwaitSuspendConnect, ConnectWaits
    <2> QED  BY <1>8, <2>1, <2>2, <2>3 DEF AwaitSuspendConnect
  <1>9. CASE UNCHANGED connectVars
    BY <1>1, <1>9 DEF connectVars
  <1> QED  BY <1>2, <1>3, <1>4, <1>5, <1>6, <1>7, <1>8, <1>9, <1>10, <1>11, ConnectCases

-----------------------------------------------------------------------------

(* async_resolver, connect and accept together: a waiting lookup is in one  *)
(* place, the pool does not sleep on a queue, answers fit the sockets that  *)
(* they are for, and what a client is posted with is settled, but for the   *)
(* two cases that SettledInv names.                                         *)
THEOREM DialInvariant == DialSpec => []DialInv
  <1> DEFINE Inv == /\ ResolverTypeOK /\ ConnectTypeOK /\ PlaceInv /\ ExitInv /\ PoolAwake
                    /\ AnswerInv /\ SettledInv
  <1>1. DialInit => Inv
    <2>1. DialInit => ExitInv /\ PoolAwake /\ AnswerInv
      BY DEF DialInit, ResolverInit, ExitInv, PoolAwake, AnswerInv
    <2>2. DialInit => SettledInv
      BY DEF DialInit, ConnectInit, SettledInv
    <2> QED  BY <2>1, <2>2, ResolverTypeInit, ConnectTypeInit, PlaceInit DEF DialInit
  <1>2. Inv /\ [DialNext]_dialVars => Inv'
    BY ResolverTypeStep, ConnectTypeStep, PlaceStep, PoolStep, AnswerStep, SettledStep
  <1>3. Inv => DialInv
    BY PlacesCounted, AnswerFits DEF DialInv
  <1> QED  BY <1>1, <1>2, <1>3, PTL DEF DialSpec

(* connect_awaiter: a connect that reports success has a connection at that *)
(* moment, is a Unix socket that found the listener's queue full, or was    *)
(* resumed by a close() of its socket that has yet to close the fd.         *)
THEOREM ConnectTellsTheTruth == DialSpec => ConnectTellsTruth
  <1>1. DialInv /\ [DialNext]_dialVars =>
           [\A c \in Clients : result'[c] = "ok" /\ result[c] # "ok" =>
               link[c] = "established" \/ ConnectMisled(c) \/ CloseOvertaken(c)]_connectVars
    <2> SUFFICES ASSUME DialInv, [DialNext]_dialVars, NEW c \in Clients,
                        result'[c] = "ok", result[c] # "ok"
                 PROVE  link[c] = "established" \/ ConnectMisled(c) \/ CloseOvertaken(c)
      OBVIOUS
    <2> USE DEF DialInv, ConnectTypeOK, listenerVars, clientVars
    <2>1. ConnectResume(c) /\ Connected(c)
      <3>1. ASSUME UNCHANGED result
            PROVE  FALSE
        BY <3>1
      <3>2. ASSUME NEW d \in Clients, GivesUp(d)
            PROVE  FALSE
        BY <3>2 DEF GivesUp
      <3>3. ASSUME NEW d \in Clients, ConnectResume(d)
            PROVE  d = c /\ Connected(c)
        BY <3>3 DEF ConnectResume
      <3>4. \/ UNCHANGED result
            \/ \E d \in Clients : GivesUp(d) \/ ConnectResume(d)
        BY ConnectCases DEF BindListenTcp, BindListenUnix, ListenerEvent, ListenerDispatch,
           CloseListener, CloseListenerFd, AwaitReady, AwaitSuspend, AwaitResume, KernelEstablish,
           KernelFail, ConnectRegister, ConnectEvent, ConnectDeadline, CloseClient, CloseClientFd,
           AwaitSuspendConnect, connectVars
      <3> QED  BY <3>1, <3>2, <3>3, <3>4
    <2> QED  BY <2>1 DEF ConnectResume, Connected, SettledInv
  <1> QED  BY <1>1, DialInvariant, PTL DEF DialSpec, ConnectTellsTruth

-----------------------------------------------------------------------------
(* The bytes of a stream.                                                  *)

W == INSTANCE WorkQueueProofs WITH queue <- pipe, Nodes <- Ops

-----------------------------------------------------------------------------
(* Recursive definitions over a sequence.                                  *)

(* The sums of TotalLen.                                                    *)
LEMMA TotalLenSums ==
    ASSUME NEW s \in Seq(Nat)
    PROVE  \E f \in [0 .. Len(s) -> Nat] :
              /\ f[0] = 0 /\ \A i \in 1 .. Len(s) : f[i] = f[i - 1] + s[i]
              /\ TotalLen(s) = f[Len(s)]
  <1> DEFINE n == Len(s)
             Rec(f) == f = [i \in 0 .. n |-> IF i = 0 THEN 0 ELSE f[i - 1] + s[i]]
             F == CHOOSE f : Rec(f)
  <1>1. n \in Nat /\ \A i \in 1 .. n : s[i] \in Nat
    BY LenProperties, ElementOfSeq
  <1>2. TotalLen(s) = F[n]
    BY DEF TotalLen
  <1> HIDE DEF n
  <1>3. PICK g \in [0 .. n -> Nat] : g[0] = 0 /\ \A i \in 1 .. n : g[i] = g[i - 1] + s[i]
    <2> DEFINE step == [i \in 1 .. n |-> [a \in Nat |-> a + s[i]]]
    <2>1. step \in [1 .. n -> [Nat -> Nat]]
      BY <1>1
    <2>2. \A i \in 1 .. n : \A a \in Nat : step[i][a] = a + s[i]
      OBVIOUS
    <2> HIDE DEF step
    <2>3. PICK g \in [0 .. n -> Nat] : g[0] = 0 /\ \A i \in 1 .. n : g[i] = step[i][g[i - 1]]
      <3>1. 0 \in Nat
        OBVIOUS
      <3>2. \E g : W!Solves(g, n, Nat, 0, step)
        BY <1>1, <2>1, <3>1, W!RecursionExists
      <3> QED  BY <3>2 DEF W!Solves
    <2>4. \A i \in 1 .. n : g[i - 1] \in Nat
      BY <1>1
    <2> QED  BY <2>2, <2>3, <2>4
  <1>4. Rec(g)
    <2> DEFINE h == [i \in 0 .. n |-> IF i = 0 THEN 0 ELSE g[i - 1] + s[i]]
    <2>1. \A i \in 0 .. n : g[i] = h[i]
      BY <1>1, <1>3
    <2>2. g = h
      BY <2>1
    <2> QED  BY <2>2
  <1>5. Rec(F)
    BY <1>4
  <1> HIDE DEF F
  <1>6. F[0] = 0 /\ \A i \in 1 .. n : F[i] = F[i - 1] + s[i]
    <2>1. \A i \in 0 .. n : F[i] = IF i = 0 THEN 0 ELSE F[i - 1] + s[i]
      BY <1>5
    <2> QED  BY <1>1, <2>1
  <1>7. \A i \in 0 .. n : F[i] = g[i]
    <2>1. W!SameSteps(F, g, n)
      BY <1>3, <1>6 DEF W!SameSteps
    <2> QED  BY <1>1, <2>1, W!RecursionUnique
  <1>8. TotalLen(s) = g[n]
    BY <1>1, <1>2, <1>7
  <1> QED  BY <1>3, <1>8 DEF n

(* The bytes before the i-th buffer, and all of them.                       *)
LEMMA TotalLenFacts ==
    ASSUME NEW s \in Seq(Nat)
    PROVE  /\ TotalLen(s) \in Nat
           /\ s = << >> => TotalLen(s) = 0
           /\ \A i \in 1 .. Len(s) : TotalLen(SubSeq(s, 1, i - 1)) \in Nat
           /\ Len(s) > 0 => /\ TotalLen(SubSeq(s, 1, 0)) = 0
                            /\ TotalLen(s) = TotalLen(SubSeq(s, 1, Len(s) - 1)) + s[Len(s)]
           /\ \A i \in 1 .. Len(s) - 1 :
                 TotalLen(SubSeq(s, 1, i)) = TotalLen(SubSeq(s, 1, i - 1)) + s[i]
  <1> DEFINE n == Len(s)
  <1>1. n \in Nat /\ \A i \in 1 .. n : s[i] \in Nat
    BY LenProperties, ElementOfSeq
  <1>2. PICK f \in [0 .. n -> Nat] :
           /\ f[0] = 0 /\ \A i \in 1 .. n : f[i] = f[i - 1] + s[i]
           /\ TotalLen(s) = f[n]
    BY TotalLenSums
  <1>3. ASSUME NEW k \in 0 .. n
        PROVE  TotalLen(SubSeq(s, 1, k)) = f[k]
    <2> DEFINE q == SubSeq(s, 1, k)
    <2>1. /\ q \in Seq(Nat) /\ Len(q) = k /\ \A i \in 1 .. k : q[i] = s[i]
      <3>1. k \in Int /\ \A i \in 1 .. k : s[i] \in Nat
        BY <1>1
      <3> QED  BY <1>1, <3>1, SubSeqProperties
    <2> HIDE DEF q
    <2>2. PICK g \in [0 .. k -> Nat] :
             /\ g[0] = 0 /\ \A i \in 1 .. k : g[i] = g[i - 1] + q[i]
             /\ TotalLen(q) = g[k]
      BY <2>1, TotalLenSums
    <2>3. k \in Nat /\ k \in 0 .. k /\ f[0] = g[0]
      BY <1>1, <1>2, <2>2
    <2>4. ASSUME NEW i \in 1 .. k, f[i - 1] = g[i - 1] PROVE f[i] = g[i]
      <3>1. i \in 1 .. n
        BY <1>1
      <3> QED  BY <1>2, <2>1, <2>2, <2>4, <3>1
    <2>5. \A i \in 0 .. k : f[i] = g[i]
      <3>1. W!SameSteps(f, g, k)
        BY <2>3, <2>4 DEF W!SameSteps
      <3> QED  BY <2>3, <3>1, W!RecursionUnique
    <2> QED  BY <2>2, <2>3, <2>5 DEF q
  <1>4. \A i \in 0 .. n : f[i] \in Nat
    BY <1>2
  <1>5. s = << >> => n = 0
    BY EmptySeq
  <1> HIDE DEF n
  <1>6. TotalLen(s) \in Nat /\ (s = << >> => TotalLen(s) = 0)
    BY <1>1, <1>2, <1>4, <1>5
  <1>7. \A i \in 1 .. n : TotalLen(SubSeq(s, 1, i - 1)) \in Nat
    BY <1>1, <1>3, <1>4
  <1>8. n > 0 => /\ TotalLen(SubSeq(s, 1, 0)) = 0
                 /\ TotalLen(s) = TotalLen(SubSeq(s, 1, n - 1)) + s[n]
    BY <1>1, <1>2, <1>3
  <1>9. \A i \in 1 .. n - 1 :
           TotalLen(SubSeq(s, 1, i)) = TotalLen(SubSeq(s, 1, i - 1)) + s[i]
    BY <1>1, <1>2, <1>3
  <1> QED  BY <1>6, <1>7, <1>8, <1>9 DEF n

-----------------------------------------------------------------------------
(* The iovecs.                                                             *)

Iov == [base : Nat, len : Nat]
Bytes == Sends \X Nat

(* Where the i-th iovec begins; the last one is followed by the end.        *)
Begin(v, i, to) == IF i = Len(v) + 1 THEN to ELSE v[i].base

(* The iovecs follow each other.                                            *)
LEMMA BeginFacts ==
    ASSUME NEW v \in Seq(Iov), NEW from \in Nat, NEW to \in Nat, Covers(v, from, to)
    PROVE  /\ Begin(v, 1, to) = from
           /\ \A i \in 1 .. Len(v) : /\ v[i].base \in Nat /\ v[i].len \in Nat
                                     /\ Begin(v, i, to) = v[i].base
                                     /\ Begin(v, i + 1, to) = v[i].base + v[i].len
  <1>1. Len(v) \in Nat /\ \A i \in 1 .. Len(v) : v[i] \in Iov
    BY LenProperties, ElementOfSeq
  <1>2. v = << >> <=> Len(v) = 0
    BY EmptySeq
  <1>3. Begin(v, 1, to) = from
    BY <1>1, <1>2 DEF Covers, Begin
  <1>4. ASSUME NEW i \in 1 .. Len(v)
        PROVE  /\ v[i].base \in Nat /\ v[i].len \in Nat
               /\ Begin(v, i, to) = v[i].base
    BY <1>1 DEF Begin, Iov
  <1>5. ASSUME NEW i \in 1 .. Len(v)
        PROVE  Begin(v, i + 1, to) = v[i].base + v[i].len
    <2>1. CASE i = Len(v)
      BY <1>1, <1>2, <2>1 DEF Begin, Covers
    <2>2. CASE i # Len(v)
      <3>1. i \in 1 .. Len(v) - 1 /\ i + 1 # Len(v) + 1
        BY <1>1, <2>2
      <3> QED  BY <3>1 DEF Begin, Covers
    <2> QED  BY <2>1, <2>2
  <1> QED  BY <1>3, <1>4, <1>5

(* The iovecs from the i-th on cover the rest.                              *)
LEMMA SuffixCovers ==
    ASSUME NEW v \in Seq(Iov), NEW from \in Nat, NEW to \in Nat, Covers(v, from, to),
           NEW i \in 1 .. Len(v) + 1
    PROVE  /\ SubSeq(v, i, Len(v)) \in Seq(Iov)
           /\ Covers(SubSeq(v, i, Len(v)), Begin(v, i, to), to)
  <1> DEFINE L == Len(v)
             q == SubSeq(v, i, L)
  <1>1. L \in Nat /\ \A k \in 1 .. L : v[k] \in Iov
    BY LenProperties, ElementOfSeq
  <1>2. /\ Begin(v, 1, to) = from
        /\ \A k \in 1 .. L : /\ v[k].base \in Nat /\ v[k].len \in Nat
                             /\ Begin(v, k, to) = v[k].base
                             /\ Begin(v, k + 1, to) = v[k].base + v[k].len
    BY BeginFacts
  <1>3. /\ q \in Seq(Iov) /\ Len(q) = L - i + 1
        /\ \A k \in 1 .. L - i + 1 : q[k] = v[i + k - 1]
    <2>1. i \in Int /\ L \in Int /\ \A k \in i .. L : v[k] \in Iov
      BY <1>1
    <2> HIDE DEF L
    <2> QED  BY <1>1, <2>1, SubSeqProperties DEF L
  <1>4. q = << >> <=> Len(q) = 0
    BY <1>3, EmptySeq
  <1>5. i = L + 1 => Begin(v, i, to) = to
    BY DEF Begin
  <1> HIDE DEF q, L
  <1>6. q = << >> => Begin(v, i, to) = to
    BY <1>1, <1>3, <1>4, <1>5 DEF L
  <1>7. q # << >> => q[1].base = Begin(v, i, to) /\ q[Len(q)].base + q[Len(q)].len = to
    <2>1. SUFFICES ASSUME q # << >> PROVE q[1].base = Begin(v, i, to) /\ q[Len(q)].base + q[Len(q)].len = to
      OBVIOUS
    <2>2. i \in 1 .. L /\ 1 \in 1 .. L - i + 1 /\ L - i + 1 \in 1 .. L - i + 1 /\ L \in 1 .. L
      BY <1>1, <1>3, <1>4, <2>1 DEF L
    <2>3. q[1] = v[i] /\ q[Len(q)] = v[L]
      BY <1>1, <1>3, <2>2
    <2>4. Begin(v, L + 1, to) = to
      BY DEF Begin, L
    <2> QED  BY <1>2, <2>2, <2>3, <2>4
  <1>8. ASSUME NEW k \in 1 .. Len(q) - 1
        PROVE  q[k + 1].base = q[k].base + q[k].len
    <2>1. i + k - 1 \in 1 .. L - 1 /\ k \in 1 .. L - i + 1 /\ k + 1 \in 1 .. L - i + 1
      BY <1>1, <1>3 DEF L
    <2>2. q[k] = v[i + k - 1] /\ q[k + 1] = v[(i + k - 1) + 1]
      BY <1>1, <1>3, <2>1
    <2>3. v[(i + k - 1) + 1].base = v[i + k - 1].base + v[i + k - 1].len
      BY <2>1 DEF Covers, L
    <2> QED  BY <2>2, <2>3
  <1>9. Covers(q, Begin(v, i, to), to)
    BY <1>6, <1>7, <1>8 DEF Covers
  <1> QED  BY <1>3, <1>9 DEF q, L

(* So do the rest of an iovec and those that follow.                        *)
LEMMA PartCovers ==
    ASSUME NEW v \in Seq(Iov), NEW from \in Nat, NEW to \in Nat, Covers(v, from, to),
           NEW i \in 1 .. Len(v), NEW k \in Nat, k < v[i].len
    PROVE  LET w == <<[base |-> v[i].base + k, len |-> v[i].len - k]>> \o SubSeq(v, i + 1, Len(v))
           IN  w \in Seq(Iov) /\ Covers(w, v[i].base + k, to)
  <1> DEFINE x == [base |-> v[i].base + k, len |-> v[i].len - k]
             r == SubSeq(v, i + 1, Len(v))
             w == <<x>> \o r
  <1>1. Len(v) \in Nat /\ i + 1 \in 1 .. Len(v) + 1
    BY LenProperties
  <1>2. /\ v[i].base \in Nat /\ v[i].len \in Nat
        /\ Begin(v, i + 1, to) = v[i].base + v[i].len
    BY BeginFacts
  <1>3. r \in Seq(Iov) /\ Covers(r, v[i].base + v[i].len, to)
    BY <1>1, <1>2, SuffixCovers
  <1>4. x \in Iov /\ x.base + x.len = v[i].base + v[i].len /\ x.base = v[i].base + k
    <2> DEFINE b == v[i].base
               l == v[i].len
    <2>1. b \in Nat /\ l \in Nat /\ k < l
      BY <1>2
    <2> HIDE DEF b, l
    <2>2. x = [base |-> b + k, len |-> l - k]
      BY DEF b, l
    <2> HIDE DEF x
    <2>3. x \in Iov /\ x.base + x.len = b + l /\ x.base = b + k
      BY <2>1, <2>2 DEF Iov
    <2> QED  BY <2>3 DEF b, l
  <1> HIDE DEF x, r
  <1>5. <<x>> \in Seq(Iov) /\ Len(<<x>>) = 1 /\ <<x>>[1] = x
    BY <1>4
  <1>6. /\ w \in Seq(Iov) /\ Len(w) = 1 + Len(r)
        /\ \A j \in 1 .. 1 + Len(r) : w[j] = IF j <= 1 THEN <<x>>[j] ELSE r[j - 1]
    BY <1>3, <1>5, ConcatProperties
  <1>7. Len(r) \in Nat /\ (r = << >> <=> Len(r) = 0)
    BY <1>3, EmptySeq, LenProperties
  <1> HIDE DEF w
  <1>8. w # << >> /\ w[1] = x /\ \A j \in 1 .. Len(r) : w[j + 1] = r[j]
    <2>1. w # << >>
      BY <1>6, <1>7, EmptySeq
    <2>2. w[1] = x
      BY <1>5, <1>6, <1>7
    <2>3. \A j \in 1 .. Len(r) : w[j + 1] = r[j]
      BY <1>6, <1>7
    <2> QED  BY <2>1, <2>2, <2>3
  <1>9. CASE r = << >>
    <2>1. Len(w) = 1 /\ v[i].base + v[i].len = to
      BY <1>3, <1>6, <1>7, <1>9 DEF Covers
    <2>2. Covers(w, v[i].base + k, to)
      BY <1>4, <1>8, <2>1 DEF Covers
    <2> QED  BY <1>6, <2>2 DEF w, x, r
  <1>10. CASE r # << >>
    <2>1. Len(r) \in 1 .. Len(r) /\ r[1].base = v[i].base + v[i].len /\ r[Len(r)].base + r[Len(r)].len = to
      BY <1>3, <1>7, <1>10 DEF Covers
    <2>2. w[Len(w)] = r[Len(r)] /\ w[2] = r[1]
      BY <1>6, <1>7, <1>8, <2>1
    <2>3. ASSUME NEW j \in 1 .. Len(w) - 1 PROVE w[j + 1].base = w[j].base + w[j].len
      <3>1. CASE j = 1
        BY <1>4, <1>8, <2>1, <2>2, <3>1
      <3>2. CASE j # 1
        <4>1. j - 1 \in 1 .. Len(r) - 1 /\ j - 1 \in 1 .. Len(r) /\ j \in 1 .. Len(r)
          BY <1>6, <1>7, <3>2
        <4>2. w[j + 1] = r[j] /\ w[(j - 1) + 1] = r[j - 1]
          BY <1>8, <4>1
        <4>3. r[(j - 1) + 1].base = r[j - 1].base + r[j - 1].len
          BY <1>3, <4>1 DEF Covers
        <4> QED  BY <4>1, <4>2, <4>3
      <3> QED  BY <3>1, <3>2
    <2>4. Covers(w, v[i].base + k, to)
      BY <1>4, <1>8, <2>1, <2>2, <2>3 DEF Covers
    <2> QED  BY <1>6, <2>4 DEF w, x, r
  <1> QED  BY <1>9, <1>10

(* One turn of the loop of advance_iov: what is left when `remain' bytes    *)
(* are to be skipped from the i-th iovec on, given the same for the next.   *)
AdvanceTurn(v, i, remain, next) ==
    IF remain = 0 \/ i > Len(v) THEN SubSeq(v, i, Len(v))
    ELSE IF remain >= v[i].len THEN next[remain - v[i].len]
    ELSE <<[base |-> v[i].base + remain, len |-> v[i].len - remain]>> \o SubSeq(v, i + 1, Len(v))

Advances(g, v, n) ==
    g = [i \in 1 .. Len(v) + 1 |-> [remain \in 0 .. n |-> AdvanceTurn(v, i, remain, g[i + 1])]]

(* A turn leaves iovecs.                                                    *)
LEMMA TurnType ==
    ASSUME NEW v \in Seq(Iov), NEW from \in Nat, NEW to \in Nat, Covers(v, from, to),
           NEW n \in Nat, NEW i \in 1 .. Len(v) + 1, NEW next,
           i <= Len(v) => next \in [0 .. n -> Seq(Iov)], NEW remain \in 0 .. n
    PROVE  AdvanceTurn(v, i, remain, next) \in Seq(Iov)
  <1>1. Len(v) \in Nat
    BY LenProperties
  <1>2. CASE remain = 0 \/ i > Len(v)
    BY <1>2, SuffixCovers DEF AdvanceTurn
  <1>3. CASE ~ (remain = 0 \/ i > Len(v))
    <2>1. i \in 1 .. Len(v) /\ v[i].base \in Nat /\ v[i].len \in Nat
      <3>1. i \in 1 .. Len(v)
        BY <1>1, <1>3
      <3> QED  BY <3>1, BeginFacts
    <2>2. CASE remain >= v[i].len
      <3>1. remain - v[i].len \in 0 .. n
        BY <2>1, <2>2
      <3>2. next[remain - v[i].len] \in Seq(Iov)
        BY <2>1, <3>1
      <3> QED  BY <1>3, <2>2, <3>2 DEF AdvanceTurn
    <2>3. CASE ~ (remain >= v[i].len)
      <3>1. remain \in Nat /\ remain < v[i].len
        BY <2>1, <2>3
      <3>2. <<[base |-> v[i].base + remain, len |-> v[i].len - remain]>> \o SubSeq(v, i + 1, Len(v))
               \in Seq(Iov)
        BY <2>1, <3>1, PartCovers
      <3> QED  BY <1>3, <2>3, <3>2 DEF AdvanceTurn
    <2> QED  BY <2>2, <2>3
  <1> QED  BY <1>2, <1>3

(* The recursive definition in advance_iov has a solution.                  *)
LEMMA AdvanceExists ==
    ASSUME NEW v \in Seq(Iov), NEW from \in Nat, NEW to \in Nat, Covers(v, from, to),
           NEW n \in Nat
    PROVE  \E g : Advances(g, v, n)
  <1> DEFINE L == Len(v)
             V == [0 .. n -> Seq(Iov)]
             b == [remain \in 0 .. n |-> SubSeq(v, L + 1, L)]
             step == [k \in 1 .. L |-> [a \in V |->
                        [remain \in 0 .. n |-> AdvanceTurn(v, L + 1 - k, remain, a)]]]
  <1>1. L \in Nat
    BY LenProperties
  <1>2. b \in V
    <2>1. L + 1 \in 1 .. L + 1
      BY <1>1
    <2>2. SubSeq(v, L + 1, L) \in Seq(Iov)
      BY <2>1, SuffixCovers
    <2> QED  BY <2>2
  <1>3. step \in [1 .. L -> [V -> V]]
    <2>1. ASSUME NEW k \in 1 .. L, NEW a \in V, NEW remain \in 0 .. n
          PROVE  AdvanceTurn(v, L + 1 - k, remain, a) \in Seq(Iov)
      <3>1. L + 1 - k \in 1 .. L + 1
        BY <1>1
      <3> QED  BY <3>1, TurnType
    <2> HIDE DEF L
    <2>2. ASSUME NEW k \in 1 .. L, NEW a \in V
          PROVE  [remain \in 0 .. n |-> AdvanceTurn(v, L + 1 - k, remain, a)] \in V
      BY <2>1
    <2> HIDE DEF V
    <2> QED  BY <2>2
  <1>4. ASSUME NEW k \in 1 .. L, NEW a \in V
        PROVE  step[k][a] = [remain \in 0 .. n |-> AdvanceTurn(v, L + 1 - k, remain, a)]
    <2> HIDE DEF L, V
    <2> QED  OBVIOUS
  <1>5. L \in 0 .. L /\ \A i \in 1 .. L : L + 1 - i \in 1 .. L /\ L - i \in 0 .. L
    BY <1>1
  <1> HIDE DEF step, b, V
  <1>6. PICK h : W!Solves(h, L, V, b, step)
    BY <1>1, <1>2, <1>3, W!RecursionExists
  <1>7. h \in [0 .. L -> V] /\ h[0] = b /\ \A k \in 1 .. L : h[k] = step[k][h[k - 1]]
    BY <1>6 DEF W!Solves
  <1> DEFINE g == [i \in 1 .. L + 1 |-> h[L + 1 - i]]
             G == [i \in 1 .. L + 1 |->
                     [remain \in 0 .. n |-> AdvanceTurn(v, i, remain, g[i + 1])]]
  <1>8. ASSUME NEW i \in 1 .. L + 1
        PROVE  g[i] = G[i]
    <2> HIDE DEF L
    <2>1. CASE i = L + 1
      <3>1. g[i] = b
        BY <1>1, <1>7, <2>1
      <3>2. i > L /\ \A remain \in 0 .. n : AdvanceTurn(v, i, remain, g[i + 1]) = SubSeq(v, L + 1, L)
        BY <1>1, <2>1 DEF AdvanceTurn, L
      <3>3. G[i] = b
        BY <3>2 DEF b
      <3> QED  BY <3>1, <3>3
    <2>2. CASE i # L + 1
      <3>1. i \in 1 .. L /\ L + 1 - i \in 1 .. L /\ (L + 1 - i) - 1 = L - i /\ L + 1 - (L + 1 - i) = i
            /\ i + 1 \in 1 .. L + 1 /\ L + 1 - (i + 1) = L - i /\ L - i \in 0 .. L
        BY <1>1, <2>2
      <3>2. g[i] = h[L + 1 - i] /\ g[i + 1] = h[L - i]
        BY <3>1
      <3>3. h[L - i] \in V /\ h[L + 1 - i] = step[L + 1 - i][h[L - i]]
        BY <1>7, <3>1
      <3>4. step[L + 1 - i][h[L - i]] =
              [remain \in 0 .. n |-> AdvanceTurn(v, i, remain, h[L - i])]
        BY <1>4, <3>1, <3>3
      <3> HIDE DEF g
      <3> QED  BY <3>2, <3>3, <3>4
    <2> QED  BY <2>1, <2>2
  <1>9. g = G
    <2> HIDE DEF L
    <2> QED  BY <1>8
  <1>10. Advances(g, v, n)
    BY <1>9 DEF Advances
  <1> QED  BY <1>10

(* Whatever number of bytes a call has written, advance_iov leaves iovecs   *)
(* that cover the rest.                                                     *)
LEMMA AdvanceFacts ==
    ASSUME NEW v \in Seq(Iov), NEW from \in Nat, NEW to \in Nat, Covers(v, from, to),
           NEW n \in Nat, from + n <= to
    PROVE  advance_iov(v, n) \in Seq(Iov) /\ Covers(advance_iov(v, n), from + n, to)
  <1> DEFINE L == Len(v)
             F == CHOOSE g : Advances(g, v, n)
  <1>1. L \in Nat
    BY LenProperties
  <1>2. advance_iov(v, n) = F[1][n]
    BY DEF advance_iov, Advances, AdvanceTurn
  <1>3. Advances(F, v, n)
    <2>1. \E g : Advances(g, v, n)
      BY AdvanceExists
    <2> QED  BY <2>1
  <1> HIDE DEF F
  <1>4. \A i \in 1 .. L + 1 : F[i] = [remain \in 0 .. n |-> AdvanceTurn(v, i, remain, F[i + 1])]
    BY <1>3 DEF Advances
  <1> DEFINE Good(i) == /\ F[i] \in [0 .. n -> Seq(Iov)]
                        /\ \A k \in 0 .. n : Begin(v, i, to) + k <= to =>
                              Covers(F[i][k], Begin(v, i, to) + k, to)
             Bad == { k \in 0 .. L : ~ Good(L + 1 - k) }
  <1>5. ASSUME NEW i \in 1 .. L + 1, i <= L => Good(i + 1)
        PROVE  Good(i)
    <2>1. \A remain \in 0 .. n : AdvanceTurn(v, i, remain, F[i + 1]) \in Seq(Iov)
      <3>1. i <= L => F[i + 1] \in [0 .. n -> Seq(Iov)]
        BY <1>5
      <3> QED  BY <3>1, TurnType
    <2>2. F[i] \in [0 .. n -> Seq(Iov)]
      BY <1>4, <2>1
    <2>3. ASSUME NEW k \in 0 .. n, Begin(v, i, to) + k <= to
          PROVE  Covers(F[i][k], Begin(v, i, to) + k, to)
      <3>1. F[i][k] = AdvanceTurn(v, i, k, F[i + 1])
        BY <1>4
      <3>2. CASE i = L + 1
        <4>1. Begin(v, i, to) = to
          BY <3>2 DEF Begin
        <4>2. k = 0 /\ Begin(v, i, to) + k = Begin(v, i, to)
          BY <2>3, <4>1
        <4>3. F[i][k] = SubSeq(v, i, L)
          BY <3>1, <4>2 DEF AdvanceTurn
        <4>4. Covers(SubSeq(v, i, L), Begin(v, i, to), to)
          BY SuffixCovers
        <4> QED  BY <4>2, <4>3, <4>4
      <3>3. CASE i # L + 1
        <4>1. i \in 1 .. L
          BY <1>1, <3>3
        <4>2. /\ v[i].base \in Nat /\ v[i].len \in Nat /\ Begin(v, i, to) = v[i].base
              /\ Begin(v, i + 1, to) = v[i].base + v[i].len
          BY <4>1, BeginFacts
        <4>3. CASE k = 0
          <5>1. F[i][k] = SubSeq(v, i, L) /\ Begin(v, i, to) + k = Begin(v, i, to)
            BY <3>1, <4>2, <4>3 DEF AdvanceTurn
          <5>2. Covers(SubSeq(v, i, L), Begin(v, i, to), to)
            BY SuffixCovers
          <5> QED  BY <5>1, <5>2
        <4>4. CASE k # 0 /\ k >= v[i].len
          <5>1. ~ (i > Len(v)) /\ i <= L
            BY <1>1, <4>1
          <5>2. F[i][k] = F[i + 1][k - v[i].len]
            BY <3>1, <4>4, <5>1 DEF AdvanceTurn
          <5>3. k - v[i].len \in 0 .. n
            BY <4>2, <4>4
          <5>4. /\ Begin(v, i + 1, to) + (k - v[i].len) = Begin(v, i, to) + k
                /\ Begin(v, i + 1, to) + (k - v[i].len) <= to
            BY <2>3, <4>2
          <5>5. Covers(F[i + 1][k - v[i].len], Begin(v, i + 1, to) + (k - v[i].len), to)
            BY <1>5, <5>1, <5>3, <5>4
          <5> QED  BY <5>2, <5>4, <5>5
        <4>5. CASE k # 0 /\ ~ (k >= v[i].len)
          <5>1. ~ (i > Len(v)) /\ k \in Nat /\ k < v[i].len
            BY <1>1, <4>1, <4>2, <4>5
          <5> DEFINE w == <<[base |-> v[i].base + k, len |-> v[i].len - k]>>
                          \o SubSeq(v, i + 1, Len(v))
          <5>2. F[i][k] = w
            BY <3>1, <4>5, <5>1 DEF AdvanceTurn
          <5>3. Covers(w, v[i].base + k, to)
            BY <4>1, <5>1, PartCovers
          <5> HIDE DEF w
          <5> QED  BY <4>2, <5>2, <5>3
        <4> QED  BY <4>3, <4>4, <4>5
      <3> QED  BY <3>2, <3>3
    <2> QED  BY <2>2, <2>3
  <1> HIDE DEF Good
  <1>6. Bad = {}
    <2>1. SUFFICES ASSUME Bad # {} PROVE FALSE
      OBVIOUS
    <2>2. PICK k \in Bad : \A j \in Bad : k <= j
      <3>1. Bad \subseteq Nat
        BY <1>1
      <3> HIDE DEF Bad
      <3> QED  BY <2>1, <3>1, W!FirstPosition
    <2> HIDE DEF L
    <2>3. k \in 0 .. L /\ L + 1 - k \in 1 .. L + 1
      BY <1>1, <2>2
    <2>4. L + 1 - k <= L => Good((L + 1 - k) + 1)
      <3>1. SUFFICES ASSUME L + 1 - k <= L PROVE Good((L + 1 - k) + 1)
        OBVIOUS
      <3>2. k - 1 \in 0 .. L /\ ~ (k <= k - 1) /\ (L + 1 - k) + 1 = L + 1 - (k - 1)
        BY <1>1, <2>3, <3>1
      <3>3. k - 1 \notin Bad
        BY <2>2, <3>2
      <3> QED  BY <3>2, <3>3
    <2>5. Good(L + 1 - k)
      BY <1>5, <2>3, <2>4
    <2> QED  BY <2>2, <2>5
  <1>7. Good(1)
    <2> HIDE DEF L
    <2>1. L \in 0 .. L /\ L + 1 - L = 1
      BY <1>1
    <2> QED  BY <1>6, <2>1
  <1>8. F[1][n] \in Seq(Iov) /\ Covers(F[1][n], from + n, to)
    <2>1. n \in 0 .. n /\ Begin(v, 1, to) = from
      BY BeginFacts
    <2> QED  BY <1>7, <2>1 DEF Good
  <1> QED  BY <1>2, <1>8

-----------------------------------------------------------------------------
(* The bytes that are offered to a call.                                   *)

(* The bytes a + 1 .. b of a send.                                          *)
Run(s, a, b) == [j \in 1 .. b - a |-> Byte(s, a + j)]

LEMMA RunFacts ==
    ASSUME NEW s \in Sends, NEW a \in Nat, NEW b \in Nat, a <= b
    PROVE  /\ Run(s, a, b) \in Seq(Bytes) /\ Len(Run(s, a, b)) = b - a
           /\ \A j \in 1 .. b - a : Run(s, a, b)[j] = Byte(s, a + j)
  <1>1. b - a \in Nat /\ Run(s, a, b) \in [1 .. b - a -> Bytes]
    BY DEF Run, Byte, Bytes
  <1>2. Run(s, a, b) \in Seq(Bytes) /\ Len(Run(s, a, b)) = b - a
    BY <1>1, FunctionIsSeq
  <1>3. \A j \in 1 .. b - a : Run(s, a, b)[j] = Byte(s, a + j)
    BY DEF Run
  <1> QED  BY <1>2, <1>3

(* Adjacent ones join.                                                      *)
RunsJoin(s, a, b, c) == Run(s, a, b) \o Run(s, b, c) = Run(s, a, c)

(* They do, wherever they are split.                                        *)
LEMMA RunJoin ==
    ASSUME NEW s \in Sends, NEW a \in Nat, NEW b \in Nat, NEW c \in Nat, a <= b, b <= c
    PROVE  RunsJoin(s, a, b, c)
  <1> DEFINE p == Run(s, a, b)
             q == Run(s, b, c)
             r == Run(s, a, c)
  <1>1. /\ p \in Seq(Bytes) /\ Len(p) = b - a /\ \A j \in 1 .. b - a : p[j] = Byte(s, a + j)
    BY RunFacts
  <1>2. /\ q \in Seq(Bytes) /\ Len(q) = c - b /\ \A j \in 1 .. c - b : q[j] = Byte(s, b + j)
    BY RunFacts
  <1>3. /\ r \in Seq(Bytes) /\ Len(r) = c - a /\ \A j \in 1 .. c - a : r[j] = Byte(s, a + j)
    BY RunFacts
  <1> HIDE DEF p, q, r
  <1>4. /\ p \o q \in Seq(Bytes) /\ Len(p \o q) = Len(p) + Len(q)
        /\ \A i \in 1 .. Len(p) + Len(q) :
              (p \o q)[i] = IF i <= Len(p) THEN p[i] ELSE q[i - Len(p)]
    BY <1>1, <1>2, ConcatProperties
  <1> DEFINE w == p \o q
  <1>5. w \in Seq(Bytes) /\ Len(w) = c - a
    BY <1>1, <1>2, <1>4
  <1>6. ASSUME NEW i \in 1 .. c - a PROVE w[i] = r[i]
    <2>1. CASE i <= b - a
      <3>1. w[i] = p[i]
        BY <1>1, <1>2, <1>4, <2>1
      <3> HIDE DEF w
      <3> QED  BY <1>1, <1>3, <2>1, <3>1
    <2>2. CASE ~ (i <= b - a)
      <3>1. w[i] = q[i - (b - a)]
        BY <1>1, <1>2, <1>4, <2>2
      <3>2. i - (b - a) \in 1 .. c - b /\ b + (i - (b - a)) = a + i
        BY <2>2
      <3> HIDE DEF w
      <3> QED  BY <1>2, <1>3, <3>1, <3>2
    <2> QED  BY <2>1, <2>2
  <1> HIDE DEF w
  <1>7. w = r
    BY <1>3, <1>5, <1>6, SeqEqual
  <1> QED  BY <1>7 DEF w, p, q, r, RunsJoin

(* Iovecs without a gap or an overlap offer the bytes between their ends.   *)
LEMMA FlattenRuns ==
    ASSUME NEW s \in Sends, NEW v \in Seq(Iov), NEW from \in Nat, NEW to \in Nat,
           Covers(v, from, to)
    PROVE  /\ from <= to
           /\ FlattenSeq([ i \in DOMAIN v |->
                             [ j \in 1 .. v[i].len |-> Byte(s, v[i].base + j) ] ]) = Run(s, from, to)
  <1> DEFINE L == Len(v)
             q == [ i \in DOMAIN v |-> [ j \in 1 .. v[i].len |-> Byte(s, v[i].base + j) ] ]
  <1>1. L \in Nat /\ DOMAIN v = 1 .. L
    BY LenProperties
  <1>2. /\ Begin(v, 1, to) = from
        /\ \A i \in 1 .. L : /\ v[i].base \in Nat /\ v[i].len \in Nat
                             /\ Begin(v, i, to) = v[i].base
                             /\ Begin(v, i + 1, to) = v[i].base + v[i].len
    BY BeginFacts
  <1>3. ASSUME NEW i \in 1 .. L
        PROVE  q[i] = Run(s, Begin(v, i, to), Begin(v, i + 1, to)) /\ q[i] \in Seq(Bytes)
    <2> DEFINE b == v[i].base
               l == v[i].len
    <2>1. b \in Nat /\ l \in Nat /\ Begin(v, i, to) = b /\ Begin(v, i + 1, to) = b + l
      BY <1>2
    <2>2. q[i] = [ j \in 1 .. l |-> Byte(s, b + j) ]
      BY <1>1
    <2> HIDE DEF b, l, q
    <2>3. (b + l) - b = l /\ b + l \in Nat /\ b <= b + l
      BY <2>1
    <2>4. q[i] = Run(s, b, b + l)
      BY <2>2, <2>3 DEF Run
    <2>5. Run(s, b, b + l) \in Seq(Bytes)
      BY <2>1, <2>3, RunFacts
    <2> QED  BY <2>1, <2>4, <2>5
  <1>4. q \in Seq(Seq(Bytes)) /\ Len(q) = L
    <2>1. q \in [1 .. L -> Seq(Bytes)]
      <3>1. DOMAIN q = 1 .. L /\ q = [i \in 1 .. L |-> q[i]]
        BY <1>1
      <3> HIDE DEF q
      <3> QED  BY <1>3, <3>1
    <2> QED  BY <1>1, <2>1, FunctionIsSeq
  <1> HIDE DEF q
  <1>5. PICK f : Concats(f, q, Bytes)
    BY <1>4, ConcatsExist
  <1> DEFINE Good(k) == from <= Begin(v, k + 1, to) /\ f[k] = Run(s, from, Begin(v, k + 1, to))
             Bad == { k \in 0 .. L : ~ Good(k) }
  <1>6. Good(0)
    <2>1. f[0] = << >> /\ 0 + 1 = 1
      BY <1>5 DEF Concats
    <2>2. Run(s, from, from) = << >>
      <3>1. Run(s, from, from) \in Seq(Bytes) /\ Len(Run(s, from, from)) = 0
        BY RunFacts
      <3> QED  BY <3>1, EmptySeq
    <2> QED  BY <1>2, <2>1, <2>2
  <1>7. ASSUME NEW k \in 1 .. L, Good(k - 1)
        PROVE  Good(k)
    <2> DEFINE b == v[k].base
               l == v[k].len
    <2>1. (k - 1) + 1 = k
      BY <1>1
    <2>2. b \in Nat /\ l \in Nat /\ Begin(v, k, to) = b /\ Begin(v, k + 1, to) = b + l
      BY <1>2
    <2>3. Joins(f, q, k)
      BY <1>1, <1>4, <1>5, ConcatsAt
    <2> HIDE DEF b, l, L
    <2>4. from <= b /\ f[k - 1] = Run(s, from, b) /\ q[k] = Run(s, b, b + l)
      BY <1>3, <1>7, <2>1, <2>2
    <2>5. f[k] = Run(s, from, b) \o Run(s, b, b + l)
      BY <2>3, <2>4 DEF Joins
    <2>6. b + l \in Nat /\ b <= b + l /\ from <= b + l
      BY <2>2, <2>4
    <2>7. Run(s, from, b) \o Run(s, b, b + l) = Run(s, from, b + l)
      <3>1. RunsJoin(s, from, b, b + l)
        BY <2>2, <2>4, <2>6, RunJoin
      <3> QED  BY <3>1 DEF RunsJoin
    <2> QED  BY <2>2, <2>5, <2>6, <2>7
  <1> HIDE DEF Good
  <1>8. Bad = {}
    <2>1. SUFFICES ASSUME Bad # {} PROVE FALSE
      OBVIOUS
    <2>2. PICK k \in Bad : \A j \in Bad : k <= j
      <3>1. Bad \subseteq Nat
        BY <1>1
      <3> HIDE DEF Bad
      <3> QED  BY <2>1, <3>1, W!FirstPosition
    <2> HIDE DEF L
    <2>3. k \in 1 .. L /\ k - 1 \in 0 .. L /\ k - 1 \notin Bad
      BY <1>1, <1>6, <2>2
    <2> QED  BY <1>7, <2>2, <2>3
  <1>9. Good(L)
    <2> HIDE DEF L
    <2> QED  BY <1>1, <1>8
  <1>10. Begin(v, L + 1, to) = to
    BY DEF Begin
  <1>11. FlattenSeq(q) = f[L]
    BY <1>4, <1>5, FlattenIsConcat
  <1> QED  BY <1>9, <1>10, <1>11 DEF Good, q

(* The iovecs a send is made with cover its data.                           *)
LEMMA IovecsCover ==
    ASSUME NEW o \in Ops
    PROVE  /\ Length(o) \in Nat
           /\ Iovecs(o) \in Seq(Iov) /\ Covers(Iovecs(o), 0, Length(o))
  <1> DEFINE s == Segments[o]
             n == Len(s)
             v == Iovecs(o)
  <1>1. s \in Seq(Nat) /\ Length(o) = TotalLen(s)
    BY TransferAssumption DEF Length
  <1> HIDE DEF s
  <1>2. n \in Nat /\ DOMAIN s = 1 .. n /\ \A i \in 1 .. n : s[i] \in Nat
    BY <1>1, LenProperties, ElementOfSeq
  <1>3. s = << >> <=> n = 0
    BY <1>1, EmptySeq
  <1> DEFINE T(i) == TotalLen(SubSeq(s, 1, i - 1))
  <1>4. /\ TotalLen(s) \in Nat
        /\ n = 0 => TotalLen(s) = 0
        /\ \A i \in 1 .. n : T(i) \in Nat
        /\ n > 0 => T(1) = 0 /\ TotalLen(s) = T(n) + s[n]
        /\ \A i \in 1 .. n - 1 : T(i + 1) = T(i) + s[i]
    <2>1. /\ TotalLen(s) \in Nat
          /\ n = 0 => TotalLen(s) = 0
          /\ \A i \in 1 .. n : TotalLen(SubSeq(s, 1, i - 1)) \in Nat
          /\ n > 0 => /\ TotalLen(SubSeq(s, 1, 0)) = 0
                      /\ TotalLen(s) = TotalLen(SubSeq(s, 1, n - 1)) + s[n]
          /\ \A i \in 1 .. n - 1 :
                TotalLen(SubSeq(s, 1, i)) = TotalLen(SubSeq(s, 1, i - 1)) + s[i]
      BY <1>1, <1>3, TotalLenFacts
    <2>2. \A i \in 1 .. n - 1 : T(i + 1) = TotalLen(SubSeq(s, 1, i))
      <3>1. ASSUME NEW i \in 1 .. n - 1 PROVE (i + 1) - 1 = i
        OBVIOUS
      <3> QED  BY <3>1
    <2>3. T(1) = TotalLen(SubSeq(s, 1, 0))
      <3>1. 1 - 1 = 0
        OBVIOUS
      <3> QED  BY <3>1
    <2> QED  BY <2>1, <2>2, <2>3
  <1>5. v = [i \in 1 .. n |-> [base |-> T(i), len |-> s[i]]]
    BY <1>2 DEF Iovecs, s
  <1> HIDE DEF T, v, n
  <1>6. \A i \in 1 .. n : v[i] = [base |-> T(i), len |-> s[i]]
    BY <1>5
  <1>7. \A i \in 1 .. n : v[i].base = T(i) /\ v[i].len = s[i] /\ v[i] \in Iov
    <2>1. ASSUME NEW i \in 1 .. n
          PROVE  v[i].base = T(i) /\ v[i].len = s[i] /\ v[i] \in Iov
      <3>1. T(i) \in Nat /\ s[i] \in Nat /\ v[i] = [base |-> T(i), len |-> s[i]]
        BY <1>2, <1>4, <1>6
      <3> QED  BY <3>1 DEF Iov
    <2> QED  BY <2>1
  <1>8. v \in Seq(Iov) /\ Len(v) = n
    <2>1. v \in [1 .. n -> Iov]
      BY <1>5, <1>7
    <2> QED  BY <1>2, <2>1, FunctionIsSeq
  <1>9. v = << >> <=> n = 0
    BY <1>8, EmptySeq
  <1>10. Covers(v, 0, TotalLen(s))
    <2>1. v = << >> => 0 = TotalLen(s)
      BY <1>4, <1>9
    <2>2. v # << >> => v[1].base = 0 /\ v[Len(v)].base + v[Len(v)].len = TotalLen(s)
      <3>1. n # 0 => n > 0 /\ 1 \in 1 .. n /\ n \in 1 .. n
        BY <1>2
      <3> QED  BY <1>4, <1>7, <1>8, <1>9, <3>1
    <2>3. \A i \in 1 .. Len(v) - 1 : v[i + 1].base = v[i].base + v[i].len
      <3>1. \A i \in 1 .. n - 1 : i \in 1 .. n /\ i + 1 \in 1 .. n
        BY <1>2
      <3> QED  BY <1>4, <1>7, <1>8, <3>1
    <2> QED  BY <2>1, <2>2, <2>3 DEF Covers
  <1> QED  BY <1>1, <1>4, <1>8, <1>10 DEF v

(* A call is offered the bytes that follow those already sent, all of them. *)
LEMMA OfferedFacts ==
    ASSUME TypeOK, CountInv, NEW s \in Sends
    PROVE  /\ Length(s) \in Nat /\ moved[s] \in Nat /\ moved[s] <= Length(s)
           /\ Offered(s) = Run(s, moved[s], Length(s))
           /\ LoopEnds(s) => moved[s] = Length(s)
  <1>1. s \in Ops /\ Length(s) \in Nat
    BY IovecsCover DEF Ops
  <1>2. moved[s] \in Nat /\ moved[s] <= Length(s)
    BY <1>1 DEF TypeOK, CountInv
  <1>3. CASE s \in Vectored
    <2>1. vec[s] \in Seq(Iov) /\ Covers(vec[s], moved[s], Length(s))
      BY <1>3 DEF TypeOK, CountInv, Iov
    <2>2. Offered(s) = Run(s, moved[s], Length(s))
      <3>1. FlattenSeq([ i \in DOMAIN vec[s] |->
                           [ j \in 1 .. vec[s][i].len |-> Byte(s, vec[s][i].base + j) ] ])
              = Run(s, moved[s], Length(s))
        BY <1>1, <1>2, <2>1, FlattenRuns
      <3> QED  BY <1>3, <3>1 DEF Offered
    <2>3. LoopEnds(s) => moved[s] = Length(s)
      BY <1>3, <2>1 DEF LoopEnds, Covers
    <2> QED  BY <1>1, <1>2, <2>2, <2>3
  <1>4. CASE s \notin Vectored
    BY <1>1, <1>2, <1>4 DEF Offered, Run, LoopEnds
  <1> QED  BY <1>3, <1>4

-----------------------------------------------------------------------------
(* The steps, seen from the turns.                                         *)

(* close() has taken the operations that wait for the turn of an end.       *)
Over == {"collected", "closed"}

(* What close() has collected stays so in a step.                           *)
SameOver == \A d \in Ends : fd'[d] \in Over <=> fd[d] \in Over

(* Which end an operation belongs to.                                       *)
LEMMA EndFacts ==
    /\ \A o : End(o) \in Ends
    /\ \A o \in Ops : (End(o) = "tx" <=> o \in Sends) /\ (End(o) = "rx" <=> o \in Recvs)
    /\ Sends \subseteq Ops /\ Recvs \subseteq Ops /\ Vectored \subseteq Sends
  BY TransferAssumption DEF End, Ends, Ops

(* What Done does: o is done, and the first that waits gets the turn.       *)
LEMMA DoneFacts ==
    ASSUME TypeOK, TurnInv, NEW o \in Ops, phase[o] = "try", Done(o)
    PROVE  \E left \in Seq(Ops) :
              /\ left = IF fd[End(o)] \in Over THEN << >> ELSE Tail(turn[End(o)])
              /\ fd[End(o)] \notin Over => turn[End(o)] # << >> /\ turn[End(o)][1] = o
              /\ turn' \in [Ends -> Seq(Ops)] /\ served' \in [Ends -> Seq(Ops)]
              /\ phase' \in [Ops -> {"new", "queued", "try", "await", "blocked", "done"}]
              /\ turn'[End(o)] = left
              /\ \A d \in Ends : d # End(o) => turn'[d] = turn[d] /\ served'[d] = served[d]
              /\ left = << >> => /\ served'[End(o)] = served[End(o)]
                                 /\ \A p \in Ops : phase'[p] = IF p = o THEN "done" ELSE phase[p]
              /\ left # << >> =>
                    /\ Head(left) \in Ops /\ fd[End(o)] \notin Over
                    /\ served'[End(o)] = Append(served[End(o)], Head(left))
                    /\ \A p \in Ops : phase'[p] = IF p = o THEN "done"
                                                  ELSE IF p = Head(left) THEN "try" ELSE phase[p]
  <1> DEFINE e == End(o)
             left == IF fd[e] \in Over THEN << >> ELSE Tail(turn[e])
  <1>1. e \in Ends /\ turn[e] \in Seq(Ops) /\ served[e] \in Seq(Ops)
    BY EndFacts DEF TypeOK
  <1>2. fd[e] \notin Over => turn[e] # << >> /\ turn[e][1] = o
    BY DEF TurnInv, HasTurn, Collected, Over
  <1>3. left \in Seq(Ops)
    <2>1. << >> \in Seq(Ops)
      BY EmptySeq
    <2>2. fd[e] \notin Over => Tail(turn[e]) \in Seq(Ops)
      BY <1>1, <1>2, HeadTailProperties
    <2> QED  BY <2>1, <2>2
  <1>4. left # << >> => Head(left) \in Ops /\ fd[e] \notin Over
    <2>1. left # << >> => Head(left) \in Ops
      <3> HIDE DEF left
      <3> QED  BY <1>3, HeadTailProperties
    <2>2. left # << >> => fd[e] \notin Over
      OBVIOUS
    <2> QED  BY <2>1, <2>2
  <1>5. /\ turn' = [turn EXCEPT ![e] = left]
        /\ phase' = [p \in Ops |-> IF p = o THEN "done"
                                   ELSE IF left # << >> /\ p = Head(left) THEN "try"
                                   ELSE phase[p]]
        /\ served' = [served EXCEPT ![e] = IF left # << >> THEN Append(@, Head(left)) ELSE @]
    BY DEF Done, Collected, Over
  <1>6. left = IF fd[End(o)] \in Over THEN << >> ELSE Tail(turn[End(o)])
    OBVIOUS
  <1> HIDE DEF left, e
  <1>7. turn' \in [Ends -> Seq(Ops)] /\ turn'[e] = left /\ \A d \in Ends : d # e => turn'[d] = turn[d]
    BY <1>1, <1>3, <1>5 DEF TypeOK
  <1>8. /\ phase' \in [Ops -> {"new", "queued", "try", "await", "blocked", "done"}]
        /\ \A p \in Ops : phase'[p] = IF p = o THEN "done"
                                      ELSE IF left # << >> /\ p = Head(left) THEN "try"
                                      ELSE phase[p]
    BY <1>5 DEF TypeOK
  <1>9. CASE left = << >>
    <2>1. served' = served
      BY <1>1, <1>5, <1>9 DEF TypeOK
    <2> QED  BY <1>2, <1>3, <1>6, <1>7, <1>8, <1>9, <2>1 DEF e, TypeOK
  <1>10. CASE left # << >>
    <2>1. Append(served[e], Head(left)) \in Seq(Ops)
      BY <1>1, <1>4, <1>10, AppendProperties
    <2>2. /\ served' \in [Ends -> Seq(Ops)]
          /\ served'[e] = Append(served[e], Head(left))
          /\ \A d \in Ends : d # e => served'[d] = served[d]
      BY <1>1, <1>5, <1>10, <2>1 DEF TypeOK
    <2> QED  BY <1>2, <1>3, <1>4, <1>6, <1>7, <1>8, <1>10, <2>2 DEF e
  <1> QED  BY <1>9, <1>10

(* An end keeps its turns while its lists and the phases of its operations  *)
(* stay.                                                                    *)
LEMMA TurnOfStays ==
    ASSUME TypeOK, NEW d \in Ends, TurnOf(d), turn'[d] = turn[d], served'[d] = served[d],
           fd'[d] \in Over => fd[d] \in Over,
           \A p \in Ops : End(p) = d => phase'[p] = phase[p]
    PROVE  TurnOf(d)'
  <1>1. turn[d] \in Seq(Ops) /\ served[d] \in Seq(Ops)
    BY DEF TypeOK
  <1>2. \A i \in 1 .. Len(turn[d]) : turn[d][i] \in Ops
    BY <1>1, ElementOfSeq
  <1>3. \A i \in 1 .. Len(served[d]) : served[d][i] \in Ops
    BY <1>1, ElementOfSeq
  <1>4. fd'[d] \in Over => turn'[d] = << >>
    BY DEF TurnOf, Collected, Over
  <1>5. IsInjective(turn'[d]) /\ IsInjective(served'[d])
    BY DEF TurnOf
  <1>6. \A i \in 1 .. Len(turn'[d]) :
          /\ End(turn'[d][i]) = d
          /\ phase'[turn'[d][i]] \in IF i = 1 THEN {"try", "await", "blocked"} ELSE {"queued"}
    BY <1>2 DEF TurnOf
  <1>7. \A i \in 1 .. Len(served'[d]) :
          End(served'[d][i]) = d /\ phase'[served'[d][i]] \notin {"new", "queued"}
    BY <1>3 DEF TurnOf
  <1> QED  BY <1>4, <1>5, <1>6, <1>7 DEF TurnOf, End, Collected, Over

(* A list stays injective when an operation that is not on it is appended.  *)
LEMMA AppendNew ==
    ASSUME NEW q \in Seq(Ops), IsInjective(q), NEW o \in Ops,
           \A i \in 1 .. Len(q) : q[i] # o
    PROVE  /\ Append(q, o) \in Seq(Ops) /\ Append(q, o) # << >>
           /\ Len(Append(q, o)) = Len(q) + 1 /\ Append(q, o)[Len(q) + 1] = o
           /\ \A i \in 1 .. Len(q) : Append(q, o)[i] = q[i]
           /\ Len(q) \in Nat /\ IsInjective(Append(q, o))
  <1> DEFINE r == Append(q, o)
  <1>1. /\ r \in Seq(Ops) /\ Len(r) = Len(q) + 1 /\ r[Len(q) + 1] = o /\ r # << >>
        /\ \A i \in 1 .. Len(q) : r[i] = q[i]
    BY AppendProperties
  <1>2. Len(q) \in Nat /\ DOMAIN q = 1 .. Len(q)
    BY LenProperties
  <1> HIDE DEF r
  <1>3. DOMAIN r = 1 .. Len(q) + 1
    BY <1>1, LenProperties
  <1>4. \A i, j \in 1 .. Len(q) : q[i] = q[j] => i = j
    BY <1>2 DEF IsInjective
  <1>5. ASSUME NEW i \in 1 .. Len(q) + 1, NEW j \in 1 .. Len(q) + 1, r[i] = r[j]
        PROVE  i = j
    <2>1. CASE i \in 1 .. Len(q) /\ j \in 1 .. Len(q)
      BY <1>1, <1>4, <1>5, <2>1
    <2>2. CASE ~ (i \in 1 .. Len(q) /\ j \in 1 .. Len(q))
      BY <1>1, <1>2, <1>5, <2>2
    <2> QED  BY <2>1, <2>2
  <1>6. IsInjective(r)
    BY <1>3, <1>5 DEF IsInjective
  <1> QED  BY <1>1, <1>2, <1>6 DEF r

(* Done passes the turn on to one that has not had it.                      *)
LEMMA TurnDone ==
    ASSUME TypeOK, TurnInv, NEW o \in Ops, phase[o] = "try", Done(o), SameOver,
           \A p \in Ops : p # o => moved'[p] = moved[p]
    PROVE  TurnInv'
  <1> DEFINE e == End(o)
             t == turn[e]
             q == served[e]
  <1>1. PICK left \in Seq(Ops) :
              /\ left = IF fd[e] \in Over THEN << >> ELSE Tail(t)
              /\ fd[e] \notin Over => t # << >> /\ t[1] = o
              /\ turn' \in [Ends -> Seq(Ops)] /\ served' \in [Ends -> Seq(Ops)]
              /\ phase' \in [Ops -> {"new", "queued", "try", "await", "blocked", "done"}]
              /\ turn'[e] = left
              /\ \A d \in Ends : d # e => turn'[d] = turn[d] /\ served'[d] = served[d]
              /\ left = << >> => /\ served'[e] = q
                                 /\ \A p \in Ops : phase'[p] = IF p = o THEN "done" ELSE phase[p]
              /\ left # << >> =>
                    /\ Head(left) \in Ops /\ fd[e] \notin Over
                    /\ served'[e] = Append(q, Head(left))
                    /\ \A p \in Ops : phase'[p] = IF p = o THEN "done"
                                                  ELSE IF p = Head(left) THEN "try" ELSE phase[p]
    BY DoneFacts
  <1>2. e \in Ends /\ t \in Seq(Ops) /\ q \in Seq(Ops) /\ TurnOf(e)
    BY EndFacts DEF TypeOK, TurnInv
  <1>3. /\ IsInjective(t) /\ IsInjective(q)
        /\ \A i \in 1 .. Len(t) : /\ End(t[i]) = e
                                  /\ phase[t[i]] \in IF i = 1 THEN {"try", "await", "blocked"} ELSE {"queued"}
        /\ \A i \in 1 .. Len(q) : End(q[i]) = e /\ phase[q[i]] \notin {"new", "queued"}
    BY <1>2 DEF TurnOf
  <1>4. /\ Len(t) \in Nat /\ DOMAIN t = 1 .. Len(t) /\ \A i \in 1 .. Len(t) : t[i] \in Ops
        /\ Len(q) \in Nat /\ DOMAIN q = 1 .. Len(q) /\ \A i \in 1 .. Len(q) : q[i] \in Ops
        /\ Len(left) \in Nat /\ DOMAIN left = 1 .. Len(left) /\ (left # << >> => Len(left) > 0)
    BY <1>2, LenProperties, ElementOfSeq, EmptySeq
  <1> HIDE DEF t, q, e
  <1>5. ASSUME left # << >>
        PROVE  /\ Len(left) = Len(t) - 1 /\ t[1] = o /\ Head(left) = left[1]
               /\ \A i \in 1 .. Len(left) : left[i] = t[i + 1]
    <2>1. left = Tail(t) /\ t # << >> /\ t[1] = o
      BY <1>1, <1>5
    <2>2. Len(left) = Len(t) - 1 /\ \A i \in 1 .. Len(left) : left[i] = t[i + 1]
      BY <1>2, <2>1, HeadTailProperties
    <2>3. Head(left) = left[1]
      BY <1>5
    <2> QED  BY <2>1, <2>2, <2>3
  <1>6. \A i, j \in 1 .. Len(t) : t[i] = t[j] => i = j
    BY <1>3, <1>4 DEF IsInjective
  <1>7. \A i, j \in 1 .. Len(q) : q[i] = q[j] => i = j
    BY <1>3, <1>4 DEF IsInjective
  <1>8. ASSUME left # << >>
        PROVE  /\ End(Head(left)) = e /\ phase[Head(left)] = "queued" /\ Head(left) # o
               /\ \A i \in 1 .. Len(left) :
                     /\ left[i] \in Ops /\ End(left[i]) = e /\ left[i] # o
                     /\ phase[left[i]] = "queued"
                     /\ i # 1 => left[i] # Head(left)
    <2>1. \A i \in 1 .. Len(left) :
             left[i] = t[i + 1] /\ i + 1 \in 1 .. Len(t) /\ i + 1 # 1 /\ 1 \in 1 .. Len(t)
      BY <1>4, <1>5, <1>8
    <2>2. 1 \in 1 .. Len(left)
      BY <1>4, <1>8
    <2>3. \A i \in 1 .. Len(left) :
             left[i] \in Ops /\ End(left[i]) = e /\ phase[left[i]] = "queued" /\ left[i] # o
      BY <1>3, <1>4, <1>5, <1>6, <1>8, <2>1
    <2>4. \A i \in 1 .. Len(left) : i # 1 => left[i] # left[1]
      BY <1>6, <2>1, <2>2
    <2> QED  BY <1>5, <1>8, <2>2, <2>3, <2>4
  <1>9. \A p \in Ops : End(p) # e => phase'[p] = phase[p]
    BY <1>1, <1>8 DEF e
  <1>10. ASSUME NEW d \in Ends PROVE TurnOf(d)'
    <2>1. CASE d # e
      <3>1. \A p \in Ops : End(p) = d => phase'[p] = phase[p]
        BY <1>9, <2>1
      <3>2. TurnOf(d) /\ turn'[d] = turn[d] /\ served'[d] = served[d]
        BY <1>1, <2>1 DEF TurnInv
      <3> QED  BY <3>1, <3>2, TurnOfStays DEF SameOver
    <2>2. CASE d = e
      <3>1. fd'[e] \in Over => turn'[e] = << >>
        BY <1>1, <1>2 DEF SameOver
      <3>2. IsInjective(turn'[e])
        <4>1. CASE left = << >>
          BY <1>1, <4>1 DEF IsInjective
        <4>2. CASE left # << >>
          <5>1. \A i, j \in 1 .. Len(left) : left[i] = left[j] => i = j
            <6>1. \A i \in 1 .. Len(left) : left[i] = t[i + 1] /\ i + 1 \in 1 .. Len(t)
              BY <1>4, <1>5, <4>2
            <6> QED  BY <1>6, <6>1
          <5>2. turn'[e] = left /\ DOMAIN left = 1 .. Len(left)
            BY <1>1, <1>4
          <5>3. IsInjective(left)
            BY <5>1, <5>2 DEF IsInjective
          <5> QED  BY <5>2, <5>3
        <4> QED  BY <4>1, <4>2
      <3>3. \A i \in 1 .. Len(turn'[e]) :
               /\ End(turn'[e][i]) = e
               /\ phase'[turn'[e][i]] \in IF i = 1 THEN {"try", "await", "blocked"} ELSE {"queued"}
        <4>1. CASE left = << >>
          <5>1. turn'[e] = << >> /\ Len(<< >>) = 0
            BY <1>1, <4>1
          <5>2. 1 .. Len(turn'[e]) = {}
            BY <5>1
          <5> QED  BY <5>2
        <4>2. CASE left # << >>
          <5>1. ASSUME NEW i \in 1 .. Len(left)
                PROVE  /\ End(left[i]) = e
                       /\ phase'[left[i]] \in IF i = 1 THEN {"try", "await", "blocked"} ELSE {"queued"}
            <6>1. left[i] \in Ops /\ End(left[i]) = e /\ left[i] # o /\ phase[left[i]] = "queued"
              BY <1>8, <4>2
            <6>2. CASE i = 1
              <7>1. phase'[left[i]] = "try"
                BY <1>1, <1>5, <4>2, <6>1, <6>2
              <7> QED  BY <6>1, <6>2, <7>1
            <6>3. CASE i # 1
              <7>1. left[i] # Head(left)
                BY <1>8, <4>2, <6>3
              <7>2. phase'[left[i]] = "queued"
                BY <1>1, <4>2, <6>1, <7>1
              <7> QED  BY <6>1, <6>3, <7>2
            <6> QED  BY <6>2, <6>3
          <5>2. turn'[e] = left
            BY <1>1
          <5> QED  BY <5>1, <5>2
        <4> QED  BY <4>1, <4>2
      <3>4. /\ IsInjective(served'[e])
            /\ \A i \in 1 .. Len(served'[e]) :
                 End(served'[e][i]) = e /\ phase'[served'[e][i]] \notin {"new", "queued"}
        <4>1. CASE left = << >>
          <5>1. served'[e] = q /\ IsInjective(q)
            BY <1>1, <1>3, <4>1
          <5>2. ASSUME NEW i \in 1 .. Len(q)
                PROVE  End(q[i]) = e /\ phase'[q[i]] \notin {"new", "queued"}
            <6>1. q[i] \in Ops /\ End(q[i]) = e /\ phase[q[i]] \notin {"new", "queued"}
              BY <1>3, <1>4
            <6>2. phase'[q[i]] = IF q[i] = o THEN "done" ELSE phase[q[i]]
              BY <1>1, <4>1, <6>1
            <6> QED  BY <6>1, <6>2
          <5> QED  BY <5>1, <5>2
        <4>2. CASE left # << >>
          <5> DEFINE h == Head(left)
                     r == Append(q, h)
          <5>1. h \in Ops /\ served'[e] = r /\ End(h) = e /\ phase[h] = "queued" /\ phase'[h] = "try"
            BY <1>1, <1>8, <4>2
          <5> HIDE DEF h
          <5>2. \A i \in 1 .. Len(q) : q[i] # h
            BY <1>3, <5>1
          <5>3. /\ Len(r) = Len(q) + 1 /\ r[Len(q) + 1] = h /\ IsInjective(r)
                /\ \A i \in 1 .. Len(q) : r[i] = q[i]
            BY <1>2, <1>3, <5>1, <5>2, AppendNew
          <5> HIDE DEF r
          <5>4. ASSUME NEW i \in 1 .. Len(r)
                PROVE  End(r[i]) = e /\ phase'[r[i]] \notin {"new", "queued"}
            <6>1. CASE i = Len(q) + 1
              BY <5>1, <5>3, <6>1
            <6>2. CASE i # Len(q) + 1
              <7>1. i \in 1 .. Len(q) /\ r[i] = q[i]
                BY <1>4, <5>3, <6>2
              <7>2. q[i] \in Ops /\ End(q[i]) = e /\ phase[q[i]] \notin {"new", "queued"}
                BY <1>3, <1>4, <7>1
              <7> QED  BY <1>1, <4>2, <7>1, <7>2
            <6> QED  BY <6>1, <6>2
          <5> QED  BY <5>1, <5>3, <5>4
        <4> QED  BY <4>1, <4>2
      <3> QED  BY <2>2, <3>1, <3>2, <3>3, <3>4 DEF TurnOf, End, Collected, Over
    <2> QED  BY <2>1, <2>2
  <1>11. ASSUME NEW p \in Ops PROVE HasTurn(p)'
    <2>1. HasTurn(p)
      BY DEF TurnInv
    <2>2. phase'[p] \in {"new", "queued"} => moved'[p] = 0
      <3>1. phase'[p] \in {"new", "queued"} => p # o /\ phase[p] = phase'[p]
        BY <1>1
      <3> QED  BY <2>1, <3>1 DEF HasTurn
    <2>3. ASSUME phase'[p] \in {"try", "await", "blocked"}
          PROVE  /\ served'[End(p)] # << >> /\ served'[End(p)][Len(served'[End(p)])] = p
                 /\ fd'[End(p)] \notin Over => turn'[End(p)] # << >> /\ turn'[End(p)][1] = p
      <3>1. p # o
        BY <1>1, <2>3
      <3>2. CASE left # << >> /\ p = Head(left)
        <4>1. /\ Len(Append(q, p)) = Len(q) + 1 /\ Append(q, p)[Len(q) + 1] = p
              /\ Append(q, p) # << >>
          BY <1>2, AppendProperties
        <4>2. End(p) = e /\ served'[e] = Append(q, p)
          BY <1>1, <1>8, <3>2
        <4>3. turn'[e] = left /\ left # << >> /\ left[1] = p
          BY <1>1, <1>5, <3>2
        <4> QED  BY <4>1, <4>2, <4>3
      <3>3. CASE ~ (left # << >> /\ p = Head(left))
        <4>1. phase[p] = phase'[p]
          BY <1>1, <3>1, <3>3
        <4>2. End(p) # e
          <5>1. phase[p] \in {"try", "await", "blocked"}
            BY <2>3, <4>1
          <5>2. served[End(p)][Len(served[End(p)])] = p
            BY <2>1, <5>1 DEF HasTurn
          <5>3. served[End(o)][Len(served[End(o)])] = o
            BY DEF TurnInv, HasTurn
          <5> QED  BY <3>1, <5>2, <5>3 DEF e
        <4>3. End(p) \in Ends /\ turn'[End(p)] = turn[End(p)] /\ served'[End(p)] = served[End(p)]
          BY <1>1, <4>2, EndFacts
        <4> QED  BY <2>1, <2>3, <4>1, <4>3 DEF SameOver, HasTurn, Collected, Over
      <3> QED  BY <3>2, <3>3
    <2> QED  BY <2>2, <2>3 DEF HasTurn, End, Collected, Over
  <1> QED  BY <1>10, <1>11 DEF TurnInv
(* A step that moves no turn: an operation that has it may block, be woken  *)
(* or move bytes.                                                           *)
TurnKept ==
    /\ turn' = turn /\ served' = served /\ SameOver
    /\ \A p \in Ops : \/ phase'[p] = phase[p]
                      \/ /\ phase[p] \in {"try", "await", "blocked"}
                         /\ phase'[p] \in {"try", "await", "blocked"}
    /\ \A p \in Ops : phase[p] \in {"new", "queued"} => moved'[p] = moved[p]

LEMMA TurnKeptFacts ==
    ASSUME TypeOK, TurnInv, TurnKept
    PROVE  TurnInv'
  <1>1. turn' = turn /\ served' = served /\ \A d \in Ends : fd'[d] \in Over <=> fd[d] \in Over
    BY DEF TurnKept, SameOver
  <1>2. ASSUME NEW p \in Ops
        PROVE  /\ phase[p] \in {"try", "await", "blocked"}
                    <=> phase'[p] \in {"try", "await", "blocked"}
               /\ phase[p] \in {"new", "queued"} <=> phase'[p] \in {"new", "queued"}
               /\ phase[p] = "queued" <=> phase'[p] = "queued"
               /\ phase[p] \in {"new", "queued"} => moved'[p] = moved[p]
    BY DEF TurnKept
  <1>3. ASSUME NEW d \in Ends PROVE TurnOf(d)'
    <2>1. turn[d] \in Seq(Ops) /\ served[d] \in Seq(Ops) /\ TurnOf(d)
      BY DEF TypeOK, TurnInv
    <2>2. (fd'[d] \in Over => turn'[d] = << >>) /\ IsInjective(turn'[d]) /\ IsInjective(served'[d])
      BY <1>1, <2>1 DEF TurnOf, Collected, Over
    <2>3. ASSUME NEW i \in 1 .. Len(turn[d])
          PROVE  /\ End(turn[d][i]) = d
                 /\ phase'[turn[d][i]] \in IF i = 1 THEN {"try", "await", "blocked"} ELSE {"queued"}
      <3>1. turn[d][i] \in Ops
        BY <2>1, ElementOfSeq
      <3>2. /\ End(turn[d][i]) = d
            /\ phase[turn[d][i]] \in IF i = 1 THEN {"try", "await", "blocked"} ELSE {"queued"}
        BY <2>1 DEF TurnOf
      <3> QED  BY <1>2, <3>1, <3>2
    <2>4. ASSUME NEW i \in 1 .. Len(served[d])
          PROVE  End(served[d][i]) = d /\ phase'[served[d][i]] \notin {"new", "queued"}
      <3>1. served[d][i] \in Ops
        BY <2>1, ElementOfSeq
      <3>2. End(served[d][i]) = d /\ phase[served[d][i]] \notin {"new", "queued"}
        BY <2>1 DEF TurnOf
      <3> QED  BY <1>2, <3>1, <3>2
    <2> QED  BY <1>1, <2>2, <2>3, <2>4 DEF TurnOf, End, Collected, Over
  <1>4. ASSUME NEW p \in Ops PROVE HasTurn(p)'
    <2>1. HasTurn(p)
      BY DEF TurnInv
    <2>2. phase'[p] \in {"new", "queued"} => moved'[p] = 0
      BY <1>2, <2>1 DEF HasTurn
    <2>3. phase'[p] \in {"try", "await", "blocked"} =>
             /\ served'[End(p)] # << >> /\ served'[End(p)][Len(served'[End(p)])] = p
             /\ fd'[End(p)] \notin Over => turn'[End(p)] # << >> /\ turn'[End(p)][1] = p
      BY <1>1, <1>2, <2>1, EndFacts DEF HasTurn, Collected, Over
    <2> QED  BY <2>2, <2>3 DEF HasTurn, End, Collected, Over
  <1> QED  BY <1>3, <1>4 DEF TurnInv

(* What Start does: o is the last to want the turn, and has it at once when *)
(* nobody else does.                                                        *)
LEMMA StartFacts ==
    ASSUME TypeOK, NEW o \in Ops, Start(o)
    PROVE  /\ turn' \in [Ends -> Seq(Ops)] /\ served' \in [Ends -> Seq(Ops)]
           /\ phase' \in [Ops -> {"new", "queued", "try", "await", "blocked", "done"}]
           /\ turn'[End(o)] = Append(turn[End(o)], o)
           /\ \A d \in Ends : d # End(o) => turn'[d] = turn[d] /\ served'[d] = served[d]
           /\ turn[End(o)] = << >> =>
                 phase'[o] = "try" /\ served'[End(o)] = Append(served[End(o)], o)
           /\ turn[End(o)] # << >> =>
                 phase'[o] = "queued" /\ served'[End(o)] = served[End(o)]
           /\ \A p \in Ops : p # o => phase'[p] = phase[p]
  <1> DEFINE e == End(o)
             t == Append(turn[e], o)
             q == IF turn[e] = << >> THEN Append(served[e], o) ELSE served[e]
             x == IF turn[e] = << >> THEN "try" ELSE "queued"
  <1>1. e \in Ends /\ turn[e] \in Seq(Ops) /\ served[e] \in Seq(Ops)
    BY EndFacts DEF TypeOK
  <1>2. t \in Seq(Ops) /\ q \in Seq(Ops)
    BY <1>1, AppendProperties
  <1>3. /\ turn' = [turn EXCEPT ![e] = t] /\ served' = [served EXCEPT ![e] = q]
        /\ phase' = [phase EXCEPT ![o] = x]
    BY <1>1 DEF Start, TypeOK
  <1>4. x \in {"try", "queued"}
    OBVIOUS
  <1> HIDE DEF t, q, x
  <1>5. turn' \in [Ends -> Seq(Ops)] /\ turn'[e] = t /\ \A d \in Ends : d # e => turn'[d] = turn[d]
    BY <1>1, <1>2, <1>3 DEF TypeOK
  <1>6. /\ served' \in [Ends -> Seq(Ops)] /\ served'[e] = q
        /\ \A d \in Ends : d # e => served'[d] = served[d]
    BY <1>1, <1>2, <1>3 DEF TypeOK
  <1>7. /\ phase' \in [Ops -> {"new", "queued", "try", "await", "blocked", "done"}]
        /\ phase'[o] = x /\ \A p \in Ops : p # o => phase'[p] = phase[p]
    BY <1>3, <1>4 DEF TypeOK
  <1> QED  BY <1>5, <1>6, <1>7 DEF t, q, x

(* Start leaves the turns in order.                                         *)
LEMMA TurnStart ==
    ASSUME TypeOK, TurnInv, NEW o \in Ops, Start(o)
    PROVE  TurnInv'
  <1> DEFINE e == End(o)
             t == turn[e]
             q == served[e]
  <1>1. /\ turn'[e] = Append(t, o)
        /\ \A d \in Ends : d # e => turn'[d] = turn[d] /\ served'[d] = served[d]
        /\ t = << >> => phase'[o] = "try" /\ served'[e] = Append(q, o)
        /\ t # << >> => phase'[o] = "queued" /\ served'[e] = q
        /\ \A p \in Ops : p # o => phase'[p] = phase[p]
    BY StartFacts
  <1>2. phase[o] = "new" /\ fd[e] \notin Over /\ fd' = fd /\ moved' = moved
    BY DEF Start, Over
  <1>3. e \in Ends /\ t \in Seq(Ops) /\ q \in Seq(Ops) /\ TurnOf(e) /\ HasTurn(o)
    BY EndFacts DEF TypeOK, TurnInv
  <1>4. /\ IsInjective(t) /\ IsInjective(q)
        /\ \A i \in 1 .. Len(t) : /\ End(t[i]) = e
                                  /\ phase[t[i]] \in IF i = 1 THEN {"try", "await", "blocked"} ELSE {"queued"}
        /\ \A i \in 1 .. Len(q) : End(q[i]) = e /\ phase[q[i]] \notin {"new", "queued"}
    BY <1>3 DEF TurnOf
  <1>5. /\ Len(t) \in Nat /\ \A i \in 1 .. Len(t) : t[i] \in Ops
        /\ Len(q) \in Nat /\ \A i \in 1 .. Len(q) : q[i] \in Ops
        /\ t = << >> <=> Len(t) = 0
    BY <1>3, LenProperties, ElementOfSeq, EmptySeq
  <1>6. End(o) = e
    OBVIOUS
  <1> HIDE DEF t, q, e
  <1>7. /\ \A i \in 1 .. Len(t) : t[i] # o
        /\ \A i \in 1 .. Len(q) : q[i] # o
    BY <1>2, <1>4
  <1> DEFINE T == Append(t, o)
             Q == Append(q, o)
  <1>8. /\ T # << >> /\ Len(T) = Len(t) + 1 /\ T[Len(t) + 1] = o
        /\ \A i \in 1 .. Len(t) : T[i] = t[i]
        /\ IsInjective(T)
    BY <1>3, <1>4, <1>7, AppendNew
  <1>9. /\ Q # << >> /\ Len(Q) = Len(q) + 1 /\ Q[Len(q) + 1] = o
        /\ \A i \in 1 .. Len(q) : Q[i] = q[i]
        /\ IsInjective(Q)
    BY <1>3, <1>4, <1>7, AppendNew
  <1>10. /\ turn'[e] = T
         /\ t = << >> => served'[e] = Q
    BY <1>1
  <1> HIDE DEF T, Q
  <1>11. ASSUME NEW d \in Ends PROVE TurnOf(d)'
    <2>1. CASE d # e
      <3>1. \A p \in Ops : End(p) = d => phase'[p] = phase[p]
        BY <1>1, <1>6, <2>1
      <3>2. TurnOf(d) /\ turn'[d] = turn[d] /\ served'[d] = served[d]
        BY <1>1, <2>1 DEF TurnInv
      <3> QED  BY <1>2, <3>1, <3>2, TurnOfStays
    <2>2. CASE d = e
      <3>1. ASSUME NEW i \in 1 .. Len(T)
            PROVE  /\ End(T[i]) = e
                   /\ phase'[T[i]] \in IF i = 1 THEN {"try", "await", "blocked"} ELSE {"queued"}
        <4>1. CASE i = Len(t) + 1
          <5>1. T[i] = o /\ (i = 1 <=> t = << >>)
            BY <1>5, <1>8, <4>1
          <5> QED  BY <1>1, <1>6, <5>1
        <4>2. CASE i # Len(t) + 1
          <5>1. i \in 1 .. Len(t) /\ T[i] = t[i] /\ t[i] \in Ops /\ t[i] # o
            BY <1>5, <1>7, <1>8, <4>2
          <5>2. phase'[T[i]] = phase[t[i]]
            BY <1>1, <5>1
          <5> QED  BY <1>4, <5>1, <5>2
        <4> QED  BY <4>1, <4>2
      <3>2. ASSUME NEW i \in 1 .. Len(q)
            PROVE  End(q[i]) = e /\ phase'[q[i]] \notin {"new", "queued"}
        <4>1. q[i] \in Ops /\ q[i] # o
          BY <1>5, <1>7
        <4>2. phase'[q[i]] = phase[q[i]]
          BY <1>1, <4>1
        <4> QED  BY <1>4, <4>2
      <3>3. /\ IsInjective(served'[e])
            /\ \A i \in 1 .. Len(served'[e]) :
                 End(served'[e][i]) = e /\ phase'[served'[e][i]] \notin {"new", "queued"}
        <4>1. CASE t = << >>
          <5>1. ASSUME NEW i \in 1 .. Len(Q)
                PROVE  End(Q[i]) = e /\ phase'[Q[i]] \notin {"new", "queued"}
            <6>1. CASE i = Len(q) + 1
              BY <1>1, <1>6, <1>9, <4>1, <6>1
            <6>2. CASE i # Len(q) + 1
              <7>1. i \in 1 .. Len(q) /\ Q[i] = q[i]
                BY <1>5, <1>9, <6>2
              <7> QED  BY <3>2, <7>1
            <6> QED  BY <6>1, <6>2
          <5> QED  BY <1>9, <1>10, <4>1, <5>1
        <4>2. CASE t # << >>
          <5>1. served'[e] = q
            BY <1>1, <4>2
          <5> QED  BY <1>4, <3>2, <5>1
        <4> QED  BY <4>1, <4>2
      <3> QED  BY <1>2, <1>8, <1>10, <2>2, <3>1, <3>3 DEF TurnOf, End, Collected, Over
    <2> QED  BY <2>1, <2>2
  <1>12. ASSUME NEW p \in Ops PROVE HasTurn(p)'
    <2>1. HasTurn(p)
      BY DEF TurnInv
    <2>2. CASE p = o
      <3>1. moved'[o] = 0
        BY <1>2, <1>3 DEF HasTurn
      <3>2. ASSUME phase'[o] \in {"try", "await", "blocked"}
            PROVE  /\ served'[e] # << >> /\ served'[e][Len(served'[e])] = o
                   /\ turn'[e] # << >> /\ turn'[e][1] = o
        <4>1. t = << >>
          BY <1>1, <3>2
        <4>2. Len(t) = 0
          BY <1>5, <4>1
        <4>3. served'[e] = Q /\ turn'[e] = T /\ T[1] = o
          BY <1>8, <1>10, <4>1, <4>2
        <4> QED  BY <1>8, <1>9, <4>3
      <3> QED  BY <1>6, <2>2, <3>1, <3>2 DEF HasTurn, End
    <2>3. CASE p # o
      <3>1. phase'[p] = phase[p] /\ moved'[p] = moved[p]
        BY <1>1, <1>2, <2>3
      <3>2. phase'[p] \in {"new", "queued"} => moved'[p] = 0
        BY <2>1, <3>1 DEF HasTurn
      <3>3. ASSUME phase'[p] \in {"try", "await", "blocked"}
            PROVE  /\ served'[End(p)] # << >> /\ served'[End(p)][Len(served'[End(p)])] = p
                   /\ fd'[End(p)] \notin Over => turn'[End(p)] # << >> /\ turn'[End(p)][1] = p
        <4>1. /\ served[End(p)] # << >> /\ served[End(p)][Len(served[End(p)])] = p
              /\ fd[End(p)] \notin Over => turn[End(p)] # << >> /\ turn[End(p)][1] = p
          BY <2>1, <3>1, <3>3 DEF HasTurn, Collected, Over
        <4>2. CASE End(p) = e
          <5>1. t # << >> /\ t[1] = p /\ q # << >> /\ q[Len(q)] = p
            BY <1>2, <4>1, <4>2 DEF t, q
          <5>2. 1 \in 1 .. Len(t)
            BY <1>5, <5>1
          <5>3. served'[e] = q /\ turn'[e] = T /\ T[1] = p
            BY <1>1, <1>8, <1>10, <5>1, <5>2
          <5> QED  BY <1>8, <4>2, <5>1, <5>3
        <4>3. CASE End(p) # e
          BY <1>1, <1>2, <4>1, <4>3, EndFacts
        <4> QED  BY <4>2, <4>3
      <3> QED  BY <3>2, <3>3 DEF HasTurn, End, Collected, Over
    <2> QED  BY <2>2, <2>3
  <1> QED  BY <1>11, <1>12 DEF TurnInv

(* close() leaves nobody waiting for the turn of its end.                   *)
LEMMA TurnClose ==
    ASSUME TypeOK, TurnInv, NEW c \in Ends, CloseCollect(c)
    PROVE  TurnInv' /\ turn' \in [Ends -> Seq(Ops)]
           /\ phase' \in [Ops -> {"new", "queued", "try", "await", "blocked", "done"}]
  <1>1. /\ served' = served /\ moved' = moved /\ fd'[c] \in Over
        /\ \A d \in Ends : d # c => fd'[d] = fd[d]
    BY DEF CloseCollect, TypeOK, Over
  <1>2. turn' \in [Ends -> Seq(Ops)] /\ turn'[c] = << >>
        /\ \A d \in Ends : d # c => turn'[d] = turn[d]
    <2>1. << >> \in Seq(Ops)
      BY EmptySeq
    <2>2. turn' = [turn EXCEPT ![c] = << >>]
      BY DEF CloseCollect
    <2> QED  BY <2>1, <2>2 DEF TypeOK
  <1>3. \A p \in Ops :
           phase'[p] = IF End(p) = c /\ phase[p] = "queued" THEN "done" ELSE phase[p]
    BY DEF CloseCollect
  <1>4. phase' \in [Ops -> {"new", "queued", "try", "await", "blocked", "done"}]
    BY DEF CloseCollect, TypeOK
  <1>5. ASSUME NEW d \in Ends PROVE TurnOf(d)'
    <2>1. CASE d # c
      <3>1. \A p \in Ops : End(p) = d => phase'[p] = phase[p]
        BY <1>3, <2>1
      <3>2. TurnOf(d) /\ turn'[d] = turn[d] /\ served'[d] = served[d] /\ fd'[d] = fd[d]
        BY <1>1, <1>2, <2>1 DEF TurnInv
      <3> QED  BY <3>1, <3>2, TurnOfStays
    <2>2. CASE d = c
      <3> DEFINE q == served[c]
      <3>1. /\ q \in Seq(Ops) /\ IsInjective(q)
            /\ \A i \in 1 .. Len(q) : End(q[i]) = c /\ phase[q[i]] \notin {"new", "queued"}
        BY DEF TypeOK, TurnInv, TurnOf
      <3>2. served'[c] = q
        BY <1>1
      <3> HIDE DEF q
      <3>3. ASSUME NEW i \in 1 .. Len(q)
            PROVE  End(q[i]) = c /\ phase'[q[i]] \notin {"new", "queued"}
        <4>1. q[i] \in Ops
          BY <3>1, ElementOfSeq
        <4>2. End(q[i]) = c /\ phase[q[i]] \notin {"new", "queued"}
          BY <3>1
        <4> QED  BY <1>3, <4>1, <4>2
      <3>4. 1 .. Len(turn'[c]) = {}
        <4>1. Len(<< >>) = 0
          OBVIOUS
        <4> QED  BY <1>2, <4>1
      <3>5. IsInjective(turn'[c])
        BY <1>2 DEF IsInjective
      <3>6. \A i \in 1 .. Len(turn'[c]) :
              /\ End(turn'[c][i]) = c
              /\ phase'[turn'[c][i]] \in IF i = 1 THEN {"try", "await", "blocked"} ELSE {"queued"}
        BY <3>4
      <3>7. \A i \in 1 .. Len(served'[c]) :
               End(served'[c][i]) = c /\ phase'[served'[c][i]] \notin {"new", "queued"}
        BY <3>2, <3>3
      <3>8. IsInjective(served'[c])
        BY <3>1, <3>2
      <3> QED  BY <1>2, <2>2, <3>5, <3>6, <3>7, <3>8 DEF TurnOf, End
    <2> QED  BY <2>1, <2>2
  <1>6. ASSUME NEW p \in Ops PROVE HasTurn(p)'
    <2>1. HasTurn(p) /\ End(p) \in Ends
      BY EndFacts DEF TurnInv
    <2>2. phase'[p] \in {"new", "queued"} => phase[p] \in {"new", "queued"}
      BY <1>3
    <2>3. phase'[p] \in {"try", "await", "blocked"} => phase[p] \in {"try", "await", "blocked"}
      BY <1>3
    <2>4. phase'[p] \in {"new", "queued"} => moved'[p] = 0
      BY <1>1, <2>1, <2>2 DEF HasTurn
    <2>5. fd'[End(p)] \notin Over => fd[End(p)] \notin Over /\ turn'[End(p)] = turn[End(p)]
      BY <1>1, <1>2, <2>1
    <2>6. phase'[p] \in {"try", "await", "blocked"} =>
             /\ served'[End(p)] # << >> /\ served'[End(p)][Len(served'[End(p)])] = p
             /\ fd'[End(p)] \notin Over => turn'[End(p)] # << >> /\ turn'[End(p)][1] = p
      BY <1>1, <2>1, <2>3, <2>5 DEF HasTurn, Collected, Over
    <2> QED  BY <2>4, <2>6 DEF HasTurn, End, Collected, Over
  <1> QED  BY <1>2, <1>4, <1>5, <1>6 DEF TurnInv

-----------------------------------------------------------------------------
(* The step.                                                               *)

(* What a step does to the turns.  Some operation may have had the turn and *)
(* only that one moves bytes.                                               *)
TurnStep(o) ==
    \/ phase[o] = "try" /\ Done(o)
    \/ phase[o] = "try" /\ Again
    \/ phase[o] = "try" /\ WouldBlock(o)

(* An attempt by an operation that has the turn.                            *)
LEMMA AttemptTurn ==
    ASSUME NEW o \in Ops, Attempt(o)
    PROVE  TurnStep(o) /\ fd' = fd /\ reset' = reset /\ shut' = shut
  <1>1. CASE RecvNothing(o)
    BY <1>1 DEF RecvNothing, kernel, TurnStep
  <1>2. CASE RecvEof(o)
    BY <1>2 DEF RecvEof, RecvCall, kernel, TurnStep
  <1>3. CASE RecvAgain(o)
    BY <1>3 DEF RecvAgain, RecvCall, kernel, TurnStep
  <1>4. CASE RecvError(o)
    BY <1>4 DEF RecvError, RecvCall, TurnStep
  <1>5. ASSUME NEW n \in 1 .. Cap, RecvData(o, n)
        PROVE  TurnStep(o) /\ fd' = fd /\ reset' = reset /\ shut' = shut
    BY <1>5 DEF RecvData, RecvCall, TurnStep
  <1>6. CASE SendNothing(o)
    BY <1>6 DEF SendNothing, kernel, TurnStep
  <1>7. CASE SendAgain(o)
    BY <1>7 DEF SendAgain, SendCall, kernel, TurnStep
  <1>8. CASE SendError(o)
    BY <1>8 DEF SendError, SendCall, TurnStep
  <1>9. ASSUME NEW n \in 1 .. Cap, SendData(o, n)
        PROVE  TurnStep(o) /\ fd' = fd /\ reset' = reset /\ shut' = shut
    BY <1>9 DEF SendData, SendCall, TurnStep
  <1> QED  BY <1>1, <1>2, <1>3, <1>4, <1>5, <1>6, <1>7, <1>8, <1>9 DEF Attempt

(* No byte moves.                                                           *)
NoData == UNCHANGED <<moved, vec, buf, pipe>>

(* An operation that has the turn reads or writes, or no byte moves.        *)
LEMMA AttemptMoves ==
    ASSUME NEW o \in Ops, Attempt(o)
    PROVE  \/ o \in Recvs /\ \E n \in 1 .. Cap : RecvData(o, n)
           \/ o \in Sends /\ \E n \in 1 .. Cap : SendData(o, n)
           \/ NoData
  <1>1. RecvNothing(o) \/ RecvEof(o) \/ RecvAgain(o) \/ RecvError(o) => NoData
    BY DEF RecvNothing, RecvEof, RecvAgain, RecvError, kernel, NoData
  <1>2. SendNothing(o) \/ SendAgain(o) \/ SendError(o) => NoData
    BY DEF SendNothing, SendAgain, SendError, kernel, NoData
  <1> QED  BY <1>1, <1>2 DEF Attempt

(* An operation only moves its own bytes.                                   *)
LEMMA MovesOwn ==
    ASSUME TypeOK, NEW o \in Ops, Attempt(o), NEW p \in Ops, p # o
    PROVE  moved'[p] = moved[p]
  <1>1. ASSUME NEW n \in 1 .. Cap, RecvData(o, n) PROVE moved'[p] = moved[p]
    BY <1>1 DEF RecvData, TypeOK
  <1>2. ASSUME NEW n \in 1 .. Cap, SendData(o, n) PROVE moved'[p] = moved[p]
    BY <1>2 DEF SendData, TypeOK
  <1>3. CASE NoData
    BY <1>3 DEF NoData
  <1> QED  BY <1>1, <1>2, <1>3, AttemptMoves

(* The types of the variables that a TurnStep changes.                      *)
LEMMA TurnStepType ==
    ASSUME TypeOK, TurnInv, NEW o \in Ops, TurnStep(o)
    PROVE  /\ turn' \in [Ends -> Seq(Ops)] /\ served' \in [Ends -> Seq(Ops)]
           /\ phase' \in [Ops -> {"new", "queued", "try", "await", "blocked", "done"}]
  <1>1. CASE phase[o] = "try" /\ Done(o)
    BY <1>1, DoneFacts
  <1>2. CASE Again
    BY <1>2 DEF Again, TypeOK
  <1>3. CASE WouldBlock(o)
    BY <1>3 DEF WouldBlock, TypeOK
  <1> QED  BY <1>1, <1>2, <1>3 DEF TurnStep

(* An attempt leaves the turns in order.                                    *)
LEMMA TurnAttempt ==
    ASSUME TypeOK, TurnInv, NEW o \in Ops, Attempt(o)
    PROVE  TurnInv'
  <1>1. \A p \in Ops : p # o => moved'[p] = moved[p]
    BY MovesOwn
  <1>2. SameOver /\ phase[o] = "try"
    BY AttemptTurn DEF TurnStep, SameOver
  <1>3. CASE Done(o)
    BY <1>1, <1>2, <1>3, TurnDone
  <1>4. CASE Again
    <2>1. TurnKept
      BY <1>1, <1>2, <1>4 DEF Again, TurnKept
    <2> QED  BY <2>1, TurnKeptFacts
  <1>5. CASE WouldBlock(o)
    <2>1. phase'[o] = "await" /\ \A p \in Ops : p # o => phase'[p] = phase[p]
      BY <1>5 DEF WouldBlock, TypeOK
    <2>2. \A p \in Ops : \/ phase'[p] = phase[p]
                         \/ /\ phase[p] \in {"try", "await", "blocked"}
                            /\ phase'[p] \in {"try", "await", "blocked"}
      BY <1>2, <2>1
    <2>3. \A p \in Ops : phase[p] \in {"new", "queued"} => moved'[p] = moved[p]
      BY <1>1, <1>2
    <2>4. TurnKept
      BY <1>2, <1>5, <2>2, <2>3 DEF WouldBlock, TurnKept
    <2> QED  BY <2>4, TurnKeptFacts
  <1> QED  BY <1>3, <1>4, <1>5, AttemptTurn DEF TurnStep

(* Every step leaves the turns in order.                                    *)
LEMMA TurnInvStep ==
    ASSUME TypeOK, TurnInv, [Next]_vars
    PROVE  TurnInv'
  <1>1. ASSUME NEW o \in Ops, Start(o) PROVE TurnInv'
    BY <1>1, TurnStart
  <1>2. ASSUME NEW o \in Ops, Attempt(o) PROVE TurnInv'
    BY <1>2, TurnAttempt
  <1>3. ASSUME NEW o \in Ops, Wake(o) PROVE TurnInv'
    <2>1. /\ phase[o] = "blocked" /\ phase'[o] = "try"
          /\ \A p \in Ops : p # o => phase'[p] = phase[p]
      BY <1>3 DEF Wake, TypeOK
    <2>2. \A p \in Ops : \/ phase'[p] = phase[p]
                         \/ /\ phase[p] \in {"try", "await", "blocked"}
                            /\ phase'[p] \in {"try", "await", "blocked"}
      BY <2>1
    <2>3. TurnKept
      BY <1>3, <2>2 DEF Wake, TurnKept, SameOver
    <2> QED  BY <2>3, TurnKeptFacts
  <1>4. ASSUME NEW o \in Ops, Register(o) PROVE TurnInv'
    <2>1. /\ phase[o] = "await" /\ phase'[o] = "blocked"
          /\ \A p \in Ops : p # o => phase'[p] = phase[p]
      BY <1>4 DEF Register, TypeOK
    <2>2. \A p \in Ops : \/ phase'[p] = phase[p]
                         \/ /\ phase[p] \in {"try", "await", "blocked"}
                            /\ phase'[p] \in {"try", "await", "blocked"}
      BY <2>1
    <2>3. TurnKept
      BY <1>4, <2>2 DEF Register, TurnKept, SameOver
    <2> QED  BY <2>3, TurnKeptFacts
  <1>5. CASE ShutdownTx \/ Reset \/ UNCHANGED vars
    <2>1. TurnKept
      BY <1>5 DEF ShutdownTx, Reset, vars, TurnKept, SameOver
    <2> QED  BY <2>1, TurnKeptFacts
  <1>6. ASSUME NEW e \in Ends, CloseRemove(e) PROVE TurnInv'
    <2>1. SameOver
      BY <1>6 DEF CloseRemove, TypeOK, SameOver, Over
    <2>2. \A p \in Ops : \/ phase'[p] = phase[p]
                         \/ phase[p] = "blocked" /\ phase'[p] = "try"
      BY <1>6 DEF CloseRemove
    <2>3. TurnKept
      BY <1>6, <2>1, <2>2 DEF CloseRemove, TurnKept
    <2> QED  BY <2>3, TurnKeptFacts
  <1>7. ASSUME NEW e \in Ends, CloseCollect(e) PROVE TurnInv'
    BY <1>7, TurnClose
  <1>8. ASSUME NEW e \in Ends, CloseFd(e) PROVE TurnInv'
    <2>1. SameOver
      BY <1>8 DEF CloseFd, TypeOK, SameOver, Over
    <2>2. TurnKept
      BY <1>8, <2>1 DEF CloseFd, TurnKept
    <2> QED  BY <2>2, TurnKeptFacts
  <1> QED  BY <1>1, <1>2, <1>3, <1>4, <1>5, <1>6, <1>7, <1>8 DEF Next

(* The steps, by the bytes they move.                                       *)
LEMMA StepMoves ==
    ASSUME [Next]_vars
    PROVE  \/ \E r \in Recvs, n \in 1 .. Cap : RecvData(r, n)
           \/ \E s \in Sends, n \in 1 .. Cap : SendData(s, n)
           \/ Reset \/ NoData
  <1>1. ASSUME NEW o \in Ops, Start(o) \/ Wake(o) \/ Register(o) PROVE NoData
    BY <1>1 DEF Start, Wake, Register, kernel, NoData
  <1>2. ASSUME NEW e \in Ends, CloseRemove(e) \/ CloseCollect(e) \/ CloseFd(e) PROVE NoData
    BY <1>2 DEF CloseRemove, CloseCollect, CloseFd, kernel, NoData
  <1>3. ShutdownTx \/ UNCHANGED vars => NoData
    BY DEF ShutdownTx, kernel, vars, NoData
  <1> QED  BY <1>1, <1>2, <1>3, AttemptMoves DEF Next

(* What a reset leaves of the bytes under way.                              *)
LEMMA ResetFacts ==
    ASSUME TypeOK, Reset
    PROVE  /\ moved' = moved /\ vec' = vec /\ buf' = buf /\ reset' = TRUE
           /\ pipe' \in Seq(Bytes) /\ Len(pipe') <= Cap
           /\ Len(pipe') <= Len(pipe) /\ \A i \in 1 .. Len(pipe') : pipe'[i] = pipe[i]
  <1>1. pipe \in Seq(Bytes) /\ Len(pipe) \in Nat /\ Len(pipe) <= Cap /\ Cap \in Nat
    BY LenProperties, TransferAssumption DEF TypeOK, Bytes
  <1>2. PICK n \in 0 .. Len(pipe) : pipe' = SubSeq(pipe, 1, n)
    BY DEF Reset
  <1> DEFINE z == SubSeq(pipe, 1, n)
  <1>3. \A i \in 1 .. n : pipe[i] \in Bytes
    BY <1>1, ElementOfSeq
  <1>4. /\ z \in Seq(Bytes) /\ Len(z) = IF 1 <= n THEN n - 1 + 1 ELSE 0
        /\ \A i \in 1 .. n - 1 + 1 : z[i] = pipe[1 + i - 1]
    BY <1>1, <1>3, SubSeqProperties
  <1> HIDE DEF z
  <1>5. Len(z) = n /\ \A i \in 1 .. n : z[i] = pipe[i]
    BY <1>1, <1>4
  <1>6. pipe' = z
    BY <1>2 DEF z
  <1> QED  BY <1>1, <1>4, <1>5, <1>6 DEF Reset

(* The first bytes of a run.                                                *)
LEMMA RunBeginning ==
    ASSUME NEW s \in Sends, NEW a \in Nat, NEW b \in Nat, NEW n \in Nat, a + n <= b
    PROVE  SubSeq(Run(s, a, b), 1, n) = Run(s, a, a + n)
  <1> DEFINE q == Run(s, a, b)
             r == Run(s, a, a + n)
             p == SubSeq(q, 1, n)
  <1>1. a <= b /\ a + n \in Nat /\ a <= a + n /\ (a + n) - a = n
    OBVIOUS
  <1>2. \A j \in 1 .. b - a : q[j] = Byte(s, a + j)
    BY <1>1, RunFacts
  <1>3. r \in Seq(Bytes) /\ Len(r) = n /\ \A j \in 1 .. n : r[j] = Byte(s, a + j)
    BY <1>1, RunFacts
  <1>4. q \in Seq(Bytes) /\ Len(q) = b - a
    BY <1>1, RunFacts
  <1> HIDE DEF q, r
  <1>5. \A j \in 1 .. n : q[j] \in Bytes /\ q[j] = Byte(s, a + j)
    <2>1. \A j \in 1 .. n : j \in 1 .. b - a
      BY <1>1
    <2> QED  BY <1>2, <1>4, <2>1, ElementOfSeq
  <1>6. /\ p \in Seq(Bytes) /\ Len(p) = IF 1 <= n THEN n - 1 + 1 ELSE 0
        /\ \A j \in 1 .. n - 1 + 1 : p[j] = q[1 + j - 1]
    BY <1>5, SubSeqProperties
  <1> HIDE DEF p
  <1>7. Len(p) = n /\ \A j \in 1 .. n : p[j] = q[j]
    <2>1. Len(p) = n
      BY <1>6
    <2>2. ASSUME NEW j \in 1 .. n PROVE p[j] = q[j]
      <3>1. j \in 1 .. n - 1 + 1 /\ 1 + j - 1 = j
        OBVIOUS
      <3> QED  BY <1>6, <3>1
    <2> QED  BY <2>1, <2>2
  <1>8. p = r
    <2>1. \A j \in 1 .. Len(p) : p[j] = r[j]
      BY <1>3, <1>5, <1>7
    <2> QED  BY <1>3, <1>6, <1>7, <2>1, SeqEqual
  <1> QED  BY <1>8 DEF p, q, r

(* n bytes go from the kernel to the end of the buffer.                     *)
LEMMA RecvDataFacts ==
    ASSUME TypeOK, CountInv, NEW r \in Recvs, NEW n \in 1 .. Cap, RecvData(r, n)
    PROVE  \E x \in Seq(Bytes) :
              /\ pipe' \in Seq(Bytes) /\ Len(pipe') <= Cap /\ pipe = x \o pipe'
              /\ buf' \in [Recvs -> Seq(Bytes)] /\ buf'[r] = buf[r] \o x
              /\ \A p \in Recvs : p # r => buf'[p] = buf[p]
              /\ moved' \in [Ops -> Nat] /\ moved'[r] = moved[r] + Len(x)
              /\ \A p \in Ops : p # r => moved'[p] = moved[p]
              /\ moved'[r] <= Length(r) /\ Len(buf'[r]) = moved'[r]
              /\ vec' = vec
  <1> DEFINE x == SubSeq(pipe, 1, n)
             y == SubSeq(pipe, n + 1, Len(pipe))
             z == SubSeq(buf[r], 1, moved[r])
  <1>1. r \in Ops /\ Length(r) \in Nat
    BY IovecsCover DEF Ops
  <1>2. /\ pipe \in Seq(Bytes) /\ Len(pipe) \in Nat /\ Len(pipe) <= Cap /\ Cap \in Nat
        /\ buf[r] \in Seq(Bytes) /\ moved[r] \in Nat /\ Len(buf[r]) = moved[r]
    BY <1>1, LenProperties, TransferAssumption DEF TypeOK, CountInv, Bytes
  <1>3. /\ n <= Length(r) - moved[r] /\ n <= Len(pipe) /\ n \in Nat /\ n >= 1
        /\ buf' = [buf EXCEPT ![r] = z \o x] /\ pipe' = y
        /\ moved' = [moved EXCEPT ![r] = moved[r] + n] /\ vec' = vec
    <2>1. buf' = [buf EXCEPT ![r] = SubSeq(@, 1, moved[r]) \o SubSeq(pipe, 1, n)]
      BY DEF RecvData
    <2>2. buf' = [buf EXCEPT ![r] = z \o x]
      BY <2>1 DEF TypeOK
    <2>3. moved' = [moved EXCEPT ![r] = moved[r] + n]
      BY <1>1 DEF RecvData, TypeOK
    <2> QED  BY <1>1, <1>2, <2>2, <2>3 DEF RecvData
  <1>4. x \in Seq(Bytes) /\ Len(x) = n
    <2>1. \A i \in 1 .. n : pipe[i] \in Bytes
      BY <1>2, <1>3, ElementOfSeq
    <2>2. x \in Seq(Bytes) /\ Len(x) = IF 1 <= n THEN n - 1 + 1 ELSE 0
      BY <1>3, <2>1, SubSeqProperties
    <2> HIDE DEF x
    <2> QED  BY <1>3, <2>2
  <1>5. y \in Seq(Bytes) /\ Len(y) <= Cap
    <2>1. \A i \in n + 1 .. Len(pipe) : pipe[i] \in Bytes
      BY <1>2, <1>3, ElementOfSeq
    <2>2. n + 1 \in Int /\ Len(pipe) \in Int
      BY <1>2, <1>3
    <2>3. y \in Seq(Bytes) /\ Len(y) = IF n + 1 <= Len(pipe) THEN Len(pipe) - (n + 1) + 1 ELSE 0
      BY <2>1, <2>2, SubSeqProperties
    <2> HIDE DEF y
    <2> QED  BY <1>2, <1>3, <2>3
  <1>6. pipe = x \o y
    <2>1. /\ 1 \in 1 .. Len(pipe) + 1 /\ n \in 1 - 1 .. Len(pipe)
          /\ Len(pipe) \in n .. Len(pipe)
      BY <1>2, <1>3
    <2>2. x \o y = SubSeq(pipe, 1, Len(pipe))
      BY <1>2, <2>1, ConcatAdjacentSubSeq
    <2> QED  BY <1>2, <2>2, SubSeqFull
  <1>7. z = buf[r]
    BY <1>2, SubSeqFull
  <1> HIDE DEF x, y, z
  <1> DEFINE w == buf[r] \o x
  <1>8. w \in Seq(Bytes) /\ Len(w) = moved[r] + n
    <2>1. w \in Seq(Bytes) /\ Len(w) = Len(buf[r]) + Len(x)
      BY <1>2, <1>4, ConcatProperties
    <2> HIDE DEF w
    <2> QED  BY <1>2, <1>4, <2>1
  <1>9. buf' = [buf EXCEPT ![r] = w]
    BY <1>3, <1>7
  <1>10. w = buf[r] \o x
    OBVIOUS
  <1> HIDE DEF w
  <1>11. /\ buf' \in [Recvs -> Seq(Bytes)] /\ buf'[r] = w
         /\ \A p \in Recvs : p # r => buf'[p] = buf[p]
    BY <1>8, <1>9 DEF TypeOK, Bytes
  <1>12. /\ moved' \in [Ops -> Nat] /\ moved'[r] = moved[r] + n
         /\ \A p \in Ops : p # r => moved'[p] = moved[p]
    BY <1>1, <1>2, <1>3 DEF TypeOK
  <1>13. moved'[r] <= Length(r) /\ Len(buf'[r]) = moved'[r]
    <2>1. n \in Nat /\ n <= Length(r) - moved[r]
      BY <1>3
    <2>2. moved[r] + n <= Length(r)
      BY <1>1, <1>2, <2>1
    <2> QED  BY <1>8, <1>11, <1>12, <2>2
  <1>14. pipe' \in Seq(Bytes) /\ Len(pipe') <= Cap /\ pipe = x \o pipe'
    BY <1>3, <1>5, <1>6
  <1> QED  BY <1>3, <1>4, <1>10, <1>11, <1>12, <1>13, <1>14

(* n bytes, the next ones of the send, go to the kernel.                    *)
LEMMA SendDataFacts ==
    ASSUME TypeOK, CountInv, NEW s \in Sends, NEW n \in 1 .. Cap, SendData(s, n)
    PROVE  /\ moved[s] \in Nat /\ n \in Nat
           /\ pipe' = pipe \o Run(s, moved[s], moved[s] + n)
           /\ pipe' \in Seq(Bytes) /\ Len(pipe') <= Cap
           /\ moved' \in [Ops -> Nat] /\ moved'[s] = moved[s] + n
           /\ \A p \in Ops : p # s => moved'[p] = moved[p]
           /\ moved'[s] <= Length(s)
           /\ vec' \in [Vectored -> Seq(Iov)]
           /\ \A v \in Vectored : Covers(vec'[v], moved'[v], Length(v))
           /\ buf' = buf
  <1> DEFINE m == moved[s]
             L == Length(s)
  <1>1. s \in Ops /\ L \in Nat /\ m \in Nat /\ m <= L /\ Offered(s) = Run(s, m, L)
    BY OfferedFacts DEF Ops
  <1>2. Len(Offered(s)) = L - m
    BY <1>1, RunFacts
  <1>3. /\ n \in Nat /\ n >= 1 /\ m + n <= L
        /\ n <= Cap - Len(pipe) /\ Cap \in Nat
        /\ pipe' = pipe \o SubSeq(Offered(s), 1, n)
        /\ buf' = buf
        /\ vec' = [o \in Vectored |-> IF o = s THEN advance_iov(vec[o], n) ELSE vec[o]]
    <2>1. n \in 1 .. L - m
      BY <1>2 DEF SendData
    <2> HIDE DEF L, m
    <2>2. n \in Nat /\ n >= 1 /\ m + n <= L
      BY <1>1, <2>1
    <2> QED  BY <2>2, TransferAssumption DEF SendData
  <1>4. moved' = [moved EXCEPT ![s] = m + n]
    BY <1>1 DEF SendData, TypeOK
  <1> HIDE DEF m, L
  <1> DEFINE x == Run(s, m, m + n)
  <1>5. SubSeq(Offered(s), 1, n) = x
    BY <1>1, <1>3, RunBeginning
  <1>6. x \in Seq(Bytes) /\ Len(x) = n
    <2>1. m + n \in Nat /\ m <= m + n /\ (m + n) - m = n
      BY <1>1, <1>3
    <2> QED  BY <1>1, <2>1, RunFacts
  <1>7. pipe' = pipe \o x
    BY <1>3, <1>5
  <1> HIDE DEF x
  <1>8. pipe' \in Seq(Bytes) /\ Len(pipe') <= Cap
    <2>1. pipe \in Seq(Bytes) /\ Len(pipe) \in Nat
      BY LenProperties DEF TypeOK, Bytes
    <2>2. pipe \o x \in Seq(Bytes) /\ Len(pipe \o x) = Len(pipe) + Len(x)
      BY <1>6, <2>1, ConcatProperties
    <2> QED  BY <1>3, <1>6, <1>7, <2>1, <2>2
  <1>9. /\ moved' \in [Ops -> Nat] /\ moved'[s] = m + n
        /\ \A p \in Ops : p # s => moved'[p] = moved[p]
    BY <1>1, <1>3, <1>4 DEF TypeOK
  <1>10. ASSUME NEW v \in Vectored
         PROVE  vec'[v] \in Seq(Iov) /\ Covers(vec'[v], moved'[v], Length(v))
    <2>1. vec[v] \in Seq(Iov) /\ Covers(vec[v], moved[v], Length(v)) /\ v \in Ops
      BY EndFacts DEF TypeOK, CountInv, Iov
    <2>2. CASE v = s
      <3>1. vec[s] \in Seq(Iov) /\ Covers(vec[s], m, L) /\ L \in Nat /\ m \in Nat
        BY <1>1, <2>1, <2>2 DEF m, L
      <3>2. advance_iov(vec[s], n) \in Seq(Iov) /\ Covers(advance_iov(vec[s], n), m + n, L)
        BY <1>3, <3>1, AdvanceFacts
      <3>3. vec'[s] = advance_iov(vec[s], n)
        BY <1>3, <2>2
      <3> QED  BY <1>9, <2>2, <3>2, <3>3 DEF L
    <2>3. CASE v # s
      BY <1>3, <1>9, <2>1, <2>3
    <2> QED  BY <2>2, <2>3
  <1>11. vec' \in [Vectored -> Seq(Iov)]
    <2>1. vec' = [v \in Vectored |-> vec'[v]]
      BY <1>3
    <2> QED  BY <1>10, <2>1
  <1>12. moved'[s] <= Length(s)
    BY <1>3, <1>9 DEF L
  <1> QED  BY <1>1, <1>3, <1>7, <1>8, <1>9, <1>10, <1>11, <1>12 DEF x, m, L

(* The data of a step: types and counts.                                    *)
LEMMA DataStep ==
    ASSUME TypeOK, CountInv, [Next]_vars
    PROVE  /\ moved' \in [Ops -> Nat] /\ vec' \in [Vectored -> Seq(Iov)]
           /\ buf' \in [Recvs -> Seq(Bytes)] /\ pipe' \in Seq(Bytes) /\ Len(pipe') <= Cap
           /\ CountInv'
  <1>1. CASE NoData
    <2>1. CountInv'
      <3>1. ASSUME NEW o \in Ops PROVE moved'[o] <= Length(o)
        BY <1>1 DEF CountInv, NoData
      <3>2. ASSUME NEW r \in Recvs PROVE Len(buf'[r]) = moved'[r]
        BY <1>1 DEF CountInv, NoData
      <3>3. ASSUME NEW s \in Vectored PROVE Covers(vec'[s], moved'[s], Length(s))
        BY <1>1 DEF CountInv, NoData
      <3> QED  BY <3>1, <3>2, <3>3 DEF CountInv, Covers, Length, TotalLen
    <2> QED  BY <1>1, <2>1 DEF NoData, TypeOK, Iov, Bytes
  <1>2. ASSUME NEW r \in Recvs, NEW n \in 1 .. Cap, RecvData(r, n)
        PROVE  /\ moved' \in [Ops -> Nat] /\ vec' \in [Vectored -> Seq(Iov)]
               /\ buf' \in [Recvs -> Seq(Bytes)] /\ pipe' \in Seq(Bytes) /\ Len(pipe') <= Cap
               /\ CountInv'
    <2>1. /\ pipe' \in Seq(Bytes) /\ Len(pipe') <= Cap /\ buf' \in [Recvs -> Seq(Bytes)]
          /\ moved' \in [Ops -> Nat] /\ moved'[r] <= Length(r) /\ Len(buf'[r]) = moved'[r]
          /\ \A p \in Recvs : p # r => buf'[p] = buf[p]
          /\ \A p \in Ops : p # r => moved'[p] = moved[p]
          /\ vec' = vec
      BY <1>2, RecvDataFacts
    <2>2. ASSUME NEW o \in Ops PROVE moved'[o] <= Length(o)
      BY <2>1 DEF CountInv
    <2>3. ASSUME NEW p \in Recvs PROVE Len(buf'[p]) = moved'[p]
      BY <2>1, EndFacts DEF CountInv
    <2>4. ASSUME NEW s \in Vectored PROVE Covers(vec'[s], moved'[s], Length(s))
      <3>1. s \in Ops /\ s # r
        BY EndFacts, TransferAssumption
      <3> QED  BY <2>1, <3>1 DEF CountInv
    <2>5. CountInv'
      BY <2>2, <2>3, <2>4 DEF CountInv, Covers, Length, TotalLen
    <2>6. vec' \in [Vectored -> Seq(Iov)]
      BY <2>1 DEF TypeOK, Iov
    <2> QED  BY <2>1, <2>5, <2>6
  <1>3. ASSUME NEW s \in Sends, NEW n \in 1 .. Cap, SendData(s, n)
        PROVE  /\ moved' \in [Ops -> Nat] /\ vec' \in [Vectored -> Seq(Iov)]
               /\ buf' \in [Recvs -> Seq(Bytes)] /\ pipe' \in Seq(Bytes) /\ Len(pipe') <= Cap
               /\ CountInv'
    <2>1. /\ pipe' \in Seq(Bytes) /\ Len(pipe') <= Cap /\ buf' = buf
          /\ moved' \in [Ops -> Nat] /\ moved'[s] <= Length(s)
          /\ \A p \in Ops : p # s => moved'[p] = moved[p]
          /\ vec' \in [Vectored -> Seq(Iov)]
          /\ \A v \in Vectored : Covers(vec'[v], moved'[v], Length(v))
      BY <1>3, SendDataFacts
    <2>2. ASSUME NEW o \in Ops PROVE moved'[o] <= Length(o)
      BY <2>1 DEF CountInv
    <2>3. ASSUME NEW p \in Recvs PROVE Len(buf'[p]) = moved'[p]
      <3>1. p \in Ops /\ p # s
        BY EndFacts, TransferAssumption
      <3> QED  BY <2>1, <3>1 DEF CountInv
    <2>4. CountInv'
      BY <2>1, <2>2, <2>3 DEF CountInv, Covers, Length, TotalLen
    <2>5. buf' \in [Recvs -> Seq(Bytes)]
      BY <2>1 DEF TypeOK, Bytes
    <2> QED  BY <2>1, <2>4, <2>5
  <1>4. CASE Reset
    <2>1. /\ moved' = moved /\ vec' = vec /\ buf' = buf
          /\ pipe' \in Seq(Bytes) /\ Len(pipe') <= Cap
      BY <1>4, ResetFacts
    <2>2. CountInv'
      <3>1. ASSUME NEW o \in Ops PROVE moved'[o] <= Length(o)
        BY <2>1 DEF CountInv
      <3>2. ASSUME NEW r \in Recvs PROVE Len(buf'[r]) = moved'[r]
        BY <2>1 DEF CountInv
      <3>3. ASSUME NEW s \in Vectored PROVE Covers(vec'[s], moved'[s], Length(s))
        BY <2>1 DEF CountInv
      <3> QED  BY <3>1, <3>2, <3>3 DEF CountInv, Covers, Length, TotalLen
    <2> QED  BY <2>1, <2>2 DEF TypeOK, Iov, Bytes
  <1> QED  BY <1>1, <1>2, <1>3, <1>4, StepMoves

(* The flags and the state of the sockets keep their types.                 *)
FlagsOK ==
    /\ err \in [Ops -> BOOLEAN]
    /\ shut \in BOOLEAN /\ reset \in BOOLEAN /\ tx_shutdown \in BOOLEAN /\ rx_eof \in BOOLEAN
    /\ sockErr \in [Ends -> {"none", "reset", "timeout"}]
    /\ fd \in [Ends -> {"open", "removed", "collected", "closed"}]

LEMMA FlagsAttempt ==
    ASSUME FlagsOK, NEW o \in Ops, Attempt(o)
    PROVE  FlagsOK'
  <1>1. CASE RecvNothing(o)
    BY <1>1 DEF RecvNothing, FlagsOK, flags, kernel
  <1>2. CASE RecvEof(o)
    BY <1>2 DEF RecvEof, FlagsOK, kernel
  <1>3. CASE RecvAgain(o)
    BY <1>3 DEF RecvAgain, FlagsOK, flags, kernel
  <1>4. CASE RecvError(o)
    BY <1>4 DEF RecvError, FlagsOK, flags, kernel
  <1>5. ASSUME NEW n \in 1 .. Cap, RecvData(o, n) PROVE FlagsOK'
    BY <1>5 DEF RecvData, FlagsOK, flags, kernel
  <1>6. CASE SendNothing(o)
    BY <1>6 DEF SendNothing, FlagsOK, flags, kernel
  <1>7. CASE SendAgain(o)
    BY <1>7 DEF SendAgain, FlagsOK, flags, kernel
  <1>8. CASE SendError(o)
    BY <1>8 DEF SendError, FlagsOK
  <1>9. ASSUME NEW n \in 1 .. Cap, SendData(o, n) PROVE FlagsOK'
    BY <1>9 DEF SendData, FlagsOK, flags, kernel
  <1> QED  BY <1>1, <1>2, <1>3, <1>4, <1>5, <1>6, <1>7, <1>8, <1>9 DEF Attempt

LEMMA FlagsStep ==
    ASSUME FlagsOK, [Next]_vars
    PROVE  FlagsOK'
  <1>1. ASSUME NEW o \in Ops, Start(o) PROVE FlagsOK'
    BY <1>1 DEF Start, FlagsOK, flags, kernel
  <1>2. ASSUME NEW o \in Ops, Wake(o) PROVE FlagsOK'
    BY <1>2 DEF Wake, FlagsOK, flags, kernel
  <1>3. CASE ShutdownTx
    BY <1>3 DEF ShutdownTx, FlagsOK
  <1>4. CASE Reset
    <2>1. sockErr' \in Failures /\ Failures \subseteq [Ends -> {"none", "reset", "timeout"}]
      BY <1>4, TransferAssumption DEF Reset, Ends
    <2> QED  BY <1>4, <2>1 DEF Reset, FlagsOK, flags
  <1>5. ASSUME NEW o \in Ops, Register(o) PROVE FlagsOK'
    BY <1>5 DEF Register, FlagsOK, flags, kernel
  <1>6. ASSUME NEW e \in Ends, CloseRemove(e) \/ CloseCollect(e) PROVE FlagsOK'
    BY <1>6 DEF CloseRemove, CloseCollect, FlagsOK, flags, kernel
  <1>7. ASSUME NEW e \in Ends, CloseFd(e) PROVE FlagsOK'
    BY <1>7 DEF CloseFd, FlagsOK, kernel
  <1>8. CASE UNCHANGED vars
    BY <1>8 DEF vars, flags, kernel, FlagsOK
  <1> QED  BY <1>1, <1>2, <1>3, <1>4, <1>5, <1>6, <1>7, <1>8, FlagsAttempt DEF Next

(* The lists and the phases keep their types.                               *)
LEMMA ListsStep ==
    ASSUME TypeOK, TurnInv, [Next]_vars
    PROVE  /\ turn' \in [Ends -> Seq(Ops)] /\ served' \in [Ends -> Seq(Ops)]
           /\ phase' \in [Ops -> {"new", "queued", "try", "await", "blocked", "done"}]
  <1> DEFINE G == /\ turn' \in [Ends -> Seq(Ops)] /\ served' \in [Ends -> Seq(Ops)]
                  /\ phase' \in [Ops -> {"new", "queued", "try", "await", "blocked", "done"}]
  <1>1. ASSUME NEW o \in Ops, Start(o) PROVE G
    BY <1>1, StartFacts
  <1>2. ASSUME NEW o \in Ops, Attempt(o) PROVE G
    BY <1>2, AttemptTurn, TurnStepType
  <1>3. ASSUME NEW o \in Ops, Wake(o) PROVE G
    BY <1>3 DEF Wake, TypeOK
  <1>4. ASSUME NEW o \in Ops, Register(o) PROVE G
    BY <1>4 DEF Register, TypeOK
  <1>5. CASE ShutdownTx \/ Reset \/ UNCHANGED vars
    BY <1>5 DEF ShutdownTx, Reset, vars, TypeOK
  <1>6. ASSUME NEW e \in Ends, CloseRemove(e) \/ CloseFd(e) PROVE G
    BY <1>6 DEF CloseRemove, CloseFd, TypeOK
  <1>7. ASSUME NEW e \in Ends, CloseCollect(e) PROVE G
    <2>1. served' = served
      BY <1>7 DEF CloseCollect
    <2> QED  BY <1>7, <2>1, TurnClose DEF TypeOK
  <1> QED  BY <1>1, <1>2, <1>3, <1>4, <1>5, <1>6, <1>7 DEF Next

(* The types, in the parts above.                                           *)
LEMMA TypeParts ==
    /\ TypeOK <=> /\ turn \in [Ends -> Seq(Ops)] /\ served \in [Ends -> Seq(Ops)]
                  /\ phase \in [Ops -> {"new", "queued", "try", "await", "blocked", "done"}]
                  /\ moved \in [Ops -> Nat] /\ vec \in [Vectored -> Seq(Iov)]
                  /\ buf \in [Recvs -> Seq(Bytes)] /\ pipe \in Seq(Bytes) /\ Len(pipe) <= Cap
                  /\ FlagsOK
  BY DEF TypeOK, FlagsOK, Iov, Bytes

LEMMA TypeOKStep ==
    ASSUME TypeOK, TurnInv, CountInv, [Next]_vars
    PROVE  TypeOK'
  <1>1. FlagsOK
    BY TypeParts
  <1>2. FlagsOK'
    BY <1>1, FlagsStep
  <1>3. TypeOK' <=> /\ turn' \in [Ends -> Seq(Ops)] /\ served' \in [Ends -> Seq(Ops)]
                    /\ phase' \in [Ops -> {"new", "queued", "try", "await", "blocked", "done"}]
                    /\ moved' \in [Ops -> Nat] /\ vec' \in [Vectored -> Seq(Iov)]
                    /\ buf' \in [Recvs -> Seq(Bytes)] /\ pipe' \in Seq(Bytes) /\ Len(pipe') <= Cap
                    /\ FlagsOK'
    BY DEF TypeOK, FlagsOK, Iov, Bytes
  <1> QED  BY <1>2, <1>3, DataStep, ListsStep

-----------------------------------------------------------------------------
(* The stream.                                                             *)

(* The bytes that the operations of a list have moved, one after another.   *)
Flat(q, f) == FlattenSeq([i \in DOMAIN q |-> f[q[i]]])

(* Their parts.                                                             *)
LEMMA FlatParts ==
    ASSUME NEW q \in Seq(Ops), NEW f \in [Ops -> Seq(Bytes)]
    PROVE  \E r \in Seq(Seq(Bytes)) :
              /\ Flat(q, f) = FlattenSeq(r) /\ Flat(q, f) \in Seq(Bytes)
              /\ Len(r) = Len(q) /\ Len(q) \in Nat
              /\ \A i \in 1 .. Len(q) : q[i] \in Ops /\ r[i] = f[q[i]]
  <1> DEFINE r == [i \in DOMAIN q |-> f[q[i]]]
  <1>1. DOMAIN q = 1 .. Len(q) /\ Len(q) \in Nat /\ \A i \in 1 .. Len(q) : q[i] \in Ops
    BY LenProperties, ElementOfSeq
  <1>2. r \in [1 .. Len(q) -> Seq(Bytes)] /\ \A i \in 1 .. Len(q) : r[i] = f[q[i]]
    BY <1>1
  <1>3. Flat(q, f) = FlattenSeq(r)
    BY DEF Flat
  <1> HIDE DEF r
  <1>4. r \in Seq(Seq(Bytes)) /\ Len(r) = Len(q)
    BY <1>1, <1>2, FunctionIsSeq
  <1>5. FlattenSeq(r) \in Seq(Bytes)
    <2>1. PICK g : Concats(g, r, Bytes)
      BY <1>4, ConcatsExist
    <2> QED  BY <1>4, <2>1, FlattenIsConcat
  <1> QED  BY <1>1, <1>2, <1>3, <1>4, <1>5

(* Only o moves bytes, and those are x.                                     *)
Moves(f, g, o, x) == g[o] = f[o] \o x /\ \A p \in Ops : p # o => g[p] = f[p]

Grows(q, f, g, x) == Flat(q, g) = Flat(q, f) \o x

(* The last of the list moves x: the whole grows by x.                      *)
LEMMA FlatGrows ==
    ASSUME NEW q \in Seq(Ops), IsInjective(q), q # << >>, NEW x \in Seq(Bytes),
           NEW f \in [Ops -> Seq(Bytes)], NEW g \in [Ops -> Seq(Bytes)],
           NEW o, o = q[Len(q)], Moves(f, g, o, x)
    PROVE  Grows(q, f, g, x)
  <1> DEFINE n == Len(q)
  <1>0. g[q[n]] = f[q[n]] \o x /\ \A p \in Ops : p # q[n] => g[p] = f[p]
    BY DEF Moves
  <1>1. PICK r \in Seq(Seq(Bytes)) :
              /\ Flat(q, f) = FlattenSeq(r) /\ Len(r) = n /\ n \in Nat
              /\ \A i \in 1 .. n : q[i] \in Ops /\ r[i] = f[q[i]]
    BY FlatParts
  <1>2. PICK s \in Seq(Seq(Bytes)) :
              /\ Flat(q, g) = FlattenSeq(s) /\ Len(s) = n
              /\ \A i \in 1 .. n : s[i] = g[q[i]]
    BY FlatParts
  <1>3. n \in 1 .. n /\ r # << >>
    BY <1>1, EmptySeq
  <1>4. \A i \in 1 .. n - 1 : s[i] = r[i]
    <2>1. ASSUME NEW i \in 1 .. n - 1 PROVE s[i] = r[i]
      <3>1. i \in 1 .. n /\ i # n /\ DOMAIN q = 1 .. n
        BY <1>1, LenProperties
      <3>2. q[i] # q[n]
        BY <1>3, <3>1 DEF IsInjective
      <3> HIDE DEF n
      <3>3. q[i] \in Ops /\ r[i] = f[q[i]] /\ s[i] = g[q[i]]
        BY <1>1, <1>2, <3>1
      <3> QED  BY <1>0, <3>2, <3>3
    <2> QED  BY <2>1
  <1>5. s[n] = r[n] \o x
    <2>1. s[n] = g[q[n]] /\ r[n] = f[q[n]]
      BY <1>1, <1>2, <1>3
    <2> QED  BY <1>0, <2>1
  <1>6. Len(s) = Len(r) /\ Len(r) = n
    BY <1>1, <1>2
  <1>7. FlattenSeq(s) = FlattenSeq(r) \o x
    <2> HIDE DEF n
    <2>1. \A i \in 1 .. Len(r) - 1 : s[i] = r[i]
      BY <1>4, <1>6
    <2>2. s[Len(r)] = r[Len(r)] \o x
      BY <1>5, <1>6
    <2> QED  BY <1>3, <1>6, <2>1, <2>2, FlattenGrows
  <1> QED  BY <1>1, <1>2, <1>7 DEF Grows

(* One that has moved nothing joins the list: the whole stays.              *)
LEMMA FlatAppend ==
    ASSUME NEW q \in Seq(Ops), NEW o \in Ops, NEW f \in [Ops -> Seq(Bytes)], f[o] = << >>
    PROVE  Flat(Append(q, o), f) = Flat(q, f)
  <1> DEFINE n == Len(q)
             t == Append(q, o)
  <1>1. /\ t \in Seq(Ops) /\ Len(t) = n + 1 /\ n \in Nat
        /\ \A i \in 1 .. n : t[i] = q[i]
    BY AppendProperties, LenProperties
  <1>2. t[n + 1] = o
    BY AppendProperties
  <1> HIDE DEF t
  <1>3. PICK r \in Seq(Seq(Bytes)) :
              /\ Flat(q, f) = FlattenSeq(r) /\ Len(r) = n
              /\ \A i \in 1 .. n : r[i] = f[q[i]]
    BY FlatParts
  <1>4. PICK s \in Seq(Seq(Bytes)) :
              /\ Flat(t, f) = FlattenSeq(s) /\ Len(s) = n + 1
              /\ \A i \in 1 .. n + 1 : s[i] = f[t[i]]
    <2>1. t \in Seq(Ops)
      BY <1>1
    <2>2. PICK s \in Seq(Seq(Bytes)) :
              /\ Flat(t, f) = FlattenSeq(s) /\ Len(s) = Len(t)
              /\ \A i \in 1 .. Len(t) : s[i] = f[t[i]]
      BY <2>1, FlatParts
    <2>3. Len(t) = n + 1
      BY <1>1
    <2> HIDE DEF n
    <2> QED  BY <2>2, <2>3
  <1>5. ASSUME NEW i \in 1 .. n PROVE s[i] = r[i]
    <2> HIDE DEF n
    <2>1. i \in 1 .. n + 1 /\ t[i] = q[i]
      BY <1>1
    <2> QED  BY <1>3, <1>4, <2>1
  <1>6. s[n + 1] = << >>
    <2> HIDE DEF n
    <2>1. n + 1 \in 1 .. n + 1
      BY <1>1
    <2> QED  BY <1>2, <1>4, <2>1
  <1>7. FlattenSeq(s) = FlattenSeq(r)
    <2> HIDE DEF n
    <2>1. Len(s) = Len(r) + 1 /\ \A i \in 1 .. Len(r) : s[i] = r[i]
      BY <1>3, <1>4, <1>5
    <2>2. s[Len(s)] = << >>
      BY <1>4, <1>6
    <2> QED  BY <2>1, <2>2, FlattenEmptyPart
  <1> QED  BY <1>3, <1>4, <1>7 DEF t

(* The bytes each operation has moved.                                      *)
Content(m, b) ==
    [o \in Ops |-> IF o \in Sends THEN Run(o, 0, m[o]) ELSE SubSeq(b[o], 1, m[o])]

(* As many bytes in a buffer as were read.                                  *)
Filled(m, b) == \A r \in Recvs : Len(b[r]) = m[r]

LEMMA ContentFacts ==
    ASSUME NEW m \in [Ops -> Nat], NEW b \in [Recvs -> Seq(Bytes)], Filled(m, b)
    PROVE  /\ Content(m, b) \in [Ops -> Seq(Bytes)]
           /\ \A s \in Sends : Content(m, b)[s] = Run(s, 0, m[s])
           /\ \A r \in Recvs : Content(m, b)[r] = b[r]
           /\ \A o \in Ops : m[o] = 0 => Content(m, b)[o] = << >>
  <1> DEFINE C == Content(m, b)
  <1>1. ASSUME NEW s \in Sends
        PROVE  /\ C[s] = Run(s, 0, m[s]) /\ C[s] \in Seq(Bytes)
               /\ m[s] = 0 => C[s] = << >>
    <2>1. s \in Ops /\ m[s] \in Nat
      BY EndFacts
    <2>2. 0 <= m[s] /\ m[s] - 0 = m[s]
      BY <2>1
    <2>3. Run(s, 0, m[s]) \in Seq(Bytes) /\ Len(Run(s, 0, m[s])) = m[s]
      BY <2>1, <2>2, RunFacts
    <2>4. C[s] = Run(s, 0, m[s])
      BY <2>1 DEF Content
    <2> QED  BY <2>3, <2>4, EmptySeq
  <1>2. ASSUME NEW r \in Recvs
        PROVE  /\ C[r] = b[r] /\ C[r] \in Seq(Bytes)
               /\ m[r] = 0 => C[r] = << >>
    <2>1. r \in Ops /\ r \notin Sends /\ b[r] \in Seq(Bytes) /\ Len(b[r]) = m[r]
      BY EndFacts, TransferAssumption DEF Filled
    <2>2. C[r] = SubSeq(b[r], 1, Len(b[r]))
      BY <2>1 DEF Content
    <2>3. C[r] = b[r]
      BY <2>1, <2>2, SubSeqFull
    <2> QED  BY <2>1, <2>3, EmptySeq
  <1>3. \A o \in Ops : o \in Sends \/ o \in Recvs
    BY DEF Ops
  <1>4. C \in [Ops -> Seq(Bytes)]
    <2>1. C = [o \in Ops |-> C[o]]
      BY DEF Content
    <2> HIDE DEF C
    <2> QED  BY <1>1, <1>2, <1>3, <2>1
  <1> QED  BY <1>1, <1>2, <1>3, <1>4

(* The bytes that StreamIntact compares, in these terms.                    *)
LEMMA StreamIsFlat ==
    ASSUME NEW m \in [Ops -> Nat], NEW b,
           NEW q \in Seq(Ops), \A i \in 1 .. Len(q) : End(q[i]) = "rx",
           NEW t \in Seq(Ops), \A i \in 1 .. Len(t) : End(t[i]) = "tx"
    PROVE  /\ FlattenSeq([ i \in DOMAIN q |-> SubSeq(b[q[i]], 1, m[q[i]]) ]) = Flat(q, Content(m, b))
           /\ FlattenSeq([ i \in DOMAIN t |-> [ j \in 1 .. m[t[i]] |-> Byte(t[i], j) ] ])
                = Flat(t, Content(m, b))
  <1>1. [ i \in DOMAIN q |-> SubSeq(b[q[i]], 1, m[q[i]]) ] = [i \in DOMAIN q |-> Content(m, b)[q[i]]]
    <2>1. ASSUME NEW i \in DOMAIN q PROVE Content(m, b)[q[i]] = SubSeq(b[q[i]], 1, m[q[i]])
      <3>1. i \in 1 .. Len(q) /\ q[i] \in Ops
        BY LenProperties, ElementOfSeq
      <3>2. q[i] \notin Sends
        BY <3>1, EndFacts
      <3> QED  BY <3>1, <3>2 DEF Content
    <2> QED  BY <2>1
  <1>2. [ i \in DOMAIN t |-> [ j \in 1 .. m[t[i]] |-> Byte(t[i], j) ] ]
           = [i \in DOMAIN t |-> Content(m, b)[t[i]]]
    <2>1. ASSUME NEW i \in DOMAIN t
          PROVE  Content(m, b)[t[i]] = [ j \in 1 .. m[t[i]] |-> Byte(t[i], j) ]
      <3>1. i \in 1 .. Len(t) /\ t[i] \in Ops
        BY LenProperties, ElementOfSeq
      <3>2. t[i] \in Sends /\ m[t[i]] \in Nat
        BY <3>1, EndFacts
      <3>3. Content(m, b)[t[i]] = [ j \in 1 .. m[t[i]] - 0 |-> Byte(t[i], 0 + j) ]
        BY <3>1, <3>2 DEF Content, Run
      <3>4. m[t[i]] - 0 = m[t[i]] /\ \A j \in 1 .. m[t[i]] : 0 + j = j
        BY <3>2
      <3> QED  BY <3>3, <3>4
    <2> QED  BY <2>1
  <1> QED  BY <1>1, <1>2 DEF Flat

(* A sequence is a prefix of another.                                       *)
LEMMA PrefixElements ==
    ASSUME NEW S, NEW s \in Seq(S), NEW t \in Seq(S)
    PROVE  IsPrefix(s, t) <=> Len(s) <= Len(t) /\ \A i \in 1 .. Len(s) : s[i] = t[i]
  <1> DEFINE n == Len(s)
             u == SubSeq(s, 1, n)
             v == SubSeq(t, 1, n)
  <1>1. n \in Nat /\ Len(t) \in Nat /\ \A i \in 1 .. n : s[i] \in S
    BY LenProperties, ElementOfSeq
  <1>2. u = s
    BY SubSeqFull
  <1>3. IsPrefix(s, t) <=> n <= Len(t) /\ s = v
    BY <1>2 DEF IsPrefix
  <1> HIDE DEF u, n
  <1>4. ASSUME n <= Len(t)
        PROVE  v \in Seq(S) /\ Len(v) = n /\ \A i \in 1 .. n : v[i] = t[i]
    <2>1. \A i \in 1 .. n : t[i] \in S
      BY <1>1, <1>4, ElementOfSeq
    <2>2. /\ v \in Seq(S) /\ Len(v) = IF 1 <= n THEN n - 1 + 1 ELSE 0
          /\ \A i \in 1 .. n - 1 + 1 : v[i] = t[1 + i - 1]
      BY <1>1, <2>1, SubSeqProperties
    <2> HIDE DEF v
    <2> QED  BY <1>1, <2>2
  <1> HIDE DEF v
  <1>5. ASSUME n <= Len(t), \A i \in 1 .. n : s[i] = t[i]
        PROVE  s = v
    <2>1. v \in Seq(S) /\ Len(v) = Len(s) /\ \A i \in 1 .. Len(s) : s[i] = v[i]
      BY <1>4, <1>5 DEF n
    <2> QED  BY <2>1, SeqEqual
  <1> QED  BY <1>3, <1>4, <1>5 DEF n

(* What StreamIntact says of the bytes a that were received, p in the       *)
(* kernel and b that were sent, when the connection was reset (w) or not.   *)
Intact(a, p, b, w) == IsPrefix(a \o p, b) /\ (~ w => a \o p = b)

(* It is kept when bytes go from the kernel to the buffer, ...              *)
LEMMA IntactRecv ==
    ASSUME NEW S, NEW a \in Seq(S), NEW x \in Seq(S), NEW p \in Seq(S), NEW b, NEW w,
           Intact(a, x \o p, b, w)
    PROVE  Intact(a \o x, p, b, w)
  <1>1. (a \o x) \o p = a \o (x \o p)
    <2>1. Associates(a, x, p)
      BY ConcatAssociates
    <2> QED  BY <2>1 DEF Associates
  <1> QED  BY <1>1 DEF Intact

(* ... when bytes that are sent go to the kernel, ...                       *)
LEMMA IntactSend ==
    ASSUME NEW S, NEW a \in Seq(S), NEW p \in Seq(S), NEW x \in Seq(S), NEW b \in Seq(S), NEW w,
           Intact(a, p, b, FALSE)
    PROVE  Intact(a, p \o x, b \o x, w)
  <1>1. a \o (p \o x) = b \o x
    <2>1. (a \o p) \o x = a \o (p \o x)
      <3>1. Associates(a, p, x)
        BY ConcatAssociates
      <3> QED  BY <3>1 DEF Associates
    <2> QED  BY <2>1 DEF Intact
  <1>2. IsPrefix(b \o x, b \o x)
    <2> DEFINE s == b \o x
    <2>1. s \in Seq(S)
      BY ConcatProperties
    <2> HIDE DEF s
    <2>2. Len(s) \in Nat
      BY <2>1, LenProperties
    <2>3. IsPrefix(s, s)
      BY <2>1, <2>2, PrefixElements
    <2> QED  BY <2>3 DEF s
  <1> QED  BY <1>1, <1>2 DEF Intact

(* ... and when the last ones in the kernel are lost, with the connection.  *)
LEMMA IntactCut ==
    ASSUME NEW S, NEW a \in Seq(S), NEW p \in Seq(S), NEW q \in Seq(S), NEW b \in Seq(S), NEW w,
           Intact(a, p, b, w), Len(q) <= Len(p), \A i \in 1 .. Len(q) : q[i] = p[i]
    PROVE  Intact(a, q, b, TRUE)
  <1> DEFINE s == a \o p
             t == a \o q
  <1>1. Len(a) \in Nat /\ Len(p) \in Nat /\ Len(q) \in Nat /\ Len(b) \in Nat
    BY LenProperties
  <1>2. /\ s \in Seq(S) /\ Len(s) = Len(a) + Len(p)
        /\ \A i \in 1 .. Len(a) + Len(p) : s[i] = IF i <= Len(a) THEN a[i] ELSE p[i - Len(a)]
    BY ConcatProperties
  <1>3. /\ t \in Seq(S) /\ Len(t) = Len(a) + Len(q)
        /\ \A i \in 1 .. Len(a) + Len(q) : t[i] = IF i <= Len(a) THEN a[i] ELSE q[i - Len(a)]
    BY ConcatProperties
  <1>4. IsPrefix(s, b)
    BY DEF Intact
  <1> HIDE DEF s, t
  <1>5. Len(s) <= Len(b) /\ \A i \in 1 .. Len(s) : s[i] = b[i]
    <2>1. s \in Seq(S)
      BY <1>2
    <2> QED  BY <1>4, <2>1, PrefixElements
  <1>6. ASSUME NEW i \in 1 .. Len(t) PROVE t[i] = b[i]
    <2>1. i \in 1 .. Len(a) + Len(q) /\ i \in 1 .. Len(a) + Len(p) /\ i \in 1 .. Len(s)
      BY <1>1, <1>2, <1>3
    <2>2. CASE i <= Len(a)
      BY <1>2, <1>3, <1>5, <2>1, <2>2
    <2>3. CASE ~ (i <= Len(a))
      <3>1. i - Len(a) \in 1 .. Len(q)
        BY <1>1, <2>1, <2>3
      <3>2. q[i - Len(a)] = p[i - Len(a)]
        BY <3>1
      <3> QED  BY <1>2, <1>3, <1>5, <2>1, <2>3, <3>2
    <2> QED  BY <2>2, <2>3
  <1>7. Len(t) <= Len(b)
    BY <1>1, <1>2, <1>3, <1>5
  <1>8. IsPrefix(t, b)
    BY <1>3, <1>6, <1>7, PrefixElements
  <1> QED  BY <1>8 DEF Intact, t

(* The stream before and after a step.                                      *)
LEMMA IntactIsFlat ==
    ASSUME TypeOK, TurnInv, TypeOK', TurnInv'
    PROVE  /\ StreamIntact <=> Intact(Flat(served["rx"], Content(moved, buf)), pipe,
                                       Flat(served["tx"], Content(moved, buf)), reset)
           /\ StreamIntact' <=> Intact(Flat(served'["rx"], Content(moved', buf')), pipe',
                                        Flat(served'["tx"], Content(moved', buf')), reset')
  <1>1. /\ moved \in [Ops -> Nat]
        /\ served["rx"] \in Seq(Ops) /\ \A i \in 1 .. Len(served["rx"]) : End(served["rx"][i]) = "rx"
        /\ served["tx"] \in Seq(Ops) /\ \A i \in 1 .. Len(served["tx"]) : End(served["tx"][i]) = "tx"
    <2>1. "rx" \in Ends /\ "tx" \in Ends
      BY DEF Ends
    <2>2. moved \in [Ops -> Nat] /\ served["rx"] \in Seq(Ops) /\ served["tx"] \in Seq(Ops)
      BY <2>1 DEF TypeOK
    <2>3. TurnOf("rx") /\ TurnOf("tx")
      BY <2>1 DEF TurnInv
    <2>4. \A i \in 1 .. Len(served["rx"]) : End(served["rx"][i]) = "rx"
      BY <2>3 DEF TurnOf
    <2>5. \A i \in 1 .. Len(served["tx"]) : End(served["tx"][i]) = "tx"
      BY <2>3 DEF TurnOf
    <2> QED  BY <2>2, <2>4, <2>5
  <1>2. /\ moved' \in [Ops -> Nat]
        /\ served'["rx"] \in Seq(Ops) /\ \A i \in 1 .. Len(served'["rx"]) : End(served'["rx"][i]) = "rx"
        /\ served'["tx"] \in Seq(Ops) /\ \A i \in 1 .. Len(served'["tx"]) : End(served'["tx"][i]) = "tx"
    <2>1. moved' \in [Ops -> Nat] /\ served'["rx"] \in Seq(Ops) /\ served'["tx"] \in Seq(Ops)
      BY DEF TypeOK, Ends
    <2>2. TurnOf("rx")' /\ TurnOf("tx")'
      BY DEF TurnInv, Ends
    <2>3. \A i \in 1 .. Len(served'["rx"]) : End(served'["rx"][i]) = "rx"
      BY <2>2 DEF TurnOf, End
    <2>4. \A i \in 1 .. Len(served'["tx"]) : End(served'["tx"][i]) = "tx"
      BY <2>2 DEF TurnOf, End
    <2> QED  BY <2>1, <2>3, <2>4
  <1>3. StreamIntact <=> Intact(Flat(served["rx"], Content(moved, buf)), pipe,
                                Flat(served["tx"], Content(moved, buf)), reset)
    BY <1>1, StreamIsFlat DEF StreamIntact, Received, Sent, Intact
  <1>4. StreamIntact' <=> Intact(Flat(served'["rx"], Content(moved', buf')), pipe',
                                 Flat(served'["tx"], Content(moved', buf')), reset')
    BY <1>2, StreamIsFlat DEF StreamIntact, Received, Sent, Byte, Intact
  <1> QED  BY <1>3, <1>4

(* Only one that has moved nothing gets the turn.                           *)
LEMMA ServedGrows ==
    ASSUME TypeOK, TurnInv, [Next]_vars, NEW e \in Ends
    PROVE  \/ served'[e] = served[e]
           \/ \E p \in Ops : /\ phase[p] \in {"new", "queued"}
                             /\ served'[e] = Append(served[e], p)
  <1> DEFINE G == \/ served'[e] = served[e]
                  \/ \E p \in Ops : /\ phase[p] \in {"new", "queued"}
                                    /\ served'[e] = Append(served[e], p)
  <1>1. ASSUME NEW o \in Ops, Start(o) PROVE G
    <2>1. phase[o] = "new"
      BY <1>1 DEF Start
    <2> QED  BY <1>1, <2>1, StartFacts
  <1>2. ASSUME NEW o \in Ops, phase[o] = "try", Done(o) PROVE G
    <2>1. PICK left \in Seq(Ops) :
              /\ left = IF fd[End(o)] \in Over THEN << >> ELSE Tail(turn[End(o)])
              /\ fd[End(o)] \notin Over => turn[End(o)] # << >>
              /\ \A d \in Ends : d # End(o) => served'[d] = served[d]
              /\ left = << >> => served'[End(o)] = served[End(o)]
              /\ left # << >> =>
                    /\ Head(left) \in Ops /\ fd[End(o)] \notin Over
                    /\ served'[End(o)] = Append(served[End(o)], Head(left))
      BY <1>2, DoneFacts
    <2>2. CASE left = << >> \/ e # End(o)
      BY <2>1, <2>2
    <2>3. CASE left # << >> /\ e = End(o)
      <3> DEFINE t == turn[e]
      <3>1. t \in Seq(Ops) /\ t # << >> /\ left = Tail(t)
        BY <2>1, <2>3 DEF TypeOK
      <3>2. \A i \in 1 .. Len(t) : phase[t[i]] \in IF i = 1 THEN {"try", "await", "blocked"} ELSE {"queued"}
        BY DEF TurnInv, TurnOf
      <3> HIDE DEF t
      <3>3. Len(left) = Len(t) - 1 /\ \A i \in 1 .. Len(left) : left[i] = t[i + 1]
        BY <3>1, HeadTailProperties
      <3>4. Len(left) \in Nat /\ Len(left) # 0 /\ Len(t) \in Nat
        BY <2>3, <3>1, EmptySeq, LenProperties
      <3>5. 1 \in 1 .. Len(left) /\ 2 \in 1 .. Len(t) /\ Head(left) = left[1] /\ 1 + 1 = 2
        BY <2>3, <3>3, <3>4
      <3>6. phase[Head(left)] = "queued"
        BY <3>2, <3>3, <3>5
      <3> QED  BY <2>1, <2>3, <3>6
    <2> QED  BY <2>2, <2>3
  <1>3. ASSUME NEW o \in Ops, Attempt(o) PROVE G
    <2>1. CASE phase[o] = "try" /\ Done(o)
      BY <1>2, <2>1
    <2>2. CASE Again \/ WouldBlock(o)
      BY <2>2 DEF Again, WouldBlock
    <2> QED  BY <1>3, <2>1, <2>2, AttemptTurn DEF TurnStep
  <1>4. ASSUME NEW o \in Ops, Wake(o) \/ Register(o) PROVE G
    BY <1>4 DEF Wake, Register
  <1>5. ShutdownTx \/ Reset \/ UNCHANGED vars => G
    BY DEF ShutdownTx, Reset, vars
  <1>6. ASSUME NEW d \in Ends, CloseRemove(d) \/ CloseCollect(d) \/ CloseFd(d) PROVE G
    BY <1>6 DEF CloseRemove, CloseCollect, CloseFd
  <1> QED  BY <1>1, <1>3, <1>4, <1>5, <1>6 DEF Next
(* The parts of an end whose operations moved nothing in a step.            *)
LEMMA FlatKept ==
    ASSUME TypeOK, TurnInv, CountInv, TypeOK', TurnInv', CountInv', [Next]_vars,
           NEW e \in Ends, NEW f \in [Ops -> Seq(Bytes)],
           \A p \in Ops : phase[p] \in {"new", "queued"} => f[p] = << >>
    PROVE  Flat(served'[e], f) = Flat(served[e], f)
  <1>1. served[e] \in Seq(Ops)
    BY DEF TypeOK
  <1>2. CASE served'[e] = served[e]
    BY <1>2
  <1>3. ASSUME NEW p \in Ops, phase[p] \in {"new", "queued"}, served'[e] = Append(served[e], p)
        PROVE  Flat(served'[e], f) = Flat(served[e], f)
    <2>1. f[p] = << >>
      BY <1>3
    <2> QED  BY <1>1, <1>3, <2>1, FlatAppend
  <1> QED  BY <1>2, <1>3, ServedGrows

(* Functions that agree on the operations of an end flatten to the same.    *)
LEMMA FlatSame ==
    ASSUME NEW q \in Seq(Ops), NEW f, NEW g, \A i \in 1 .. Len(q) : f[q[i]] = g[q[i]]
    PROVE  Flat(q, f) = Flat(q, g)
  <1>1. DOMAIN q = 1 .. Len(q)
    BY LenProperties
  <1>2. [i \in DOMAIN q |-> f[q[i]]] = [i \in DOMAIN q |-> g[q[i]]]
    BY <1>1
  <1> QED  BY <1>2 DEF Flat

(* What an operation has moved in a step that leaves its count, or in which *)
(* it has not yet had the turn.                                             *)
LEMMA ContentStep ==
    ASSUME TypeOK, TurnInv, CountInv, TypeOK', TurnInv', CountInv', [Next]_vars
    PROVE  /\ Content(moved, buf) \in [Ops -> Seq(Bytes)]
           /\ Content(moved', buf') \in [Ops -> Seq(Bytes)]
           /\ \A s \in Sends : /\ Content(moved, buf)[s] = Run(s, 0, moved[s])
                               /\ Content(moved', buf')[s] = Run(s, 0, moved'[s])
           /\ \A r \in Recvs : /\ Content(moved, buf)[r] = buf[r]
                               /\ Content(moved', buf')[r] = buf'[r]
           /\ \A p \in Ops : phase[p] \in {"new", "queued"} =>
                 Content(moved', buf')[p] = << >>
  <1>1. moved \in [Ops -> Nat] /\ buf \in [Recvs -> Seq(Bytes)] /\ Filled(moved, buf)
    BY DEF TypeOK, CountInv, Filled, Bytes
  <1>2. moved' \in [Ops -> Nat] /\ buf' \in [Recvs -> Seq(Bytes)] /\ Filled(moved', buf')
    BY DEF TypeOK, CountInv, Filled, Bytes
  <1>3. \A p \in Ops : phase[p] \in {"new", "queued"} => moved'[p] = 0
    <2>1. ASSUME NEW p \in Ops, phase[p] \in {"new", "queued"} PROVE moved'[p] = 0
      <3>1. moved[p] = 0
        BY <2>1 DEF TurnInv, HasTurn
      <3>2. ASSUME NEW r \in Recvs, NEW n \in 1 .. Cap, RecvData(r, n) PROVE moved'[p] = moved[p]
        <4>1. phase[r] = "try" /\ r \in Ops /\ moved' = [moved EXCEPT ![r] = @ + n]
          BY <3>2, EndFacts DEF RecvData, RecvCall
        <4> QED  BY <2>1, <4>1 DEF TypeOK
      <3>3. ASSUME NEW s \in Sends, NEW n \in 1 .. Cap, SendData(s, n) PROVE moved'[p] = moved[p]
        <4>1. phase[s] = "try" /\ s \in Ops /\ moved' = [moved EXCEPT ![s] = @ + n]
          BY <3>3, EndFacts DEF SendData, SendCall
        <4> QED  BY <2>1, <4>1 DEF TypeOK
      <3>4. NoData \/ Reset => moved' = moved
        BY DEF NoData, Reset
      <3>5. moved'[p] = moved[p]
        BY <3>2, <3>3, <3>4, StepMoves
      <3> QED  BY <3>1, <3>5
    <2> QED  BY <2>1
  <1>4. /\ Content(moved, buf) \in [Ops -> Seq(Bytes)]
        /\ \A s \in Sends : Content(moved, buf)[s] = Run(s, 0, moved[s])
        /\ \A r \in Recvs : Content(moved, buf)[r] = buf[r]
    BY <1>1, ContentFacts
  <1>5. /\ Content(moved', buf') \in [Ops -> Seq(Bytes)]
        /\ \A s \in Sends : Content(moved', buf')[s] = Run(s, 0, moved'[s])
        /\ \A r \in Recvs : Content(moved', buf')[r] = buf'[r]
        /\ \A o \in Ops : moved'[o] = 0 => Content(moved', buf')[o] = << >>
    BY <1>2, ContentFacts
  <1> QED  BY <1>3, <1>4, <1>5

(* Whoever has the turn is the last that got it.                            *)
LEMMA MoverIsLast ==
    ASSUME TypeOK, TurnInv, NEW o \in Ops, phase[o] = "try", NEW e \in Ends, End(o) = e
    PROVE  /\ served[e] \in Seq(Ops) /\ IsInjective(served[e])
           /\ served[e] # << >> /\ served[e][Len(served[e])] = o
  <1>1. HasTurn(o) /\ TurnOf(e)
    BY DEF TurnInv
  <1> QED  BY <1>1 DEF TypeOK, HasTurn, TurnOf

(* The operations of an end are no operations of the other.                 *)
LEMMA OthersOps ==
    ASSUME TypeOK, TurnInv, NEW e \in Ends, NEW i \in 1 .. Len(served[e])
    PROVE  served[e][i] \in Ops /\ End(served[e][i]) = e
  <1>1. served[e] \in Seq(Ops) /\ TurnOf(e)
    BY DEF TypeOK, TurnInv
  <1> QED  BY <1>1, ElementOfSeq DEF TurnOf

(* A connection that was reset stays so.                                    *)
LEMMA ResetStays ==
    ASSUME [Next]_vars
    PROVE  reset => reset'
  <1>1. ASSUME NEW o \in Ops, Start(o) \/ Wake(o) \/ Register(o) PROVE reset' = reset
    BY <1>1 DEF Start, Wake, Register, kernel
  <1>2. ASSUME NEW e \in Ends, CloseRemove(e) \/ CloseCollect(e) \/ CloseFd(e)
        PROVE  reset' = reset
    BY <1>2 DEF CloseRemove, CloseCollect, CloseFd, kernel
  <1>3. ShutdownTx \/ UNCHANGED vars => reset' = reset
    BY DEF ShutdownTx, kernel, vars
  <1>4. Reset => reset'
    BY DEF Reset
  <1> QED  BY <1>1, <1>2, <1>3, <1>4, AttemptTurn DEF Next

(* No byte is lost, repeated or put out of order by a step.                 *)
LEMMA IntactStep ==
    ASSUME TypeOK, TurnInv, CountInv, TypeOK', TurnInv', CountInv', StreamIntact, [Next]_vars
    PROVE  StreamIntact'
  <1> DEFINE f == Content(moved, buf)
             g == Content(moved', buf')
             A == Flat(served["rx"], f)
             B == Flat(served["tx"], f)
             qr == served["rx"]
             qt == served["tx"]
  <1>1. /\ f \in [Ops -> Seq(Bytes)] /\ g \in [Ops -> Seq(Bytes)]
        /\ \A s \in Sends : f[s] = Run(s, 0, moved[s]) /\ g[s] = Run(s, 0, moved'[s])
        /\ \A r \in Recvs : f[r] = buf[r] /\ g[r] = buf'[r]
        /\ \A p \in Ops : phase[p] \in {"new", "queued"} => g[p] = << >>
    BY ContentStep
  <1>2. Intact(A, pipe, B, reset)
    BY IntactIsFlat
  <1>3. "rx" \in Ends /\ "tx" \in Ends
    BY DEF Ends
  <1>4. Flat(served'["rx"], g) = Flat(qr, g) /\ Flat(served'["tx"], g) = Flat(qt, g)
    <2> HIDE DEF g
    <2> QED  BY <1>1, <1>3, FlatKept
  <1>5. StreamIntact' <=> Intact(Flat(qr, g), pipe', Flat(qt, g), reset')
    <2>1. StreamIntact' <=> Intact(Flat(served'["rx"], g), pipe', Flat(served'["tx"], g), reset')
      BY IntactIsFlat
    <2> HIDE DEF g
    <2> QED  BY <1>4, <2>1
  <1>6. qr \in Seq(Ops) /\ qt \in Seq(Ops)
    BY <1>3 DEF TypeOK
  <1>7. \A i \in 1 .. Len(qr) : qr[i] \in Recvs
    BY <1>3, OthersOps, EndFacts
  <1>8. \A i \in 1 .. Len(qt) : qt[i] \in Sends
    BY <1>3, OthersOps, EndFacts
  <1>9. A \in Seq(Bytes) /\ B \in Seq(Bytes) /\ pipe \in Seq(Bytes) /\ pipe' \in Seq(Bytes)
    <2>1. A \in Seq(Bytes) /\ B \in Seq(Bytes)
      <3> HIDE DEF f
      <3> QED  BY <1>1, <1>6, FlatParts
    <2> QED  BY <2>1 DEF TypeOK, Bytes
  <1>10. CASE NoData
    <2>1. moved' = moved /\ buf' = buf /\ pipe' = pipe
      BY <1>10 DEF NoData
    <2>2. reset => reset'
      BY ResetStays
    <2>3. Intact(A, pipe, B, reset')
      <3> HIDE DEF A, B
      <3> QED  BY <1>2, <2>2 DEF Intact
    <2> QED  BY <1>5, <2>1, <2>3
  <1>11. ASSUME NEW r \in Recvs, NEW n \in 1 .. Cap, RecvData(r, n)
         PROVE  StreamIntact'
    <2>1. PICK x \in Seq(Bytes) :
              /\ pipe = x \o pipe' /\ buf'[r] = buf[r] \o x
              /\ \A p \in Recvs : p # r => buf'[p] = buf[p]
              /\ \A p \in Ops : p # r => moved'[p] = moved[p]
      BY <1>11, RecvDataFacts
    <2>0. reset' = reset
      BY <1>11 DEF RecvData
    <2>2. phase[r] = "try" /\ r \in Ops /\ End(r) = "rx" /\ r \notin Sends
      BY <1>11, EndFacts, TransferAssumption DEF RecvData, RecvCall
    <2>3. IsInjective(qr) /\ qr # << >> /\ qr[Len(qr)] = r
      BY <1>3, <2>2, MoverIsLast
    <2> HIDE DEF f, g, A, B, qr, qt
    <2>4. g[r] = f[r] \o x
      BY <1>1, <2>1
    <2>5. ASSUME NEW p \in Ops, p # r PROVE g[p] = f[p]
      <3>1. CASE p \in Sends
        BY <1>1, <2>1, <2>5, <3>1
      <3>2. CASE p \in Recvs
        BY <1>1, <2>1, <2>5, <3>2
      <3> QED  BY <3>1, <3>2 DEF Ops
    <2>6. Flat(qr, g) = A \o x
      <3>1. Moves(f, g, r, x)
        BY <2>4, <2>5 DEF Moves
      <3>2. Grows(qr, f, g, x)
        BY <1>1, <1>6, <2>3, <3>1, FlatGrows
      <3> QED  BY <3>2 DEF A, qr, Grows
    <2>7. Flat(qt, g) = B
      <3>1. \A i \in 1 .. Len(qt) : g[qt[i]] = f[qt[i]]
        BY <1>8, <2>2, <2>5, EndFacts
      <3>2. Flat(qt, g) = Flat(qt, f)
        BY <1>6, <3>1, FlatSame
      <3> QED  BY <3>2 DEF B, qt
    <2>8. Intact(A \o x, pipe', B, reset')
      <3>1. Intact(A, x \o pipe', B, reset')
        BY <1>2, <2>0, <2>1
      <3> QED  BY <1>9, <3>1, IntactRecv
    <2> QED  BY <1>5, <2>6, <2>7, <2>8
  <1>12. ASSUME NEW s \in Sends, NEW n \in 1 .. Cap, SendData(s, n)
         PROVE  StreamIntact'
    <2> DEFINE m == moved[s]
               x == Run(s, m, m + n)
    <2>1. /\ m \in Nat /\ n \in Nat /\ pipe' = pipe \o x /\ moved'[s] = m + n /\ buf' = buf
          /\ \A p \in Ops : p # s => moved'[p] = moved[p]
      BY <1>12, SendDataFacts
    <2>2. phase[s] = "try" /\ s \in Ops /\ End(s) = "tx" /\ s \notin Recvs
      BY <1>12, EndFacts, TransferAssumption DEF SendData, SendCall
    <2>3. IsInjective(qt) /\ qt # << >> /\ qt[Len(qt)] = s
      BY <1>3, <2>2, MoverIsLast
    <2>4. f[s] = Run(s, 0, m) /\ g[s] = Run(s, 0, m + n)
      BY <1>1, <2>1
    <2> HIDE DEF f, g, A, B, qr, qt, m
    <2>5. 0 <= m /\ m <= m + n /\ m + n \in Nat
      BY <2>1
    <2>6. x \in Seq(Bytes)
      BY <2>1, <2>5, RunFacts
    <2>7. g[s] = f[s] \o x
      <3>1. RunsJoin(s, 0, m, m + n)
        BY <2>1, <2>5, RunJoin
      <3> QED  BY <2>4, <3>1 DEF RunsJoin
    <2> HIDE DEF x
    <2>8. ASSUME NEW p \in Ops, p # s PROVE g[p] = f[p]
      <3>1. CASE p \in Sends
        BY <1>1, <2>1, <2>8, <3>1
      <3>2. CASE p \in Recvs
        BY <1>1, <2>1, <2>8, <3>2
      <3> QED  BY <3>1, <3>2 DEF Ops
    <2>9. Flat(qt, g) = B \o x
      <3>1. Moves(f, g, s, x)
        BY <2>7, <2>8 DEF Moves
      <3>2. Grows(qt, f, g, x)
        BY <1>1, <1>6, <2>3, <2>6, <3>1, FlatGrows
      <3> QED  BY <3>2 DEF B, qt, Grows
    <2>10. Flat(qr, g) = A
      <3>1. \A i \in 1 .. Len(qr) : g[qr[i]] = f[qr[i]]
        BY <1>7, <2>2, <2>8, EndFacts
      <3>2. Flat(qr, g) = Flat(qr, f)
        BY <1>6, <3>1, FlatSame
      <3> QED  BY <3>2 DEF A, qr
    <2>11. Intact(A, pipe \o x, B \o x, reset')
      <3>1. ~ reset
        BY <1>12 DEF SendData, CanSend
      <3>2. Intact(A, pipe, B, FALSE)
        BY <1>2, <3>1 DEF Intact
      <3> QED  BY <1>9, <2>6, <3>2, IntactSend
    <2> QED  BY <1>5, <2>1, <2>9, <2>10, <2>11
  <1>13. CASE Reset
    <2>1. /\ moved' = moved /\ buf' = buf /\ reset' = TRUE /\ Len(pipe') <= Len(pipe)
          /\ \A i \in 1 .. Len(pipe') : pipe'[i] = pipe[i]
      BY <1>13, ResetFacts
    <2>2. Intact(A, pipe', B, TRUE)
      <3> HIDE DEF A, B
      <3> QED  BY <1>2, <1>9, <2>1, IntactCut
    <2> QED  BY <1>5, <2>1, <2>2
  <1> QED  BY <1>10, <1>11, <1>12, <1>13, StepMoves

-----------------------------------------------------------------------------
(* The theorems.                                                           *)

(* At first nothing has been asked for and nothing has moved.               *)
LEMMA StreamInit ==
    ASSUME Init
    PROVE  StreamInv
  <1>1. << >> \in Seq(Ops) /\ << >> \in Seq(Bytes) /\ Len(<< >>) = 0 /\ 0 <= Cap
    BY EmptySeq, TransferAssumption
  <1>2. /\ turn \in [Ends -> Seq(Ops)] /\ served \in [Ends -> Seq(Ops)]
        /\ \A e \in Ends : turn[e] = << >> /\ served[e] = << >>
    BY <1>1 DEF Init
  <1>3. /\ phase \in [Ops -> {"new", "queued", "try", "await", "blocked", "done"}]
        /\ moved \in [Ops -> Nat]
        /\ \A o \in Ops : phase[o] = "new" /\ moved[o] = 0
    BY DEF Init
  <1>4. vec \in [Vectored -> Seq(Iov)] /\ \A s \in Vectored : Covers(vec[s], moved[s], Length(s))
    <2>1. ASSUME NEW s \in Vectored
          PROVE  vec[s] = Iovecs(s) /\ vec[s] \in Seq(Iov) /\ Covers(vec[s], moved[s], Length(s))
      <3>1. s \in Ops
        BY EndFacts
      <3>2. vec[s] = Iovecs(s) /\ moved[s] = 0
        BY <1>3, <3>1 DEF Init
      <3> QED  BY <3>1, <3>2, IovecsCover
    <2>2. vec = [s \in Vectored |-> vec[s]]
      BY DEF Init
    <2> QED  BY <2>1, <2>2
  <1>5. /\ buf \in [Recvs -> Seq(Bytes)] /\ \A r \in Recvs : buf[r] = << >>
        /\ pipe = << >>
    BY <1>1 DEF Init
  <1>6. FlagsOK
    BY DEF Init, FlagsOK
  <1>7. TypeOK
    BY <1>1, <1>2, <1>3, <1>4, <1>5, <1>6, TypeParts
  <1>8. TurnInv
    <2>1. ASSUME NEW e \in Ends PROVE TurnOf(e)
      <3>1. turn[e] = << >> /\ served[e] = << >> /\ IsInjective(<< >>)
        BY <1>2 DEF IsInjective
      <3>2. 1 .. Len(turn[e]) = {} /\ 1 .. Len(served[e]) = {}
        BY <1>1, <3>1
      <3> QED  BY <3>1, <3>2 DEF TurnOf
    <2>2. ASSUME NEW o \in Ops PROVE HasTurn(o)
      BY <1>3 DEF HasTurn
    <2> QED  BY <2>1, <2>2 DEF TurnInv
  <1>9. CountInv
    <2>1. ASSUME NEW o \in Ops PROVE moved[o] <= Length(o)
      BY <1>3, IovecsCover
    <2>2. ASSUME NEW r \in Recvs PROVE Len(buf[r]) = moved[r]
      BY <1>1, <1>3, <1>5, EndFacts
    <2> QED  BY <1>4, <2>1, <2>2 DEF CountInv
  <1>10. StreamIntact
    <2> DEFINE a == [ i \in DOMAIN served["rx"] |->
                        SubSeq(buf[served["rx"][i]], 1, moved[served["rx"][i]]) ]
               b == [ i \in DOMAIN served["tx"] |->
                        [ j \in 1 .. moved[served["tx"][i]] |-> Byte(served["tx"][i], j) ] ]
    <2>1. served["rx"] = << >> /\ served["tx"] = << >>
      BY <1>2 DEF Ends
    <2>2. DOMAIN served["rx"] = {} /\ DOMAIN served["tx"] = {}
      BY <2>1
    <2>3. a = b
      BY <2>2
    <2>4. FlattenSeq(a) \in Seq(Bytes)
      <3>1. << >> \in Seq(Seq(Bytes)) /\ DOMAIN << >> = {}
        BY EmptySeq
      <3>2. a = << >>
        BY <2>2, <3>1
      <3> HIDE DEF a
      <3>3. PICK g : Concats(g, a, Bytes)
        BY <3>1, <3>2, ConcatsExist
      <3> QED  BY <3>1, <3>2, <3>3, FlattenIsConcat
    <2>5. Received = FlattenSeq(a) /\ Sent = FlattenSeq(a)
      BY <2>3 DEF Received, Sent
    <2> HIDE DEF a, b
    <2>6. FlattenSeq(a) \o pipe = FlattenSeq(a)
      BY <1>5, <2>4, ConcatEmptySeq
    <2>7. IsPrefix(FlattenSeq(a), FlattenSeq(a))
      <3> DEFINE s == FlattenSeq(a)
      <3>1. s \in Seq(Bytes)
        BY <2>4
      <3> HIDE DEF s
      <3>2. Len(s) \in Nat
        BY <3>1, LenProperties
      <3>3. IsPrefix(s, s)
        BY <3>1, <3>2, PrefixElements
      <3> QED  BY <3>3 DEF s
    <2> QED  BY <2>5, <2>6, <2>7 DEF StreamIntact
  <1> QED  BY <1>7, <1>8, <1>9, <1>10 DEF StreamInv

(* Every step keeps the turns, the counts and the stream.                   *)
LEMMA StreamStep ==
    ASSUME StreamInv, [Next]_vars
    PROVE  StreamInv'
  <1>1. TypeOK /\ TurnInv /\ CountInv /\ StreamIntact
    BY DEF StreamInv
  <1>2. TypeOK'
    BY <1>1, TypeOKStep
  <1>3. TurnInv'
    BY <1>1, TurnInvStep
  <1>4. CountInv'
    BY <1>1, DataStep
  <1>5. StreamIntact'
    BY <1>1, <1>2, <1>3, <1>4, IntactStep
  <1> QED  BY <1>2, <1>3, <1>4, <1>5 DEF StreamInv

(* recv and send, recv_all and send_all, over a buffer or over iovecs: one  *)
(* operation of an end at a time reads or writes, what it reports is what   *)
(* it moved, and the bytes received and those in the kernel are the bytes   *)
(* sent, in their order and none twice, however the calls split them and    *)
(* whenever a socket is shut down or closed, step by step; after a reset    *)
(* they are the first of the bytes sent.                                    *)
THEOREM StreamInvariant == Spec => []StreamInv
  <1>1. Init => StreamInv
    BY StreamInit
  <1>2. StreamInv /\ [Next]_vars => StreamInv'
    BY StreamStep
  <1> QED  BY <1>1, <1>2, PTL DEF Spec

-----------------------------------------------------------------------------
(* The end of the stream.                                                  *)

(* A count that a caller takes for the end, and what makes it one.          *)
Short(o) ==
    /\ phase[o] = "done" /\ moved[o] < Length(o)
    /\ o \in Full \/ (o \in Recvs /\ moved[o] = 0)

Ended(o) == IF o \in Recvs THEN rx_eof \/ reset \/ fd["rx"] # "open"
                           ELSE tx_shutdown \/ (reset /\ err[o]) \/ fd["tx"] # "open"

(* Only a connection that failed has an error to tell.                      *)
ErrInv == \A e \in Ends : sockErr[e] # "none" => reset

LEMMA ErrStep ==
    ASSUME TypeOK, ErrInv, [Next]_vars
    PROVE  ErrInv'
  <1>1. ASSUME NEW p \in Ops, Start(p) \/ Wake(p) \/ Register(p) PROVE ErrInv'
    BY <1>1 DEF Start, Wake, Register, kernel, ErrInv
  <1>2. ASSUME NEW p \in Ops, RecvNothing(p) \/ RecvEof(p) \/ RecvAgain(p) PROVE ErrInv'
    BY <1>2 DEF RecvNothing, RecvEof, RecvAgain, kernel, ErrInv
  <1>3. ASSUME NEW p \in Ops, RecvError(p) PROVE ErrInv'
    <2>1. reset' = reset /\ \A e \in Ends : sockErr'[e] \in {"none", sockErr[e]}
      BY <1>3 DEF RecvError, TypeOK
    <2> QED  BY <2>1 DEF ErrInv
  <1>4. ASSUME NEW p \in Ops, NEW n \in 1 .. Cap, RecvData(p, n) PROVE ErrInv'
    BY <1>4 DEF RecvData, ErrInv
  <1>5. ASSUME NEW p \in Ops, SendNothing(p) \/ SendAgain(p) PROVE ErrInv'
    BY <1>5 DEF SendNothing, SendAgain, kernel, ErrInv
  <1>6. ASSUME NEW p \in Ops, SendError(p) PROVE ErrInv'
    <2>1. reset' = reset /\ \A e \in Ends : sockErr'[e] \in {"none", sockErr[e]}
      BY <1>6 DEF SendError, TypeOK
    <2> QED  BY <2>1 DEF ErrInv
  <1>7. ASSUME NEW p \in Ops, NEW n \in 1 .. Cap, SendData(p, n) PROVE ErrInv'
    BY <1>7 DEF SendData, ErrInv
  <1>8. CASE ShutdownTx \/ UNCHANGED vars
    BY <1>8 DEF ShutdownTx, vars, kernel, ErrInv
  <1>9. CASE Reset
    BY <1>9 DEF Reset, ErrInv
  <1>10. ASSUME NEW e \in Ends, CloseRemove(e) \/ CloseCollect(e) \/ CloseFd(e) PROVE ErrInv'
    BY <1>10 DEF CloseRemove, CloseCollect, CloseFd, kernel, ErrInv
  <1> QED
    BY <1>1, <1>2, <1>3, <1>4, <1>5, <1>6, <1>7, <1>8, <1>9, <1>10 DEF Next, Attempt

(* The end is final: close() resets the flags, but the socket is closed     *)
(* then.                                                                    *)
LEMMA EndedStays ==
    ASSUME TypeOK, [Next]_vars, NEW o \in Ops, Ended(o)
    PROVE  Ended(o)'
  <1>1. ASSUME NEW p \in Ops, Start(p) \/ Wake(p) \/ Register(p) PROVE Ended(o)'
    BY <1>1 DEF Start, Wake, Register, flags, kernel, Ended
  <1>2. ASSUME NEW p \in Ops, RecvNothing(p) \/ RecvAgain(p) PROVE Ended(o)'
    BY <1>2 DEF RecvNothing, RecvAgain, flags, kernel, Ended
  <1>3. ASSUME NEW p \in Ops, RecvEof(p) PROVE Ended(o)'
    BY <1>3 DEF RecvEof, kernel, Ended
  <1>4. ASSUME NEW p \in Recvs, RecvError(p) PROVE Ended(o)'
    <2>1. /\ reset' = reset /\ rx_eof' = rx_eof /\ tx_shutdown' = tx_shutdown /\ fd' = fd
          /\ o # p => err'[o] = err[o]
      BY <1>4 DEF RecvError, flags, TypeOK
    <2> QED  BY <1>4, <2>1 DEF Ended
  <1>5. ASSUME NEW p \in Ops, NEW n \in 1 .. Cap, RecvData(p, n) PROVE Ended(o)'
    BY <1>5 DEF RecvData, flags, Ended
  <1>6. ASSUME NEW p \in Ops, SendNothing(p) \/ SendAgain(p) PROVE Ended(o)'
    BY <1>6 DEF SendNothing, SendAgain, flags, kernel, Ended
  <1>7. ASSUME NEW p \in Ops, SendError(p) PROVE Ended(o)'
    <2>1. /\ reset' = reset /\ rx_eof' = rx_eof /\ (tx_shutdown => tx_shutdown') /\ fd' = fd
          /\ err'[o] = IF o = p THEN TRUE ELSE err[o]
      BY <1>7 DEF SendError, TypeOK
    <2> QED  BY <2>1 DEF Ended
  <1>8. ASSUME NEW p \in Ops, NEW n \in 1 .. Cap, SendData(p, n) PROVE Ended(o)'
    BY <1>8 DEF SendData, flags, Ended
  <1>9. CASE ShutdownTx
    BY <1>9 DEF ShutdownTx, Ended
  <1>10. CASE Reset
    BY <1>10 DEF Reset, flags, Ended
  <1>11. ASSUME NEW e \in Ends, CloseRemove(e) \/ CloseCollect(e) PROVE Ended(o)'
    <2>1. /\ reset' = reset /\ rx_eof' = rx_eof /\ tx_shutdown' = tx_shutdown /\ err' = err
          /\ \A d \in Ends : fd[d] # "open" => fd'[d] # "open"
      BY <1>11 DEF CloseRemove, CloseCollect, flags, kernel, TypeOK
    <2> QED  BY <2>1 DEF Ended, Ends
  <1>12. ASSUME NEW e \in Ends, CloseFd(e) PROVE Ended(o)'
    <2>1. /\ reset' = reset /\ err' = err /\ fd'[e] = "closed"
          /\ \A d \in Ends : d # e => fd'[d] = fd[d]
          /\ rx_eof' = (rx_eof /\ e # "rx") /\ tx_shutdown' = (tx_shutdown /\ e # "tx")
      BY <1>12 DEF CloseFd, kernel, TypeOK
    <2> QED  BY <2>1 DEF Ended, Ends
  <1>13. CASE UNCHANGED vars
    BY <1>13 DEF vars, flags, kernel, Ended
  <1> QED
    BY <1>1, <1>2, <1>3, <1>4, <1>5, <1>6, <1>7, <1>8, <1>9, <1>10, <1>11, <1>12, <1>13
       DEF Next, Attempt

(* An operation that is done moves nothing any more.                        *)
LEMMA DoneMovesNothing ==
    ASSUME TypeOK, [Next]_vars, NEW o \in Ops, phase[o] = "done"
    PROVE  moved'[o] = moved[o]
  <1>1. ASSUME NEW r \in Recvs, NEW n \in 1 .. Cap, RecvData(r, n) PROVE moved'[o] = moved[o]
    <2>1. phase[r] = "try" /\ r \in Ops /\ moved' = [moved EXCEPT ![r] = @ + n]
      BY <1>1, EndFacts DEF RecvData, RecvCall
    <2> QED  BY <2>1 DEF TypeOK
  <1>2. ASSUME NEW s \in Sends, NEW n \in 1 .. Cap, SendData(s, n) PROVE moved'[o] = moved[o]
    <2>1. phase[s] = "try" /\ s \in Ops /\ moved' = [moved EXCEPT ![s] = @ + n]
      BY <1>2, EndFacts DEF SendData, SendCall
    <2> QED  BY <2>1 DEF TypeOK
  <1>3. NoData \/ Reset => moved' = moved
    BY DEF NoData, Reset
  <1> QED  BY <1>1, <1>2, <1>3, StepMoves

(* An operation ends by itself or because its socket is closed.             *)
LEMMA WhoEnds ==
    ASSUME TypeOK, TurnInv, [Next]_vars, NEW o \in Ops, phase[o] # "done", phase'[o] = "done"
    PROVE  (Attempt(o) /\ Done(o)) \/ CloseCollect(End(o))
  <1>1. ASSUME NEW p \in Ops, Start(p) PROVE FALSE
    <2>1. phase'[p] \in {"try", "queued"} /\ \A q \in Ops : q # p => phase'[q] = phase[q]
      BY <1>1, StartFacts
    <2> QED  BY <2>1
  <1>2. ASSUME NEW p \in Ops, Wake(p) \/ Register(p) PROVE FALSE
    <2>1. phase'[p] \in {"try", "blocked"} /\ \A q \in Ops : q # p => phase'[q] = phase[q]
      BY <1>2 DEF Wake, Register, TypeOK
    <2> QED  BY <2>1
  <1>3. ASSUME NEW p \in Ops, Attempt(p) PROVE Attempt(o) /\ Done(o)
    <2>1. TurnStep(p)
      BY <1>3, AttemptTurn
    <2>2. CASE Again
      BY <2>2 DEF Again
    <2>3. CASE WouldBlock(p)
      <3>1. phase'[p] = "await" /\ \A q \in Ops : q # p => phase'[q] = phase[q]
        BY <2>3 DEF WouldBlock, TypeOK
      <3> QED  BY <3>1
    <2>4. CASE phase[p] = "try" /\ Done(p)
      <3>1. \A q \in Ops : q # p => phase'[q] = phase[q] \/ phase'[q] = "try"
        BY <2>4, DoneFacts
      <3> QED  BY <1>3, <2>4, <3>1
    <2> QED  BY <2>1, <2>2, <2>3, <2>4 DEF TurnStep
  <1>4. ~ ShutdownTx /\ ~ Reset /\ ~ UNCHANGED vars
    BY DEF ShutdownTx, Reset, vars
  <1>5. ASSUME NEW e \in Ends, CloseRemove(e) \/ CloseFd(e) PROVE FALSE
    <2>1. phase'[o] \in {phase[o], "try"}
      BY <1>5 DEF CloseRemove, CloseFd
    <2> QED  BY <2>1
  <1>6. ASSUME NEW e \in Ends, CloseCollect(e) PROVE CloseCollect(End(o))
    <2>1. phase'[o] = IF End(o) = e /\ phase[o] = "queued" THEN "done" ELSE phase[o]
      BY <1>6 DEF CloseCollect
    <2>2. End(o) = e
      BY <2>1
    <2> QED  BY <1>6, <2>2
  <1> QED  BY <1>1, <1>2, <1>3, <1>4, <1>5, <1>6 DEF Next

(* One that ends by itself, short, has met the end.                         *)
LEMMA ShortMeetsEnd ==
    ASSUME TypeOK, TurnInv, CountInv, ErrInv, NEW o \in Ops, Attempt(o), Done(o),
           moved'[o] < Length(o), o \in Full \/ (o \in Recvs /\ moved'[o] = 0)
    PROVE  Ended(o)'
  <1>1. phase[o] = "try" /\ phase'[o] = "done"
    <2>1. phase[o] = "try"
      BY AttemptTurn DEF TurnStep
    <2> QED  BY <2>1 DEF Done
  <1>2. moved[o] \in Nat /\ Length(o) \in Nat
    BY IovecsCover DEF TypeOK
  <1>3. ~ WouldBlock(o) /\ ~ Again
    <2>1. WouldBlock(o) => phase'[o] = "await"
      BY DEF WouldBlock, TypeOK
    <2>2. Again => phase' = phase
      BY DEF Again
    <2> QED  BY <1>1, <2>1, <2>2
  <1>4. ASSUME o \in Recvs PROVE Ended(o)'
    <2>1. CASE RecvNothing(o)
      <3>1. moved'[o] >= Length(o)
        BY <2>1 DEF RecvNothing
      <3> QED  BY <1>2, <2>1, <3>1 DEF RecvNothing
    <2>2. CASE RecvEof(o)
      BY <1>4, <2>2 DEF RecvEof, Ended
    <2>3. CASE RecvAgain(o)
      <3>1. o \notin Full /\ moved[o] > 0 /\ moved' = moved
        BY <1>3, <2>3 DEF RecvAgain
      <3> QED  BY <1>2, <3>1
    <2>4. CASE RecvError(o)
      <3>1. Closed("rx") \/ sockErr["rx"] # "none"
        BY <2>4 DEF RecvError
      <3>2. fd["rx"] # "open" \/ reset
        BY <3>1 DEF Closed, ErrInv, Ends
      <3>3. fd' = fd /\ reset' = reset
        BY <2>4 DEF RecvError
      <3> QED  BY <1>4, <3>2, <3>3 DEF Ended
    <2>5. ASSUME NEW n \in 1 .. Cap, RecvData(o, n) PROVE FALSE
      <3>1. n \in Nat /\ n >= 1 /\ moved'[o] = moved[o] + n
        BY <2>5, TransferAssumption DEF RecvData, TypeOK
      <3>2. o \notin Full \/ moved'[o] = Length(o)
        BY <1>3, <2>5 DEF RecvData
      <3> QED  BY <1>2, <3>1, <3>2
    <2>6. o \notin Sends
      BY <1>4, TransferAssumption
    <2> QED  BY <2>1, <2>2, <2>3, <2>4, <2>5, <2>6 DEF Attempt
  <1>5. ASSUME o \in Sends PROVE Ended(o)'
    <2>1. o \notin Recvs /\ o \in Full
      BY <1>5, TransferAssumption
    <2>2. CASE SendNothing(o)
      <3>1. /\ moved[o] <= Length(o) /\ Offered(o) = Run(o, moved[o], Length(o))
            /\ LoopEnds(o) => moved[o] = Length(o)
        BY <1>5, OfferedFacts
      <3>2. Len(Run(o, moved[o], Length(o))) = Length(o) - moved[o]
        BY <1>2, <1>5, <3>1, RunFacts
      <3>3. Offered(o) = << >> => moved[o] = Length(o)
        <4>1. Len(<< >>) = 0
          OBVIOUS
        <4> QED  BY <1>2, <3>1, <3>2, <4>1
      <3>4. moved[o] = Length(o) /\ moved' = moved
        BY <2>2, <3>1, <3>3 DEF SendNothing
      <3> QED  BY <1>2, <3>4
    <2>3. CASE SendAgain(o)
      <3>1. o \notin Full
        BY <1>3, <2>3 DEF SendAgain
      <3> QED  BY <2>1, <3>1
    <2>4. CASE SendError(o)
      <3>1. /\ tx_shutdown' = (tx_shutdown \/ (~ Closed("tx") /\ sockErr["tx"] # "timeout"))
            /\ fd' = fd /\ reset' = reset /\ err'[o] = TRUE
        BY <2>4 DEF SendError, TypeOK
      <3>2. Closed("tx") => fd["tx"] # "open"
        BY DEF Closed
      <3>3. sockErr["tx"] = "timeout" => reset
        BY DEF ErrInv, Ends
      <3> QED  BY <2>1, <3>1, <3>2, <3>3 DEF Ended
    <2>5. ASSUME NEW n \in 1 .. Cap, SendData(o, n) PROVE FALSE
      <3>1. LoopEnds(o)'
        BY <1>3, <2>5 DEF SendData
      <3>2. \A v \in Vectored : Covers(vec'[v], moved'[v], Length(v))
        BY <1>5, <2>5, SendDataFacts
      <3>3. moved'[o] = Length(o)
        <4>1. CASE o \in Vectored
          <5>1. vec'[o] = << >>
            BY <3>1, <4>1 DEF LoopEnds
          <5> QED  BY <3>2, <4>1, <5>1 DEF Covers
        <4>2. CASE o \notin Vectored
          BY <3>1, <4>2 DEF LoopEnds, Length, TotalLen
        <4> QED  BY <4>1, <4>2
      <3> QED  BY <1>2, <3>3
    <2> QED  BY <2>1, <2>2, <2>3, <2>4, <2>5 DEF Attempt
  <1> QED  BY <1>4, <1>5 DEF Ops

(* A short count is still only seen at the end.                             *)
LEMMA ShortStep ==
    ASSUME StreamInv, ErrInv, ShortOnlyAtEnd, [Next]_vars
    PROVE  ShortOnlyAtEnd'
  <1>1. TypeOK /\ TurnInv /\ CountInv
    BY DEF StreamInv
  <1>2. ASSUME NEW o \in Ops, Short(o)'
        PROVE  Ended(o)'
    <2>1. /\ phase'[o] = "done" /\ moved'[o] < Length(o)
          /\ o \in Full \/ (o \in Recvs /\ moved'[o] = 0)
      BY <1>2 DEF Short, Length, TotalLen
    <2>2. CASE phase[o] = "done"
      <3>1. moved'[o] = moved[o]
        BY <1>1, <2>2, DoneMovesNothing
      <3>2. Ended(o)
        BY <2>1, <2>2, <3>1 DEF ShortOnlyAtEnd, Ended
      <3> QED  BY <1>1, <3>2, EndedStays
    <2>3. CASE phase[o] # "done"
      <3>1. CASE Attempt(o) /\ Done(o)
        BY <1>1, <2>1, <3>1, ShortMeetsEnd
      <3>2. CASE CloseCollect(End(o))
        <4>1. fd'[End(o)] = "collected" /\ End(o) = IF o \in Recvs THEN "rx" ELSE "tx"
          BY <1>1, <3>2, EndFacts DEF CloseCollect, TypeOK, Ops
        <4> QED  BY <4>1 DEF Ended
      <3> QED  BY <1>1, <2>1, <2>3, <3>1, <3>2, WhoEnds
    <2> QED  BY <2>2, <2>3
  <1> QED  BY <1>2 DEF ShortOnlyAtEnd, Short, Ended

(* While the connection holds, rx_eof means that nothing is under way and   *)
(* that the other side cannot send any more.                                *)
EofInv == rx_eof /\ ~ reset => pipe = << >> /\ (shut \/ Closed("tx"))

LEMMA EofStep ==
    ASSUME TypeOK, EofInv, [Next]_vars
    PROVE  EofInv'
  <1>1. pipe \in Seq(Bytes) /\ Len(<< >>) = 0 /\ (pipe = << >> => Len(pipe) = 0)
    BY DEF TypeOK, Bytes
  <1>2. ASSUME NEW p \in Ops, Start(p) \/ Wake(p) \/ Register(p) PROVE EofInv'
    BY <1>2 DEF Start, Wake, Register, flags, kernel, EofInv, Closed
  <1>3. ASSUME NEW p \in Ops, RecvNothing(p) \/ RecvAgain(p) \/ RecvError(p)
        PROVE  EofInv'
    BY <1>3 DEF RecvNothing, RecvAgain, RecvError, flags, kernel, EofInv, Closed
  <1>4. ASSUME NEW p \in Ops, RecvEof(p) PROVE EofInv'
    BY <1>4 DEF RecvEof, StreamEnds, kernel, EofInv, Closed
  <1>5. ASSUME NEW p \in Ops, NEW n \in 1 .. Cap, RecvData(p, n) PROVE EofInv'
    <2>1. /\ n <= Len(pipe) /\ rx_eof' = rx_eof /\ reset' = reset
          /\ n >= 1 /\ n \in Nat
      BY <1>5, TransferAssumption DEF RecvData, flags
    <2>2. pipe # << >>
      BY <1>1, <2>1
    <2> QED  BY <2>1, <2>2 DEF EofInv
  <1>6. ASSUME NEW p \in Ops, SendNothing(p) \/ SendAgain(p) PROVE EofInv'
    BY <1>6 DEF SendNothing, SendAgain, flags, kernel, EofInv, Closed
  <1>7. ASSUME NEW p \in Ops, SendError(p) PROVE EofInv'
    BY <1>7 DEF SendError, EofInv, Closed
  <1>8. ASSUME NEW p \in Ops, NEW n \in 1 .. Cap, SendData(p, n) PROVE EofInv'
    <2>1. ~ shut /\ ~ Closed("tx") /\ rx_eof' = rx_eof /\ reset' = reset
      BY <1>8 DEF SendData, CanSend, flags
    <2> QED  BY <2>1 DEF EofInv
  <1>9. CASE ShutdownTx
    BY <1>9 DEF ShutdownTx, EofInv, Closed
  <1>10. CASE Reset
    BY <1>10 DEF Reset, EofInv
  <1>11. ASSUME NEW e \in Ends, CloseRemove(e) \/ CloseCollect(e) \/ CloseFd(e) PROVE EofInv'
    <2>1. /\ pipe' = pipe /\ reset' = reset /\ shut' = shut /\ (rx_eof' => rx_eof)
          /\ fd["tx"] = "closed" => fd'["tx"] = "closed"
      BY <1>11 DEF CloseRemove, CloseCollect, CloseFd, flags, kernel, TypeOK, Ends
    <2> QED  BY <2>1 DEF EofInv, Closed
  <1>12. CASE UNCHANGED vars
    BY <1>12 DEF vars, flags, kernel, EofInv, Closed
  <1> QED
    BY <1>2, <1>3, <1>4, <1>5, <1>6, <1>7, <1>8, <1>9, <1>10, <1>11, <1>12 DEF Next, Attempt

(* Then everything that was sent has been received.                         *)
LEMMA EofIsAll ==
    ASSUME StreamInv, EofInv
    PROVE  EofAfterAllData
  <1>1. TypeOK /\ TurnInv /\ CountInv /\ StreamIntact
    BY DEF StreamInv
  <1>2. Received \in Seq(Bytes)
    <2> DEFINE q == served["rx"]
               f == Content(moved, buf)
    <2>1. moved \in [Ops -> Nat] /\ buf \in [Recvs -> Seq(Bytes)] /\ Filled(moved, buf)
      BY <1>1 DEF TypeOK, CountInv, Filled, Bytes
    <2>2. f \in [Ops -> Seq(Bytes)]
      BY <2>1, ContentFacts
    <2>3. q \in Seq(Ops) /\ \A i \in 1 .. Len(q) : End(q[i]) = "rx"
      BY <1>1 DEF TypeOK, TurnInv, TurnOf, Ends
    <2>4. Received = Flat(q, f)
      <3> DEFINE t == << >>
      <3>1. t \in Seq(Ops) /\ \A i \in 1 .. Len(t) : End(t[i]) = "tx"
        BY EmptySeq
      <3> HIDE DEF t, q
      <3>2. FlattenSeq([ i \in DOMAIN q |-> SubSeq(buf[q[i]], 1, moved[q[i]]) ]) = Flat(q, f)
        BY <2>1, <2>3, <3>1, StreamIsFlat
      <3> QED  BY <3>2 DEF Received, q
    <2> HIDE DEF q, f
    <2>5. Flat(q, f) \in Seq(Bytes)
      BY <2>2, <2>3, FlatParts
    <2> QED  BY <2>4, <2>5
  <1>3. ASSUME rx_eof, ~ reset PROVE Received = Sent
    <2>1. pipe = << >> /\ Received \o pipe = Sent
      BY <1>1, <1>3 DEF EofInv, StreamIntact
    <2>2. Received \o << >> = Received
      BY <1>2, ConcatEmptySeq
    <2> QED  BY <2>1, <2>2
  <1> QED  BY <1>3 DEF EofAfterAllData

(* A caller may rely on the two signs of the end: send_all and recv_all     *)
(* report less than was asked for, and recv nothing, only when the stream   *)
(* ended or failed or the socket is being closed; and rx_eof() is true only *)
(* when every byte sent was received, unless the connection was reset.      *)
THEOREM EndOfStreamIsReal == Spec => []EndIsReal
  <1> DEFINE IInv == ShortOnlyAtEnd /\ ErrInv /\ EofInv
  <1>1. Init => IInv
    BY DEF Init, ShortOnlyAtEnd, ErrInv, EofInv
  <1>2. StreamInv /\ IInv /\ [Next]_vars => IInv'
    <2>1. ASSUME StreamInv, ShortOnlyAtEnd, ErrInv, EofInv, [Next]_vars
          PROVE  ShortOnlyAtEnd' /\ ErrInv' /\ EofInv'
      <3>1. TypeOK
        BY <2>1 DEF StreamInv
      <3> QED  BY <2>1, <3>1, ShortStep, ErrStep, EofStep
    <2> QED  BY <2>1
  <1>3. StreamInv /\ IInv => EndIsReal
    BY EofIsAll DEF EndIsReal
  <1> HIDE DEF IInv
  <1> QED  BY <1>1, <1>2, <1>3, StreamInvariant, PTL DEF Spec

=============================================================================
