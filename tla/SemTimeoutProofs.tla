--------------------------- MODULE SemTimeoutProofs ---------------------------
(* TimeoutInv is inductive: for any number of coroutines, workers and       *)
(* tokens, a timed wait is resumed at most once and no token is handed out  *)
(* twice.                                                                   *)
EXTENDS SemTimeout, WorkQueueProofs, FiniteSetTheorems

-----------------------------------------------------------------------------
(* The list of waiters that were not cancelled.                            *)

(* What Live computes step by step: the first i requests of the list,       *)
(* without the cancelled ones.                                              *)
Kept(F, n) ==
    F = [i \in 0 .. n |->
            IF i = 0 THEN << >>
            ELSE IF cancelled[acquire_list[i]] THEN F[i - 1]
            ELSE Append(F[i - 1], acquire_list[i])]

(* The recursive definition in Live has a solution, for every prefix of the *)
(* list.                                                                    *)
LEMMA KeptExists ==
    ASSUME NEW n \in Nat
    PROVE  \E F : Kept(F, n)
  <1> DEFINE Bad == { k \in Nat : ~ \E F : Kept(F, k) }
  <1>1. SUFFICES Bad = {}
    OBVIOUS
  <1>2. SUFFICES ASSUME Bad # {} PROVE FALSE
    OBVIOUS
  <1>3. PICK k \in Bad : \A j \in Bad : k <= j
    <2>1. Bad \subseteq Nat
      OBVIOUS
    <2> HIDE DEF Bad
    <2> QED  BY <1>2, <2>1, FirstPosition
  <1>4. CASE k = 0
    <2> DEFINE G == [i \in 0 .. 0 |-> << >>]
    <2>1. Kept(G, 0)
      BY DEF Kept
    <2> QED  BY <1>4, <2>1
  <1>5. CASE k # 0
    <2>1. k \in Nat /\ k - 1 \in Nat /\ k - 1 \notin Bad
      BY <1>3, <1>5
    <2>2. PICK F : Kept(F, k - 1)
      BY <2>1
    <2> DEFINE last == IF cancelled[acquire_list[k]] THEN F[k - 1]
                       ELSE Append(F[k - 1], acquire_list[k])
               G == [i \in 0 .. k |-> IF i = k THEN last ELSE F[i]]
               H == [i \in 0 .. k |->
                       IF i = 0 THEN << >>
                       ELSE IF cancelled[acquire_list[i]] THEN G[i - 1]
                       ELSE Append(G[i - 1], acquire_list[i])]
    <2>3. \A i \in 0 .. k - 1 :
             F[i] = IF i = 0 THEN << >>
                    ELSE IF cancelled[acquire_list[i]] THEN F[i - 1]
                    ELSE Append(F[i - 1], acquire_list[i])
      BY <2>1, <2>2 DEF Kept
    <2>4. \A i \in 0 .. k : i # 0 => G[i - 1] = F[i - 1]
      BY <2>1
    <2>5. ASSUME NEW i \in 0 .. k PROVE G[i] = H[i]
      <3>1. CASE i = k
        BY <1>5, <2>1, <2>4, <3>1
      <3>2. CASE i # k
        <4>1. i \in 0 .. k - 1
          BY <2>1, <3>2
        <4> QED  BY <2>3, <2>4, <3>2, <4>1
      <3> QED  BY <3>1, <3>2
    <2>6. G = H
      BY <2>5
    <2>7. Kept(G, k)
      BY <2>6 DEF Kept
    <2> QED  BY <1>3, <2>1, <2>7
  <1> QED  BY <1>4, <1>5

(* The requests that are left are requests of the list that were not        *)
(* cancelled: sem_chk_cb gives no token to a request that timed out before. *)
LEMMA LiveFacts ==
    ASSUME acquire_list \in Seq(Reqs), cancelled \in [Reqs -> BOOLEAN]
    PROVE  /\ Live \in Seq(Reqs)
           /\ \A r : OnList(Live, r) => OnList(acquire_list, r) /\ ~ cancelled[r]
  <1> DEFINE L == Len(acquire_list)
             F == CHOOSE F : Kept(F, L)
             Good(q) == /\ q \in Seq(Reqs)
                        /\ \A r : OnList(q, r) => OnList(acquire_list, r) /\ ~ cancelled[r]
  <1>1. L \in Nat /\ \A i \in 1 .. L : acquire_list[i] \in Reqs /\ OnList(acquire_list, acquire_list[i])
    BY LenProperties, ElementOfSeq DEF OnList
  <1>2. Live = F[L]
    BY DEF Live, Kept
  <1>3. Kept(F, L)
    <2>1. \E G : Kept(G, L)
      BY <1>1, KeptExists
    <2> QED  BY <2>1
  <1> HIDE DEF F
  <1>4. F[0] = << >> /\ \A i \in 1 .. L :
           F[i] = IF cancelled[acquire_list[i]] THEN F[i - 1]
                  ELSE Append(F[i - 1], acquire_list[i])
    <2>1. \A i \in 0 .. L :
             F[i] = IF i = 0 THEN << >>
                    ELSE IF cancelled[acquire_list[i]] THEN F[i - 1]
                    ELSE Append(F[i - 1], acquire_list[i])
      BY <1>3 DEF Kept
    <2> HIDE DEF L
    <2> QED  BY <1>1, <2>1
  <1> HIDE DEF L
  <1>5. Good(<< >>)
    <2>1. << >> \in Seq(Reqs)
      BY EmptySeq
    <2> QED  BY <2>1 DEF OnList
  <1>6. ASSUME NEW q, Good(q), NEW r \in Reqs, OnList(acquire_list, r), ~ cancelled[r]
        PROVE  Good(Append(q, r))
    <2>1. /\ Append(q, r) \in Seq(Reqs)
          /\ \A m : OnList(Append(q, r), m) <=> OnList(q, m) \/ m = r
      BY <1>6, AppendFacts
    <2> QED  BY <1>6, <2>1
  <1> HIDE DEF Good
  <1> DEFINE Bad == { k \in 0 .. L : ~ Good(F[k]) }
  <1>7. Bad = {}
    <2>1. SUFFICES ASSUME Bad # {} PROVE FALSE
      OBVIOUS
    <2>2. Bad \subseteq Nat
      BY <1>1
    <2>3. PICK k \in Bad : \A j \in Bad : k <= j
      <3> HIDE DEF Bad
      <3> QED  BY <2>1, <2>2, FirstPosition
    <2>4. k \in 1 .. L
      BY <1>1, <1>4, <1>5, <2>3
    <2>5. Good(F[k - 1])
      BY <1>1, <2>3, <2>4
    <2>6. F[k] = IF cancelled[acquire_list[k]] THEN F[k - 1]
                 ELSE Append(F[k - 1], acquire_list[k])
      BY <1>4, <2>4
    <2>7. acquire_list[k] \in Reqs /\ OnList(acquire_list, acquire_list[k])
      BY <1>1, <2>4
    <2>8. Good(F[k])
      BY <1>6, <2>5, <2>6, <2>7
    <2> QED  BY <2>3, <2>8
  <1>8. Good(Live)
    BY <1>1, <1>2, <1>7
  <1> QED  BY <1>8 DEF Good

-----------------------------------------------------------------------------
(* The steps, seen from the tokens and the queue.                          *)

Holders == { r \in Reqs : tok[r] }

(* The nodes of an awaiter are nodes of the run queue, and those of two     *)
(* awaiters differ.                                                         *)
LEMMA NodeFacts ==
    /\ SemNode \in Nodes
    /\ \A r \in Reqs : Ev(r) \in Nodes /\ Tm(r) \in Nodes /\ Ev(r) # SemNode
    /\ \A r, s \in Reqs : Ev(r) # Tm(s) /\ (Ev(r) = Ev(s) => r = s)
  <1>1. \A r \in Reqs : Ev(r) \in Nodes /\ Tm(r) \in Nodes /\ Ev(r) # SemNode
    BY TimeoutAssumption
  <1>2. \A r, s \in Reqs : Ev(r) # Tm(s) /\ (Ev(r) = Ev(s) => r = s)
    BY DEF Ev, Tm
  <1> QED  BY <1>1, <1>2, TimeoutAssumption

(* There are finitely many holders.                                         *)
LEMMA HoldersFinite == IsFiniteSet(Holders) /\ Cardinality(Holders) \in Nat
  <1>1. Holders \in SUBSET Reqs
    BY DEF Holders
  <1> QED  BY <1>1, TimeoutAssumption, FS_Subset, FS_CardinalityType

(* What a pass of sem_chk_cb does for the requests of S: each gets a token  *)
(* that leaves the value, the outcome REQ_OK and a place on the queue.      *)
Serves(S, n) ==
    /\ S \in SUBSET Reqs /\ IsFiniteSet(S) /\ Cardinality(S) <= n
    /\ n \in 0 .. cur_val /\ cur_val' = cur_val - n
    /\ queue' \in Seq(Nodes) /\ acquire_list' \in Seq(Reqs)
    /\ \A r \in Reqs : OnList(queue', Ev(r)) => OnList(queue, Ev(r)) \/ r \in S
    /\ req_sta' = [r \in Reqs |-> IF r \in S THEN "REQ_OK" ELSE req_sta[r]]
    /\ tok' = [r \in Reqs |-> r \in S \/ tok[r]]

(* sem_chk_cb serves at most as many requests as it takes tokens.           *)
LEMMA ChkServes ==
    ASSUME TypeOK, NEW w \in Workers, SemChk(w)
    PROVE  \E S, n : Serves(S, n)
  <1> DEFINE n == IF cur_val < Len(Live) THEN cur_val ELSE Len(Live)
             served == SubSeq(Live, 1, n)
             rest == SubSeq(Live, n + 1, Len(Live))
             batch == [i \in 1 .. n |-> Ev(served[i])]
             S == { r \in Reqs : OnList(served, r) }
  <1>1. /\ queue # << >> /\ queue' = Tail(queue) \o batch
        /\ cur_val' = cur_val - n /\ acquire_list' = rest
        /\ req_sta' = [r \in Reqs |-> IF OnList(served, r) THEN "REQ_OK" ELSE req_sta[r]]
        /\ tok' = [r \in Reqs |-> OnList(served, r) \/ tok[r]]
    BY DEF SemChk
  <1>2. /\ Live \in Seq(Reqs) /\ Len(Live) \in Nat
        /\ \A i \in 1 .. Len(Live) : Live[i] \in Reqs
    BY LiveFacts, LenProperties, ElementOfSeq DEF TypeOK
  <1>3. n \in 0 .. cur_val /\ n \in 0 .. Len(Live) /\ cur_val \in Nat
    BY <1>2, TimeoutAssumption DEF TypeOK
  <1> HIDE DEF n
  <1>4. rest \in Seq(Reqs)
    <2>1. \A i \in n + 1 .. Len(Live) : Live[i] \in Reqs
      BY <1>2, <1>3
    <2> QED  BY <1>2, <1>3, <2>1, SubSeqProperties
  <1>5. served \in Seq(Reqs) /\ Len(served) = n
    <2>1. \A i \in 1 .. n : Live[i] \in Reqs
      BY <1>2, <1>3
    <2> QED  BY <1>3, <2>1, SubSeqProperties
  <1>6. DOMAIN served = 1 .. n /\ \A i \in 1 .. n : served[i] \in Reqs
    BY <1>5, LenProperties, ElementOfSeq
  <1> HIDE DEF served
  <1>7. batch \in Seq(Nodes) /\ \A r \in Reqs : OnList(batch, Ev(r)) => OnList(served, r)
    <2>1. \A i \in 1 .. n : Ev(served[i]) \in Nodes
      BY <1>6, NodeFacts
    <2>2. batch \in Seq(Nodes)
      BY <1>3, <2>1, IsASeq
    <2>3. ASSUME NEW r \in Reqs, OnList(batch, Ev(r)) PROVE OnList(served, r)
      <3>1. PICK i \in 1 .. n : Ev(served[i]) = Ev(r)
        BY <2>3 DEF OnList
      <3>2. served[i] = r
        BY <1>6, <3>1, NodeFacts
      <3> QED  BY <1>6, <3>2 DEF OnList
    <2> QED  BY <2>2, <2>3
  <1>8. queue' \in Seq(Nodes)
        /\ \A r \in Reqs : OnList(queue', Ev(r)) => OnList(queue, Ev(r)) \/ OnList(served, r)
    <2>1. queue \in Seq(Nodes)
      BY DEF TypeOK
    <2>2. /\ Tail(queue) \in Seq(Nodes)
          /\ \A m : OnList(queue, m) <=> OnList(Tail(queue), m) \/ m = Head(queue)
      BY <1>1, <2>1, TailFacts
    <2>3. /\ Tail(queue) \o batch \in Seq(Nodes)
          /\ \A m : OnList(Tail(queue) \o batch, m) <=> OnList(Tail(queue), m) \/ OnList(batch, m)
      <3> HIDE DEF batch
      <3> QED  BY <1>7, <2>2, ConcatFacts
    <2> HIDE DEF batch
    <2> QED  BY <1>1, <1>7, <2>2, <2>3
  <1>9. IsFiniteSet(S) /\ Cardinality(S) <= n
    <2>1. S = { served[i] : i \in 1 .. n }
      BY <1>6 DEF OnList
    <2>2. served \in Surjection(1 .. n, S)
      <3>1. served \in [1 .. n -> S]
        BY <1>5, <1>6, <2>1, LenProperties
      <3>2. \A r \in S : \E i \in 1 .. n : served[i] = r
        BY <2>1
      <3> HIDE DEF S
      <3> QED  BY <3>1, <3>2 DEF Surjection
    <2>3. IsFiniteSet(1 .. n) /\ Cardinality(1 .. n) = n
      BY <1>3, FS_Interval
    <2> HIDE DEF S
    <2> QED  BY <2>2, <2>3, FS_Surjection
  <1>10. Serves(S, n)
    <2>1. \A r \in Reqs : r \in S <=> OnList(served, r)
      OBVIOUS
    <2>2. S \in SUBSET Reqs
      OBVIOUS
    <2> HIDE DEF S, batch, rest
    <2>3. /\ req_sta' = [r \in Reqs |-> IF r \in S THEN "REQ_OK" ELSE req_sta[r]]
          /\ tok' = [r \in Reqs |-> r \in S \/ tok[r]]
      BY <1>1, <2>1
    <2>4. \A r \in Reqs : OnList(queue', Ev(r)) => OnList(queue, Ev(r)) \/ r \in S
      BY <1>8, <2>1
    <2> QED  BY <1>1, <1>3, <1>4, <1>8, <1>9, <2>2, <2>3, <2>4 DEF Serves
  <1> QED  BY <1>10

(* Every step is one of these.                                              *)
LEMMA StepCases ==
    ASSUME [Next]_vars
    PROVE  \/ \E w \in Workers :
                 \/ SuspendArm(w) \/ SuspendAcquire(w) \/ CancelWaiter(w) \/ CancelTimer(w)
                 \/ Resume(w) \/ BodyEnds(w) \/ SemChk(w)
           \/ \E w \in Workers, r \in Reqs :
                 TakeLoser(w, r) \/ OnTimer(w, r) \/ OnEvent(w, r) \/ AwaitReady(w, r)
           \/ \E r \in Reqs : TimerFires(r)
           \/ UNCHANGED vars
  BY DEF Next, Step

(* A node that is taken leaves no event behind that was not there.          *)
LEMMA TakenFromQueue ==
    ASSUME queue \in Seq(Nodes), QueueTake
    PROVE  queue' \in Seq(Nodes) /\ \A m : OnList(queue', m) => OnList(queue, m)
  <1>1. queue # << >> /\ queue' = Tail(queue)
    BY DEF QueueTake
  <1> QED  BY <1>1, TailFacts

(* A node that is posted is the only one that comes on the queue.           *)
LEMMA PostedOnQueue ==
    ASSUME queue \in Seq(Nodes), NEW n \in Nodes, queue' = MoveToTail(queue, n)
    PROVE  queue' \in Seq(Nodes) /\ \A m : OnList(queue', m) => OnList(queue, m) \/ m = n
  BY MoveToTailFacts

(* The request of a worker that is not idle.                                *)
LEMMA BusyAt ==
    ASSUME TimeoutInv, NEW w \in Workers, pc[w] # "idle"
    PROVE  at[w] \in Reqs
  BY DEF TimeoutInv, ClaimInv

-----------------------------------------------------------------------------
(* Types.                                                                  *)

(* Every step keeps the types.                                              *)
LEMMA TypeStep == TimeoutInv /\ [Next]_vars => TypeOK'
  <1> SUFFICES ASSUME TimeoutInv, [Next]_vars PROVE TypeOK'
    OBVIOUS
  <1>0. /\ TypeOK /\ queue \in Seq(Nodes) /\ acquire_list \in Seq(Reqs) /\ cur_val \in Nat
        /\ MaxVal \in Nat /\ Timed \subseteq Reqs
    BY TimeoutAssumption DEF TimeoutInv, TypeOK
  <1>1. ASSUME NEW w \in Workers, SuspendArm(w) PROVE TypeOK'
    <2>1. at[w] \in Reqs
      BY <1>1, BusyAt DEF SuspendArm
    <2> QED  BY <1>0, <1>1, <2>1 DEF SuspendArm, Goto, TypeOK
  <1>2. ASSUME NEW w \in Workers, SuspendAcquire(w) PROVE TypeOK'
    <2>1. at[w] \in Reqs
      BY <1>2, BusyAt DEF SuspendAcquire
    <2>2. CASE cur_val > 0
      <3>1. queue' \in Seq(Nodes)
        <4>1. Ev(at[w]) \in Nodes
          BY <2>1, NodeFacts
        <4> QED  BY <1>0, <1>2, <2>2, <4>1, PostedOnQueue DEF SuspendAcquire
      <3>2. tok' = [tok EXCEPT ![at[w]] = TRUE] /\ cur_val' = cur_val - 1 /\ UNCHANGED acquire_list
        BY <2>2, <1>2 DEF SuspendAcquire
      <3>3. Goto(w, "idle", NoReq) /\ UNCHANGED <<awaiterVars, co, result, resumes>>
        BY <1>2 DEF SuspendAcquire
      <3>4. cur_val' \in 0 .. MaxVal
        BY <1>0, <2>2, <3>2 DEF TypeOK
      <3> QED  BY <1>0, <2>1, <3>1, <3>2, <3>3, <3>4 DEF Goto, TypeOK, awaiterVars
    <2>3. CASE cur_val = 0
      <3>1. acquire_list' \in Seq(Reqs)
        BY <1>0, <1>2, <2>1, <2>3, AppendFacts DEF SuspendAcquire, list_add_tail
      <3> QED  BY <1>0, <1>2, <2>1, <2>3, <3>1 DEF SuspendAcquire, Goto, TypeOK, awaiterVars
    <2> QED  BY <1>0, <2>2, <2>3
  <1>3. ASSUME NEW w \in Workers, CancelWaiter(w) PROVE TypeOK'
    <2>1. at[w] \in Reqs
      BY <1>3, BusyAt DEF CancelWaiter
    <2>2. acquire_list' \in Seq(Reqs)
      BY <1>0, <1>3, ListDelFacts DEF CancelWaiter
    <2> QED  BY <1>0, <1>3, <2>1, <2>2 DEF CancelWaiter, Goto, TypeOK
  <1>4. ASSUME NEW w \in Workers, CancelTimer(w) PROVE TypeOK'
    <2>1. at[w] \in Reqs
      BY <1>4, BusyAt DEF CancelTimer
    <2> QED  BY <1>0, <1>4, <2>1 DEF CancelTimer, Goto, TypeOK
  <1>5. ASSUME NEW w \in Workers, Resume(w) PROVE TypeOK'
    <2>1. at[w] \in Reqs
      BY <1>5, BusyAt DEF Resume
    <2> QED  BY <1>0, <1>5, <2>1 DEF Resume, Goto, TypeOK
  <1>6. ASSUME NEW w \in Workers, BodyEnds(w) PROVE TypeOK'
    <2>1. at[w] \in Reqs
      BY <1>6, BusyAt DEF BodyEnds
    <2>2. queue' \in Seq(Nodes)
      BY <1>0, <1>6, PostedOnQueue, NodeFacts DEF BodyEnds, QueuePost
    <2>3. tok' \in [Reqs -> BOOLEAN]
      BY <1>0, <1>6, <2>1 DEF BodyEnds, TypeOK
    <2>4. cur_val' \in 0 .. MaxVal
      BY <1>0, <1>6 DEF BodyEnds, TypeOK
    <2> QED  BY <1>0, <1>6, <2>1, <2>2, <2>3, <2>4 DEF BodyEnds, Goto, TypeOK, awaiterVars
  <1>7. ASSUME NEW w \in Workers, SemChk(w) PROVE TypeOK'
    <2>1. PICK S, n : Serves(S, n)
      BY <1>0, <1>7, ChkServes
    <2>2. UNCHANGED <<timers, armed, cancelled, pc, at, co, result, resumes>>
      BY <1>7 DEF SemChk
    <2> QED  BY <1>0, <2>1, <2>2 DEF Serves, TypeOK
  <1>8. ASSUME NEW w \in Workers, NEW r \in Reqs,
               TakeLoser(w, r) \/ OnTimer(w, r) \/ OnEvent(w, r)
        PROVE  TypeOK'
    <2>1. queue' \in Seq(Nodes)
      BY <1>0, <1>8, TakenFromQueue DEF TakeLoser, OnTimer, OnEvent
    <2>2. CASE TakeLoser(w, r)
      BY <1>0, <2>1, <2>2 DEF TakeLoser, TypeOK, awaiterVars
    <2>3. CASE OnTimer(w, r)
      BY <1>0, <2>1, <2>3 DEF OnTimer, ExchangeArmed, Goto, TypeOK
    <2>4. CASE OnEvent(w, r)
      BY <1>0, <2>1, <2>4 DEF OnEvent, ExchangeArmed, Goto, TypeOK
    <2> QED  BY <1>8, <2>2, <2>3, <2>4
  <1>9. ASSUME NEW w \in Workers, NEW r \in Reqs, AwaitReady(w, r) PROVE TypeOK'
    <2>1. CASE cur_val > 0
      <3>1. /\ cur_val' = cur_val - 1
            /\ tok' = [tok EXCEPT ![r] = TRUE] /\ result' = [result EXCEPT ![r] = TRUE]
            /\ co' = [co EXCEPT ![r] = "resumed"] /\ Goto(w, "body", r)
            /\ UNCHANGED <<queue, acquire_list, awaiterVars, resumes>>
        BY <1>9, <2>1 DEF AwaitReady
      <3> QED  BY <1>0, <2>1, <3>1 DEF Goto, TypeOK, awaiterVars
    <2>2. CASE cur_val = 0
      <3>1. /\ co' = [co EXCEPT ![r] = "waiting"] /\ Goto(w, "arm", r)
            /\ UNCHANGED <<cur_val, tok, result, queue, acquire_list, awaiterVars, resumes>>
        BY <1>9, <2>2 DEF AwaitReady
      <3> QED  BY <1>0, <3>1 DEF Goto, TypeOK, awaiterVars
    <2> QED  BY <1>0, <2>1, <2>2
  <1>10. ASSUME NEW r \in Reqs, TimerFires(r) PROVE TypeOK'
    <2>1. queue' \in Seq(Nodes)
      BY <1>0, <1>10, PostedOnQueue, NodeFacts DEF TimerFires, QueuePost
    <2> QED  BY <1>0, <1>10, <2>1 DEF TimerFires, TypeOK
  <1>11. ASSUME UNCHANGED vars PROVE TypeOK'
    BY <1>0, <1>11 DEF vars, awaiterVars, TypeOK
  <1> QED  BY <1>1, <1>2, <1>3, <1>4, <1>5, <1>6, <1>7, <1>8, <1>9, <1>10, <1>11, StepCases

-----------------------------------------------------------------------------
(* The right to resume.                                                    *)

(* A worker that moves on changes no other worker's claim.                  *)
LEMMA GotoFacts ==
    ASSUME TypeOK, NEW w \in Workers, NEW p, NEW r, Goto(w, p, r)
    PROVE  /\ pc'[w] = p /\ at'[w] = r
           /\ \A v \in Workers : v # w => pc'[v] = pc[v] /\ at'[v] = at[v]
  BY DEF TypeOK, Goto

(* Armed is set, won by one exchange and never set again; each coroutine is *)
(* resumed by the winner only.                                              *)
LEMMA ClaimStep == TimeoutInv /\ [Next]_vars => ClaimInv' /\ ResumedOnce'
  <1> SUFFICES ASSUME TimeoutInv, [Next]_vars PROVE ClaimInv' /\ ResumedOnce'
    OBVIOUS
  <1>0. TypeOK /\ ClaimInv /\ ResumedOnce
    BY DEF TimeoutInv
  <1>1. ASSUME NEW w \in Workers, SuspendArm(w) PROVE ClaimInv' /\ ResumedOnce'
    <2>1. /\ pc[w] = "arm" /\ pc'[w] = "acquire" /\ at'[w] = at[w]
          /\ \A v \in Workers : v # w => pc'[v] = pc[v] /\ at'[v] = at[v]
          /\ armed' = [armed EXCEPT ![at[w]] = TRUE] /\ UNCHANGED <<co, resumes>>
      BY <1>0, <1>1, GotoFacts DEF SuspendArm
    <2>2. at[w] \in Reqs
      BY <2>1, BusyAt
    <2>3. /\ armed'[at[w]] = TRUE
          /\ \A s \in Reqs : s # at[w] => armed'[s] = armed[s]
      BY <1>0, <2>1, <2>2 DEF TypeOK
    <2> QED  BY <1>0, <2>1, <2>2, <2>3 DEF ClaimInv, Claims, ResumedOnce
  <1>2. ASSUME NEW w \in Workers, SuspendAcquire(w) PROVE ClaimInv' /\ ResumedOnce'
    <2>1. /\ pc'[w] = "idle"
          /\ \A v \in Workers : v # w => pc'[v] = pc[v] /\ at'[v] = at[v]
          /\ UNCHANGED <<armed, co, resumes>>
      BY <1>0, <1>2, GotoFacts DEF SuspendAcquire, awaiterVars
    <2> QED  BY <1>0, <2>1 DEF ClaimInv, Claims, ResumedOnce
  <1>3. ASSUME NEW w \in Workers, CancelWaiter(w) \/ CancelTimer(w)
        PROVE  ClaimInv' /\ ResumedOnce'
    <2>1. /\ pc[w] \in {"cancel", "untimer"} /\ pc'[w] = "resume" /\ at'[w] = at[w]
          /\ \A v \in Workers : v # w => pc'[v] = pc[v] /\ at'[v] = at[v]
          /\ UNCHANGED <<armed, co, resumes>>
      BY <1>0, <1>3, GotoFacts DEF CancelWaiter, CancelTimer
    <2> QED  BY <1>0, <2>1 DEF ClaimInv, Claims, ResumedOnce
  <1>4. ASSUME NEW w \in Workers, Resume(w) PROVE ClaimInv' /\ ResumedOnce'
    <2>1. /\ pc[w] = "resume" /\ pc'[w] = "body" /\ at'[w] = at[w]
          /\ \A v \in Workers : v # w => pc'[v] = pc[v] /\ at'[v] = at[v]
          /\ co' = [co EXCEPT ![at[w]] = "resumed"]
          /\ resumes' = [resumes EXCEPT ![at[w]] = @ + 1] /\ UNCHANGED armed
      BY <1>0, <1>4, GotoFacts DEF Resume
    <2>2. at[w] \in Reqs
      BY <2>1, BusyAt
    <2>3. /\ co'[at[w]] = "resumed" /\ resumes'[at[w]] = resumes[at[w]] + 1
          /\ \A s \in Reqs : s # at[w] => co'[s] = co[s] /\ resumes'[s] = resumes[s]
      BY <1>0, <2>1, <2>2 DEF TypeOK
    <2>4. resumes[at[w]] = 0 /\ ~ armed[at[w]]
      BY <1>0, <2>1, <2>2 DEF ClaimInv, Claims
    <2>5. ResumedOnce'
      BY <1>0, <2>2, <2>3, <2>4 DEF ResumedOnce
    <2>6. ClaimInv'
      BY <1>0, <2>1, <2>2, <2>3, <2>4 DEF ClaimInv, Claims
    <2> QED  BY <2>5, <2>6
  <1>5. ASSUME NEW w \in Workers, BodyEnds(w) PROVE ClaimInv' /\ ResumedOnce'
    <2>1. /\ pc[w] = "body" /\ pc'[w] = "idle"
          /\ \A v \in Workers : v # w => pc'[v] = pc[v] /\ at'[v] = at[v]
          /\ co' = [co EXCEPT ![at[w]] = "ended"] /\ UNCHANGED <<armed, resumes>>
      BY <1>0, <1>5, GotoFacts DEF BodyEnds, awaiterVars
    <2>2. at[w] \in Reqs
      BY <2>1, BusyAt
    <2>3. co'[at[w]] = "ended" /\ \A s \in Reqs : s # at[w] => co'[s] = co[s]
      BY <1>0, <2>1, <2>2 DEF TypeOK
    <2> QED  BY <1>0, <2>1, <2>2, <2>3 DEF ClaimInv, Claims, ResumedOnce
  <1>6. ASSUME NEW w \in Workers, NEW r \in Reqs, OnTimer(w, r) \/ OnEvent(w, r)
        PROVE  ClaimInv' /\ ResumedOnce'
    <2>1. /\ pc[w] = "idle" /\ armed[r]
          /\ pc'[w] \in {"cancel", "untimer"} /\ at'[w] = r
          /\ \A v \in Workers : v # w => pc'[v] = pc[v] /\ at'[v] = at[v]
          /\ armed' = [armed EXCEPT ![r] = FALSE] /\ UNCHANGED <<co, resumes>>
      BY <1>0, <1>6, GotoFacts DEF OnTimer, OnEvent, ExchangeArmed
    <2>2. ~ armed'[r] /\ \A s \in Reqs : s # r => armed'[s] = armed[s]
      BY <1>0, <2>1 DEF TypeOK
    <2> QED  BY <1>0, <2>1, <2>2 DEF ClaimInv, Claims, ResumedOnce
  <1>7. ASSUME NEW w \in Workers, NEW r \in Reqs, AwaitReady(w, r)
        PROVE  ClaimInv' /\ ResumedOnce'
    <2>1. /\ pc[w] = "idle" /\ co[r] = "new" /\ at'[w] = r
          /\ \A v \in Workers : v # w => pc'[v] = pc[v] /\ at'[v] = at[v]
          /\ UNCHANGED <<armed, resumes>>
      BY <1>0, <1>7, GotoFacts DEF AwaitReady, awaiterVars
    <2>2. /\ \/ pc'[w] = "body" /\ co'[r] = "resumed"
             \/ pc'[w] = "arm" /\ co'[r] = "waiting"
          /\ \A s \in Reqs : s # r => co'[s] = co[s]
      BY <1>0, <1>7, GotoFacts DEF AwaitReady, TypeOK
    <2> QED  BY <1>0, <2>1, <2>2 DEF ClaimInv, Claims, ResumedOnce
  <1>8. ASSUME UNCHANGED <<armed, pc, at, co, resumes>>
        PROVE  ClaimInv' /\ ResumedOnce'
    BY <1>0, <1>8 DEF ClaimInv, Claims, ResumedOnce
  <1>9. ASSUME NEW w \in Workers, NEW r \in Reqs, TakeLoser(w, r)
        PROVE  ClaimInv' /\ ResumedOnce'
    BY <1>8, <1>9 DEF TakeLoser, awaiterVars
  <1>10. ASSUME NEW w \in Workers, SemChk(w) PROVE ClaimInv' /\ ResumedOnce'
    BY <1>8, <1>10 DEF SemChk
  <1>11. ASSUME NEW r \in Reqs, TimerFires(r) PROVE ClaimInv' /\ ResumedOnce'
    BY <1>8, <1>11 DEF TimerFires
  <1>12. ASSUME UNCHANGED vars PROVE ClaimInv' /\ ResumedOnce'
    BY <1>8, <1>12 DEF vars, awaiterVars
  <1> QED  BY <1>1, <1>2, <1>3, <1>4, <1>5, <1>6, <1>7, <1>9, <1>10, <1>11, <1>12, StepCases

-----------------------------------------------------------------------------
(* Grants.                                                                 *)

(* The part of GrantInv about a request, and the part about its claimant.   *)
Backed(r) ==
    co[r] # "ended" /\ (OnList(queue, Ev(r)) \/ req_sta[r] = "REQ_OK") => tok[r]

Entitled(w, r) ==
    /\ pc[w] = "untimer" => tok[r]
    /\ pc[w] = "resume" => req_sta[r] = "REQ_TIME_OUT" \/ tok[r]
    /\ pc[w] = "body" /\ result[r] => tok[r]

(* GrantInv is the conjunction of the two.                                  *)
LEMMA GrantParts ==
    /\ GrantInv <=> /\ \A r \in Reqs : Backed(r)
                    /\ \A w \in Workers, r \in Reqs : Claims(w, r) => Entitled(w, r)
    /\ GrantInv' <=> /\ \A r \in Reqs : Backed(r)'
                     /\ \A w \in Workers, r \in Reqs : Claims(w, r)' => Entitled(w, r)'
  BY DEF GrantInv, Backed, Entitled

(* A coroutine that is told it has a token has one.                         *)
LEMMA GrantStep == TimeoutInv /\ [Next]_vars => GrantInv'
  <1> SUFFICES ASSUME TimeoutInv, [Next]_vars PROVE GrantInv'
    OBVIOUS
  <1>0. /\ TypeOK /\ ClaimInv /\ queue \in Seq(Nodes)
        /\ \A r \in Reqs : Backed(r)
        /\ \A w \in Workers, r \in Reqs : Claims(w, r) => Entitled(w, r)
    BY GrantParts DEF TimeoutInv, TypeOK
  <1>1. ASSUME NEW w \in Workers, SuspendArm(w) PROVE GrantInv'
    <2>1. /\ pc'[w] = "acquire"
          /\ \A v \in Workers : v # w => pc'[v] = pc[v] /\ at'[v] = at[v]
          /\ UNCHANGED <<queue, req_sta, co, result, tok>>
      BY <1>0, <1>1, GotoFacts DEF SuspendArm
    <2>2. \A r \in Reqs : Backed(r)'
      BY <1>0, <2>1 DEF Backed, OnList
    <2>3. \A v \in Workers, r \in Reqs : Claims(v, r)' => Entitled(v, r)'
      BY <1>0, <2>1 DEF Claims, Entitled
    <2> QED  BY <2>2, <2>3, GrantParts
  <1>2. ASSUME NEW w \in Workers, SuspendAcquire(w) PROVE GrantInv'
    <2>1. /\ pc[w] = "acquire" /\ pc'[w] = "idle"
          /\ \A v \in Workers : v # w => pc'[v] = pc[v] /\ at'[v] = at[v]
          /\ UNCHANGED <<req_sta, co, result>>
      BY <1>0, <1>2, GotoFacts DEF SuspendAcquire, awaiterVars
    <2>2. at[w] \in Reqs
      BY <2>1, BusyAt
    <2>3. \A r \in Reqs : tok[r] => tok'[r]
      BY <1>0, <1>2, <2>2 DEF SuspendAcquire, TypeOK
    <2>4. \A r \in Reqs : OnList(queue', Ev(r)) => OnList(queue, Ev(r)) \/ tok'[r]
      <3>1. CASE cur_val > 0
        <4>1. queue' = MoveToTail(queue, Ev(at[w])) /\ tok'[at[w]]
          BY <1>0, <1>2, <2>2, <3>1 DEF SuspendAcquire, TypeOK
        <4>2. \A m : OnList(queue', m) => OnList(queue, m) \/ m = Ev(at[w])
          BY <1>0, <2>2, <4>1, NodeFacts, PostedOnQueue
        <4> QED  BY <2>2, <4>1, <4>2, NodeFacts
      <3>2. CASE ~ (cur_val > 0)
        BY <1>2, <3>2 DEF SuspendAcquire
      <3> QED  BY <3>1, <3>2
    <2>5. \A r \in Reqs : Backed(r)'
      BY <1>0, <2>1, <2>3, <2>4 DEF Backed, OnList
    <2>6. \A v \in Workers, r \in Reqs : Claims(v, r)' => Entitled(v, r)'
      BY <1>0, <2>1, <2>3 DEF Claims, Entitled
    <2> QED  BY <2>5, <2>6, GrantParts
  <1>3. ASSUME NEW w \in Workers, CancelWaiter(w) PROVE GrantInv'
    <2>1. /\ pc[w] = "cancel" /\ pc'[w] = "resume" /\ at'[w] = at[w]
          /\ \A v \in Workers : v # w => pc'[v] = pc[v] /\ at'[v] = at[v]
          /\ req_sta' = [req_sta EXCEPT ![at[w]] = "REQ_TIME_OUT"]
          /\ UNCHANGED <<queue, co, result, tok>>
      BY <1>0, <1>3, GotoFacts DEF CancelWaiter
    <2>2. at[w] \in Reqs
      BY <2>1, BusyAt
    <2>3. /\ req_sta'[at[w]] = "REQ_TIME_OUT"
          /\ \A r \in Reqs : r # at[w] => req_sta'[r] = req_sta[r]
      BY <1>0, <2>1, <2>2 DEF TypeOK
    <2>4. \A r \in Reqs : Backed(r)'
      BY <1>0, <2>1, <2>2, <2>3 DEF Backed, OnList
    <2>5. \A v \in Workers, r \in Reqs : Claims(v, r)' => Entitled(v, r)'
      BY <1>0, <2>1, <2>2, <2>3 DEF Claims, Entitled
    <2> QED  BY <2>4, <2>5, GrantParts
  <1>4. ASSUME NEW w \in Workers, CancelTimer(w) PROVE GrantInv'
    <2>1. /\ pc[w] = "untimer" /\ pc'[w] = "resume" /\ at'[w] = at[w]
          /\ \A v \in Workers : v # w => pc'[v] = pc[v] /\ at'[v] = at[v]
          /\ UNCHANGED <<queue, req_sta, co, result, tok>>
      BY <1>0, <1>4, GotoFacts DEF CancelTimer
    <2>2. \A r \in Reqs : Backed(r)'
      BY <1>0, <2>1 DEF Backed, OnList
    <2>3. \A v \in Workers, r \in Reqs : Claims(v, r)' => Entitled(v, r)'
      BY <1>0, <2>1 DEF Claims, Entitled
    <2> QED  BY <2>2, <2>3, GrantParts
  <1>5. ASSUME NEW w \in Workers, Resume(w) PROVE GrantInv'
    <2>1. /\ pc[w] = "resume" /\ pc'[w] = "body" /\ at'[w] = at[w]
          /\ \A v \in Workers : v # w => pc'[v] = pc[v] /\ at'[v] = at[v]
          /\ co' = [co EXCEPT ![at[w]] = "resumed"]
          /\ UNCHANGED <<queue, req_sta, tok>>
      BY <1>0, <1>5, GotoFacts DEF Resume
    <2>2. at[w] \in Reqs
      BY <2>1, BusyAt
    <2>3. /\ Claims(w, at[w]) /\ co[at[w]] = "waiting" /\ Entitled(w, at[w]) /\ Backed(at[w])
      BY <1>0, <2>1, <2>2 DEF ClaimInv, Claims
    <2>4. \A r \in Reqs : r # at[w] => co'[r] = co[r] /\ result'[r] = result[r]
      BY <1>0, <1>5, <2>1, <2>2 DEF Resume, TypeOK
    <2>5. req_sta[at[w]] # "uninitialized" => (result'[at[w]] <=> req_sta[at[w]] = "REQ_OK")
      BY <1>0, <1>5, <2>2 DEF Resume, TypeOK
    <2>6. result'[at[w]] => tok[at[w]]
      BY <2>1, <2>3, <2>5 DEF Entitled, Backed
    <2>7. \A r \in Reqs : Backed(r)'
      BY <1>0, <2>1, <2>2, <2>3, <2>4 DEF Backed, OnList
    <2>8. \A v \in Workers, r \in Reqs : Claims(v, r)' => Entitled(v, r)'
      <3> SUFFICES ASSUME NEW v \in Workers, NEW r \in Reqs, Claims(v, r)'
                   PROVE  Entitled(v, r)'
        OBVIOUS
      <3>1. CASE v = w
        BY <2>1, <2>6, <3>1 DEF Claims, Entitled
      <3>2. CASE v # w
        <4>1. Claims(v, r) /\ r # at[w]
          BY <1>0, <2>1, <2>3, <3>2 DEF Claims, ClaimInv
        <4> QED  BY <1>0, <2>1, <2>4, <3>2, <4>1 DEF Entitled
      <3> QED  BY <3>1, <3>2
    <2> QED  BY <2>7, <2>8, GrantParts
  <1>6. ASSUME NEW w \in Workers, BodyEnds(w) PROVE GrantInv'
    <2>1. /\ pc[w] = "body" /\ pc'[w] = "idle"
          /\ \A v \in Workers : v # w => pc'[v] = pc[v] /\ at'[v] = at[v]
          /\ co' = [co EXCEPT ![at[w]] = "ended"] /\ UNCHANGED <<req_sta, result>>
      BY <1>0, <1>6, GotoFacts DEF BodyEnds, awaiterVars
    <2>2. at[w] \in Reqs
      BY <2>1, BusyAt
    <2>3. /\ co'[at[w]] = "ended"
          /\ \A r \in Reqs : r # at[w] => co'[r] = co[r] /\ tok'[r] = tok[r]
      BY <1>0, <1>6, <2>1, <2>2 DEF BodyEnds, TypeOK
    <2>4. \A r \in Reqs : OnList(queue', Ev(r)) => OnList(queue, Ev(r))
      <3>1. queue' = queue \/ queue' = MoveToTail(queue, SemNode)
        BY <1>6 DEF BodyEnds, QueuePost
      <3>2. CASE queue' = MoveToTail(queue, SemNode)
        <4>1. \A m : OnList(queue', m) => OnList(queue, m) \/ m = SemNode
          BY <1>0, <3>2, NodeFacts, PostedOnQueue
        <4> QED  BY <4>1, NodeFacts
      <3> QED  BY <3>1, <3>2
    <2>5. \A r \in Reqs : Backed(r)'
      BY <1>0, <2>1, <2>2, <2>3, <2>4 DEF Backed, OnList
    <2>6. \A v \in Workers, r \in Reqs : Claims(v, r)' => Entitled(v, r)'
      <3> SUFFICES ASSUME NEW v \in Workers, NEW r \in Reqs, Claims(v, r)'
                   PROVE  Entitled(v, r)'
        OBVIOUS
      <3>1. v # w /\ Claims(v, r)
        BY <2>1 DEF Claims
      <3>2. r # at[w]
        BY <1>0, <2>1, <2>2, <3>1 DEF Claims, ClaimInv
      <3> QED  BY <1>0, <2>1, <2>3, <3>1, <3>2 DEF Entitled
    <2> QED  BY <2>5, <2>6, GrantParts
  <1>7. ASSUME NEW w \in Workers, SemChk(w) PROVE GrantInv'
    <2>1. PICK S, n : Serves(S, n)
      BY <1>0, <1>7, ChkServes
    <2>2. UNCHANGED <<pc, at, co, result>>
      BY <1>7 DEF SemChk
    <2>3. \A r \in Reqs :
             /\ tok[r] => tok'[r]
             /\ req_sta'[r] = req_sta[r] \/ tok'[r]
             /\ OnList(queue', Ev(r)) => OnList(queue, Ev(r)) \/ tok'[r]
      BY <2>1 DEF Serves
    <2>4. \A r \in Reqs : Backed(r)'
      BY <1>0, <2>2, <2>3 DEF Backed, OnList
    <2>5. \A v \in Workers, r \in Reqs : Claims(v, r)' => Entitled(v, r)'
      BY <1>0, <2>2, <2>3 DEF Claims, Entitled
    <2> QED  BY <2>4, <2>5, GrantParts
  <1>8. ASSUME NEW w \in Workers, NEW r \in Reqs,
               TakeLoser(w, r) \/ OnTimer(w, r) \/ OnEvent(w, r)
        PROVE  GrantInv'
    <2>1. \A m : OnList(queue', m) => OnList(queue, m)
      BY <1>0, <1>8, TakenFromQueue DEF TakeLoser, OnTimer, OnEvent
    <2>2. UNCHANGED <<req_sta, co, result, tok>>
      BY <1>8 DEF TakeLoser, OnTimer, OnEvent, awaiterVars
    <2>3. \A s \in Reqs : Backed(s)'
      BY <1>0, <2>1, <2>2 DEF Backed, OnList
    <2>4. CASE TakeLoser(w, r)
      <3>1. \A v \in Workers, s \in Reqs : Claims(v, s)' => Entitled(v, s)'
        BY <1>0, <2>2, <2>4 DEF TakeLoser, Claims, Entitled
      <3> QED  BY <2>3, <3>1, GrantParts
    <2>5. CASE OnTimer(w, r)
      <3>1. /\ pc'[w] = "cancel"
            /\ \A v \in Workers : v # w => pc'[v] = pc[v] /\ at'[v] = at[v]
        BY <1>0, <2>5, GotoFacts DEF OnTimer
      <3>2. \A v \in Workers, s \in Reqs : Claims(v, s)' => Entitled(v, s)'
        BY <1>0, <2>2, <3>1 DEF Claims, Entitled
      <3> QED  BY <2>3, <3>2, GrantParts
    <2>6. CASE OnEvent(w, r)
      <3>1. /\ pc'[w] = "untimer" /\ at'[w] = r
            /\ \A v \in Workers : v # w => pc'[v] = pc[v] /\ at'[v] = at[v]
        BY <1>0, <2>6, GotoFacts DEF OnEvent
      <3>2. OnList(queue, Ev(r)) /\ co[r] = "waiting"
        BY <1>0, <2>6, TailFacts DEF OnEvent, ClaimInv
      <3>3. tok[r]
        BY <1>0, <3>2 DEF Backed
      <3>4. \A v \in Workers, s \in Reqs : Claims(v, s)' => Entitled(v, s)'
        BY <1>0, <2>2, <3>1, <3>3 DEF Claims, Entitled
      <3> QED  BY <2>3, <3>4, GrantParts
    <2> QED  BY <1>8, <2>4, <2>5, <2>6
  <1>9. ASSUME NEW w \in Workers, NEW r \in Reqs, AwaitReady(w, r) PROVE GrantInv'
    <2>1. /\ pc[w] = "idle" /\ co[r] = "new" /\ at'[w] = r
          /\ \A v \in Workers : v # w => pc'[v] = pc[v] /\ at'[v] = at[v]
          /\ UNCHANGED <<queue, req_sta>>
      BY <1>0, <1>9, GotoFacts DEF AwaitReady, awaiterVars
    <2>2. \/ pc'[w] = "body" /\ tok'[r]
          \/ pc'[w] = "arm" /\ tok'[r] = tok[r]
      BY <1>0, <1>9, GotoFacts DEF AwaitReady, TypeOK
    <2>3. \A s \in Reqs : s # r => co'[s] = co[s] /\ tok'[s] = tok[s] /\ result'[s] = result[s]
      BY <1>0, <1>9 DEF AwaitReady, TypeOK
    <2>4. \A s \in Reqs : Backed(s)'
      BY <1>0, <2>1, <2>2, <2>3 DEF Backed, OnList
    <2>5. \A v \in Workers, s \in Reqs : Claims(v, s)' => Entitled(v, s)'
      <3> SUFFICES ASSUME NEW v \in Workers, NEW s \in Reqs, Claims(v, s)'
                   PROVE  Entitled(v, s)'
        OBVIOUS
      <3>1. CASE v = w
        BY <2>1, <2>2, <3>1 DEF Claims, Entitled
      <3>2. CASE v # w
        <4>1. Claims(v, s) /\ s # r
          BY <1>0, <2>1, <3>2 DEF Claims, ClaimInv
        <4> QED  BY <1>0, <2>1, <2>3, <3>2, <4>1 DEF Entitled
      <3> QED  BY <3>1, <3>2
    <2> QED  BY <2>4, <2>5, GrantParts
  <1>10. ASSUME NEW r \in Reqs, TimerFires(r) PROVE GrantInv'
    <2>1. queue' = MoveToTail(queue, Tm(r)) /\ UNCHANGED <<pc, at, req_sta, co, result, tok>>
      BY <1>10 DEF TimerFires, QueuePost
    <2>2. \A m : OnList(queue', m) => OnList(queue, m) \/ m = Tm(r)
      BY <1>0, <2>1, NodeFacts, PostedOnQueue
    <2>3. \A s \in Reqs : OnList(queue', Ev(s)) => OnList(queue, Ev(s))
      BY <2>2, NodeFacts
    <2>4. \A s \in Reqs : Backed(s)'
      BY <1>0, <2>1, <2>3 DEF Backed, OnList
    <2>5. \A v \in Workers, s \in Reqs : Claims(v, s)' => Entitled(v, s)'
      BY <1>0, <2>1 DEF Claims, Entitled
    <2> QED  BY <2>4, <2>5, GrantParts
  <1>11. ASSUME UNCHANGED vars PROVE GrantInv'
    <2>1. \A s \in Reqs : Backed(s)'
      BY <1>0, <1>11 DEF vars, awaiterVars, Backed, OnList
    <2>2. \A v \in Workers, s \in Reqs : Claims(v, s)' => Entitled(v, s)'
      BY <1>0, <1>11 DEF vars, awaiterVars, Claims, Entitled
    <2> QED  BY <2>1, <2>2, GrantParts
  <1> QED  BY <1>1, <1>2, <1>3, <1>4, <1>5, <1>6, <1>7, <1>8, <1>9, <1>10, <1>11, StepCases

-----------------------------------------------------------------------------
(* The tokens.                                                             *)

(* A token given for r comes out of the value.                              *)
LEMMA TokenTaken ==
    ASSUME TimeoutInv, NEW r \in Reqs,
           cur_val > 0, cur_val' = cur_val - 1, tok' = [tok EXCEPT ![r] = TRUE]
    PROVE  TokensNotDuplicated'
  <1>1. Holders' = Holders \cup {r}
    BY DEF Holders, TimeoutInv, TypeOK
  <1>2. Cardinality(Holders') <= Cardinality(Holders) + 1 /\ Cardinality(Holders') \in Nat
    <2>1. Cardinality(Holders \cup {r}) =
             IF r \in Holders THEN Cardinality(Holders) ELSE Cardinality(Holders) + 1
      BY HoldersFinite, FS_AddElement
    <2> QED  BY <1>1, <2>1, HoldersFinite
  <1>3. cur_val + Cardinality(Holders) <= InitVal
    BY DEF TimeoutInv, TokensNotDuplicated, Holders
  <1>4. cur_val \in Nat /\ InitVal \in Nat
    BY TimeoutAssumption DEF TimeoutInv, TypeOK
  <1>5. cur_val' + Cardinality(Holders') <= InitVal
    BY <1>2, <1>3, <1>4, HoldersFinite
  <1> QED  BY <1>5 DEF TokensNotDuplicated, Holders

(* No step makes a token.                                                   *)
LEMMA TokensStep == TimeoutInv /\ [Next]_vars => TokensNotDuplicated'
  <1> SUFFICES ASSUME TimeoutInv, [Next]_vars PROVE TokensNotDuplicated'
    OBVIOUS
  <1>0. /\ TypeOK /\ cur_val + Cardinality(Holders) <= InitVal
        /\ cur_val \in Nat /\ InitVal \in Nat /\ Cardinality(Holders) \in Nat
    BY TimeoutAssumption, HoldersFinite
       DEF TimeoutInv, TypeOK, TokensNotDuplicated, Holders
  <1>1. ASSUME UNCHANGED <<cur_val, tok>> PROVE TokensNotDuplicated'
    BY <1>1 DEF TimeoutInv, TokensNotDuplicated
  <1>2. ASSUME NEW w \in Workers, SuspendAcquire(w) PROVE TokensNotDuplicated'
    <2>1. at[w] \in Reqs
      BY <1>2, BusyAt DEF SuspendAcquire
    <2> QED  BY <1>1, <1>2, <2>1, TokenTaken DEF SuspendAcquire
  <1>3. ASSUME NEW w \in Workers, NEW r \in Reqs, AwaitReady(w, r)
        PROVE  TokensNotDuplicated'
    BY <1>1, <1>3, TokenTaken DEF AwaitReady
  <1>4. ASSUME NEW w \in Workers, BodyEnds(w) PROVE TokensNotDuplicated'
    <2>1. pc[w] = "body" /\ at[w] \in Reqs
      BY <1>4, BusyAt DEF BodyEnds
    <2>2. CASE ~ result[at[w]]
      BY <1>1, <1>4, <2>2 DEF BodyEnds
    <2>3. CASE result[at[w]]
      <3>1. tok[at[w]]
        BY <2>1, <2>3 DEF TimeoutInv, GrantInv, Claims
      <3>2. tok' = [tok EXCEPT ![at[w]] = FALSE] /\ cur_val' \in {cur_val, cur_val + 1}
        BY <1>4, <2>3 DEF BodyEnds
      <3>3. Holders' = Holders \ {at[w]} /\ at[w] \in Holders
        BY <1>0, <2>1, <3>1, <3>2 DEF Holders, TypeOK
      <3>4. Cardinality(Holders') = Cardinality(Holders) - 1
        BY <3>3, HoldersFinite, FS_RemoveElement
      <3>5. cur_val' + Cardinality(Holders') <= InitVal
        BY <1>0, <3>2, <3>4
      <3> QED  BY <3>5 DEF TokensNotDuplicated, Holders
    <2> QED  BY <2>2, <2>3
  <1>5. ASSUME NEW w \in Workers, SemChk(w) PROVE TokensNotDuplicated'
    <2>1. PICK S, n : Serves(S, n)
      BY <1>0, <1>5, ChkServes
    <2>2. /\ S \in SUBSET Reqs /\ IsFiniteSet(S) /\ Cardinality(S) <= n
          /\ n \in 0 .. cur_val /\ cur_val' = cur_val - n
          /\ tok' = [r \in Reqs |-> r \in S \/ tok[r]]
      BY <2>1 DEF Serves
    <2>3. Holders' = Holders \cup S
      BY <2>2 DEF Holders
    <2>4. /\ Cardinality(S) \in Nat /\ Cardinality(Holders \cap S) \in Nat
          /\ Cardinality(Holders \cup S) =
                Cardinality(Holders) + Cardinality(S) - Cardinality(Holders \cap S)
      BY <2>2, HoldersFinite, FS_Union, FS_Intersection, FS_CardinalityType
    <2>5. cur_val' + Cardinality(Holders') <= InitVal
      BY <1>0, <2>2, <2>3, <2>4
    <2> QED  BY <2>5 DEF TokensNotDuplicated, Holders
  <1>6. ASSUME NEW w \in Workers,
               SuspendArm(w) \/ CancelWaiter(w) \/ CancelTimer(w) \/ Resume(w)
        PROVE  TokensNotDuplicated'
    BY <1>1, <1>6 DEF SuspendArm, CancelWaiter, CancelTimer, Resume
  <1>7. ASSUME NEW w \in Workers, NEW r \in Reqs,
               TakeLoser(w, r) \/ OnTimer(w, r) \/ OnEvent(w, r)
        PROVE  TokensNotDuplicated'
    BY <1>1, <1>7 DEF TakeLoser, OnTimer, OnEvent
  <1>8. ASSUME NEW r \in Reqs, TimerFires(r) PROVE TokensNotDuplicated'
    BY <1>1, <1>8 DEF TimerFires
  <1>9. ASSUME UNCHANGED vars PROVE TokensNotDuplicated'
    BY <1>1, <1>9 DEF vars
  <1> QED  BY <1>2, <1>3, <1>4, <1>5, <1>6, <1>7, <1>8, <1>9, StepCases

-----------------------------------------------------------------------------
(* The theorem.                                                            *)

(* The initial states satisfy TimeoutInv.                                   *)
LEMMA TimeoutInit == Init => TimeoutInv
  <1> SUFFICES ASSUME Init PROVE TimeoutInv
    OBVIOUS
  <1>1. TypeOK
    <2>1. << >> \in Seq(Nodes) /\ << >> \in Seq(Reqs)
      BY EmptySeq
    <2> QED  BY <2>1, TimeoutAssumption DEF Init, TypeOK
  <1>2. ClaimInv /\ ResumedOnce
    BY DEF Init, ClaimInv, Claims, ResumedOnce
  <1>3. GrantInv
    BY DEF Init, GrantInv, Claims, OnList
  <1>4. TokensNotDuplicated
    <2>1. Holders = {}
      BY DEF Init, Holders
    <2>2. cur_val + Cardinality(Holders) <= InitVal
      BY <2>1, FS_EmptySet, TimeoutAssumption DEF Init
    <2> QED  BY <2>2 DEF TokensNotDuplicated, Holders
  <1> QED  BY <1>1, <1>2, <1>3, <1>4 DEF TimeoutInv

(* wait_sem_for is safe for any number of coroutines, workers and tokens:   *)
(* whichever of on_timer and the semaphore's grant comes first, the         *)
(* coroutine is resumed at most once, and a token that was granted while    *)
(* the timer fired is never handed to a second owner.                       *)
THEOREM TimeoutInvariant == Spec => []TimeoutInv
  <1>1. TimeoutInv /\ [Next]_vars => TimeoutInv'
    BY TypeStep, ClaimStep, GrantStep, TokensStep DEF TimeoutInv
  <1> QED  BY <1>1, TimeoutInit, PTL DEF Spec
=============================================================================
