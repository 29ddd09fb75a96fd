----------------------------- MODULE SerialProofs -----------------------------
(* The slot of one direction of a socket or file has one holder and passes  *)
(* in order, and the operations report what happened, for any number of     *)
(* operations and workers, whenever the socket is closed.                   *)
EXTENDS SerialIo, SequenceTheorems, FiniteSetTheorems, TLAPS

W == INSTANCE WorkQueueProofs WITH queue <- waiters, Nodes <- Ops

(* Appending an operation to the queue adds that operation.                 *)
LEMMA WaitersAppend ==
    ASSUME NEW q \in Seq(Ops), NEW o \in Ops
    PROVE  /\ Append(q, o) \in Seq(Ops)
           /\ Append(q, o) # << >>
           /\ \A m : L!OnList(Append(q, o), m) <=> L!OnList(q, m) \/ m = o
           /\ L!NoDuplicates(q) /\ ~ L!OnList(q, o) => L!NoDuplicates(Append(q, o))
  <1>1. /\ Append(q, o) \in Seq(Ops)
        /\ Append(q, o) # << >>
        /\ \A m : W!OnList(Append(q, o), m) <=> W!OnList(q, m) \/ m = o
        /\ W!NoDuplicates(q) /\ ~ W!OnList(q, o) => W!NoDuplicates(Append(q, o))
    BY W!AppendFacts
  <1>2. \A r, m : L!OnList(r, m) <=> W!OnList(r, m)
    BY DEF L!OnList, W!OnList
  <1>3. \A r : L!NoDuplicates(r) <=> W!NoDuplicates(r)
    BY DEF L!NoDuplicates, W!NoDuplicates
  <1> QED  BY <1>1, <1>2, <1>3

(* Taking the first takes that one.                                         *)
LEMMA WaitersTail ==
    ASSUME NEW q \in Seq(Ops), q # << >>
    PROVE  /\ Head(q) \in Ops /\ L!OnList(q, Head(q))
           /\ Tail(q) \in Seq(Ops)
           /\ \A m : L!OnList(q, m) <=> L!OnList(Tail(q), m) \/ m = Head(q)
           /\ L!NoDuplicates(q) => L!NoDuplicates(Tail(q)) /\ ~ L!OnList(Tail(q), Head(q))
  <1>1. /\ Head(q) \in Ops /\ W!OnList(q, Head(q))
        /\ Tail(q) \in Seq(Ops)
        /\ \A m : W!OnList(q, m) <=> W!OnList(Tail(q), m) \/ m = Head(q)
        /\ W!NoDuplicates(q) => W!NoDuplicates(Tail(q)) /\ ~ W!OnList(Tail(q), Head(q))
    BY W!TailFacts
  <1>2. \A r, m : L!OnList(r, m) <=> W!OnList(r, m)
    BY DEF L!OnList, W!OnList
  <1>3. \A r : L!NoDuplicates(r) <=> W!NoDuplicates(r)
    BY DEF L!NoDuplicates, W!NoDuplicates
  <1> QED  BY <1>1, <1>2, <1>3

(* The lists after a step, and the empty list.                              *)
LEMMA Lists ==
    /\ \A o : L!OnList(waiters, o)' <=> L!OnList(waiters', o)
    /\ \A o : L!OnList(pend, o)' <=> L!OnList(pend', o)
    /\ L!NoDuplicates(waiters)' <=> L!NoDuplicates(waiters')
    /\ L!NoDuplicates(pend)' <=> L!NoDuplicates(pend')
    /\ \A o : ~ L!OnList(<< >>, o)
    /\ L!NoDuplicates(<< >>)
  BY DEF L!OnList, L!NoDuplicates

(* A worker's attempt, whatever it returned.                                *)
Attempts(w) == \E r \in {0, -1, -2}, v \in {"minus", "zero", "count"} : Attempt(w, r, v)

(* Every step is one of these.                                              *)
LEMMA StepCases ==
    ASSUME [Next]_vars
    PROVE  \/ \E o \in Ops : AwaitSuspend(o) \/ ReactorEvent(o)
           \/ \E w \in Workers, o \in Ops : TakeCallback(w, o) \/ HandshakeSuspend(w, o)
           \/ \E w \in Workers : \/ Attempts(w) \/ RegisterWait(w) \/ SerialRelease(w)
                                 \/ PostNext(w) \/ ResumeCoroutine(w)
           \/ CloseRemove \/ CloseCollect \/ ClosePost
           \/ UNCHANGED vars
  BY DEF Next, WorkerStep, CloseStep, AttemptDone, AttemptBlocks, AttemptCrashes, Attempts

(* What the system calls of the awaiters may give: a count stays a count    *)
(* where counts add up, who makes one call and moved data is done, and a    *)
(* handshake moves no data.                                                 *)
LEMMA OutcomeFacts ==
    ASSUME TypeOK, NEW o \in Ops, NEW r, NEW v, <<r, v>> \in Outcomes(o)
    PROVE  /\ r \in {0, -1, -2} /\ v \in {"minus", "zero", "count"}
           /\ kind \in {"stream", "tls", "write"} /\ value[o] = "count" => v = "count"
           /\ kind \in {"recvfrom", "sendto", "read"} /\ v = "count" => r = 0
           /\ kind = "handshake" => v # "count"
           /\ kind # "tls" /\ kind # "handshake" => r # -2
  <1> USE DEF TypeOK
  <1>1. value[o] \in {"minus", "zero", "count"}
    OBVIOUS
  <1>2. CASE kind = "stream"
    BY <1>1, <1>2 DEF Outcomes, StreamAttempt
  <1>3. CASE kind = "tls"
    BY <1>1, <1>3 DEF Outcomes, TlsAttempt
  <1>4. CASE kind = "handshake"
    BY <1>1, <1>4 DEF Outcomes, HandshakeAttempt
  <1>5. CASE kind = "write"
    BY <1>1, <1>5 DEF Outcomes, WriteAttempt
  <1>6. CASE kind = "recvfrom"
    BY <1>6 DEF Outcomes, RecvFromAttempt, OneCall
  <1>7. CASE kind = "sendto"
    BY <1>7 DEF Outcomes, SendToAttempt, OneCall
  <1>8. CASE kind = "read"
    BY <1>8 DEF Outcomes, ReadAttempt, OneCall
  <1> QED
    BY <1>2, <1>3, <1>4, <1>5, <1>6, <1>7, <1>8, SerialAssumption

(* What an attempt changes.                                                 *)
LEMMA AttemptFacts ==
    ASSUME TypeOK, PlaceInv, NEW w \in Workers, Attempts(w)
    PROVE  \E r \in {0, -1, -2}, v \in {"minus", "zero", "count"} :
              /\ Attempt(w, r, v)
              /\ pc[w] = "attempt" /\ at[w] \in Ops /\ <<r, v>> \in Outcomes(at[w])
              /\ pc'[w] \in {"crashed", "register", "release", "resume"}
              /\ pc'[w] = "register" => r # 0
              /\ pc'[w] \in {"release", "resume"} <=> r = 0
              /\ pc'[w] = "release" => kind # "handshake"
              /\ \A u \in Workers : u # w => pc'[u] = pc[u]
              /\ at' = at
              /\ value' = [value EXCEPT ![at[w]] = v]
              /\ moved' = IF v = "count" THEN moved \cup {at[w]} ELSE moved
  <1>1. PICK r \in {0, -1, -2}, v \in {"minus", "zero", "count"} : Attempt(w, r, v)
    BY DEF Attempts
  <1>2. pc[w] = "attempt" /\ at[w] \in Ops /\ <<r, v>> \in Outcomes(at[w])
    BY <1>1 DEF Attempt, TypeOK, PlaceInv
  <1>3. /\ pc' = [pc EXCEPT ![w] = AfterAttempt(r)] /\ at' = [at EXCEPT ![w] = at[w]]
        /\ value' = [value EXCEPT ![at[w]] = v]
        /\ moved' = IF v = "count" THEN moved \cup {at[w]} ELSE moved
    BY <1>1 DEF Attempt, Goto
  <1>4. at' = at
    BY <1>3 DEF TypeOK
  <1>5. /\ r = 0 => AfterAttempt(r) = IF kind = "handshake" THEN "resume" ELSE "release"
        /\ r = -1 => AfterAttempt(r) = "register"
        /\ r = -2 => AfterAttempt(r) = "crashed"
    BY DEF AfterAttempt
  <1>6. pc'[w] = AfterAttempt(r) /\ \A u \in Workers : u # w => pc'[u] = pc[u]
    BY <1>3 DEF TypeOK
  <1> HIDE DEF Attempts
  <1> QED  BY <1>1, <1>2, <1>3, <1>4, <1>5, <1>6

-----------------------------------------------------------------------------
(* The types.                                                              *)

(* All variables have their types in the initial states.                    *)
LEMMA TypeInit == Init => TypeOK
  <1> SUFFICES ASSUME Init
               PROVE  TypeOK
    OBVIOUS
  <1>1. waiters \in Seq(Ops) /\ pend \in Seq(Ops)
    BY EmptySeq DEF Init
  <1>2. /\ kind \in Kinds /\ handshake_done \in BOOLEAN
        /\ value \in [Ops -> {"minus", "zero", "count"}]
        /\ result \in [Ops -> {"none", "minus", "zero", "count", "cancelled"}]
    BY DEF Init, InitialValue
  <1>3. /\ pc \in [Workers -> {"idle"}] /\ at \in [Workers -> {NoOp}]
        /\ next \in [Workers -> {NoOp}] /\ co \in [Ops -> {"new"}]
        /\ func \in [Ops -> {"none"}]
    BY DEF Init
  <1> QED  BY <1>1, <1>2, <1>3 DEF Init, TypeOK

(* What an operation reports has its type.                                  *)
LEMMA ReportType ==
    ASSUME TypeOK, NEW o \in Ops
    PROVE  Report(o) \in {"minus", "zero", "count", "cancelled"}
  BY DEF TypeOK, Report

(* Every step keeps the types.                                              *)
LEMMA TypeStep ==
    ASSUME TypeOK, PlaceInv, [Next]_vars
    PROVE  TypeOK'
  <1> USE DEF TypeOK, Goto, queueVars, closeVars, workerVars, dataVars
  <1>1. ASSUME NEW o \in Ops, AwaitSuspend(o)
        PROVE  TypeOK'
    <2>1. waiters' \in Seq(Ops)
      <3>1. waiters \in Seq(Ops) /\ Append(waiters, o) \in Seq(Ops)
        BY WaitersAppend
      <3>2. waiters' = waiters \/ waiters' = Append(waiters, o)
        BY <1>1 DEF AwaitSuspend, L!list_add_tail
      <3> QED  BY <3>1, <3>2
    <2>2. locked' \in BOOLEAN /\ posted' \subseteq Ops /\ slot' \subseteq Ops
      BY <1>1 DEF AwaitSuspend
    <2>3. /\ co' = [co EXCEPT ![o] = "suspended"] /\ func' = [func EXCEPT ![o] = "lock_acquired"]
          /\ UNCHANGED <<registered, closeVars, workerVars, dataVars>>
      BY <1>1 DEF AwaitSuspend
    <2> QED  BY <2>1, <2>2, <2>3
  <1>2. ASSUME NEW o \in Ops, ReactorEvent(o)
        PROVE  TypeOK'
    BY <1>2 DEF ReactorEvent
  <1>3. ASSUME NEW w \in Workers, NEW o \in Ops, TakeCallback(w, o)
        PROVE  TypeOK'
    BY <1>3 DEF TakeCallback
  <1>4. ASSUME NEW w \in Workers, NEW o \in Ops, HandshakeSuspend(w, o)
        PROVE  TypeOK'
    BY <1>4 DEF HandshakeSuspend
  <1>5. ASSUME NEW w \in Workers, Attempts(w)
        PROVE  TypeOK'
    <2>1. PICK r \in {0, -1, -2}, v \in {"minus", "zero", "count"} :
             /\ Attempt(w, r, v) /\ at[w] \in Ops /\ at' = at
             /\ AfterAttempt(r) \in {"crashed", "register", "release", "resume"}
      BY <1>5, AttemptFacts DEF AfterAttempt
    <2> QED  BY <2>1 DEF Attempt
  <1>6. ASSUME NEW w \in Workers, RegisterWait(w)
        PROVE  TypeOK'
    <2>1. at[w] \in Ops
      BY <1>6 DEF RegisterWait, PlaceInv
    <2> QED  BY <1>6, <2>1 DEF RegisterWait
  <1>7. ASSUME NEW w \in Workers, SerialRelease(w)
        PROVE  TypeOK'
    <2>1. CASE waiters # << >>
      <3>1. Head(waiters) \in Ops /\ Tail(waiters) \in Seq(Ops)
        BY <2>1, WaitersTail
      <3>2. /\ next' = [next EXCEPT ![w] = Head(waiters)] /\ waiters' = Tail(waiters)
            /\ slot' = (slot \ {at[w]}) \cup {Head(waiters)}
            /\ pc' = [pc EXCEPT ![w] = "postnext"] /\ at' = [at EXCEPT ![w] = at[w]]
            /\ UNCHANGED <<locked, func, posted, registered, closeVars, co, dataVars>>
        BY <1>7, <2>1 DEF SerialRelease
      <3> QED  BY <3>1, <3>2
    <2>2. CASE waiters = << >>
      <3>1. /\ locked' = FALSE /\ slot' = slot \ {at[w]}
            /\ pc' = [pc EXCEPT ![w] = "resume"] /\ at' = [at EXCEPT ![w] = at[w]]
            /\ UNCHANGED <<waiters, next, func, posted, registered, closeVars, co, dataVars>>
        BY <1>7, <2>2 DEF SerialRelease
      <3> QED  BY <3>1
    <2> QED  BY <2>1, <2>2
  <1>8. ASSUME NEW w \in Workers, PostNext(w)
        PROVE  TypeOK'
    <2>1. next[w] \in Ops
      BY <1>8 DEF PostNext, PlaceInv
    <2> QED  BY <1>8, <2>1 DEF PostNext
  <1>9. ASSUME NEW w \in Workers, ResumeCoroutine(w)
        PROVE  TypeOK'
    <2>1. at[w] \in Ops
      BY <1>9 DEF ResumeCoroutine, PlaceInv
    <2>2. Report(at[w]) \in {"minus", "zero", "count", "cancelled"}
      BY <2>1, ReportType
    <2> QED  BY <1>9, <2>1, <2>2 DEF ResumeCoroutine
  <1>10. CASE CloseRemove
    BY <1>10 DEF CloseRemove
  <1>11. CASE CloseCollect
    <2>1. << >> \in Seq(Ops)
      BY EmptySeq
    <2> QED  BY <1>11, <2>1 DEF CloseCollect
  <1>12. CASE ClosePost
    <2>1. << >> \in Seq(Ops)
      BY EmptySeq
    <2> QED  BY <1>12, <2>1 DEF ClosePost
  <1>13. CASE UNCHANGED vars
    BY <1>13 DEF vars
  <1> QED
    BY <1>1, <1>2, <1>3, <1>4, <1>5, <1>6, <1>7, <1>8, <1>9, <1>10, <1>11, <1>12, <1>13, StepCases

-----------------------------------------------------------------------------
(* Every suspended operation is in one place.                              *)

(* Nobody is suspended at the start.                                        *)
LEMMA PlaceInit == Init => PlaceInv
  <1> SUFFICES ASSUME Init
               PROVE  PlaceInv
    OBVIOUS
  <1>1. \A o \in Ops : ~ OnWorker(o) /\ ~ IsNext(o)
    BY SerialAssumption DEF Init, OnWorker, IsNext
  <1> QED  BY <1>1, Lists DEF Init, PlaceInv

(* Worker w has operation o now and is to post n.                           *)
WorkerHas(w, o, n) ==
    /\ \A v \in Workers : /\ pc'[v] = "idle" <=> at'[v] = NoOp
                          /\ pc'[v] = "postnext" <=> next'[v] # NoOp
    /\ \A u, v \in Workers : /\ at'[u] = at'[v] /\ at'[u] # NoOp => u = v
                             /\ next'[u] = next'[v] /\ next'[u] # NoOp => u = v
    /\ \A m \in Ops : OnWorker(m)' <=> m = o \/ (OnWorker(m) /\ m # at[w])
    /\ \A m \in Ops : IsNext(m)' <=> m = n \/ (IsNext(m) /\ m # next[w])

(* The places of the workers: what a step of one worker does to them.       *)
LEMMA WorkerMoves ==
    ASSUME TypeOK, PlaceInv, NEW w \in Workers, NEW p, NEW o \in Ops \cup {NoOp},
           NEW n \in Ops \cup {NoOp},
           pc' = [pc EXCEPT ![w] = p], at' = [at EXCEPT ![w] = o],
           next' = [next EXCEPT ![w] = n],
           p = "idle" <=> o = NoOp, p = "postnext" <=> n # NoOp,
           o = at[w] \/ o = NoOp \/ ~ OnWorker(o),
           n = NoOp \/ ~ IsNext(n)
    PROVE  WorkerHas(w, o, n)
  <1>1. /\ pc'[w] = p /\ at'[w] = o /\ next'[w] = n
        /\ \A v \in Workers : v # w => pc'[v] = pc[v] /\ at'[v] = at[v] /\ next'[v] = next[v]
    BY DEF TypeOK
  <1>2. /\ \A v \in Workers : at[v] = at[w] /\ at[w] # NoOp => v = w
        /\ \A v \in Workers : next[v] = next[w] /\ next[w] # NoOp => v = w
    BY DEF PlaceInv
  <1>3. /\ \A v \in Workers : v # w => o = NoOp \/ at[v] # o
        /\ \A v \in Workers : v # w => n = NoOp \/ next[v] # n
    BY <1>2 DEF OnWorker, IsNext
  <1>4. \A v \in Workers : /\ pc'[v] = "idle" <=> at'[v] = NoOp
                           /\ pc'[v] = "postnext" <=> next'[v] # NoOp
    BY <1>1 DEF PlaceInv
  <1>5. \A u, v \in Workers : /\ at'[u] = at'[v] /\ at'[u] # NoOp => u = v
                              /\ next'[u] = next'[v] /\ next'[u] # NoOp => u = v
    BY <1>1, <1>3 DEF PlaceInv
  <1>6. \A m \in Ops : OnWorker(m)' <=> m = o \/ (OnWorker(m) /\ m # at[w])
    BY <1>1, <1>2, SerialAssumption DEF OnWorker
  <1>7. \A m \in Ops : IsNext(m)' <=> m = n \/ (IsNext(m) /\ m # next[w])
    BY <1>1, <1>2, SerialAssumption DEF IsNext
  <1> QED  BY <1>4, <1>5, <1>6, <1>7 DEF WorkerHas

(* A step that leaves the workers alone.                                    *)
LEMMA WorkersStay ==
    ASSUME UNCHANGED <<pc, at, next>>, PlaceInv
    PROVE  /\ \A v \in Workers : /\ pc'[v] = "idle" <=> at'[v] = NoOp
                                 /\ pc'[v] = "postnext" <=> next'[v] # NoOp
           /\ \A u, v \in Workers : /\ at'[u] = at'[v] /\ at'[u] # NoOp => u = v
                                    /\ next'[u] = next'[v] /\ next'[u] # NoOp => u = v
           /\ \A m \in Ops : OnWorker(m)' <=> OnWorker(m)
           /\ \A m \in Ops : IsNext(m)' <=> IsNext(m)
  BY DEF PlaceInv, OnWorker, IsNext

(* An operation goes from one place to the next and is never in two.        *)
LEMMA PlaceStep ==
    ASSUME TypeOK, PlaceInv, HolderInv, [Next]_vars
    PROVE  PlaceInv'
  <1> USE DEF TypeOK, Goto, queueVars, closeVars, workerVars, dataVars
  <1>1. ASSUME NEW o \in Ops, AwaitSuspend(o)
        PROVE  PlaceInv'
    <2>1. /\ ~ L!OnList(waiters, o) /\ ~ L!OnList(pend, o) /\ o \notin posted \cup registered
          /\ ~ OnWorker(o) /\ ~ IsNext(o)
      BY <1>1 DEF AwaitSuspend, PlaceInv
    <2>2. /\ co'[o] = "suspended" /\ \A m \in Ops : m # o => co'[m] = co[m]
          /\ UNCHANGED <<registered, pend, pc, at, next>>
      BY <1>1 DEF AwaitSuspend
    <2>3. CASE posted' = posted \cup {o} /\ UNCHANGED waiters
      BY <2>1, <2>2, <2>3, Lists, WorkersStay DEF PlaceInv
    <2>4. CASE waiters' = Append(waiters, o) /\ UNCHANGED posted
      <3>1. /\ \A m : L!OnList(waiters', m) <=> L!OnList(waiters, m) \/ m = o
            /\ L!NoDuplicates(waiters')
        BY <2>1, <2>4, WaitersAppend DEF PlaceInv
      <3> QED  BY <2>1, <2>2, <2>4, <3>1, Lists, WorkersStay DEF PlaceInv
    <2> QED  BY <1>1, <2>3, <2>4 DEF AwaitSuspend, L!list_add_tail
  <1>2. ASSUME NEW o \in Ops, ReactorEvent(o)
        PROVE  PlaceInv'
    <2>1. /\ o \in registered /\ registered' = registered \ {o} /\ posted' = posted \cup {o}
          /\ UNCHANGED <<waiters, pend, pc, at, next, co>>
      BY <1>2 DEF ReactorEvent
    <2> QED  BY <2>1, Lists, WorkersStay DEF PlaceInv
  <1>3. ASSUME NEW w \in Workers, NEW o \in Ops, TakeCallback(w, o)
        PROVE  PlaceInv'
    <2>1. /\ pc[w] = "idle" /\ o \in posted /\ posted' = posted \ {o}
          /\ at' = [at EXCEPT ![w] = o]
          /\ UNCHANGED <<waiters, pend, registered, next, co>>
      BY <1>3 DEF TakeCallback
    <2>2. PICK p \in {"resume", "attempt"} : pc' = [pc EXCEPT ![w] = p]
      BY <1>3 DEF TakeCallback
    <2>3. at[w] = NoOp /\ next[w] = NoOp /\ ~ OnWorker(o) /\ ~ IsNext(o)
      BY <2>1 DEF PlaceInv
    <2>4. next' = [next EXCEPT ![w] = NoOp]
      BY <2>1, <2>3
    <2>5. WorkerHas(w, o, NoOp)
      BY <2>1, <2>2, <2>3, <2>4, WorkerMoves, SerialAssumption
    <2> QED  BY <2>1, <2>3, <2>5, Lists, SerialAssumption DEF PlaceInv, WorkerHas
  <1>4. ASSUME NEW w \in Workers, NEW o \in Ops, HandshakeSuspend(w, o)
        PROVE  PlaceInv'
    <2>1. /\ ~ L!OnList(waiters, o) /\ ~ L!OnList(pend, o) /\ o \notin posted \cup registered
          /\ ~ OnWorker(o) /\ ~ IsNext(o)
      BY <1>4 DEF HandshakeSuspend, PlaceInv
    <2>2. CASE handshake_done
      <3>1. /\ co[o] = "new" /\ co'[o] = "resumed" /\ \A m \in Ops : m # o => co'[m] = co[m]
            /\ UNCHANGED <<waiters, posted, registered, pend, pc, at, next>>
        BY <1>4, <2>2 DEF HandshakeSuspend
      <3> QED  BY <2>1, <3>1, Lists, WorkersStay DEF PlaceInv
    <2>3. CASE ~ handshake_done
      <3>1. /\ pc[w] = "idle" /\ co'[o] = "suspended" /\ \A m \in Ops : m # o => co'[m] = co[m]
            /\ pc' = [pc EXCEPT ![w] = "attempt"] /\ at' = [at EXCEPT ![w] = o]
            /\ UNCHANGED <<waiters, posted, registered, pend, next>>
        BY <1>4, <2>3 DEF HandshakeSuspend
      <3>2. at[w] = NoOp /\ next[w] = NoOp
        BY <3>1 DEF PlaceInv
      <3>3. next' = [next EXCEPT ![w] = NoOp]
        BY <3>1, <3>2
      <3>4. WorkerHas(w, o, NoOp)
        BY <2>1, <3>1, <3>2, <3>3, WorkerMoves, SerialAssumption
      <3> QED  BY <2>1, <3>1, <3>2, <3>4, Lists, SerialAssumption DEF PlaceInv, WorkerHas
    <2> QED  BY <2>2, <2>3
  <1>5. ASSUME NEW w \in Workers, Attempts(w)
        PROVE  PlaceInv'
    <2>1. /\ pc[w] = "attempt" /\ at' = at
          /\ \A v \in Workers : /\ pc'[v] = "idle" <=> pc[v] = "idle"
                                /\ pc'[v] = "postnext" <=> pc[v] = "postnext"
      BY <1>5, AttemptFacts
    <2>2. UNCHANGED <<waiters, posted, registered, pend, next, co>>
      BY <1>5 DEF Attempts, Attempt
    <2>3. \A m \in Ops : (OnWorker(m)' <=> OnWorker(m)) /\ (IsNext(m)' <=> IsNext(m))
      BY <2>1, <2>2 DEF OnWorker, IsNext
    <2> QED  BY <2>1, <2>2, <2>3, Lists DEF PlaceInv
  <1>6. ASSUME NEW w \in Workers, RegisterWait(w)
        PROVE  PlaceInv'
    <2>1. /\ pc[w] = "register" /\ registered' = registered \cup {at[w]}
          /\ pc' = [pc EXCEPT ![w] = "idle"] /\ at' = [at EXCEPT ![w] = NoOp]
          /\ UNCHANGED <<waiters, pend, posted, next, co>>
      BY <1>6 DEF RegisterWait
    <2>2. at[w] \in Ops /\ next[w] = NoOp /\ OnWorker(at[w])
      BY <2>1 DEF PlaceInv, OnWorker
    <2>3. next' = [next EXCEPT ![w] = NoOp]
      BY <2>1, <2>2
    <2>4. WorkerHas(w, NoOp, NoOp)
      BY <2>1, <2>2, <2>3, WorkerMoves, SerialAssumption
    <2> QED  BY <2>1, <2>2, <2>4, Lists, SerialAssumption DEF PlaceInv, WorkerHas
  <1>7. ASSUME NEW w \in Workers, SerialRelease(w)
        PROVE  PlaceInv'
    <2>1. /\ pc[w] = "release" /\ at' = [at EXCEPT ![w] = at[w]]
          /\ UNCHANGED <<pend, posted, registered, co>>
      BY <1>7 DEF SerialRelease
    <2>2. at[w] \in Ops /\ next[w] = NoOp /\ OnWorker(at[w])
      BY <2>1 DEF PlaceInv, OnWorker
    <2>3. CASE waiters # << >>
      <3> DEFINE h == Head(waiters)
      <3>1. /\ next' = [next EXCEPT ![w] = h] /\ waiters' = Tail(waiters)
            /\ pc' = [pc EXCEPT ![w] = "postnext"]
        BY <1>7, <2>3 DEF SerialRelease
      <3>2. /\ h \in Ops /\ L!OnList(waiters, h)
            /\ \A m : L!OnList(waiters, m) <=> L!OnList(waiters', m) \/ m = h
            /\ L!NoDuplicates(waiters') /\ ~ L!OnList(waiters', h)
        BY <2>3, <3>1, WaitersTail DEF PlaceInv
      <3> HIDE DEF h
      <3>3. h # NoOp /\ ~ IsNext(h)
        BY <3>2, SerialAssumption DEF PlaceInv
      <3>4. WorkerHas(w, at[w], h)
        BY <2>1, <2>2, <3>1, <3>2, <3>3, WorkerMoves, SerialAssumption
      <3> QED  BY <2>1, <2>2, <3>2, <3>4, Lists, SerialAssumption DEF PlaceInv, WorkerHas
    <2>4. CASE waiters = << >>
      <3>1. /\ UNCHANGED <<next, waiters>> /\ pc' = [pc EXCEPT ![w] = "resume"]
        BY <1>7, <2>4 DEF SerialRelease
      <3>2. next' = [next EXCEPT ![w] = NoOp]
        BY <2>2, <3>1
      <3>3. WorkerHas(w, at[w], NoOp)
        BY <2>1, <2>2, <3>1, <3>2, WorkerMoves, SerialAssumption
      <3> QED  BY <2>1, <2>2, <3>1, <3>3, Lists, SerialAssumption DEF PlaceInv, WorkerHas
    <2> QED  BY <2>3, <2>4
  <1>8. ASSUME NEW w \in Workers, PostNext(w)
        PROVE  PlaceInv'
    <2>1. /\ pc[w] = "postnext" /\ posted' = posted \cup {next[w]}
          /\ pc' = [pc EXCEPT ![w] = "resume"] /\ at' = [at EXCEPT ![w] = at[w]]
          /\ next' = [next EXCEPT ![w] = NoOp]
          /\ UNCHANGED <<waiters, pend, registered, co>>
      BY <1>8 DEF PostNext
    <2>2. at[w] \in Ops /\ next[w] \in Ops /\ OnWorker(at[w]) /\ IsNext(next[w])
      BY <2>1 DEF PlaceInv, OnWorker, IsNext
    <2>3. WorkerHas(w, at[w], NoOp)
      BY <2>1, <2>2, WorkerMoves, SerialAssumption
    <2> QED  BY <2>1, <2>2, <2>3, Lists, SerialAssumption DEF PlaceInv, WorkerHas
  <1>9. ASSUME NEW w \in Workers, ResumeCoroutine(w)
        PROVE  PlaceInv'
    <2>1. /\ pc[w] = "resume" /\ co' = [co EXCEPT ![at[w]] = "resumed"]
          /\ pc' = [pc EXCEPT ![w] = "idle"] /\ at' = [at EXCEPT ![w] = NoOp]
          /\ UNCHANGED <<waiters, pend, posted, registered, next>>
      BY <1>9 DEF ResumeCoroutine
    <2>2. at[w] \in Ops /\ next[w] = NoOp /\ OnWorker(at[w])
      BY <2>1 DEF PlaceInv, OnWorker
    <2>3. /\ next' = [next EXCEPT ![w] = NoOp] /\ co'[at[w]] = "resumed"
          /\ \A m \in Ops : m # at[w] => co'[m] = co[m]
      BY <2>1, <2>2
    <2>4. WorkerHas(w, NoOp, NoOp)
      BY <2>1, <2>2, <2>3, WorkerMoves, SerialAssumption
    <2> QED  BY <2>1, <2>2, <2>3, <2>4, Lists, SerialAssumption DEF PlaceInv, WorkerHas
  <1>10. CASE CloseRemove
    <2>1. /\ posted' = posted \cup registered /\ registered' = {}
          /\ UNCHANGED <<waiters, pend, pc, at, next, co>>
      BY <1>10 DEF CloseRemove
    <2> QED  BY <2>1, Lists, WorkersStay DEF PlaceInv
  <1>11. CASE CloseCollect
    <2>1. pend = << >> /\ UNCHANGED <<posted, registered, pc, at, next, co>>
      BY <1>11 DEF CloseCollect, HolderInv
    <2>2. \/ pend' = waiters /\ waiters' = << >>
          \/ UNCHANGED <<waiters, pend>>
      BY <1>11 DEF CloseCollect
    <2> QED  BY <2>1, <2>2, Lists, WorkersStay DEF PlaceInv
  <1>12. CASE ClosePost
    <2>1. /\ posted' = posted \cup { o \in Ops : L!OnList(pend, o) } /\ pend' = << >>
          /\ UNCHANGED <<waiters, registered, pc, at, next, co>>
      BY <1>12 DEF ClosePost
    <2> QED  BY <2>1, Lists, WorkersStay DEF PlaceInv
  <1>13. CASE UNCHANGED vars
    <2>1. UNCHANGED <<waiters, pend, posted, registered, pc, at, next, co>>
      BY <1>13 DEF vars
    <2> QED  BY <2>1, Lists, WorkersStay DEF PlaceInv
  <1> QED
    BY <1>1, <1>2, <1>3, <1>4, <1>5, <1>6, <1>7, <1>8, <1>9, <1>10, <1>11, <1>12, <1>13, StepCases

(* The counting form: a suspended operation is in exactly one place.        *)
LEMMA PlacesCounted == TypeOK /\ PlaceInv => InOnePlace
  <1> SUFFICES ASSUME TypeOK, PlaceInv, NEW o \in Ops
               PROVE  Cardinality(Places(o)) = IF co[o] = "suspended" THEN 1 ELSE 0
    BY DEF InOnePlace
  <1>1. CASE co[o] # "suspended"
    <2>1. /\ \A i \in DOMAIN waiters : waiters[i] # o
          /\ \A i \in DOMAIN pend : pend[i] # o
          /\ \A w \in Workers : at[w] # o /\ next[w] # o
          /\ o \notin posted /\ o \notin registered
      BY <1>1 DEF PlaceInv, OnWorker, IsNext, L!OnList
    <2>2. Places(o) = {}
      BY <2>1 DEF Places
    <2> QED  BY <1>1, <2>2, FS_EmptySet
  <1>2. ASSUME co[o] = "suspended", NEW k \in DOMAIN waiters, waiters[k] = o
        PROVE  Cardinality(Places(o)) = 1
    <2>1. /\ \A i \in DOMAIN waiters : waiters[i] = o => i = k
          /\ \A i \in DOMAIN pend : pend[i] # o
          /\ \A w \in Workers : at[w] # o /\ next[w] # o
          /\ o \notin posted /\ o \notin registered
      BY <1>2 DEF PlaceInv, OnWorker, IsNext, L!OnList, L!NoDuplicates
    <2>2. Places(o) = {<<"waiting", k>>}
      BY <1>2, <2>1 DEF Places
    <2> QED  BY <2>2, FS_Singleton
  <1>3. ASSUME co[o] = "suspended", NEW k \in DOMAIN pend, pend[k] = o
        PROVE  Cardinality(Places(o)) = 1
    <2>1. /\ \A i \in DOMAIN pend : pend[i] = o => i = k
          /\ \A i \in DOMAIN waiters : waiters[i] # o
          /\ \A w \in Workers : at[w] # o /\ next[w] # o
          /\ o \notin posted /\ o \notin registered
      BY <1>3 DEF PlaceInv, OnWorker, IsNext, L!OnList, L!NoDuplicates
    <2>2. Places(o) = {<<"pending", k>>}
      BY <1>3, <2>1 DEF Places
    <2> QED  BY <2>2, FS_Singleton
  <1>4. ASSUME co[o] = "suspended", NEW w \in Workers, at[w] = o
        PROVE  Cardinality(Places(o)) = 1
    <2>1. /\ \A i \in DOMAIN waiters : waiters[i] # o
          /\ \A i \in DOMAIN pend : pend[i] # o
          /\ \A v \in Workers : (at[v] = o => v = w) /\ next[v] # o
          /\ o \notin posted /\ o \notin registered
      BY <1>4, SerialAssumption DEF PlaceInv, OnWorker, IsNext, L!OnList
    <2>2. Places(o) = {<<"worker", w>>}
      BY <1>4, <2>1 DEF Places
    <2> QED  BY <2>2, FS_Singleton
  <1>5. ASSUME co[o] = "suspended", NEW w \in Workers, next[w] = o
        PROVE  Cardinality(Places(o)) = 1
    <2>1. /\ \A i \in DOMAIN waiters : waiters[i] # o
          /\ \A i \in DOMAIN pend : pend[i] # o
          /\ \A v \in Workers : (next[v] = o => v = w) /\ at[v] # o
          /\ o \notin posted /\ o \notin registered
      BY <1>5, SerialAssumption DEF PlaceInv, OnWorker, IsNext, L!OnList
    <2>2. Places(o) = {<<"next", w>>}
      BY <1>5, <2>1 DEF Places
    <2> QED  BY <2>2, FS_Singleton
  <1>6. ASSUME co[o] = "suspended", o \in posted \cup registered
        PROVE  Cardinality(Places(o)) = 1
    <2>1. /\ \A i \in DOMAIN waiters : waiters[i] # o
          /\ \A i \in DOMAIN pend : pend[i] # o
          /\ \A v \in Workers : next[v] # o /\ at[v] # o
          /\ o \in posted <=> o \notin registered
      BY <1>6 DEF PlaceInv, OnWorker, IsNext, L!OnList
    <2>2. Places(o) = {<<"posted", o>>} \/ Places(o) = {<<"registered", o>>}
      BY <2>1 DEF Places
    <2> QED  BY <2>2, FS_Singleton
  <1> QED
    BY <1>1, <1>2, <1>3, <1>4, <1>5, <1>6 DEF PlaceInv, OnWorker, IsNext, L!OnList

-----------------------------------------------------------------------------
(* The slot.                                                               *)

(* At the start nobody has the slot and nobody waits.                       *)
LEMMA HolderInit == Init => HolderInv /\ SlotExclusive /\ WaitersHaveHolder
  <1> SUFFICES ASSUME Init
               PROVE  HolderInv /\ SlotExclusive /\ WaitersHaveHolder
    OBVIOUS
  <1>1. \A o \in Ops : ~ HasTurn(o)
    BY SerialAssumption DEF Init, HasTurn, IsNext
  <1> QED  BY <1>1 DEF Init, HolderInv, SlotExclusive, WaitersHaveHolder

(* Those who have a turn after a step: no one gets it but who held the slot *)
(* before or is given it by the step.                                       *)
LEMMA TurnStep ==
    ASSUME TypeOK, PlaceInv, HolderInv, [Next]_vars, kind # "handshake",
           NEW o \in Ops, HasTurn(o)'
    PROVE  o \in slot'
  <1> USE DEF TypeOK, Goto, queueVars, closeVars, workerVars, dataVars
  <1>1. ASSUME NEW p \in Ops, AwaitSuspend(p)
        PROVE  o \in slot'
    <2>1. /\ UNCHANGED <<registered, pc, at, next>>
          /\ \A q \in Ops : q # p => func'[q] = func[q]
          /\ \/ UNCHANGED <<posted, slot>>
             \/ posted' = posted \cup {p} /\ slot' = slot \cup {p}
      BY <1>1 DEF AwaitSuspend
    <2>2. p \notin posted
      BY <1>1 DEF AwaitSuspend, PlaceInv
    <2>3. HasTurn(o) \/ (o = p /\ o \in posted')
      BY <2>1, <2>2 DEF HasTurn, IsNext
    <2> QED  BY <2>1, <2>2, <2>3 DEF HolderInv
  <1>2. CASE \E p \in Ops : ReactorEvent(p)
    BY <1>2 DEF ReactorEvent, HasTurn, IsNext, HolderInv
  <1>3. CASE \E w \in Workers, p \in Ops : TakeCallback(w, p) \/ HandshakeSuspend(w, p)
    BY <1>3 DEF TakeCallback, HandshakeSuspend, HasTurn, IsNext, HolderInv
  <1>4. ASSUME NEW w \in Workers, Attempts(w)
        PROVE  o \in slot'
    <2>1. /\ pc[w] = "attempt" /\ at' = at /\ \A u \in Workers : u # w => pc'[u] = pc[u]
          /\ UNCHANGED <<registered, posted, func, next, slot>>
      BY <1>4, AttemptFacts DEF Attempts, Attempt
    <2> QED  BY <2>1 DEF HasTurn, IsNext, HolderInv
  <1>5. ASSUME NEW w \in Workers, RegisterWait(w)
        PROVE  o \in slot'
    <2>1. at[w] \in Ops /\ at[w] \in slot
      BY <1>5 DEF RegisterWait, PlaceInv, HolderInv, HasTurn
    <2>2. o \notin posted \/ o # at[w]
      BY <1>5, <2>1 DEF PlaceInv, OnWorker
    <2> QED  BY <1>5, <2>1, <2>2 DEF RegisterWait, HasTurn, IsNext, HolderInv
  <1>6. ASSUME NEW w \in Workers, SerialRelease(w)
        PROVE  o \in slot'
    <2>1. /\ pc[w] = "release" /\ at' = at /\ UNCHANGED <<func, posted, registered>>
          /\ pc'[w] \in {"postnext", "resume"} /\ \A v \in Workers : v # w => pc'[v] = pc[v]
          /\ \A p \in slot : p # at[w] => p \in slot'
      BY <1>6 DEF SerialRelease
    <2>2. \/ next' = next
          \/ /\ next'[w] \in slot' /\ \A v \in Workers : v # w => next'[v] = next[v]
      BY <1>6 DEF SerialRelease
    <2>3. at[w] \in Ops
      BY <2>1 DEF PlaceInv
    <2>4. CASE o = at[w]
      <3>1. /\ o \notin registered /\ o \notin posted
            /\ \A v \in Workers : next[v] # o /\ (at[v] = o => v = w)
        BY <2>3, <2>4, SerialAssumption DEF PlaceInv, OnWorker, IsNext
      <3> QED  BY <2>1, <2>2, <3>1 DEF HasTurn, IsNext
    <2>5. CASE o # at[w]
      BY <2>1, <2>2, <2>5 DEF HasTurn, IsNext, HolderInv
    <2> QED  BY <2>4, <2>5
  <1>7. ASSUME NEW w \in Workers, PostNext(w)
        PROVE  o \in slot'
    <2>1. /\ posted' = posted \cup {next[w]} /\ next'[w] = NoOp
          /\ pc'[w] = "resume" /\ at' = at /\ UNCHANGED <<func, registered, slot>>
          /\ \A v \in Workers : v # w => pc'[v] = pc[v] /\ next'[v] = next[v]
      BY <1>7 DEF PostNext
    <2>2. HasTurn(o)
      BY <2>1, SerialAssumption DEF HasTurn, IsNext
    <2> QED  BY <2>1, <2>2 DEF HolderInv
  <1>8. ASSUME NEW w \in Workers, ResumeCoroutine(w)
        PROVE  o \in slot'
    <2>1. at[w] \in Ops
      BY <1>8 DEF ResumeCoroutine, PlaceInv
    <2> QED  BY <1>8, <2>1 DEF ResumeCoroutine, HasTurn, IsNext, HolderInv
  <1>9. CASE CloseRemove \/ CloseCollect
    BY <1>9 DEF CloseRemove, CloseCollect, HasTurn, IsNext, HolderInv
  <1>10. CASE ClosePost
    BY <1>10 DEF ClosePost, HasTurn, IsNext, HolderInv
  <1>11. CASE UNCHANGED vars
    BY <1>11 DEF vars, HasTurn, IsNext, HolderInv
  <1> QED
    BY <1>1, <1>2, <1>3, <1>4, <1>5, <1>6, <1>7, <1>8, <1>9, <1>10, <1>11, StepCases

(* The slot passes from one operation to the next or becomes free.          *)
LEMMA HolderStep ==
    ASSUME TypeOK, PlaceInv, HolderInv, SlotExclusive, WaitersHaveHolder, [Next]_vars
    PROVE  (HolderInv /\ SlotExclusive /\ WaitersHaveHolder)'
  <1> USE DEF TypeOK, Goto, queueVars, closeVars, workerVars, dataVars
  <1> DEFINE Lock == /\ locked => slot # {}
                     /\ closePc \in {"no", "collect"} => pend = << >> /\ (slot # {} => locked)
                     /\ closePc # "no" => removed
             Rest == Lock /\ SlotExclusive /\ WaitersHaveHolder
  <1>1. kind' = kind
    BY StepCases DEF AwaitSuspend, ReactorEvent, TakeCallback, HandshakeSuspend, Attempts, Attempt,
       RegisterWait, SerialRelease, PostNext, ResumeCoroutine, CloseRemove, CloseCollect, ClosePost,
       vars
  <1>2. kind' # "handshake" => \A o \in Ops : HasTurn(o)' => o \in slot'
    BY <1>1, TurnStep
  <1>3. \A w \in Workers : pc'[w] = "release" => kind' # "handshake"
    <2>1. ASSUME NEW w \in Workers, Attempts(w)
          PROVE  \A v \in Workers : pc'[v] = "release" => kind # "handshake"
      BY <2>1, AttemptFacts DEF HolderInv
    <2>2. ASSUME NEW w \in Workers, \E o \in Ops : TakeCallback(w, o) \/ HandshakeSuspend(w, o)
          PROVE  \A v \in Workers : pc'[v] = "release" => pc[v] = "release"
      BY <2>2 DEF TakeCallback, HandshakeSuspend
    <2>3. ASSUME NEW w \in Workers,
                 RegisterWait(w) \/ SerialRelease(w) \/ PostNext(w) \/ ResumeCoroutine(w)
          PROVE  \A v \in Workers : pc'[v] = "release" => pc[v] = "release"
      BY <2>3 DEF RegisterWait, SerialRelease, PostNext, ResumeCoroutine
    <2>4. CASE CloseRemove \/ CloseCollect \/ ClosePost \/ UNCHANGED vars
                 \/ \E o \in Ops : AwaitSuspend(o) \/ ReactorEvent(o)
      BY <2>4 DEF CloseRemove, CloseCollect, ClosePost, AwaitSuspend, ReactorEvent, vars, HolderInv
    <2> QED  BY <1>1, <2>1, <2>2, <2>3, <2>4, StepCases DEF HolderInv
  <1>4. Rest'
    <2> USE DEF HolderInv, SlotExclusive, WaitersHaveHolder
    <2>1. ASSUME NEW o \in Ops, AwaitSuspend(o)
          PROVE  Rest'
      <3>1. UNCHANGED <<closePc, pend, removed>>
        BY <2>1 DEF AwaitSuspend
      <3>2. CASE ~ locked /\ waiters = << >>
        <4>1. locked' = TRUE /\ slot' = slot \cup {o} /\ waiters' = waiters
          BY <2>1, <3>2 DEF AwaitSuspend
        <4> QED  BY <3>1, <3>2, <4>1
      <3>3. CASE locked \/ waiters # << >>
        <4>1. UNCHANGED <<locked, slot>>
          BY <2>1, <3>3 DEF AwaitSuspend
        <4> QED  BY <3>1, <3>3, <4>1
      <3> QED  BY <3>2, <3>3
    <2>2. ASSUME UNCHANGED <<waiters, locked, slot, closePc, pend, removed>>
          PROVE  Rest'
      BY <2>2
    <2>3. CASE \/ UNCHANGED vars \/ \E o \in Ops : ReactorEvent(o)
               \/ \E w \in Workers, o \in Ops : TakeCallback(w, o) \/ HandshakeSuspend(w, o)
               \/ \E w \in Workers : \/ Attempts(w) \/ RegisterWait(w)
                                     \/ PostNext(w) \/ ResumeCoroutine(w)
      <3>1. UNCHANGED <<waiters, locked, slot, closePc, pend, removed>>
        BY <2>3 DEF ReactorEvent, TakeCallback, HandshakeSuspend, Attempts, Attempt, RegisterWait,
           PostNext, ResumeCoroutine, vars
      <3> QED  BY <2>2, <3>1
    <2>4. ASSUME NEW w \in Workers, SerialRelease(w)
          PROVE  Rest'
      <3>1. pc[w] = "release" /\ at[w] \in Ops /\ at[w] \in slot
        BY <2>4 DEF SerialRelease, PlaceInv, HasTurn
      <3>2. UNCHANGED <<closePc, pend, removed>>
        BY <2>4 DEF SerialRelease
      <3>3. CASE waiters # << >>
        <4>1. /\ slot' = (slot \ {at[w]}) \cup {Head(waiters)} /\ locked' = locked
          BY <2>4, <3>3 DEF SerialRelease
        <4> QED  BY <3>1, <3>2, <3>3, <4>1
      <3>4. CASE waiters = << >>
        <4>1. locked' = FALSE /\ slot' = slot \ {at[w]} /\ waiters' = waiters
          BY <2>4, <3>4 DEF SerialRelease
        <4> QED  BY <3>1, <3>2, <3>4, <4>1
      <3> QED  BY <3>3, <3>4
    <2>5. CASE CloseRemove
      BY <2>5 DEF CloseRemove
    <2>6. CASE CloseCollect
      BY <2>6 DEF CloseCollect
    <2>7. CASE ClosePost
      BY <2>7 DEF ClosePost
    <2> QED  BY <2>1, <2>3, <2>4, <2>5, <2>6, <2>7, StepCases
  <1> QED  BY <1>2, <1>3, <1>4 DEF HolderInv

-----------------------------------------------------------------------------
(* The reports.                                                            *)

(* At the start no operation has made a call.                               *)
LEMMA ReportInit == Init => ReportInv /\ ReportsAreTrue
  BY DEF Init, ReportInv, ReportsAreTrue

(* A count stays; an operation that is done makes no more calls.            *)
LEMMA ReportStep ==
    ASSUME TypeOK, PlaceInv, HolderInv, ReportInv, [Next]_vars
    PROVE  ReportInv'
  <1> USE DEF TypeOK, Goto, queueVars, closeVars, workerVars, dataVars
  <1>1. ASSUME NEW o \in Ops, AwaitSuspend(o)
        PROVE  ReportInv'
    <2>1. /\ co[o] = "new" /\ co'[o] = "suspended" /\ \A m \in Ops : m # o => co'[m] = co[m]
          /\ \A m \in Ops : m # o => func'[m] = func[m]
          /\ \A m \in posted : m \in posted'
          /\ UNCHANGED <<kind, value, moved, collected, removed, pend, pc, at>>
      BY <1>1 DEF AwaitSuspend
    <2>2. \A m \in Ops : L!OnList(waiters', m) => L!OnList(waiters, m) \/ m = o
      <3>1. waiters' = waiters \/ waiters' = Append(waiters, o)
        BY <1>1 DEF AwaitSuspend, L!list_add_tail
      <3>2. waiters \in Seq(Ops)
        OBVIOUS
      <3> QED  BY <3>1, <3>2, WaitersAppend
    <2>3. o \notin posted /\ ~ L!OnList(pend, o)
      BY <2>1 DEF PlaceInv
    <2> QED  BY <2>1, <2>2, <2>3, Lists DEF ReportInv
  <1>2. ASSUME NEW o \in Ops, ReactorEvent(o)
        PROVE  ReportInv'
    <2>1. /\ posted' = posted \cup {o}
          /\ UNCHANGED <<waiters, func, co, kind, value, moved, collected, removed, pend, pc, at>>
      BY <1>2 DEF ReactorEvent
    <2> QED  BY <2>1, Lists DEF ReportInv
  <1>3. ASSUME NEW w \in Workers, NEW o \in Ops, TakeCallback(w, o)
        PROVE  ReportInv'
    <2>1. /\ pc[w] = "idle" /\ posted' = posted \ {o} /\ at'[w] = o
          /\ func[o] = "resume" => pc'[w] = "resume"
          /\ \A v \in Workers : v # w => pc'[v] = pc[v] /\ at'[v] = at[v]
          /\ UNCHANGED <<waiters, func, co, kind, value, moved, collected, removed, pend>>
      BY <1>3 DEF TakeCallback
    <2> QED  BY <2>1, Lists DEF ReportInv
  <1>4. ASSUME NEW w \in Workers, NEW o \in Ops, HandshakeSuspend(w, o)
        PROVE  ReportInv'
    <2>1. /\ kind = "handshake" /\ pc[w] = "idle" /\ co[o] = "new"
          /\ co'[o] # "new" /\ \A m \in Ops : m # o => co'[m] = co[m]
          /\ \A v \in Workers : v # w => pc'[v] = pc[v] /\ at'[v] = at[v]
          /\ UNCHANGED <<waiters, func, posted, kind, value, moved, collected, removed, pend>>
      BY <1>4 DEF HandshakeSuspend
    <2>2. o \notin posted /\ ~ L!OnList(pend, o) /\ ~ OnWorker(o)
      BY <2>1 DEF PlaceInv
    <2>3. \A m \in moved' : value'[m] = "count" /\ co'[m] # "new" /\ kind' # "handshake"
      BY <2>1, <2>2 DEF ReportInv
    <2>4. kind' \in {"recvfrom", "sendto", "read"} => \A m \in moved' :
             \/ co'[m] = "resumed"
             \/ \E u \in Workers : at'[u] = m /\ pc'[u] \in {"release", "postnext", "resume"}
      BY <2>1, <2>2 DEF ReportInv
    <2>5. \A m \in Ops : co'[m] = "new" \/ L!OnList(waiters', m) => value'[m] = InitialValue(kind')
      BY <2>1, <2>2 DEF ReportInv
    <2>6. ASSUME NEW m \in collected'
          PROVE  /\ removed' /\ value'[m] = InitialValue(kind')
                 /\ \/ co'[m] = "resumed" \/ L!OnList(pend', m) \/ (m \in posted' /\ func'[m] = "resume")
                    \/ \E u \in Workers : at'[u] = m /\ pc'[u] = "resume"
      <3>1. m \in collected /\ m \in Ops
        BY <2>1, <2>6
      <3>2. /\ removed /\ value[m] = InitialValue(kind)
            /\ \/ co[m] = "resumed" \/ L!OnList(pend, m) \/ (m \in posted /\ func[m] = "resume")
               \/ \E u \in Workers : at[u] = m /\ pc[u] = "resume"
        BY <3>1 DEF ReportInv
      <3>3. ASSUME NEW u \in Workers, at[u] = m, pc[u] = "resume"
            PROVE  at'[u] = m /\ pc'[u] = "resume"
        BY <2>1, <3>3
      <3> QED  BY <2>1, <2>2, <3>1, <3>2, <3>3
    <2> QED  BY <2>3, <2>4, <2>5, <2>6, Lists DEF ReportInv, InitialValue
  <1>5. ASSUME NEW w \in Workers, Attempts(w)
        PROVE  ReportInv'
    <2> DEFINE o == at[w]
    <2>1. PICK r \in {0, -1, -2}, v \in {"minus", "zero", "count"} :
             /\ Attempt(w, r, v) /\ pc[w] = "attempt" /\ o \in Ops /\ <<r, v>> \in Outcomes(o)
             /\ pc'[w] \in {"release", "resume"} <=> r = 0
             /\ \A u \in Workers : u # w => pc'[u] = pc[u]
             /\ at' = at /\ value' = [value EXCEPT ![o] = v]
             /\ moved' = IF v = "count" THEN moved \cup {o} ELSE moved
      BY <1>5, AttemptFacts
    <2>2. UNCHANGED <<waiters, func, posted, co, kind, collected, removed, pend>>
      BY <2>1 DEF Attempt
    <2>3. value'[o] = v /\ \A m \in Ops : m # o => value'[m] = value[m]
      BY <2>1
    <2>4. /\ kind \in {"stream", "tls", "write"} /\ value[o] = "count" => v = "count"
          /\ kind \in {"recvfrom", "sendto", "read"} /\ v = "count" => r = 0
          /\ kind = "handshake" => v # "count"
      BY <2>1, OutcomeFacts
    <2>5. /\ co[o] = "suspended" /\ o \notin posted
          /\ ~ L!OnList(waiters, o) /\ ~ L!OnList(pend, o)
          /\ \A u \in Workers : at[u] = o => u = w
      BY <2>1, SerialAssumption DEF PlaceInv, OnWorker
    <2>6. /\ o \notin collected
          /\ kind \in {"recvfrom", "sendto", "read"} => o \notin moved
      <3>1. ASSUME o \in collected
            PROVE  FALSE
        <4>1. \E u \in Workers : at[u] = o /\ pc[u] = "resume"
          BY <2>5, <3>1 DEF ReportInv
        <4> QED  BY <2>1, <2>5, <4>1
      <3>2. ASSUME kind \in {"recvfrom", "sendto", "read"}, o \in moved
            PROVE  FALSE
        <4>1. \E u \in Workers : at[u] = o /\ pc[u] \in {"release", "postnext", "resume"}
          BY <2>5, <3>2 DEF ReportInv
        <4> QED  BY <2>1, <2>5, <4>1
      <3> QED  BY <3>1, <3>2
    <2>7. kind \in {"stream", "recvfrom", "sendto", "read", "write", "tls", "handshake"}
      BY SerialAssumption
    <2> HIDE DEF o
    <2>8. \A m \in moved' : value'[m] = "count" /\ co'[m] # "new" /\ kind' # "handshake"
      BY <2>1, <2>2, <2>3, <2>4, <2>5, <2>6, <2>7 DEF ReportInv
    <2>9. kind' \in {"recvfrom", "sendto", "read"} => \A m \in moved' :
             \/ co'[m] = "resumed"
             \/ \E u \in Workers : at'[u] = m /\ pc'[u] \in {"release", "postnext", "resume"}
      <3>1. o = at[w]
        BY DEF o
      <3> QED  BY <2>1, <2>2, <2>4, <2>5, <3>1 DEF ReportInv
    <2>10. \A m \in Ops : co'[m] = "new" \/ L!OnList(waiters', m) => value'[m] = InitialValue(kind')
      BY <2>2, <2>3, <2>5 DEF ReportInv
    <2>11. \A m \in collected' :
              /\ removed' /\ value'[m] = InitialValue(kind')
              /\ \/ co'[m] = "resumed" \/ L!OnList(pend', m) \/ (m \in posted' /\ func'[m] = "resume")
                 \/ \E u \in Workers : at'[u] = m /\ pc'[u] = "resume"
      BY <2>1, <2>2, <2>3, <2>6 DEF ReportInv
    <2> QED  BY <2>8, <2>9, <2>10, <2>11, Lists DEF ReportInv, InitialValue
  <1>6. ASSUME NEW w \in Workers, RegisterWait(w)
        PROVE  ReportInv'
    <2>1. /\ pc[w] = "register" /\ at[w] \in Ops /\ at[w] \notin posted
          /\ \A v \in Workers : v # w => pc'[v] = pc[v] /\ at'[v] = at[v]
          /\ \A m \in Ops : m # at[w] => func'[m] = func[m]
          /\ UNCHANGED <<waiters, posted, co, kind, value, moved, collected, removed, pend>>
      BY <1>6 DEF RegisterWait, PlaceInv, OnWorker
    <2>2. \A m \in moved' : value'[m] = "count" /\ co'[m] # "new" /\ kind' # "handshake"
      BY <2>1 DEF ReportInv
    <2>3. kind' \in {"recvfrom", "sendto", "read"} => \A m \in moved' :
             \/ co'[m] = "resumed"
             \/ \E u \in Workers : at'[u] = m /\ pc'[u] \in {"release", "postnext", "resume"}
      BY <2>1 DEF ReportInv
    <2>4. \A m \in Ops : co'[m] = "new" \/ L!OnList(waiters', m) => value'[m] = InitialValue(kind')
      BY <2>1 DEF ReportInv
    <2>5. \A m \in collected' :
              /\ removed' /\ value'[m] = InitialValue(kind')
              /\ \/ co'[m] = "resumed" \/ L!OnList(pend', m) \/ (m \in posted' /\ func'[m] = "resume")
                 \/ \E u \in Workers : at'[u] = m /\ pc'[u] = "resume"
      BY <2>1 DEF ReportInv
    <2> QED  BY <2>2, <2>3, <2>4, <2>5, Lists DEF ReportInv, InitialValue
  <1>7. ASSUME NEW w \in Workers, SerialRelease(w)
        PROVE  ReportInv'
    <2>1. /\ pc[w] = "release" /\ pc'[w] \in {"postnext", "resume"} /\ at' = at
          /\ \A v \in Workers : v # w => pc'[v] = pc[v]
          /\ UNCHANGED <<func, posted, co, kind, value, moved, collected, removed, pend>>
      BY <1>7 DEF SerialRelease
    <2>2. \A m \in Ops : L!OnList(waiters', m) => L!OnList(waiters, m)
      <3>1. \/ waiters' = waiters
            \/ waiters # << >> /\ waiters' = Tail(waiters)
        BY <1>7 DEF SerialRelease
      <3>2. waiters \in Seq(Ops)
        OBVIOUS
      <3> QED  BY <3>1, <3>2, WaitersTail
    <2> QED  BY <2>1, <2>2, Lists DEF ReportInv
  <1>8. ASSUME NEW w \in Workers, PostNext(w)
        PROVE  ReportInv'
    <2>1. /\ pc[w] = "postnext" /\ pc'[w] = "resume" /\ at' = at
          /\ \A v \in Workers : v # w => pc'[v] = pc[v]
          /\ \A m \in posted : m \in posted'
          /\ UNCHANGED <<waiters, func, co, kind, value, moved, collected, removed, pend>>
      BY <1>8 DEF PostNext
    <2> QED  BY <2>1, Lists DEF ReportInv
  <1>9. ASSUME NEW w \in Workers, ResumeCoroutine(w)
        PROVE  ReportInv'
    <2>1. /\ at[w] \in Ops /\ co'[at[w]] = "resumed"
          /\ \A m \in Ops : m # at[w] => co'[m] = co[m] /\ func'[m] = func[m]
          /\ \A v \in Workers : v # w => pc'[v] = pc[v] /\ at'[v] = at[v]
          /\ UNCHANGED <<waiters, posted, kind, value, moved, collected, removed, pend>>
      BY <1>9 DEF ResumeCoroutine, PlaceInv
    <2>2. ~ L!OnList(waiters, at[w]) /\ co[at[w]] = "suspended"
      BY <2>1 DEF PlaceInv, OnWorker
    <2> QED  BY <2>1, <2>2, Lists DEF ReportInv
  <1>10. CASE CloseRemove
    <2>1. /\ removed' = TRUE /\ \A m \in posted : m \in posted'
          /\ UNCHANGED <<waiters, func, co, kind, value, moved, collected, pend, pc, at>>
      BY <1>10 DEF CloseRemove
    <2> QED  BY <2>1, Lists DEF ReportInv
  <1>11. CASE CloseCollect
    <2>1. /\ removed /\ pend = << >>
          /\ UNCHANGED <<func, posted, co, kind, value, moved, removed, pc, at>>
      BY <1>11 DEF CloseCollect, HolderInv
    <2>2. \/ /\ pend' = waiters /\ waiters' = << >>
             /\ collected' = { o \in Ops : L!OnList(waiters, o) }
          \/ UNCHANGED <<waiters, pend, collected>>
      BY <1>11 DEF CloseCollect
    <2> QED  BY <2>1, <2>2, Lists DEF ReportInv
  <1>12. CASE ClosePost
    <2>1. /\ posted' = posted \cup { o \in Ops : L!OnList(pend, o) }
          /\ \A o \in Ops : func'[o] = IF L!OnList(pend, o) THEN "resume" ELSE func[o]
          /\ UNCHANGED <<waiters, co, kind, value, moved, collected, removed, pc, at>>
      BY <1>12 DEF ClosePost
    <2> QED  BY <2>1, Lists DEF ReportInv
  <1>13. CASE UNCHANGED vars
    <2>1. UNCHANGED <<waiters, func, posted, co, kind, value, moved, collected, removed, pend, pc, at>>
      BY <1>13 DEF vars
    <2> QED  BY <2>1, Lists DEF ReportInv
  <1> QED
    BY <1>1, <1>2, <1>3, <1>4, <1>5, <1>6, <1>7, <1>8, <1>9, <1>10, <1>11, <1>12, <1>13, StepCases

(* What await_resume returns is true of the operation it ends.              *)
LEMMA ReportIsTrue ==
    ASSUME TypeOK, HolderInv, ReportInv, NEW o \in Ops, o \in collected => removed
    PROVE  /\ o \in moved => Report(o) = "count"
           /\ Report(o) = "cancelled" => removed
           /\ o \in collected /\ kind \in {"recvfrom", "read", "write"} => Report(o) = "cancelled"
           /\ kind = "handshake" /\ Report(o) = "zero" => handshake_done
  <1>1. /\ o \in moved => value[o] = "count" /\ kind # "handshake"
        /\ o \in collected => value[o] = InitialValue(kind)
        /\ value[o] \in {"minus", "zero", "count"}
    BY DEF ReportInv, TypeOK
  <1>2. CASE kind \in {"stream", "tls"}
    BY <1>1, <1>2 DEF Report
  <1>3. CASE kind = "handshake"
    BY <1>1, <1>3 DEF Report
  <1>4. CASE kind = "write"
    BY <1>1, <1>4 DEF Report, InitialValue
  <1>5. CASE kind \in {"recvfrom", "sendto", "read"}
    BY <1>1, <1>5 DEF Report, InitialValue
  <1> QED  BY <1>2, <1>3, <1>4, <1>5, SerialAssumption DEF TypeOK

(* A report is true when it is made and remains so.                         *)
LEMMA TruthStep ==
    ASSUME TypeOK, PlaceInv, HolderInv, ReportInv, ReportsAreTrue, [Next]_vars
    PROVE  ReportsAreTrue'
  <1> SUFFICES ASSUME NEW o \in Ops, co'[o] = "resumed"
               PROVE  /\ o \in moved' => result'[o] = "count"
                      /\ result'[o] = "cancelled" => removed'
                      /\ o \in collected' /\ kind' \in {"recvfrom", "read", "write"}
                            => result'[o] = "cancelled"
                      /\ kind' = "handshake" /\ result'[o] = "zero" => handshake_done' \/ removed'
    BY DEF ReportsAreTrue
  <1> USE DEF TypeOK, Goto, queueVars, closeVars, workerVars, dataVars
  <1>1. CASE UNCHANGED <<co, result, kind>> /\ (o \in moved' => o \in moved)
               /\ (o \in collected' => o \in collected) /\ (removed => removed')
               /\ (handshake_done => handshake_done' \/ removed')
    BY <1>1 DEF ReportsAreTrue
  <1>2. ASSUME NEW p \in Ops, AwaitSuspend(p)
        PROVE  /\ co[o] = "resumed"
               /\ UNCHANGED <<result, kind, moved, collected, removed, handshake_done>>
    BY <1>2 DEF AwaitSuspend
  <1>3. ASSUME NEW w \in Workers, NEW p \in Ops, HandshakeSuspend(w, p)
        PROVE  /\ kind = "handshake" /\ UNCHANGED <<kind, moved, collected, removed, handshake_done>>
               /\ \/ co[o] = "resumed" /\ result'[o] = result[o]
                  \/ result'[o] = "zero" /\ handshake_done
    BY <1>3 DEF HandshakeSuspend
  <1>4. ASSUME NEW w \in Workers, Attempts(w)
        PROVE  /\ UNCHANGED <<co, result, kind, collected, removed>>
               /\ o \in moved' => o \in moved
               /\ handshake_done => handshake_done'
    <2>1. UNCHANGED <<co, result, kind, collected, removed>> /\ (handshake_done => handshake_done')
      BY <1>4 DEF Attempts, Attempt
    <2>2. o # at[w]
      <3>1. at[w] \in Ops /\ OnWorker(at[w])
        BY <1>4, AttemptFacts DEF OnWorker
      <3> QED  BY <2>1, <3>1 DEF PlaceInv
    <2> QED  BY <1>4, <2>1, <2>2 DEF Attempts, Attempt
  <1>5. ASSUME NEW w \in Workers, ResumeCoroutine(w)
        PROVE  /\ UNCHANGED <<kind, moved, collected, removed, handshake_done>>
               /\ \/ co[o] = "resumed" /\ result'[o] = result[o]
                  \/ result'[o] = Report(o)
    <2>1. at[w] \in Ops
      BY <1>5 DEF ResumeCoroutine, PlaceInv
    <2> QED  BY <1>5, <2>1 DEF ResumeCoroutine
  <1>6. ASSUME CloseCollect
        PROVE  /\ UNCHANGED <<co, result, kind, moved, removed, handshake_done>>
               /\ o \in collected' => o \in collected
    <2>1. UNCHANGED <<co, result, kind, moved, removed, handshake_done>>
      BY <1>6 DEF CloseCollect
    <2>2. ~ L!OnList(waiters, o)
      BY <2>1 DEF PlaceInv
    <2> QED  BY <1>6, <2>1, <2>2 DEF CloseCollect
  <1>7. ASSUME ClosePost
        PROVE  UNCHANGED <<co, result, kind, moved, collected, removed>> /\ removed
    BY <1>7 DEF ClosePost, HolderInv
  <1>8. CASE \/ UNCHANGED vars \/ CloseRemove \/ \E p \in Ops : ReactorEvent(p)
             \/ \E w \in Workers, p \in Ops : TakeCallback(w, p)
             \/ \E w \in Workers : RegisterWait(w) \/ SerialRelease(w) \/ PostNext(w)
    <2>1. /\ UNCHANGED <<co, result, kind, moved, collected, handshake_done>>
          /\ removed => removed'
      BY <1>8 DEF vars, CloseRemove, ReactorEvent, TakeCallback, RegisterWait, SerialRelease, PostNext
    <2> QED  BY <1>1, <2>1
  <1>9. CASE \E p \in Ops : AwaitSuspend(p)
    BY <1>2, <1>9 DEF ReportsAreTrue
  <1>10. CASE \E w \in Workers, p \in Ops : HandshakeSuspend(w, p)
    <2>1. moved = {} /\ (handshake_done => handshake_done')
      BY <1>3, <1>10 DEF ReportInv
    <2> QED  BY <1>3, <1>10, <2>1 DEF ReportsAreTrue
  <1>11. CASE \E w \in Workers : Attempts(w)
    BY <1>1, <1>4, <1>11
  <1>12. CASE \E w \in Workers : ResumeCoroutine(w)
    <2>1. o \in collected => removed
      BY DEF ReportInv
    <2> QED  BY <1>5, <1>12, <2>1, ReportIsTrue DEF ReportsAreTrue
  <1>13. CASE CloseCollect
    BY <1>1, <1>6, <1>13
  <1>14. CASE ClosePost
    BY <1>1, <1>7, <1>14
  <1> QED  BY <1>8, <1>9, <1>10, <1>11, <1>12, <1>13, <1>14, StepCases

-----------------------------------------------------------------------------

(* io_serial.hpp with its users and close_fd: until close_fd resets the     *)
(* queue the slot has one holder, who is the one to release it; whoever     *)
(* waits waits for a holder; and a suspended operation is in one place, so  *)
(* that no node is linked and no coroutine resumed twice.  Whenever the     *)
(* close comes.                                                             *)
THEOREM SerialInvariant == Spec => []SerialInv
  <1> DEFINE Inv == /\ TypeOK /\ PlaceInv /\ HolderInv /\ SlotExclusive /\ WaitersHaveHolder
                    /\ ReportInv
  <1>1. Init => Inv
    BY TypeInit, PlaceInit, HolderInit, ReportInit
  <1>2. Inv /\ [Next]_vars => Inv'
    BY TypeStep, PlaceStep, HolderStep, ReportStep
  <1>3. Inv => SerialInv
    BY PlacesCounted DEF SerialInv
  <1> QED  BY <1>1, <1>2, <1>3, PTL DEF Spec

(* await_resume of the awaiters: data that was moved is reported, only a    *)
(* close cancels, what close_fd took from the queue is cancelled, and a     *)
(* handshake that reports success was one.                                  *)
THEOREM ReportsTellTruth == Spec => []ReportsAreTrue
  <1>1. Init => ReportsAreTrue
    BY ReportInit
  <1>2. SerialInv /\ ReportsAreTrue /\ [Next]_vars => ReportsAreTrue'
    BY TruthStep DEF SerialInv
  <1> QED  BY <1>1, <1>2, SerialInvariant, PTL DEF Spec

(* serial_acquire_or_enqueue and serial_release: the slot goes to the       *)
(* operation that has waited longest; nobody overtakes.                     *)
THEOREM SlotPassesInOrder == Spec => SlotIsFifo
  <1>1. [Next]_vars => [\A o \in slot' \ slot : waiters # << >> => o = Head(waiters)]_vars
    <2> SUFFICES ASSUME [Next]_vars, NEW o \in slot' \ slot, waiters # << >>
                 PROVE  o = Head(waiters)
      OBVIOUS
    <2>1. ASSUME NEW p \in Ops, AwaitSuspend(p)
          PROVE  FALSE
      BY <2>1 DEF AwaitSuspend
    <2>2. ASSUME NEW w \in Workers, SerialRelease(w)
          PROVE  o = Head(waiters)
      BY <2>2 DEF SerialRelease
    <2>3. CASE UNCHANGED slot
      BY <2>3
    <2>4. \/ UNCHANGED slot \/ \E p \in Ops : AwaitSuspend(p)
          \/ \E w \in Workers : SerialRelease(w)
      BY StepCases DEF ReactorEvent, TakeCallback, HandshakeSuspend, Attempts, Attempt, RegisterWait,
         PostNext, ResumeCoroutine, CloseRemove, CloseCollect, ClosePost, vars
    <2> QED  BY <2>1, <2>2, <2>3, <2>4
  <1> QED  BY <1>1, PTL DEF Spec, SlotIsFifo
=============================================================================
