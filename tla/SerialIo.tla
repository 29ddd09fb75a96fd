------------------------------ MODULE SerialIo ------------------------------
(***************************************************************************)
(* One direction of a socket or file: serial_queue and                     *)
(* two_phase_drain_awaiter (io/io_serial.hpp), the awaiters built on them  *)
(* and close_fd (net/stream_socket_base.hpp for stream and datagram        *)
(* sockets, io/file_io.hpp for files) or close (net/tls.hpp).  Operations  *)
(* of different coroutines take the slot in turn; the one that has it      *)
(* tries its call, registers with the reactor when it would block, tries   *)
(* again when it is posted, and at the end hands the slot to the next.     *)
(* The TLS handshake goes the same way but has no slot.                    *)
(*                                                                         *)
(* A free worker may run any posted callback: their order is the business  *)
(* of modules Executor and CallbackWq, the reactor's of EpollReactor.      *)
(***************************************************************************)
EXTENDS Integers, Sequences, FiniteSets

CONSTANTS
    Ops,         \* awaiters, one operation each
    Workers,
    NoOp,
    Kinds,       \* awaiters the direction may be used with
    Closing      \* when close_fd may run: "never", "alone" (as in an executor
                 \* with one thread: while no callback runs) or "any" time

ASSUME SerialAssumption ==
    /\ NoOp \notin Ops
    /\ Kinds \subseteq {"stream", "recvfrom", "sendto", "read", "write", "tls", "handshake"}
    /\ Closing \in {"never", "alone", "any"}

VARIABLES
    waiters, locked,      \* serial_queue
    func, posted,         \* each node's function; the nodes posted to run
    registered,           \* in the reactor's entry for the fd
    removed, fd,          \* remove_fd has run; the fd is still open
    closePc, pend,        \* close_fd: progress, collected waiters
    pc, at, next,         \* workers: step, operation, waiter to be posted
    co,                   \* each coroutine: new, suspended, resumed
    kind,                 \* the awaiters of this direction
    value, result,        \* each awaiter's count so far; what co_await returned
    handshake_done,       \* of a TLS socket
    slot,                 \* ghost: operations that acquired and did not release
    moved, collected      \* ghost: operations that moved data, that close_fd
                          \* took from the queue

queueVars == <<waiters, locked>>
closeVars == <<removed, fd, closePc, pend>>
workerVars == <<pc, at, next>>
dataVars == <<kind, value, result, handshake_done, moved, collected>>
vars == <<queueVars, func, posted, registered, closeVars, workerVars, co, slot, dataVars>>

L == INSTANCE WorkQueue WITH queue <- waiters, Nodes <- Ops

Goto(w, p, o) == pc' = [pc EXCEPT ![w] = p] /\ at' = [at EXCEPT ![w] = o]

(* Other threads run while close_fd does, if there are any.                 *)
Concurrent == Closing = "alone" => closePc \in {"no", "done"}

(* nread and nrd begin as -1, the other counts as 0.                        *)
InitialValue(k) == IF k \in {"recvfrom", "read"} THEN "minus" ELSE "zero"

Init ==
    /\ kind \in Kinds
    /\ value = [o \in Ops |-> InitialValue(kind)]
    /\ result = [o \in Ops |-> "none"]
    /\ handshake_done = FALSE
    /\ moved = {} /\ collected = {}
    /\ waiters = << >> /\ locked = FALSE
    /\ func = [o \in Ops |-> "none"]
    /\ posted = {} /\ registered = {}
    /\ removed = FALSE /\ fd = "open"
    /\ closePc = "no" /\ pend = << >>
    /\ pc = [w \in Workers |-> "idle"]
    /\ at = [w \in Workers |-> NoOp] /\ next = [w \in Workers |-> NoOp]
    /\ co = [o \in Ops |-> "new"]
    /\ slot = {}

-----------------------------------------------------------------------------
(* serial_slot_awaiter::await_suspend with serial_acquire_or_enqueue.      *)

AwaitSuspend(o) ==
    /\ co[o] = "new" /\ kind # "handshake" /\ Concurrent
    /\ co' = [co EXCEPT ![o] = "suspended"]
    /\ func' = [func EXCEPT ![o] = "lock_acquired"]
    /\ \/ /\ ~ locked /\ waiters = << >>
          /\ locked' = TRUE
          /\ posted' = posted \cup {o}
          /\ slot' = slot \cup {o}
          /\ UNCHANGED waiters
       \/ /\ locked \/ waiters # << >>
          /\ waiters' = L!list_add_tail(waiters, o)
          /\ UNCHANGED <<locked, posted, slot>>
    /\ UNCHANGED <<registered, closeVars, workerVars, dataVars>>

(* handshake_awaiter: there is nothing to do (await_ready), or drive() runs *)
(* in await_suspend, on the coroutine's thread.  A socket has one user      *)
(* until the handshake is done.                                             *)
HandshakeSuspend(w, o) ==
    /\ kind = "handshake" /\ co[o] = "new" /\ pc[w] = "idle" /\ Concurrent
    /\ \A p \in Ops : co[p] # "suspended"
    /\ \/ /\ handshake_done
          /\ co' = [co EXCEPT ![o] = "resumed"]
          /\ result' = [result EXCEPT ![o] = "zero"]
          /\ UNCHANGED <<pc, at>>
       \/ /\ ~ handshake_done
          /\ co' = [co EXCEPT ![o] = "suspended"]
          /\ Goto(w, "attempt", o)
          /\ UNCHANGED result
    /\ UNCHANGED <<queueVars, func, posted, registered, closeVars, next, slot,
                   kind, value, handshake_done, moved, collected>>

-----------------------------------------------------------------------------
(* lock_acquired_cb and drive_cb.                                          *)

TakeCallback(w, o) ==
    /\ pc[w] = "idle" /\ Concurrent
    /\ o \in posted
    /\ posted' = posted \ {o}
    /\ Goto(w, IF func[o] = "resume" THEN "resume" ELSE "attempt", o)
    /\ UNCHANGED <<queueVars, func, registered, closeVars, next, co, slot, dataVars>>

(* What attempt_once, called until it returns 0 or -1, may return and leave *)
(* as the count.  The awaiters of streams and of file writes add up what    *)
(* their calls moved; errors of a stream are reported if nothing was.       *)
StreamAttempt(o) ==
    LET failed == IF value[o] = "zero" THEN "minus" ELSE value[o]
    IN  {<<0, failed>>, <<0, value[o]>>}
        \cup (IF fd = "open" THEN {0, -1} \X {value[o], "count"} ELSE {})

WriteAttempt(o) ==
    {<<0, value[o]>>} \cup (IF fd = "open" THEN {0, -1} \X {value[o], "count"} ELSE {})

(* The others make one call, whose result they keep: -1 on a closed fd.     *)
OneCall == {<<0, "count">>, <<0, "minus">>, <<-1, "minus">>}

RecvFromAttempt == IF fd = "open" THEN OneCall ELSE {<<0, "minus">>}

SendToAttempt == IF fd = "open" THEN OneCall ELSE {<<0, "minus">>}

(* try_read makes no call on a closed file, and attempt_once then looks at  *)
(* an errno that some earlier call has left.                                *)
ReadAttempt ==
    IF fd = "open" THEN OneCall ELSE {<<0, "minus">>, <<-1, "minus">>}

(* SSL_read and SSL_write: part of the data, WANT_READ or WANT_WRITE, an    *)
(* end of stream or a failure.  close() frees the SSL object first; a call  *)
(* with a null pointer fails or ends the process (-2), depending on the     *)
(* version of the library.                                                  *)
TlsAttempt(o) ==
    LET failed == IF value[o] = "zero" THEN "minus" ELSE value[o]
    IN  IF removed THEN {<<-2, value[o]>>, <<0, failed>>}
                   ELSE {<<0, failed>>, <<0, value[o]>>} \cup {0, -1} \X {value[o], "count"}

(* SSL_do_handshake: done, failed, or waits for the peer.                   *)
HandshakeAttempt ==
    IF removed THEN {<<-2, "zero">>, <<0, "minus">>}
               ELSE {<<0, "zero">>, <<0, "minus">>, <<-1, "zero">>}

Outcomes(o) ==
    CASE kind = "stream"   -> StreamAttempt(o)
      [] kind = "tls"      -> TlsAttempt(o)
      [] kind = "handshake" -> HandshakeAttempt
      [] kind = "write"    -> WriteAttempt(o)
      [] kind = "recvfrom" -> RecvFromAttempt
      [] kind = "sendto"   -> SendToAttempt
      [] kind = "read"     -> ReadAttempt

AfterAttempt(r) ==
    CASE r = -2 -> "crashed"
      [] r = -1 -> "register"
      [] r = 0  -> IF kind = "handshake" THEN "resume" ELSE "release"

Attempt(w, r, v) ==
    /\ pc[w] = "attempt"
    /\ <<r, v>> \in Outcomes(at[w])
    /\ value' = [value EXCEPT ![at[w]] = v]
    /\ handshake_done' = (handshake_done \/ (kind = "handshake" /\ r = 0 /\ v = "zero"))
    /\ moved' = IF v = "count" THEN moved \cup {at[w]} ELSE moved
    /\ Goto(w, AfterAttempt(r), at[w])
    /\ UNCHANGED <<queueVars, func, posted, registered, closeVars, next, co, slot,
                   kind, result, collected>>

AttemptDone(w) == \E v \in {"minus", "zero", "count"} : Attempt(w, 0, v)

AttemptBlocks(w) == \E v \in {"minus", "zero", "count"} : Attempt(w, -1, v)

(* The end of the process, seen as the end of the thread.                   *)
AttemptCrashes(w) == \E v \in {"zero", "count"} : Attempt(w, -2, v)

(* register_wait: add_waiter_custom makes a new entry if there is none.     *)
RegisterWait(w) ==
    /\ pc[w] = "register"
    /\ func' = [func EXCEPT ![at[w]] = "drive"]
    /\ registered' = registered \cup {at[w]}
    /\ Goto(w, "idle", NoOp)
    /\ UNCHANGED <<queueVars, posted, closeVars, next, co, slot, dataVars>>

(* Variants with a fault: the slot is given up although somebody waits; the *)
(* last waiter is served first.                                             *)
ReleaseForgets(w) ==
    /\ pc[w] = "release"
    /\ locked' = FALSE
    /\ slot' = slot \ {at[w]}
    /\ Goto(w, "resume", at[w])
    /\ UNCHANGED <<waiters, func, posted, registered, closeVars, next, co, dataVars>>

ReleaseLast(w) ==
    /\ pc[w] = "release"
    /\ \/ /\ waiters # << >>
          /\ next' = [next EXCEPT ![w] = waiters[Len(waiters)]]
          /\ waiters' = SubSeq(waiters, 1, Len(waiters) - 1)
          /\ slot' = (slot \ {at[w]}) \cup {waiters[Len(waiters)]}
          /\ Goto(w, "postnext", at[w])
          /\ UNCHANGED locked
       \/ /\ waiters = << >>
          /\ locked' = FALSE
          /\ slot' = slot \ {at[w]}
          /\ Goto(w, "resume", at[w])
          /\ UNCHANGED <<waiters, next>>
    /\ UNCHANGED <<func, posted, registered, closeVars, co, dataVars>>

(* serial_release: the slot passes to the first waiter, or becomes free ... *)
SerialRelease(w) ==
    /\ pc[w] = "release"
    /\ \/ /\ waiters # << >>
          /\ next' = [next EXCEPT ![w] = Head(waiters)]
          /\ waiters' = Tail(waiters)
          /\ slot' = (slot \ {at[w]}) \cup {Head(waiters)}
          /\ Goto(w, "postnext", at[w])
          /\ UNCHANGED locked
       \/ /\ waiters = << >>
          /\ locked' = FALSE
          /\ slot' = slot \ {at[w]}
          /\ Goto(w, "resume", at[w])
          /\ UNCHANGED <<waiters, next>>
    /\ UNCHANGED <<func, posted, registered, closeVars, co, dataVars>>

(* ... and the waiter is posted, after the unlock.                          *)
PostNext(w) ==
    /\ pc[w] = "postnext"
    /\ posted' = posted \cup {next[w]}
    /\ next' = [next EXCEPT ![w] = NoOp]
    /\ Goto(w, "resume", at[w])
    /\ UNCHANGED <<queueVars, func, registered, closeVars, co, slot, dataVars>>

(* Variant with a fault: a closed file cancels the writes it interrupts.    *)
ReportForgets(o) ==
    CASE kind \in {"stream", "tls"} -> value[o]
      [] kind = "handshake" -> IF handshake_done THEN "zero" ELSE "minus"
      [] kind = "write"  -> IF removed THEN "cancelled" ELSE value[o]
      [] OTHER           -> IF value[o] = "minus" /\ removed THEN "cancelled" ELSE value[o]

(* await_resume: ECANCELED for what close_fd has interrupted.               *)
Report(o) ==
    CASE kind \in {"stream", "tls"} -> value[o]
      [] kind = "handshake" -> IF handshake_done THEN "zero" ELSE "minus"
      [] kind = "write"  -> IF value[o] = "zero" /\ removed THEN "cancelled" ELSE value[o]
      [] OTHER           -> IF value[o] = "minus" /\ removed THEN "cancelled" ELSE value[o]

(* The coroutine goes on (h.resume() or resume_cb).                         *)
ResumeCoroutine(w) ==
    /\ pc[w] = "resume"
    /\ func' = [func EXCEPT ![at[w]] = "resume"]
    /\ co' = [co EXCEPT ![at[w]] = "resumed"]
    /\ result' = [result EXCEPT ![at[w]] = Report(at[w])]
    /\ Goto(w, "idle", NoOp)
    /\ UNCHANGED <<queueVars, posted, registered, closeVars, next, slot,
                   kind, value, handshake_done, moved, collected>>

(* The reactor delivers an event to a waiter of an fd it knows.             *)
ReactorEvent(o) ==
    /\ o \in registered
    /\ ~ removed
    /\ registered' = registered \ {o}
    /\ posted' = posted \cup {o}
    /\ UNCHANGED <<queueVars, func, closeVars, workerVars, co, slot, dataVars>>

-----------------------------------------------------------------------------
(* close_fd, on any thread.                                                *)

(* _closed = true (a TLS socket frees the SSL object); remove_fd takes the  *)
(* fd out of the reactor and posts its waiters.                             *)
CloseRemove ==
    /\ closePc = "no"
    /\ Closing # "never"
    /\ Closing = "alone" => \A w \in Workers : pc[w] = "idle"
    /\ removed' = TRUE
    /\ posted' = posted \cup registered
    /\ registered' = {}
    /\ closePc' = "collect"
    /\ UNCHANGED <<queueVars, func, fd, pend, workerVars, co, slot, dataVars>>

(* serial_collect_waiters.  close() of a TLS socket closes its transport,   *)
(* whose own queues are empty.                                              *)
CloseCollect ==
    /\ closePc = "collect"
    /\ \/ /\ kind \notin {"tls", "handshake"}
          /\ pend' = waiters
          /\ waiters' = << >>
          /\ locked' = FALSE
          /\ collected' = { o \in Ops : L!OnList(waiters, o) }
       \/ /\ kind \in {"tls", "handshake"}
          /\ UNCHANGED <<queueVars, pend, collected>>
    /\ closePc' = "post"
    /\ UNCHANGED <<func, posted, registered, removed, fd, workerVars, co, slot,
                   kind, value, result, handshake_done, moved>>

(* Variant with a fault: the collected waiters are not posted.              *)
CloseDrops ==
    /\ closePc = "post"
    /\ pend' = << >>
    /\ fd' = "closed"
    /\ closePc' = "done"
    /\ handshake_done' = FALSE
    /\ UNCHANGED <<queueVars, func, posted, registered, removed, workerVars, co, slot,
                   kind, value, result, moved, collected>>

(* serial_post_pending and os::close_fd; the flags of a TLS socket.         *)
ClosePost ==
    /\ closePc = "post"
    /\ func' = [o \in Ops |-> IF L!OnList(pend, o) THEN "resume" ELSE func[o]]
    /\ posted' = posted \cup { o \in Ops : L!OnList(pend, o) }
    /\ pend' = << >>
    /\ fd' = "closed"
    /\ closePc' = "done"
    /\ handshake_done' = FALSE
    /\ UNCHANGED <<queueVars, registered, removed, workerVars, co, slot,
                   kind, value, result, moved, collected>>

-----------------------------------------------------------------------------

WorkerStep(w) ==
    \/ \E o \in Ops : TakeCallback(w, o)
    \/ AttemptDone(w) \/ AttemptBlocks(w) \/ AttemptCrashes(w) \/ RegisterWait(w)
    \/ SerialRelease(w) \/ PostNext(w) \/ ResumeCoroutine(w)

CloseStep == CloseCollect \/ ClosePost

Next ==
    \/ \E o \in Ops : AwaitSuspend(o) \/ ReactorEvent(o)
    \/ \E w \in Workers : WorkerStep(w) \/ \E o \in Ops : HandshakeSuspend(w, o)
    \/ CloseRemove \/ CloseStep

Spec == Init /\ [][Next]_vars

(* Workers run and close_fd, once begun, ends.  The peer keeps sending or   *)
(* reading: registered waiters get their events, and an operation that is   *)
(* tried over and over is done some time.                                   *)
Fairness ==
    /\ \A w \in Workers : WF_vars(WorkerStep(w)) /\ SF_vars(AttemptDone(w))
    /\ \A o \in Ops :
          /\ WF_vars(ReactorEvent(o))
          /\ WF_vars(\E w \in Workers : TakeCallback(w, o))
    /\ WF_vars(CloseStep)

FairSpec == Spec /\ Fairness

-----------------------------------------------------------------------------
(* Properties.                                                             *)

(* The variables have their types.                                          *)
TypeOK ==
    /\ waiters \in Seq(Ops) /\ locked \in BOOLEAN
    /\ func \in [Ops -> {"none", "lock_acquired", "drive", "resume"}]
    /\ posted \subseteq Ops /\ registered \subseteq Ops
    /\ removed \in BOOLEAN /\ fd \in {"open", "closed"}
    /\ closePc \in {"no", "collect", "post", "done"}
    /\ pend \in Seq(Ops)
    /\ pc \in [Workers -> {"idle", "attempt", "register", "release", "postnext", "resume",
                            "crashed"}]
    /\ at \in [Workers -> Ops \cup {NoOp}] /\ next \in [Workers -> Ops \cup {NoOp}]
    /\ co \in [Ops -> {"new", "suspended", "resumed"}]
    /\ kind \in Kinds /\ handshake_done \in BOOLEAN
    /\ value \in [Ops -> {"minus", "zero", "count"}]
    /\ result \in [Ops -> {"none", "minus", "zero", "count", "cancelled"}]
    /\ slot \subseteq Ops /\ moved \subseteq Ops /\ collected \subseteq Ops

(* `locked means that the slot is taken by one awaiter': until close_fd     *)
(* resets the queue, two operations of one direction are never both between *)
(* acquisition and release.                                                 *)
SlotExclusive == closePc \in {"no", "collect"} => \A o, p \in slot : o = p

(* A suspended operation is in exactly one place, so its node is never      *)
(* linked twice and its coroutine never resumed twice.                      *)
Places(o) ==
    {<<"waiting", i>> : i \in { j \in DOMAIN waiters : waiters[j] = o }}
    \cup {<<"pending", i>> : i \in { j \in DOMAIN pend : pend[j] = o }}
    \cup {<<"worker", w>> : w \in { v \in Workers : at[v] = o }}
    \cup {<<"next", w>> : w \in { v \in Workers : next[v] = o }}
    \cup (IF o \in posted THEN {<<"posted", o>>} ELSE {})
    \cup (IF o \in registered THEN {<<"registered", o>>} ELSE {})

InOnePlace ==
    \A o \in Ops : Cardinality(Places(o)) = IF co[o] = "suspended" THEN 1 ELSE 0

OnWorker(o) == \E w \in Workers : at[w] = o

IsNext(o) == \E w \in Workers : next[w] = o

(* The same without counting, which is what the steps maintain: the places  *)
(* exclude each other.                                                      *)
PlaceInv ==
    /\ L!NoDuplicates(waiters) /\ L!NoDuplicates(pend)
    /\ \A w \in Workers :
          /\ pc[w] = "idle" <=> at[w] = NoOp
          /\ pc[w] = "postnext" <=> next[w] # NoOp
    /\ \A w, v \in Workers :
          /\ at[w] = at[v] /\ at[w] # NoOp => w = v
          /\ next[w] = next[v] /\ next[w] # NoOp => w = v
    /\ \A o \in Ops :
          /\ L!OnList(waiters, o) => ~ L!OnList(pend, o)
          /\ L!OnList(waiters, o) \/ L!OnList(pend, o) => o \notin posted \cup registered
          /\ o \in posted => o \notin registered
          /\ OnWorker(o) \/ IsNext(o) =>
                /\ o \notin posted \cup registered
                /\ ~ L!OnList(waiters, o) /\ ~ L!OnList(pend, o)
          /\ OnWorker(o) => ~ IsNext(o)
    /\ \A o \in Ops : co[o] = "suspended" <=>
          \/ L!OnList(waiters, o) \/ L!OnList(pend, o) \/ o \in posted \cup registered
          \/ OnWorker(o) \/ IsNext(o)

(* The operations that are to make a call and then release the slot.        *)
HasTurn(o) ==
    \/ o \in registered \/ IsNext(o) \/ (o \in posted /\ func[o] # "resume")
    \/ \E w \in Workers : at[w] = o /\ pc[w] \in {"attempt", "register", "release"}

(* Whoever will release the slot has it; a queue that close_fd has not      *)
(* reset is free exactly if nobody has it.                                  *)
HolderInv ==
    /\ locked => slot # {}
    /\ closePc \in {"no", "collect"} => pend = << >> /\ (slot # {} => locked)
    /\ closePc # "no" => removed
    /\ kind # "handshake" => \A o \in Ops : HasTurn(o) => o \in slot
    /\ \A w \in Workers : pc[w] = "release" => kind # "handshake"

(* While somebody waits the slot is taken, so that somebody will hand it    *)
(* over.                                                                    *)
WaitersHaveHolder == waiters # << >> => locked /\ slot # {}

(* What the reports depend on: a count stays, an operation that makes one   *)
(* call makes no more after it moved data, and one that close_fd took from  *)
(* the queue makes none.                                                    *)
ReportInv ==
    /\ \A o \in moved : value[o] = "count" /\ co[o] # "new" /\ kind # "handshake"
    /\ kind \in {"recvfrom", "sendto", "read"} => \A o \in moved :
          \/ co[o] = "resumed"
          \/ \E w \in Workers : at[w] = o /\ pc[w] \in {"release", "postnext", "resume"}
    /\ \A o \in Ops : co[o] = "new" \/ L!OnList(waiters, o) => value[o] = InitialValue(kind)
    /\ \A o \in collected :
          /\ removed /\ value[o] = InitialValue(kind)
          /\ \/ co[o] = "resumed" \/ L!OnList(pend, o) \/ (o \in posted /\ func[o] = "resume")
             \/ \E w \in Workers : at[w] = o /\ pc[w] = "resume"

(* The slot and its waiters together: types, one holder, every operation in *)
(* one place, and nobody waits for a slot that nobody has.                  *)
SerialInv ==
    /\ TypeOK /\ SlotExclusive /\ InOnePlace /\ WaitersHaveHolder
    /\ PlaceInv /\ HolderInv /\ ReportInv

(* The slot goes to the operation that has waited longest.                  *)
SlotIsFifo ==
    [][ \A o \in slot' \ slot : waiters # << >> => o = Head(waiters) ]_vars

(* What an operation reports is what happened: data that was moved is       *)
(* reported as moved, also when the close comes in the middle; only a close *)
(* cancels; a datagram receive, file read or file write that the close took *)
(* from the queue is cancelled (a queued stream operation or datagram send  *)
(* reports 0); and a handshake reports success only if there was one.       *)
ReportsAreTrue ==
    \A o \in Ops : co[o] = "resumed" =>
        /\ o \in moved => result[o] = "count"
        /\ result[o] = "cancelled" => removed
        /\ o \in collected /\ kind \in {"recvfrom", "read", "write"}
              => result[o] = "cancelled"
        /\ kind = "handshake" /\ result[o] = "zero" => handshake_done \/ removed

(* A read of a closed file that took an old errno for its own has           *)
(* registered with a reactor that will never call it, and keeps the slot.   *)
ReadMisled == kind = "read" /\ fd = "closed" /\ registered # {}

(* A TLS operation that close() woke has called the library with a null     *)
(* pointer.                                                                 *)
Crashed == \E w \in Workers : pc[w] = "crashed"

(* Every operation ends: with its turn and a ready fd, or because the       *)
(* socket is closed; but for the misled reads, and unless the process ends  *)
(* in a TLS operation.                                                      *)
EveryOpEnds ==
    \A o \in Ops : co[o] = "suspended" ~> co[o] = "resumed" \/ ReadMisled \/ Crashed

(* No TLS operation uses the SSL object after close() has freed it.         *)
SslOutlivesItsUse == ~ Crashed

(* close_fd `cleans the serial queues and wakes the waiters': no operation  *)
(* stays suspended for ever after it.                                       *)
CloseWakesWaiters ==
    \A o \in Ops : closePc = "done" /\ co[o] = "suspended" ~> co[o] = "resumed"
=============================================================================
