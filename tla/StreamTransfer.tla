--------------------------- MODULE StreamTransfer ---------------------------
(***************************************************************************)
(* The bytes of a stream: recv_awaiter and send_awaiter of                 *)
(* stream_socket_base (net/stream_socket_base.hpp) at the two ends of one  *)
(* direction of a connection.  Calls may move fewer bytes than asked for,  *)
(* the socket buffer is bounded, the write side may be shut down and the   *)
(* connection reset at any time, and either socket closed by a coroutine   *)
(* on another thread, step by step, while its operations go on.            *)
(*                                                                         *)
(* Operations of one end take turns; how the turn is passed on is module   *)
(* SerialIo, here the head of a queue has it.                              *)
(***************************************************************************)
EXTENDS Integers, Sequences, SequencesExt, FiniteSets

CONSTANTS
    Sends, Recvs,      \* the operations of the two ends
    Full,              \* those made by send_all and recv_all
    Vectored,          \* sends that were given iovecs
    Segments,          \* lengths of the buffers of an operation
    Cap,               \* bytes the kernel holds between the two ends
    Failures,          \* of the connection: what error each end gets
    MaxCloses          \* bound on the ends that are closed

Ops == Sends \cup Recvs

ASSUME TransferAssumption ==
    /\ Sends \cap Recvs = {}
    /\ Full \subseteq Ops /\ Vectored \subseteq Sends
    /\ Segments \in [Ops -> Seq(Nat)]
    /\ \A o \in Ops \ Vectored : Len(Segments[o]) = 1
    /\ Cap \in Nat \ {0}
    /\ Failures \subseteq [{"tx", "rx"} -> {"none", "reset", "timeout"}]
    /\ MaxCloses \in Nat

VARIABLES
    turn,              \* for each end, the operations that want its turn
    phase,             \* of each operation
    moved, err,        \* sent or recvd, and whether err was set
    vec,               \* the iovecs still to be written
    buf,               \* the bytes a recv has put into the user's buffer
    pipe,              \* bytes in the kernel
    shut, reset,       \* kernel: write side shut down, connection reset
    sockErr,           \* kernel: the error that the next call at an end gets
    tx_shutdown, rx_eof,  \* flags of the two sockets
    fd,                \* how far close() of each end is
    served             \* ghost: for each end, operations in order of their turns

flags == <<tx_shutdown, rx_eof>>
kernel == <<pipe, shut, reset, sockErr>>
vars == <<turn, phase, moved, err, vec, buf, kernel, flags, fd, served>>

Ends == {"tx", "rx"}
End(o) == IF o \in Sends THEN "tx" ELSE "rx"

TotalLen(s) ==
    LET sum[i \in 0 .. Len(s)] == IF i = 0 THEN 0 ELSE sum[i - 1] + s[i]
    IN  sum[Len(s)]
Length(o) == TotalLen(Segments[o])

Closed(e) == fd[e] = "closed"
(* close() has taken the operations that wait for the turn.                 *)
Collected(e) == fd[e] \in {"collected", "closed"}

(* Byte i of the data of a send.                                            *)
Byte(s, i) == <<s, i>>

(* The iovecs a send is made with: where each begins and how long it is.    *)
Iovecs(o) ==
    [ i \in DOMAIN Segments[o] |->
        [base |-> TotalLen(SubSeq(Segments[o], 1, i - 1)), len |-> Segments[o][i]] ]

Init ==
    /\ turn = [e \in Ends |-> << >>] /\ served = [e \in Ends |-> << >>]
    /\ phase = [o \in Ops |-> "new"]
    /\ moved = [o \in Ops |-> 0] /\ err = [o \in Ops |-> FALSE]
    /\ vec = [o \in Vectored |-> Iovecs(o)]
    /\ buf = [o \in Recvs |-> << >>]
    /\ pipe = << >> /\ shut = FALSE /\ reset = FALSE
    /\ sockErr = [e \in Ends |-> "none"]
    /\ tx_shutdown = FALSE /\ rx_eof = FALSE
    /\ fd = [e \in Ends |-> "open"]

-----------------------------------------------------------------------------

(* co_await: the operation gets its turn or waits for it.  Programs start   *)
(* none on a socket that they are closing.                                  *)
Start(o) ==
    /\ phase[o] = "new"
    /\ fd[End(o)] = "open"
    /\ turn' = [turn EXCEPT ![End(o)] = Append(@, o)]
    /\ phase' = [phase EXCEPT ![o] = IF turn[End(o)] = << >> THEN "try" ELSE "queued"]
    /\ served' = [served EXCEPT ![End(o)] = IF turn[End(o)] = << >> THEN Append(@, o) ELSE @]
    /\ UNCHANGED <<moved, err, vec, buf, kernel, flags, fd>>

(* attempt_once returned 0: the turn passes on and the coroutine goes on.   *)
Done(o) ==
    LET left == IF Collected(End(o)) THEN << >> ELSE Tail(turn[End(o)])
    IN  /\ turn' = [turn EXCEPT ![End(o)] = left]
        /\ phase' = [p \in Ops |-> IF p = o THEN "done"
                                   ELSE IF left # << >> /\ p = Head(left) THEN "try"
                                   ELSE phase[p]]
        /\ served' = [served EXCEPT ![End(o)] = IF left # << >> THEN Append(@, Head(left)) ELSE @]

(* attempt_once goes on, or returned 1 and is called again.                 *)
Again == UNCHANGED <<turn, phase, served>>

(* attempt_once returned -1: the operation is to wait for the reactor ...   *)
WouldBlock(o) ==
    /\ phase' = [phase EXCEPT ![o] = "await"]
    /\ UNCHANGED <<turn, served>>

(* ... which it is registered with after that (register_wait).              *)
Register(o) ==
    /\ phase[o] = "await"
    /\ phase' = [phase EXCEPT ![o] = "blocked"]
    /\ UNCHANGED <<turn, moved, err, vec, buf, kernel, flags, fd, served>>

(* The kernel has something for a blocked operation; nothing on a closed fd.*)
Wake(o) ==
    /\ phase[o] = "blocked" /\ ~ Closed(End(o))
    /\ \/ reset \/ shut
       \/ o \in Recvs /\ (pipe # << >> \/ Closed("tx"))
       \/ o \in Sends /\ (Len(pipe) < Cap \/ Closed("rx"))
    /\ phase' = [phase EXCEPT ![o] = "try"]
    /\ UNCHANGED <<turn, moved, err, vec, buf, kernel, flags, fd, served>>

-----------------------------------------------------------------------------
(* recv_awaiter::attempt_once.                                             *)

(* Variant with a fault: a read of no bytes is taken for the end.           *)
RecvNothingIsEof(r) ==
    /\ phase[r] = "try" /\ moved[r] >= Length(r)
    /\ Done(r)
    /\ rx_eof' = TRUE
    /\ UNCHANGED <<moved, err, vec, buf, kernel, tx_shutdown, fd>>

(* Nothing is left to be read: no system call.                              *)
RecvNothing(r) ==
    /\ phase[r] = "try" /\ moved[r] >= Length(r)
    /\ Done(r)
    /\ UNCHANGED <<moved, err, vec, buf, kernel, flags, fd>>

RecvCall(r) == phase[r] = "try" /\ moved[r] < Length(r)

(* n > 0: written at buf + recvd.                                           *)
RecvData(r, n) ==
    /\ RecvCall(r) /\ ~ Closed("rx")
    /\ n \in 1 .. Length(r) - moved[r] /\ n <= Len(pipe)
    /\ buf' = [buf EXCEPT ![r] = SubSeq(@, 1, moved[r]) \o SubSeq(pipe, 1, n)]
    /\ pipe' = SubSeq(pipe, n + 1, Len(pipe))
    /\ moved' = [moved EXCEPT ![r] = @ + n]
    /\ IF r \in Full /\ moved'[r] # Length(r) THEN Again ELSE Done(r)
    /\ UNCHANGED <<err, vec, shut, reset, sockErr, flags, fd>>

(* What recv returns 0 for: the other side has ended the stream; or the     *)
(* connection was reset and somebody has already got the error.             *)
StreamEnds ==
    /\ ~ Closed("rx") /\ pipe = << >>
    /\ shut \/ Closed("tx") \/ (reset /\ sockErr["rx"] = "none")

(* Variant with a fault: recv_all waits at the end of the stream for more.  *)
RecvEofRetried(r) ==
    /\ RecvCall(r) /\ StreamEnds
    /\ rx_eof' = TRUE
    /\ IF r \in Full THEN WouldBlock(r) ELSE Done(r)
    /\ UNCHANGED <<moved, err, vec, buf, kernel, tx_shutdown, fd>>

(* n = 0                                                                    *)
RecvEof(r) ==
    /\ RecvCall(r) /\ StreamEnds
    /\ rx_eof' = TRUE
    /\ Done(r)
    /\ UNCHANGED <<moved, err, vec, buf, kernel, tx_shutdown, fd>>

(* EAGAIN                                                                   *)
RecvAgain(r) ==
    /\ RecvCall(r) /\ ~ Closed("rx")
    /\ pipe = << >> /\ ~ shut /\ ~ Closed("tx") /\ ~ reset
    /\ IF r \notin Full /\ moved[r] > 0 THEN Done(r) ELSE WouldBlock(r)
    /\ UNCHANGED <<moved, err, vec, buf, kernel, flags, fd>>

(* Any other error, which is told once; EBADF after close().  It is only    *)
(* reported if nothing was read.                                            *)
RecvError(r) ==
    /\ RecvCall(r)
    /\ \/ Closed("rx") /\ UNCHANGED sockErr
       \/ /\ ~ Closed("rx") /\ pipe = << >> /\ sockErr["rx"] # "none"
          /\ sockErr' = [sockErr EXCEPT !["rx"] = "none"]
    /\ err' = [err EXCEPT ![r] = moved[r] = 0]
    /\ Done(r)
    /\ UNCHANGED <<moved, vec, buf, pipe, shut, reset, flags, fd>>

-----------------------------------------------------------------------------
(* send_awaiter::attempt_once, for a buffer and for iovecs.                *)

(* Variant with a fault: the offset inside an iovec is forgotten.           *)
advance_iov_keeps_base(v, n) ==
    LET go[i \in 1 .. Len(v) + 1] == [ remain \in 0 .. n |->
          IF remain = 0 \/ i > Len(v) THEN SubSeq(v, i, Len(v))
          ELSE IF remain >= v[i].len THEN go[i + 1][remain - v[i].len]
          ELSE <<[base |-> v[i].base, len |-> v[i].len - remain]>>
               \o SubSeq(v, i + 1, Len(v)) ]
    IN  go[1][n]

(* The loop over the iovecs, from the i-th on with `remain' bytes to skip.  *)
advance_iov(v, n) ==
    LET go[i \in 1 .. Len(v) + 1] == [ remain \in 0 .. n |->
          IF remain = 0 \/ i > Len(v) THEN SubSeq(v, i, Len(v))
          ELSE IF remain >= v[i].len THEN go[i + 1][remain - v[i].len]
          ELSE <<[base |-> v[i].base + remain, len |-> v[i].len - remain]>>
               \o SubSeq(v, i + 1, Len(v)) ]
    IN  go[1][n]

(* The bytes offered to the next system call.                               *)
Offered(s) ==
    IF s \in Vectored
      THEN FlattenSeq([ i \in DOMAIN vec[s] |->
                          [ j \in 1 .. vec[s][i].len |-> Byte(s, vec[s][i].base + j) ] ])
      ELSE [ j \in 1 .. Length(s) - moved[s] |-> Byte(s, moved[s] + j) ]

(* The loop is left before a call: no bytes of the buffer, no iovecs left.  *)
LoopEnds(s) == IF s \in Vectored THEN vec[s] = << >> ELSE moved[s] = Length(s)

SendCall(s) == phase[s] = "try" /\ ~ LoopEnds(s)

(* The connection takes data; the other end may already be closed.          *)
CanSend == ~ shut /\ ~ reset /\ ~ Closed("tx")

(* The end of the loop, or a call that wrote nothing.                       *)
SendNothing(s) ==
    /\ phase[s] = "try"
    /\ LoopEnds(s) \/ (Offered(s) = << >> /\ CanSend)
    /\ Done(s)
    /\ UNCHANGED <<moved, err, vec, buf, kernel, flags, fd>>

SendData(s, n) ==
    /\ SendCall(s) /\ CanSend
    /\ n \in 1 .. Len(Offered(s)) /\ n <= Cap - Len(pipe)
    /\ pipe' = pipe \o SubSeq(Offered(s), 1, n)
    /\ moved' = [moved EXCEPT ![s] = @ + n]
    /\ vec' = [o \in Vectored |-> IF o = s THEN advance_iov(vec[o], n) ELSE vec[o]]
    /\ IF LoopEnds(s)' THEN Done(s) ELSE Again
    /\ UNCHANGED <<err, buf, shut, reset, sockErr, flags, fd>>

(* EAGAIN: only send_all waits.                                             *)
SendAgain(s) ==
    /\ SendCall(s) /\ CanSend /\ ~ Closed("rx")
    /\ Offered(s) # << >> /\ Len(pipe) = Cap
    /\ IF s \in Full THEN WouldBlock(s) ELSE Done(s)
    /\ UNCHANGED <<moved, err, vec, buf, kernel, flags, fd>>

(* EPIPE, ECONNRESET and ENOTCONN mark the write side; EBADF after close()  *)
(* and the errors of a network that fails (ETIMEDOUT, EHOSTUNREACH) do not. *)
SendError(s) ==
    /\ SendCall(s)
    /\ ~ CanSend \/ Closed("rx")
    /\ tx_shutdown' = (tx_shutdown \/ (~ Closed("tx") /\ sockErr["tx"] # "timeout"))
    /\ sockErr' = [sockErr EXCEPT !["tx"] = IF Closed("tx") THEN @ ELSE "none"]
    /\ err' = [err EXCEPT ![s] = TRUE]
    /\ Done(s)
    /\ UNCHANGED <<moved, vec, buf, pipe, shut, reset, rx_eof, fd>>

-----------------------------------------------------------------------------

(* shutdown_tx                                                              *)
ShutdownTx ==
    /\ ~ Closed("tx") /\ ~ tx_shutdown
    /\ shut' = TRUE /\ tx_shutdown' = TRUE
    /\ UNCHANGED <<turn, phase, moved, err, vec, buf, pipe, reset, sockErr, rx_eof, fd, served>>

(* close(): remove_fd lets an operation that waits for the reactor try      *)
(* again ...                                                                *)
CloseRemove(e) ==
    /\ fd[e] = "open" /\ Cardinality({ d \in Ends : fd[d] # "open" }) < MaxCloses
    /\ fd' = [fd EXCEPT ![e] = "removed"]
    /\ phase' = [o \in Ops |-> IF End(o) = e /\ phase[o] = "blocked" THEN "try" ELSE phase[o]]
    /\ UNCHANGED <<turn, moved, err, vec, buf, kernel, flags, served>>

(* ... those that wait for their turn are resumed as they are ...           *)
CloseCollect(e) ==
    /\ fd[e] = "removed"
    /\ fd' = [fd EXCEPT ![e] = "collected"]
    /\ phase' = [o \in Ops |-> IF End(o) = e /\ phase[o] = "queued" THEN "done" ELSE phase[o]]
    /\ turn' = [turn EXCEPT ![e] = << >>]
    /\ UNCHANGED <<moved, err, vec, buf, kernel, flags, served>>

(* ... the fd is closed and the flags are reset.                            *)
CloseFd(e) ==
    /\ fd[e] = "collected"
    /\ fd' = [fd EXCEPT ![e] = "closed"]
    /\ tx_shutdown' = (tx_shutdown /\ e # "tx") /\ rx_eof' = (rx_eof /\ e # "rx")
    /\ UNCHANGED <<turn, phase, moved, err, vec, buf, kernel, served>>

(* The connection fails (external): a part of what is under way is lost,    *)
(* and each end gets an error, or has got it in the other direction.        *)
Reset ==
    /\ ~ reset
    /\ reset' = TRUE
    /\ \E n \in 0 .. Len(pipe) : pipe' = SubSeq(pipe, 1, n)
    /\ sockErr' \in Failures
    /\ UNCHANGED <<turn, phase, moved, err, vec, buf, shut, flags, fd, served>>

Attempt(o) ==
    \/ o \in Recvs /\ \/ RecvNothing(o) \/ RecvEof(o) \/ RecvAgain(o) \/ RecvError(o)
                      \/ \E n \in 1 .. Cap : RecvData(o, n)
    \/ o \in Sends /\ \/ SendNothing(o) \/ SendAgain(o) \/ SendError(o)
                      \/ \E n \in 1 .. Cap : SendData(o, n)

Next ==
    \/ \E o \in Ops : Start(o) \/ Attempt(o) \/ Register(o) \/ Wake(o)
    \/ ShutdownTx \/ Reset
    \/ \E e \in Ends : CloseRemove(e) \/ CloseCollect(e) \/ CloseFd(e)

Spec == Init /\ [][Next]_vars

(* Callbacks run (Executor, CallbackWq), the reactor delivers its events    *)
(* (EpollReactor), and close() ends.                                        *)
FairSpec ==
    /\ Spec
    /\ \A o \in Ops : WF_vars(Attempt(o) \/ Register(o) \/ Wake(o))
    /\ \A e \in Ends : WF_vars(CloseCollect(e) \/ CloseFd(e))

-----------------------------------------------------------------------------
(* Properties.                                                             *)

(* The variables have their types.                                          *)
TypeOK ==
    /\ turn \in [Ends -> Seq(Ops)] /\ served \in [Ends -> Seq(Ops)]
    /\ phase \in [Ops -> {"new", "queued", "try", "await", "blocked", "done"}]
    /\ moved \in [Ops -> Nat]
    /\ err \in [Ops -> BOOLEAN]
    /\ vec \in [Vectored -> Seq([base : Nat, len : Nat])]
    /\ buf \in [Recvs -> Seq(Sends \X Nat)]
    /\ pipe \in Seq(Sends \X Nat) /\ Len(pipe) <= Cap
    /\ {shut, reset, tx_shutdown, rx_eof} \subseteq BOOLEAN
    /\ sockErr \in [Ends -> {"none", "reset", "timeout"}]
    /\ fd \in [Ends -> {"open", "removed", "collected", "closed"}]

(* The iovecs cover the bytes from..to, without a gap or an overlap.        *)
Covers(v, from, to) ==
    /\ v = << >> => from = to
    /\ v # << >> => v[1].base = from /\ v[Len(v)].base + v[Len(v)].len = to
    /\ \A i \in 1 .. Len(v) - 1 : v[i + 1].base = v[i].base + v[i].len

(* What an operation reports is what it has moved: no more than it was      *)
(* asked for, the bytes in the user's buffer, and all but those that its    *)
(* iovecs still hold.                                                       *)
CountInv ==
    /\ \A o \in Ops : moved[o] <= Length(o)
    /\ \A r \in Recvs : Len(buf[r]) = moved[r]
    /\ \A s \in Vectored : Covers(vec[s], moved[s], Length(s))

(* The operations that want the turn of an end: the first has it, the       *)
(* others wait.  After close() nobody does.                                 *)
TurnOf(e) ==
    /\ Collected(e) => turn[e] = << >>
    /\ IsInjective(turn[e]) /\ IsInjective(served[e])
    /\ \A i \in 1 .. Len(turn[e]) :
          /\ End(turn[e][i]) = e
          /\ phase[turn[e][i]] \in IF i = 1 THEN {"try", "await", "blocked"} ELSE {"queued"}
    /\ \A i \in 1 .. Len(served[e]) :
          End(served[e][i]) = e /\ phase[served[e][i]] \notin {"new", "queued"}

(* Whoever has not had the turn has moved nothing; whoever has it got it    *)
(* last.                                                                    *)
HasTurn(o) ==
    /\ phase[o] \in {"new", "queued"} => moved[o] = 0
    /\ phase[o] \in {"try", "await", "blocked"} =>
          /\ served[End(o)] # << >> /\ served[End(o)][Len(served[End(o)])] = o
          /\ ~ Collected(End(o)) => turn[End(o)] # << >> /\ turn[End(o)][1] = o

(* One operation of an end at a time reads or writes.                       *)
TurnInv == (\A e \in Ends : TurnOf(e)) /\ (\A o \in Ops : HasTurn(o))

(* The bytes that the operations report, in the order of their turns.       *)
Received == FlattenSeq([ i \in DOMAIN served["rx"] |->
                           SubSeq(buf[served["rx"][i]], 1, moved[served["rx"][i]]) ])
Sent == FlattenSeq([ i \in DOMAIN served["tx"] |->
                       [ j \in 1 .. moved[served["tx"][i]] |-> Byte(served["tx"][i], j) ] ])

(* The stream is what the program sent: the bytes that the recvs report and *)
(* those in the kernel are the bytes that the sends report, operation after *)
(* operation and none twice; after a reset, the first of them.              *)
StreamIntact ==
    LET stream == Received \o pipe
    IN  IsPrefix(stream, Sent) /\ (~ reset => stream = Sent)

(* The operations take turns, their counts and iovecs agree with what they  *)
(* moved, and the stream is intact.                                         *)
StreamInv == TypeOK /\ TurnInv /\ CountInv /\ StreamIntact

(* A short count means something: send_all and recv_all report fewer bytes  *)
(* than asked for, and recv none at all, only when the stream has ended or  *)
(* failed or the socket is being closed.                                    *)
ShortOnlyAtEnd ==
    \A o \in Ops :
        /\ phase[o] = "done" /\ moved[o] < Length(o)
        /\ o \in Full \/ (o \in Recvs /\ moved[o] = 0)
        => IF o \in Recvs THEN rx_eof \/ reset \/ fd["rx"] # "open"
                          ELSE tx_shutdown \/ (reset /\ err[o]) \/ fd["tx"] # "open"

(* rx_eof() tells the truth unless the connection was reset: every byte     *)
(* that was sent, or will be, has been received.                            *)
EofAfterAllData == rx_eof /\ ~ reset => Received = Sent

(* The two ways in which the end of the stream shows: a short count and     *)
(* rx_eof() are never seen before it.                                       *)
EndIsReal == ShortOnlyAtEnd /\ EofAfterAllData

(* close() came between EAGAIN and the registration, on another thread:     *)
(* nothing will wake the operation.  It cannot happen where one thread runs *)
(* the executor.                                                            *)
Overtaken(o) == phase[o] = "blocked" /\ Closed(End(o))

(* The end of the connection leaves nobody suspended that close() has not   *)
(* overtaken: when either socket is closed, the write side shut down or the *)
(* connection reset, every operation that was started, or is then, ends.    *)
EndReleasesAll ==
    shut \/ reset \/ (\E e \in Ends : fd[e] # "open")
        ~> \A o \in Ops : phase[o] \in {"new", "done"} \/ Overtaken(o)
=============================================================================
