------------------------------ MODULE Connect -------------------------------
(***************************************************************************)
(* How connections come about: connect_awaiter (net/stream_socket_base.hpp)*)
(* on the sockets of several clients, stream_listener_base and its         *)
(* accept_awaiter (net/stream_listener_base.hpp) under tcp_listener and    *)
(* unix_listener, and the kernel between them with its queue of            *)
(* connections that nobody has accepted yet.  Clients of a remote server   *)
(* meet the network alone.                                                 *)
(*                                                                         *)
(* The server's coroutines accept in a loop, as those in test/ do: they    *)
(* stop on accept_fatal() and try again on -1.  The reactor is module      *)
(* EpollReactor: one event wakes every waiter of the listener, and the     *)
(* event may be on its way while the connection is taken by somebody else. *)
(***************************************************************************)
EXTENDS Integers, Sequences, FiniteSets

CONSTANTS
    Clients, Acceptors,
    Kinds,          \* of sockets: "tcp", "unix"; "remote": TCP to another program
    Backlog,        \* of listen()
    MaxFaults,      \* bound on the errors of accept() other than EAGAIN
    Impatient,      \* clients whose sockets another coroutine may close early
    ListenerClosing \* "alone": close() runs while no acceptor does; or "any" time

ASSUME ConnectAssumption ==
    /\ Kinds \subseteq {"tcp", "unix", "remote"}
    /\ Backlog \in Nat \ {0} /\ MaxFaults \in Nat /\ Impatient \subseteq Clients
    /\ ListenerClosing \in {"alone", "any"}

VARIABLES
    kind,
    link,                  \* the kernel's state of each client's socket
    backlog,               \* established connections that nobody accepted
    lst,                   \* listener: created, listening, removed, closed
    lstWaiters, lstEvent,  \* its waiters in the reactor; an event on its way
    acc,                   \* each acceptor: where it is in co_await accept()
    accepted, faults,      \* clients that were accepted; errors of accept()
    conn, ret, timed_out,  \* each connect_awaiter
    result,                \* what co_await connect() returned
    sock                   \* each client's socket: open, removed, closed

listenerVars == <<backlog, lst, lstWaiters, lstEvent, acc, accepted, faults>>
clientVars == <<conn, ret, timed_out, result, sock>>
connectVars == <<kind, link, listenerVars, clientVars>>

ConnectInit ==
    /\ kind \in Kinds
    /\ link = [c \in Clients |-> "none"]
    /\ backlog = << >>
    /\ lst = "created" /\ lstWaiters = {} /\ lstEvent = FALSE
    /\ acc = [a \in Acceptors |-> "ready"]
    /\ accepted = {} /\ faults = 0
    /\ conn = [c \in Clients |-> "new"]
    /\ ret = [c \in Clients |-> 0] /\ timed_out = [c \in Clients |-> FALSE]
    /\ result = [c \in Clients |-> "none"]
    /\ sock = [c \in Clients |-> "open"]

-----------------------------------------------------------------------------
(* The server.                                                             *)

(* bind_listen, of a TCP listener and of a Unix one.  One that throws       *)
(* leaves the listener as it was.                                           *)
BindListenTcp ==
    /\ kind = "tcp" /\ lst = "created"
    /\ lst' = "listening"
    /\ UNCHANGED <<kind, link, backlog, lstWaiters, lstEvent, acc, accepted, faults, clientVars>>

BindListenUnix ==
    /\ kind = "unix" /\ lst = "created"
    /\ lst' = "listening"
    /\ UNCHANGED <<kind, link, backlog, lstWaiters, lstEvent, acc, accepted, faults, clientVars>>

(* Acceptors do not run while close() does, if there is one thread.         *)
AcceptorsRun == ListenerClosing = "alone" => lst # "removed"

(* try_accept: a connection, -1 if there is none, or accept_fatal().        *)
TryAccept(a, blocked) ==
    \/ /\ lst # "closed" /\ backlog # << >>
       /\ accepted' = accepted \cup {Head(backlog)}
       /\ backlog' = Tail(backlog)
       /\ acc' = [acc EXCEPT ![a] = "ready"]
       /\ UNCHANGED faults
    \/ /\ lst # "closed" /\ backlog = << >>
       /\ acc' = [acc EXCEPT ![a] = blocked]
       /\ UNCHANGED <<accepted, backlog, faults>>
    \/ /\ lst = "closed"
       /\ acc' = [acc EXCEPT ![a] = "stopped"]
       /\ UNCHANGED <<accepted, backlog, faults>>
    \/ /\ lst # "closed" /\ faults < MaxFaults
       /\ faults' = faults + 1
       /\ acc' = [acc EXCEPT ![a] = "stopped"]
       /\ UNCHANGED <<accepted, backlog>>

(* await_ready; the server starts its acceptors when it listens.            *)
AwaitReady(a) ==
    /\ acc[a] = "ready" /\ lst # "created" /\ AcceptorsRun
    /\ TryAccept(a, "suspend")
    /\ UNCHANGED <<kind, link, lst, lstWaiters, lstEvent, clientVars>>

(* await_suspend                                                            *)
AwaitSuspend(a) ==
    /\ acc[a] = "suspend" /\ AcceptorsRun
    /\ lstWaiters' = lstWaiters \cup {a}
    /\ acc' = [acc EXCEPT ![a] = "registered"]
    /\ UNCHANGED <<kind, link, backlog, lst, lstEvent, accepted, faults, clientVars>>

(* Variant with a fault: a waiter that comes too late gives up.             *)
ResumeGivesUp(a) ==
    /\ acc[a] = "posted" /\ AcceptorsRun
    /\ TryAccept(a, "stopped")
    /\ UNCHANGED <<kind, link, lst, lstWaiters, lstEvent, clientVars>>

(* await_resume tries once more; the loop goes on after -1.                 *)
AwaitResume(a) ==
    /\ acc[a] = "posted" /\ AcceptorsRun
    /\ TryAccept(a, "ready")
    /\ UNCHANGED <<kind, link, lst, lstWaiters, lstEvent, clientVars>>

PostAcceptors == [a \in Acceptors |-> IF a \in lstWaiters THEN "posted" ELSE acc[a]]

(* epoll_wait returns an event of the listener ...                          *)
ListenerEvent ==
    /\ lst # "closed" /\ backlog # << >> /\ lstWaiters # {} /\ ~ lstEvent
    /\ lstEvent' = TRUE
    /\ UNCHANGED <<kind, link, backlog, lst, lstWaiters, acc, accepted, faults, clientVars>>

(* ... which posts the waiters there are by then.                           *)
ListenerDispatch ==
    /\ lstEvent
    /\ lstEvent' = FALSE
    /\ acc' = PostAcceptors
    /\ lstWaiters' = {}
    /\ UNCHANGED <<kind, link, backlog, lst, accepted, faults, clientVars>>

(* Variant with a fault: the waiters of the listener are not woken.         *)
CloseForgets ==
    /\ lst = "listening"
    /\ ListenerClosing = "alone" => \A a \in Acceptors : acc[a] # "suspend"
    /\ lst' = "removed"
    /\ UNCHANGED <<kind, link, backlog, lstWaiters, lstEvent, acc, accepted, faults, clientVars>>

(* close(): remove_fd posts the waiters ...                                 *)
CloseListener ==
    /\ lst = "listening"
    /\ ListenerClosing = "alone" => \A a \in Acceptors : acc[a] # "suspend"
    /\ lst' = "removed"
    /\ acc' = PostAcceptors
    /\ lstWaiters' = {}
    /\ UNCHANGED <<kind, link, backlog, lstEvent, accepted, faults, clientVars>>

(* ... and the fd is closed, which resets what was not accepted.            *)
CloseListenerFd ==
    /\ lst = "removed"
    /\ lst' = "closed"
    /\ link' = [c \in Clients |->
                   IF \E i \in DOMAIN backlog : backlog[i] = c THEN "failed" ELSE link[c]]
    /\ backlog' = << >>
    /\ UNCHANGED <<kind, lstWaiters, lstEvent, acc, accepted, faults, clientVars>>

-----------------------------------------------------------------------------
(* The clients: connect_awaiter.  Another coroutine, on a thread of its     *)
(* own, may close the socket at any time: close() comes between connect()   *)
(* and the registration, and await_resume between the parts of close().     *)

(* await_suspend, part by part: no address or an error at once ...          *)
ConnectFails(c) ==
    /\ ret' = [ret EXCEPT ![c] = -1]
    /\ conn' = [conn EXCEPT ![c] = "posted"]
    /\ UNCHANGED <<link, backlog, timed_out>>

(* ... connected at once, which happens with Unix sockets ...               *)
ConnectAtOnce(c) ==
    /\ kind = "unix" /\ lst = "listening" /\ Len(backlog) < Backlog
    /\ link' = [link EXCEPT ![c] = "established"]
    /\ backlog' = Append(backlog, c)
    /\ conn' = [conn EXCEPT ![c] = "posted"]
    /\ UNCHANGED <<ret, timed_out>>

(* ... or to be waited for: after EINPROGRESS, or after the EAGAIN of a     *)
(* Unix socket whose listener's queue is full.                              *)
ConnectWaits(c) ==
    /\ \/ kind # "unix" /\ link' = [link EXCEPT ![c] = "syn"]
       \/ kind = "unix" /\ lst = "listening" /\ Len(backlog) = Backlog /\ UNCHANGED link
    /\ conn' = [conn EXCEPT ![c] = "suspend"]
    /\ UNCHANGED <<backlog, ret, timed_out>>

(* The error of connect(): the socket is closed, nobody listens at the path *)
(* of a Unix socket, or the network is known to be unreachable.             *)
Refused(c) == sock[c] # "closed" /\ kind = "unix" => lst # "listening"

(* `usable': the provider could build an address, of a family that the      *)
(* socket can be connected to.                                              *)
AwaitSuspendConnect(c, usable) ==
    /\ conn[c] = "new"
    /\ \/ (~ usable \/ Refused(c)) /\ ConnectFails(c)
       \/ usable /\ sock[c] # "closed" /\ ConnectAtOnce(c)
       \/ usable /\ sock[c] # "closed" /\ ConnectWaits(c)
    /\ UNCHANGED <<kind, lst, lstWaiters, lstEvent, acc, accepted, faults, result, sock>>

(* add_waiter_with_timeout, the end of await_suspend.                       *)
ConnectRegister(c) ==
    /\ conn[c] = "suspend"
    /\ conn' = [conn EXCEPT ![c] = "registered"]
    /\ UNCHANGED <<kind, link, listenerVars, ret, timed_out, result, sock>>

(* The kernel: the connection is established ...                            *)
KernelEstablish(c) ==
    /\ link[c] = "syn"
    /\ link' = [link EXCEPT ![c] = "established"]
    /\ \/ kind = "remote" /\ UNCHANGED backlog
       \/ /\ kind = "tcp" /\ lst = "listening" /\ Len(backlog) < Backlog
          /\ backlog' = Append(backlog, c)
    /\ UNCHANGED <<kind, lst, lstWaiters, lstEvent, acc, accepted, faults, clientVars>>

(* ... or refused, or the network fails.                                    *)
KernelFail(c) ==
    /\ link[c] = "syn"
    /\ link' = [link EXCEPT ![c] = "failed"]
    /\ UNCHANGED <<kind, listenerVars, clientVars>>

(* The reactor has an event for the client's socket: it is connected or has *)
(* failed; a Unix socket that was never connected has EPOLLOUT | EPOLLHUP.  *)
(* An fd that is closed has no more events.                                 *)
ConnectEvent(c) ==
    /\ conn[c] = "registered" /\ sock[c] # "closed"
    /\ link[c] \in {"established", "failed"} \/ kind = "unix"
    /\ conn' = [conn EXCEPT ![c] = "posted"]
    /\ UNCHANGED <<kind, link, listenerVars, ret, timed_out, result, sock>>

(* Variant with a fault: the waiter is registered without its deadline.     *)
DeadlineUnarmed(c) == conn[c] = "registered" /\ UNCHANGED connectVars

(* kConnectTimeout has passed: timeout_cb, then the post.                   *)
ConnectDeadline(c) ==
    /\ conn[c] = "registered"
    /\ timed_out' = [timed_out EXCEPT ![c] = TRUE]
    /\ ret' = [ret EXCEPT ![c] = -1]
    /\ conn' = [conn EXCEPT ![c] = "posted"]
    /\ UNCHANGED <<kind, link, listenerVars, result, sock>>

(* close() of a client's socket: remove_fd posts a waiter that is there ... *)
CloseClient(c) ==
    /\ c \in Impatient /\ sock[c] = "open" /\ conn[c] # "done"
    /\ sock' = [sock EXCEPT ![c] = "removed"]
    /\ conn' = [conn EXCEPT ![c] = IF @ = "registered" THEN "posted" ELSE @]
    /\ UNCHANGED <<kind, link, listenerVars, ret, timed_out, result>>

(* ... and the fd is closed, which ends an attempt to connect.              *)
CloseClientFd(c) ==
    /\ sock[c] = "removed"
    /\ sock' = [sock EXCEPT ![c] = "closed"]
    /\ link' = [link EXCEPT ![c] = IF @ = "syn" THEN "failed" ELSE @]
    /\ UNCHANGED <<kind, listenerVars, conn, ret, timed_out, result>>

(* Variant with a fault: an event is taken for a connection.                *)
TrustEvent(c) == ~ timed_out[c] /\ ret[c] = 0

(* await_resume: no timeout, and no error in SO_ERROR, which is asked of    *)
(* the fd that the socket has now.                                          *)
Connected(c) ==
    ~ timed_out[c] /\ ret[c] = 0 /\ sock[c] # "closed" /\ link[c] # "failed"

ConnectResume(c) ==
    /\ conn[c] = "posted"
    /\ conn' = [conn EXCEPT ![c] = "done"]
    /\ result' = [result EXCEPT ![c] = IF Connected(c) THEN "ok" ELSE "failed"]
    /\ timed_out' = [timed_out EXCEPT ![c] = FALSE]
    /\ UNCHANGED <<kind, link, listenerVars, ret, sock>>

-----------------------------------------------------------------------------

AcceptorStep(a) == AwaitReady(a) \/ AwaitSuspend(a) \/ AwaitResume(a)

ConnectEnds(c) == ConnectRegister(c) \/ ConnectEvent(c) \/ ConnectDeadline(c) \/ ConnectResume(c)

ConnectNext ==
    \/ BindListenTcp \/ BindListenUnix
    \/ ListenerEvent \/ ListenerDispatch \/ CloseListener \/ CloseListenerFd
    \/ \E a \in Acceptors : AcceptorStep(a)
    \/ \E c \in Clients :
          \/ KernelEstablish(c) \/ KernelFail(c) \/ ConnectEnds(c)
          \/ CloseClient(c) \/ CloseClientFd(c)

(* Callbacks run, the reactor delivers events and deadlines, and close()    *)
(* ends.  The network may do nothing at all.                                *)
ConnectFairness ==
    /\ \A a \in Acceptors : WF_connectVars(AcceptorStep(a))
    /\ \A c \in Clients : WF_connectVars(ConnectEnds(c))
    /\ WF_connectVars(ListenerEvent) /\ WF_connectVars(ListenerDispatch)
    /\ WF_connectVars(CloseListenerFd)

-----------------------------------------------------------------------------
(* Properties.                                                             *)

ConnectTypeOK ==
    /\ kind \in Kinds
    /\ link \in [Clients -> {"none", "syn", "established", "failed"}]
    /\ backlog \in Seq(Clients) /\ Len(backlog) <= Backlog
    /\ lst \in {"created", "listening", "removed", "closed"}
    /\ lstWaiters \subseteq Acceptors /\ lstEvent \in BOOLEAN
    /\ acc \in [Acceptors -> {"ready", "suspend", "registered", "posted", "stopped"}]
    /\ accepted \subseteq Clients /\ faults \in 0 .. MaxFaults
    /\ conn \in [Clients -> {"new", "suspend", "registered", "posted", "done"}]
    /\ ret \in [Clients -> {0, -1}] /\ timed_out \in [Clients -> BOOLEAN]
    /\ result \in [Clients -> {"none", "ok", "failed"}]
    /\ sock \in [Clients -> {"open", "removed", "closed"}]

(* A Unix socket that found the queue full was not connected, and its       *)
(* EPOLLHUP and SO_ERROR do not tell.                                       *)
ConnectMisled(c) == kind = "unix" /\ link[c] = "none"

(* close() on another thread has posted the waiter and not closed the fd:   *)
(* nothing tells that the connection is not there yet.  It cannot happen    *)
(* where one thread runs the executor.                                      *)
CloseOvertaken(c) == sock[c] = "removed" /\ link[c] = "syn"

(* Whoever is posted without an error has a connection that is settled: the *)
(* deadline and close() are the only ways out of `syn' that do not settle   *)
(* it, and they are remembered, but for the two that tell nothing.          *)
SettledInv ==
    /\ \A c \in Clients :
          conn[c] = "posted" /\ ret[c] = 0 =>
              \/ link[c] \in {"established", "failed"}
              \/ ConnectMisled(c) \/ CloseOvertaken(c)
    /\ \A c \in Clients :
          conn[c] \in {"suspend", "registered"} => link[c] # "none" \/ kind = "unix"
    /\ \A c \in Clients : link[c] = "syn" => kind # "unix" /\ sock[c] # "closed"

(* `0 means success': a connect that reports it has a connection at that    *)
(* moment, whatever raced with it: deadline, refusal, close of the socket   *)
(* or of the listener; but for the misled ones, and those that a close() in *)
(* progress has resumed.                                                    *)
ConnectTellsTruth ==
    [][ \A c \in Clients : result'[c] = "ok" /\ result[c] # "ok" =>
            link[c] = "established" \/ ConnectMisled(c) \/ CloseOvertaken(c) ]_connectVars

(* A connection is accepted although one edge wakes all acceptors, of whom  *)
(* most come too late: the queue, in which each client is once, becomes     *)
(* empty unless every acceptor has met an error it takes for fatal.         *)
NoConnectionStranded ==
    backlog # << >> ~> backlog = << >> \/ faults >= Cardinality(Acceptors)

(* Closing a listener `wakes the awaiter and returns an error': no acceptor *)
(* stays suspended.                                                         *)
CloseEndsAcceptors == lst = "closed" ~> \A a \in Acceptors : acc[a] = "stopped"
=============================================================================
