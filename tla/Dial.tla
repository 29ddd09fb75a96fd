-------------------------------- MODULE Dial --------------------------------
(***************************************************************************)
(* A client reaches a server: the lookup of module Resolver and the connect*)
(* of module Connect, put together by the coroutine that awaits first the  *)
(* one and then the other, as handle_connect in test/http_proxy.cpp does   *)
(* for remote servers; or that connects to an address given as text        *)
(* (ip_endpoint) or to a path (uds_endpoint), as programs do that have the *)
(* server in the same process.  The steps that resume the coroutine are    *)
(* steps of both modules: handle.resume() runs it from the end of the      *)
(* lookup into the suspension in connect.                                  *)
(***************************************************************************)
EXTENDS Resolver, Connect

(* Each client has one lookup.                                              *)
ASSUME DialAssumption == Clients = Lookups

dialVars == <<resolverVars, connectVars>>

(* Names are for remote servers, one for each client; the local server is   *)
(* reached by its number or, with Unix sockets, by its path, and needs no   *)
(* resolver.                                                                *)
DialInit ==
    /\ ResolverInit /\ ConnectInit
    /\ kind = "remote" <=> impl = "alive"
    /\ \A c, d \in Clients :
          CASE kind = "remote" -> target[c].host # << >> /\ (c # d => target[c] # target[d])
            [] kind = "tcp"    -> target[c] = target[d]
            [] kind = "unix"   -> target[c] = CHOOSE t \in Targets : TRUE

(* ip_endpoint::build: the address that a numeric host, the first of the    *)
(* target, stands for.                                                      *)
IpEndpoint(t) ==
    CASE t.host # << >> /\ t.family = Head(t.host)                -> t.family
      [] t.host # << >> /\ Head(t.host) = "inet" /\ t.family = "inet6" /\ t.dual -> "mapped"
      [] OTHER                                                    -> "none"

(* connect(host, port) with a numeric host.                                 *)
DialText(c) ==
    /\ kind = "tcp"
    /\ AwaitSuspendConnect(c, Fits(IpEndpoint(target[c]), target[c]))
    /\ UNCHANGED resolverVars

(* connect(path); the path may be too long.                                 *)
DialPath(c) ==
    /\ kind = "unix"
    /\ \E usable \in BOOLEAN : AwaitSuspendConnect(c, usable)
    /\ UNCHANGED resolverVars

(* resolve(exec, host, port, opts).                                         *)
DialResolve(c) ==
    /\ Resolve(c)
    /\ UNCHANGED connectVars

(* The coroutine is resumed with an address and connects (raw_endpoint), or *)
(* with an error, and gives up.                                             *)
DialResume(c) ==
    /\ ResumeLookup(c)
    /\ \/ answer[c].success /\ AwaitSuspendConnect(c, Fits(answer[c].storage, target[c]))
       \/ /\ ~ answer[c].success
          /\ conn' = [conn EXCEPT ![c] = "done"]
          /\ result' = [result EXCEPT ![c] = "failed"]
          /\ UNCHANGED <<kind, link, listenerVars, ret, timed_out, sock>>

DialNext ==
    \/ \E c \in Clients : DialText(c) \/ DialPath(c) \/ DialResolve(c) \/ DialResume(c)
    \/ PoolNext /\ UNCHANGED connectVars
    \/ ConnectNext /\ UNCHANGED resolverVars

DialSpec == DialInit /\ [][DialNext]_dialVars

DialFairSpec ==
    /\ DialSpec /\ ResolverFairness /\ ConnectFairness
    /\ \A c \in Clients : WF_dialVars(DialResume(c))

-----------------------------------------------------------------------------
(* Properties.                                                             *)

(* A lookup is in one place (a job in the queue, at one thread, or done),   *)
(* a queued job has a thread awake for it, an answer fits its question, and *)
(* a connect posted without an error is settled (or is one of the two that  *)
(* SettledInv names).                                                       *)
DialInv ==
    /\ ResolverTypeOK /\ ConnectTypeOK
    /\ LookupInOnePlace /\ PoolAwake /\ AnswersFit
    /\ PlaceInv /\ ExitInv /\ AnswerInv /\ SettledInv

(* Whoever has asked for a lookup or begun to connect gets a connection or  *)
(* an error, also if the resolver is destroyed, the network is silent or    *)
(* the server closes.                                                       *)
EveryDialEnds ==
    LET dials(c) == conn[c] # "done" /\ (conn[c] # "new" \/ lookup[c] = "waiting")
    IN  (\E c \in Clients : dials(c)) ~> (\A c \in Clients : ~ dials(c))

(* Everything that is shut down ends: the pool that ~Impl joins, and the    *)
(* acceptors of a listener that is closed.                                  *)
ShutdownEnds == PoolStops /\ CloseEndsAcceptors
=============================================================================
