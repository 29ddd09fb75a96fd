------------------------------ MODULE Resolver ------------------------------
(***************************************************************************)
(* async_resolver (net/dns_resolver.cpp): a pool of threads that take      *)
(* lookups from a queue guarded by a mutex and a condition variable, call  *)
(* getaddrinfo, choose one of the addresses and post the coroutine back to *)
(* its executor; and the destructor, which lets the threads finish the     *)
(* queue before it joins them.                                             *)
(*                                                                         *)
(* A lookup is for a socket: its options are the family of the socket and  *)
(* whether it is dual stack, as in test/http_proxy.cpp.                    *)
(***************************************************************************)
EXTENDS Integers, Sequences, FiniteSets

CONSTANTS
    Lookups,       \* coroutines, each with one Awaitable and its Job
    Threads,       \* the pool
    Targets,       \* what may be looked up: host and options
    NoLookup,
    Teardown       \* when ~Impl may run: "quiet" (no enqueue under way) or "any"

(* A host is the sequence of the families of its addresses, in the order of *)
(* getaddrinfo; the empty name has none.                                    *)
ASSUME ResolverAssumption ==
    /\ NoLookup \notin Lookups
    /\ Threads # {} /\ IsFiniteSet(Threads)
    /\ \A t \in Targets :
          /\ t.host \in Seq({"inet", "inet6"})
          /\ t.family \in {"unspec", "inet", "inet6"}
          /\ t.dual \in BOOLEAN
    /\ Teardown \in {"quiet", "any"}

VARIABLES
    target,          \* of each lookup: host and options
    jobs, stop,      \* Impl::queue and Impl::stop
    notify,          \* lookups in enqueue, between the unlock and notify_one
    tpc, tjob,       \* the threads of the pool and the job each has
    answer,          \* Job::result
    resumeNodes,     \* ResumeNodes on the executor's queue
    lookup,          \* each coroutine: new, waiting, resumed
    impl             \* ~Impl: alive, notify, join, gone

poolVars == <<jobs, stop, notify, tpc, tjob>>
resolverVars == <<target, poolVars, answer, resumeNodes, lookup, impl>>

-----------------------------------------------------------------------------
(* resolve_core.                                                           *)

(* With dual stack, IPv4 addresses are asked for too.                       *)
Hints(t) == IF t.family = "inet6" /\ t.dual THEN "unspec" ELSE t.family

(* getaddrinfo (external): it lists the addresses of the family asked for,  *)
(* here their positions among all addresses of the host.                    *)
GetAddrInfo(host, family) ==
    { i \in DOMAIN host : family = "unspec" \/ host[i] = family }

Failure == [success |-> FALSE, storage |-> "none"]

(* An address of family f is good for the socket, an IPv4 address also for  *)
(* an IPv6 socket with dual stack.                                          *)
Usable(f, t) ==
    \/ t.family \in {"unspec", f}
    \/ t.family = "inet6" /\ t.dual /\ f = "inet"

(* The first usable address, in the order of getaddrinfo; an IPv4 address   *)
(* is mapped for an IPv6 socket.                                            *)
ResolveCore(t) ==
    LET list == GetAddrInfo(t.host, Hints(t))
        fits == { i \in list : Usable(t.host[i], t) }
    IN  IF fits = {}
          THEN Failure
          ELSE LET f == t.host[CHOOSE i \in fits : \A j \in fits : i <= j]
               IN  [success |-> TRUE,
                    storage |-> IF t.family \in {f, "unspec"} THEN f ELSE "mapped"]

-----------------------------------------------------------------------------

(* The pool as Impl starts it, or a program that has no resolver.           *)
ResolverInit ==
    /\ target \in [Lookups -> Targets]
    /\ impl \in {"alive", "gone"}
    /\ jobs = << >> /\ stop = (impl = "gone") /\ notify = {}
    /\ tpc = [t \in Threads |-> IF stop THEN "exited" ELSE "wait"]
    /\ tjob = [t \in Threads |-> NoLookup]
    /\ answer = [j \in Lookups |-> Failure]
    /\ resumeNodes = {}
    /\ lookup = [j \in Lookups |-> "new"]

ThreadGoto(t, p, j) == tpc' = [tpc EXCEPT ![t] = p] /\ tjob' = [tjob EXCEPT ![t] = j]

(* Awaitable::await_suspend: the job is queued under the mutex ...          *)
Resolve(j) ==
    /\ lookup[j] = "new" /\ impl = "alive"
    /\ lookup' = [lookup EXCEPT ![j] = "waiting"]
    /\ jobs' = Append(jobs, j)
    /\ notify' = notify \cup {j}
    /\ UNCHANGED <<target, stop, tpc, tjob, answer, resumeNodes, impl>>

(* ... and one sleeping thread, if there is any, notified after it.         *)
NotifyOne(j) ==
    /\ j \in notify
    /\ notify' = notify \ {j}
    /\ IF \E t \in Threads : tpc[t] = "asleep"
         THEN \E t \in Threads : tpc[t] = "asleep" /\ tpc' = [tpc EXCEPT ![t] = "wait"]
         ELSE UNCHANGED tpc
    /\ UNCHANGED <<target, jobs, stop, tjob, answer, resumeNodes, lookup, impl>>

(* Variant with a fault: a thread that is told to stop leaves the queue.    *)
WorkerStopsEarly(t) ==
    /\ tpc[t] = "wait"
    /\ \/ stop /\ ThreadGoto(t, "exited", NoLookup) /\ UNCHANGED jobs
       \/ /\ ~ stop /\ jobs # << >>
          /\ ThreadGoto(t, "lookup", Head(jobs))
          /\ jobs' = Tail(jobs)
       \/ ~ stop /\ jobs = << >> /\ ThreadGoto(t, "asleep", NoLookup) /\ UNCHANGED jobs
    /\ UNCHANGED <<target, stop, notify, answer, resumeNodes, lookup, impl>>

(* worker_loop with the mutex: takes a job, returns, or sleeps, which gives *)
(* up the mutex in the same step.                                           *)
WorkerWait(t) ==
    /\ tpc[t] = "wait"
    /\ \/ /\ jobs # << >>
          /\ ThreadGoto(t, "lookup", Head(jobs))
          /\ jobs' = Tail(jobs)
       \/ stop /\ jobs = << >> /\ ThreadGoto(t, "exited", NoLookup) /\ UNCHANGED jobs
       \/ ~ stop /\ jobs = << >> /\ ThreadGoto(t, "asleep", NoLookup) /\ UNCHANGED jobs
    /\ UNCHANGED <<target, stop, notify, answer, resumeNodes, lookup, impl>>

(* resolve_core, without the mutex, then post_result.                       *)
WorkerLookup(t) ==
    /\ tpc[t] = "lookup"
    /\ answer' = [answer EXCEPT ![tjob[t]] = ResolveCore(target[tjob[t]])]
    /\ resumeNodes' = resumeNodes \cup {tjob[t]}
    /\ ThreadGoto(t, "wait", NoLookup)
    /\ UNCHANGED <<target, jobs, stop, notify, lookup, impl>>

(* ResumeNode::run on an executor thread: the coroutine goes on with its    *)
(* result (await_resume).                                                   *)
ResumeLookup(j) ==
    /\ j \in resumeNodes
    /\ resumeNodes' = resumeNodes \ {j}
    /\ lookup' = [lookup EXCEPT ![j] = "resumed"]
    /\ UNCHANGED <<target, poolVars, answer, impl>>

(* ~Impl: stop is set with the mutex held ...                               *)
StopPool ==
    /\ impl = "alive"
    /\ Teardown = "quiet" => notify = {}
    /\ stop' = TRUE
    /\ impl' = "notify"
    /\ UNCHANGED <<target, jobs, notify, tpc, tjob, answer, resumeNodes, lookup>>

(* ... everybody is notified ...                                            *)
NotifyAll ==
    /\ impl = "notify"
    /\ tpc' = [t \in Threads |-> IF tpc[t] = "asleep" THEN "wait" ELSE tpc[t]]
    /\ impl' = "join"
    /\ UNCHANGED <<target, jobs, stop, notify, tjob, answer, resumeNodes, lookup>>

(* ... and joined.                                                          *)
JoinPool ==
    /\ impl = "join"
    /\ \A t \in Threads : tpc[t] = "exited"
    /\ impl' = "gone"
    /\ UNCHANGED <<target, poolVars, answer, resumeNodes, lookup>>

PoolThread(t) == WorkerWait(t) \/ WorkerLookup(t)

Teardowns == NotifyAll \/ JoinPool

(* What the pool does on its own; Resolve and ResumeLookup are steps of the *)
(* coroutines, with which module Dial composes them.                        *)
PoolNext ==
    \/ \E j \in Lookups : NotifyOne(j)
    \/ \E t \in Threads : PoolThread(t)
    \/ StopPool \/ Teardowns

(* The threads run (getaddrinfo returns), enqueue and the destructor end.   *)
ResolverFairness ==
    /\ \A t \in Threads : WF_resolverVars(PoolThread(t))
    /\ \A j \in Lookups : WF_resolverVars(NotifyOne(j))
    /\ WF_resolverVars(Teardowns)

-----------------------------------------------------------------------------
(* Properties.                                                             *)

ResolverTypeOK ==
    /\ target \in [Lookups -> Targets]
    /\ jobs \in Seq(Lookups) /\ stop \in BOOLEAN /\ notify \subseteq Lookups
    /\ tpc \in [Threads -> {"wait", "asleep", "lookup", "exited"}]
    /\ tjob \in [Threads -> Lookups \cup {NoLookup}]
    /\ answer \in [Lookups -> [success : BOOLEAN, storage : {"none", "inet", "inet6", "mapped"}]]
    /\ resumeNodes \subseteq Lookups
    /\ lookup \in [Lookups -> {"new", "waiting", "resumed"}]
    /\ impl \in {"alive", "notify", "join", "gone"}

(* A waiting lookup is in one place: queued, with a thread, or posted.      *)
LookupPlaces(j) ==
    {<<"queued", i>> : i \in { k \in DOMAIN jobs : jobs[k] = j }}
    \cup {<<"thread", t>> : t \in { u \in Threads : tjob[u] = j }}
    \cup (IF j \in resumeNodes THEN {<<"posted", j>>} ELSE {})

LookupInOnePlace ==
    \A j \in Lookups : Cardinality(LookupPlaces(j)) = IF lookup[j] = "waiting" THEN 1 ELSE 0

Queued(j) == \E i \in DOMAIN jobs : jobs[i] = j

(* The same without counting, which is what the steps of the pool maintain. *)
PlaceInv ==
    /\ \A i, k \in DOMAIN jobs : jobs[i] = jobs[k] => i = k
    /\ \A j \in Lookups : Queued(j) => lookup[j] = "waiting"
    /\ \A t \in Threads : tpc[t] = "lookup" <=> tjob[t] # NoLookup
    /\ \A t \in Threads : tjob[t] # NoLookup =>
          lookup[tjob[t]] = "waiting" /\ ~ Queued(tjob[t])
    /\ \A t, u \in Threads : tjob[t] = tjob[u] /\ tjob[t] # NoLookup => t = u
    /\ \A j \in resumeNodes :
          lookup[j] = "waiting" /\ ~ Queued(j) /\ \A t \in Threads : tjob[t] # j
    /\ \A j \in Lookups : lookup[j] = "waiting" =>
          Queued(j) \/ (\E t \in Threads : tjob[t] = j) \/ j \in resumeNodes

(* Threads leave only a pool that is told to stop, and leave no job behind. *)
ExitInv ==
    /\ stop <=> impl # "alive"
    /\ \A t \in Threads : tpc[t] = "exited" => stop /\ jobs = << >>

(* The pool does not sleep on a queue: if no thread is up, a notification   *)
(* is on its way.                                                           *)
PoolAwake ==
    jobs # << >> =>
        \/ \E t \in Threads : tpc[t] \in {"wait", "lookup"}
        \/ notify # {} \/ impl = "notify"

(* What connect() on the socket of a target accepts: an address of its      *)
(* family, or a mapped one if it is dual stack.                             *)
Fits(storage, t) ==
    CASE t.family = "unspec" -> storage \in {"inet", "inet6"}
      [] t.family = "inet"   -> storage = "inet"
      [] t.family = "inet6"  -> storage = "inet6" \/ (t.dual /\ storage = "mapped")

(* A lookup succeeds exactly if the host has an address that the socket can *)
(* be connected to, as it is or mapped, and then gives such a one.          *)
AnswersFit ==
    \A j \in Lookups : lookup[j] = "resumed" =>
        LET t == target[j]
        IN  /\ answer[j].success <=>
                  \E i \in DOMAIN t.host : Fits(t.host[i], t) \/ (t.host[i] = "inet" /\ Fits("mapped", t))
            /\ answer[j].success => Fits(answer[j].storage, t)

(* What a coroutine is, or will be, resumed with is the answer for the      *)
(* target that it asked for.                                                *)
AnswerInv ==
    \A j \in Lookups : j \in resumeNodes \/ lookup[j] = "resumed" =>
        answer[j] = ResolveCore(target[j])

(* ~Impl ends: stop and notify_all reach every thread of the pool.          *)
PoolStops == impl # "alive" ~> impl = "gone"
=============================================================================
