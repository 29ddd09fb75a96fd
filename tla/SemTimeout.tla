----------------------------- MODULE SemTimeout -----------------------------
(***************************************************************************)
(* wait_sem_for: SemReqTimeoutAwaiter (sync/semaphore.hpp), a semaphore    *)
(* request with a timer.  Two worknodes of one awaiter race for the right  *)
(* to resume the coroutine: the request itself, queued by the semaphore    *)
(* with a token, and mTimeout, queued by the timer queue.  The winner is   *)
(* the one whose exchange finds `armed' set.                               *)
(*                                                                         *)
(* Every coroutine waits once, then gives its token back if it was told it *)
(* has one, and ends.  The semaphore's own races are the business of       *)
(* module Semaphore, the timer heap of TimerQueue: here release() and      *)
(* sem_chk_cb are single actions, and a registered timer fires some time.  *)
(***************************************************************************)
EXTENDS WorkQueue, FiniteSets

CONSTANTS
    Reqs,          \* coroutines, each with its awaiter
    Timed,         \* those with a finite timeout (not 0xffffffff)
    Workers,
    SemNode, NoReq,
    InitVal, MaxVal

Ev(r) == <<r, "event">>      \* the awaiter as a worknode
Tm(r) == <<r, "timeout">>    \* its mTimeout

ASSUME TimeoutAssumption ==
    /\ IsFiniteSet(Reqs) /\ Timed \subseteq Reqs /\ NoReq \notin Reqs
    /\ Nodes = { Ev(r) : r \in Reqs } \cup { Tm(r) : r \in Reqs } \cup {SemNode}
    /\ \A r \in Reqs : SemNode # Ev(r)
    /\ InitVal \in Nat /\ MaxVal \in Nat /\ InitVal <= MaxVal

VARIABLES
    cur_val, acquire_list,
    timers,          \* requests whose mTimeout is in the timer heap
    armed, cancelled, req_sta,
    pc, at,          \* each worker: what it does, for which request
    co,              \* new, waiting (await_suspend begun), resumed, ended
    result,          \* what await_resume returned
    tok,             \* ghost: a token was taken for this request
    resumes          \* ghost: how often the coroutine was resumed

awaiterVars == <<timers, armed, cancelled, req_sta>>
vars == <<queue, cur_val, acquire_list, awaiterVars, pc, at, co, result, tok, resumes>>

Goto(w, p, r) == pc' = [pc EXCEPT ![w] = p] /\ at' = [at EXCEPT ![w] = r]

(* The coroutines have been posted; their first node is not modelled: a     *)
(* free worker starts a new coroutine at any time.                          *)
Init ==
    /\ queue = << >>
    /\ cur_val = InitVal /\ acquire_list = << >>
    /\ timers = {}
    /\ armed = [r \in Reqs |-> FALSE] /\ cancelled = [r \in Reqs |-> FALSE]
    /\ req_sta = [r \in Reqs |-> "uninitialized"]
    /\ pc = [w \in Workers |-> "idle"] /\ at = [w \in Workers |-> NoReq]
    /\ co = [r \in Reqs |-> "new"]
    /\ result = [r \in Reqs |-> FALSE]
    /\ tok = [r \in Reqs |-> FALSE]
    /\ resumes = [r \in Reqs |-> 0]

-----------------------------------------------------------------------------
(* The coroutine's own path to suspension.                                 *)

(* await_ready: try_acquire, without suspending if it succeeds.             *)
AwaitReady(w, r) ==
    /\ pc[w] = "idle" /\ co[r] = "new"
    /\ \/ /\ cur_val > 0
          /\ cur_val' = cur_val - 1
          /\ tok' = [tok EXCEPT ![r] = TRUE]
          /\ co' = [co EXCEPT ![r] = "resumed"]
          /\ result' = [result EXCEPT ![r] = TRUE]
          /\ Goto(w, "body", r)
       \/ /\ cur_val = 0
          /\ co' = [co EXCEPT ![r] = "waiting"]
          /\ Goto(w, "arm", r)
          /\ UNCHANGED <<cur_val, tok, result>>
    /\ UNCHANGED <<queue, acquire_list, awaiterVars, resumes>>

(* Variant with a fault: armed is not set.                                  *)
SuspendWithoutArm(w) ==
    LET r == at[w]
    IN  /\ pc[w] = "arm"
        /\ timers' = IF r \in Timed THEN timers \cup {r} ELSE timers
        /\ Goto(w, "acquire", r)
        /\ UNCHANGED <<queue, cur_val, acquire_list, armed, cancelled, req_sta, co, result, tok, resumes>>

(* await_suspend, up to and including post_delayed_work.                    *)
SuspendArm(w) ==
    LET r == at[w]
    IN  /\ pc[w] = "arm"
        /\ armed' = [armed EXCEPT ![r] = TRUE]
        /\ timers' = IF r \in Timed THEN timers \cup {r} ELSE timers
        /\ Goto(w, "acquire", r)
        /\ UNCHANGED <<queue, cur_val, acquire_list, cancelled, req_sta, co, result, tok, resumes>>

(* mSemaphore.acquire: the value is tested again.  With a token the         *)
(* request is queued at once, and nobody sets req_sta.                      *)
SuspendAcquire(w) ==
    LET r == at[w]
    IN  /\ pc[w] = "acquire"
        /\ \/ /\ cur_val > 0
              /\ cur_val' = cur_val - 1
              /\ tok' = [tok EXCEPT ![r] = TRUE]
              /\ queue' = MoveToTail(queue, Ev(r))
              /\ UNCHANGED acquire_list
           \/ /\ cur_val = 0
              /\ acquire_list' = list_add_tail(acquire_list, r)
              /\ UNCHANGED <<queue, cur_val, tok>>
        /\ Goto(w, "idle", NoReq)
        /\ UNCHANGED <<awaiterVars, co, result, resumes>>

-----------------------------------------------------------------------------
(* The two paths to resumption.                                            *)

(* tim_chk_cb finds the timer due and queues it.                            *)
TimerFires(r) ==
    /\ r \in timers
    /\ timers' = timers \ {r}
    /\ QueuePost(Tm(r))
    /\ UNCHANGED <<cur_val, acquire_list, armed, cancelled, req_sta, pc, at, co, result, tok, resumes>>

(* Variant with a fault: reads the flag and does not clear it.              *)
ExchangeReadsOnly(r) == UNCHANGED armed

(* armed.exchange(false), when it finds it set.                             *)
ExchangeArmed(r) == armed' = [armed EXCEPT ![r] = FALSE]

(* A node whose exchange finds the flag cleared is ignored.                 *)
TakeLoser(w, r) ==
    /\ pc[w] = "idle"
    /\ queue # << >> /\ Head(queue) \in {Ev(r), Tm(r)}
    /\ ~ armed[r]
    /\ QueueTake
    /\ UNCHANGED <<cur_val, acquire_list, awaiterVars, pc, at, co, result, tok, resumes>>

(* The timer's function, on_timer, wins.                                    *)
OnTimer(w, r) ==
    /\ pc[w] = "idle"
    /\ queue # << >> /\ Head(queue) = Tm(r)
    /\ armed[r] /\ ExchangeArmed(r)
    /\ QueueTake
    /\ Goto(w, "cancel", r)
    /\ UNCHANGED <<cur_val, acquire_list, timers, cancelled, req_sta, co, result, tok, resumes>>

(* cancel_waiter: off the list if the request is still on it.  Then the     *)
(* outcome is set, whether it was or not.                                   *)
CancelWaiter(w) ==
    LET r == at[w]
    IN  /\ pc[w] = "cancel"
        /\ cancelled' = [cancelled EXCEPT ![r] = TRUE]
        /\ acquire_list' = list_del(acquire_list, r)
        /\ req_sta' = [req_sta EXCEPT ![r] = "REQ_TIME_OUT"]
        /\ Goto(w, "resume", r)
        /\ UNCHANGED <<queue, cur_val, timers, armed, co, result, tok, resumes>>

(* The request's function wins.                                             *)
OnEvent(w, r) ==
    /\ pc[w] = "idle"
    /\ queue # << >> /\ Head(queue) = Ev(r)
    /\ armed[r] /\ ExchangeArmed(r)
    /\ QueueTake
    /\ Goto(w, "untimer", r)
    /\ UNCHANGED <<cur_val, acquire_list, timers, cancelled, req_sta, co, result, tok, resumes>>

(* mTimerQ.cancel(&mTimeout)                                                *)
CancelTimer(w) ==
    /\ pc[w] = "untimer"
    /\ timers' = timers \ {at[w]}
    /\ Goto(w, "resume", at[w])
    /\ UNCHANGED <<queue, cur_val, acquire_list, armed, cancelled, req_sta, co, result, tok, resumes>>

(* handle.resume(): await_resume reads req_sta, and the awaiter is          *)
(* destroyed at the end of the co_await expression, which cancels the       *)
(* timer.  An uninitialized req_sta may hold anything.                      *)
Resume(w) ==
    LET r == at[w]
    IN  /\ pc[w] = "resume"
        /\ co' = [co EXCEPT ![r] = "resumed"]
        /\ resumes' = [resumes EXCEPT ![r] = @ + 1]
        /\ \E ok \in BOOLEAN :
              /\ req_sta[r] # "uninitialized" => (ok <=> req_sta[r] = "REQ_OK")
              /\ result' = [result EXCEPT ![r] = ok]
        /\ timers' = timers \ {r}
        /\ Goto(w, "body", r)
        /\ UNCHANGED <<queue, cur_val, acquire_list, armed, cancelled, req_sta, tok>>

-----------------------------------------------------------------------------
(* The coroutine's body, and the semaphore.                                *)

(* A coroutine that was told it has a token calls release(); the other just *)
(* ends.                                                                    *)
BodyEnds(w) ==
    LET r == at[w]
    IN  /\ pc[w] = "body"
        /\ co' = [co EXCEPT ![r] = "ended"]
        /\ Goto(w, "idle", NoReq)
        /\ \/ /\ result[r]
              /\ tok' = [tok EXCEPT ![r] = FALSE]
              /\ cur_val' = IF cur_val < MaxVal THEN cur_val + 1 ELSE cur_val
              /\ IF cur_val < MaxVal /\ acquire_list # << >>
                   THEN QueuePost(SemNode) ELSE UNCHANGED queue
           \/ /\ ~ result[r]
              /\ UNCHANGED <<tok, cur_val, queue>>
        /\ UNCHANGED <<acquire_list, awaiterVars, result, resumes>>

(* The requests on the list that were not cancelled, in their order.        *)
Live ==
    LET F[i \in 0 .. Len(acquire_list)] ==
            IF i = 0 THEN << >>
            ELSE IF cancelled[acquire_list[i]] THEN F[i - 1]
            ELSE Append(F[i - 1], acquire_list[i])
    IN  F[Len(acquire_list)]

(* sem_chk_cb: cancelled requests leave the list, the others are served in  *)
(* order while there are tokens.                                            *)
SemChk(w) ==
    LET n      == IF cur_val < Len(Live) THEN cur_val ELSE Len(Live)
        served == SubSeq(Live, 1, n)
    IN  /\ pc[w] = "idle"
        /\ queue # << >> /\ Head(queue) = SemNode
        /\ queue' = Tail(queue) \o [i \in 1 .. n |-> Ev(served[i])]
        /\ cur_val' = cur_val - n
        /\ acquire_list' = SubSeq(Live, n + 1, Len(Live))
        /\ req_sta' = [r \in Reqs |-> IF OnList(served, r) THEN "REQ_OK" ELSE req_sta[r]]
        /\ tok' = [r \in Reqs |-> OnList(served, r) \/ tok[r]]
        /\ UNCHANGED <<timers, armed, cancelled, pc, at, co, result, resumes>>

-----------------------------------------------------------------------------

Step(w) ==
    \/ SuspendArm(w) \/ SuspendAcquire(w) \/ CancelWaiter(w) \/ CancelTimer(w)
    \/ Resume(w) \/ BodyEnds(w) \/ SemChk(w)
    \/ \E r \in Reqs : TakeLoser(w, r) \/ OnTimer(w, r) \/ OnEvent(w, r)

Next ==
    \/ \E w \in Workers : Step(w) \/ \E r \in Reqs : AwaitReady(w, r)
    \/ \E r \in Reqs : TimerFires(r)

Spec == Init /\ [][Next]_vars

(* Workers run; a registered timer becomes due and is checked.              *)
Fairness ==
    /\ \A w \in Workers : WF_vars(Step(w))
    /\ \A r \in Reqs : WF_vars(TimerFires(r))

FairSpec == Spec /\ Fairness

-----------------------------------------------------------------------------
(* Properties.                                                             *)

(* The variables have their types.                                          *)
TypeOK ==
    /\ queue \in Seq(Nodes)
    /\ cur_val \in 0 .. MaxVal
    /\ acquire_list \in Seq(Reqs)
    /\ timers \subseteq Timed
    /\ armed \in [Reqs -> BOOLEAN] /\ cancelled \in [Reqs -> BOOLEAN]
    /\ req_sta \in [Reqs -> {"uninitialized", "REQ_OK", "REQ_TIME_OUT"}]
    /\ pc \in [Workers -> {"idle", "arm", "acquire", "cancel", "untimer", "resume", "body"}]
    /\ at \in [Workers -> Reqs \cup {NoReq}]
    /\ co \in [Reqs -> {"new", "waiting", "resumed", "ended"}]
    /\ result \in [Reqs -> BOOLEAN] /\ tok \in [Reqs -> BOOLEAN]
    /\ resumes \in [Reqs -> Nat]

(* `Only while armed is still true does it resume': whoever of the timer    *)
(* and the semaphore comes first, a wait is resumed at most once.           *)
ResumedOnce == \A r \in Reqs : resumes[r] <= 1

(* Timeouts never create tokens: a request that is cancelled while a grant  *)
(* is on its way does not give a second owner to the token.                 *)
TokensNotDuplicated ==
    cur_val + Cardinality({ r \in Reqs : tok[r] }) <= InitVal

(* Who may resume r: one worker, which will arm it, has won its exchange    *)
(* or runs its body.                                                        *)
Claims(w, r) ==
    at[w] = r /\ pc[w] \in {"arm", "cancel", "untimer", "resume", "body"}

(* `The winner is the one whose exchange finds armed set': from            *)
(* await_suspend to the end of the body the right to resume a coroutine is  *)
(* either up for grabs (armed) or with one worker, and the coroutine has    *)
(* been resumed exactly if that worker is past handle.resume().             *)
ClaimInv ==
    /\ \A w \in Workers : pc[w] # "idle" => at[w] \in Reqs
    /\ \A w \in Workers, r \in Reqs : Claims(w, r) =>
          /\ ~ armed[r]
          /\ co[r] = IF pc[w] = "body" THEN "resumed" ELSE "waiting"
    /\ \A v, w \in Workers, r \in Reqs : Claims(v, r) /\ Claims(w, r) => v = w
    /\ \A r \in Reqs :
          /\ armed[r] => co[r] = "waiting"
          /\ co[r] \in {"new", "waiting"} => resumes[r] = 0

(* A coroutine that is told it has a token has one: until it ends, a token  *)
(* stands behind its queued event, behind the outcome REQ_OK and behind     *)
(* whoever resumes it without having set REQ_TIME_OUT.  So the release() at *)
(* its end gives back what was taken.                                       *)
GrantInv ==
    /\ \A r \in Reqs :
          co[r] # "ended" /\ (OnList(queue, Ev(r)) \/ req_sta[r] = "REQ_OK") => tok[r]
    /\ \A w \in Workers, r \in Reqs : Claims(w, r) =>
          /\ pc[w] = "untimer" => tok[r]
          /\ pc[w] = "resume" => req_sta[r] = "REQ_TIME_OUT" \/ tok[r]
          /\ pc[w] = "body" /\ result[r] => tok[r]

(* Timer and grant race safely: types, one resumption of each wait, no      *)
(* token handed out twice, and what makes these two inductive.              *)
TimeoutInv == TypeOK /\ ResumedOnce /\ TokensNotDuplicated /\ ClaimInv /\ GrantInv

(* Whoever wins, and if every holder gives its token back, a wait with a    *)
(* timeout ends.                                                            *)
EveryWaitEnds == \A r \in Timed : co[r] = "waiting" ~> co[r] # "waiting"

(* A wait that timed out did not use up a token: cancel_waiter is called to *)
(* `avoid losing the token'.                                                *)
NoTokenLostToTimeout ==
    \A r \in Reqs : resumes[r] > 0 /\ req_sta[r] = "REQ_TIME_OUT" => ~ tok[r]

(* await_resume returns true for `acquired', false for `timeout or failure'.*)
ResultTellsAcquired ==
    \A r \in Reqs : co[r] = "resumed" => (result[r] <=> tok[r])

(* A posted worknode stays valid until it has run: once the coroutine was   *)
(* resumed and the awaiter is gone, neither of its nodes is on a list and   *)
(* nobody is still in its await_suspend.                                    *)
NodesOutlivedByAwaiter ==
    \A r \in Reqs : co[r] \in {"resumed", "ended"} =>
        /\ ~ OnList(queue, Ev(r)) /\ ~ OnList(queue, Tm(r))
        /\ ~ OnList(acquire_list, r) /\ r \notin timers
        /\ \A w \in Workers : at[w] = r => pc[w] # "acquire"
=============================================================================
