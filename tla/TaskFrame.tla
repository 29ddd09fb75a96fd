------------------------------ MODULE TaskFrame ------------------------------
(***************************************************************************)
(* Coroutine frames: Task and FinalAwaiter (task/task.hpp), Work_Promise   *)
(* and post_to (task/worker.hpp), WhenAllAwaiter (task/when_all.hpp).      *)
(* Nobody owns a posted task; it must be destroyed once, by wk_cb or by a  *)
(* node posted at its completion.  A task that is awaited belongs to the   *)
(* coroutine that awaits it.                                               *)
(*                                                                         *)
(* Coroutines resume each other from inside their own final suspension, so *)
(* each worker has a call stack.  A free worker may run any posted node:   *)
(* the order of the run queue is module Executor.                          *)
(***************************************************************************)
EXTENDS Integers, Sequences, FiniteSets

CONSTANTS
    Workers,
    Roots,          \* tasks given to post_to
    Joined,         \* for each root, the tasks it passes to when_all, in order
    Called,         \* for each root, a task it co_awaits, or NoTask
    NoTask,
    MaxSuspends     \* bound on the events each task waits for

Kids(r) == { Joined[r][i] : i \in DOMAIN Joined[r] } \ {NoTask}
Owned(r) == Kids(r) \cup ({Called[r]} \ {NoTask})
Tasks == Roots \cup UNION { Owned(r) : r \in Roots }

(* The coroutine that awaits a task.                                        *)
Owner(t) == CHOOSE r \in Roots : t \in Owned(r)

ASSUME TaskAssumption ==
    /\ MaxSuspends \in Nat
    /\ Joined \in [Roots -> Seq(Tasks \cup {NoTask})] /\ DOMAIN Called = Roots
    /\ NoTask \notin Roots
    /\ \A r \in Roots : Owned(r) \cap Roots = {} /\ Called[r] \notin Kids(r)
    /\ \A r, q \in Roots : r # q => Owned(r) \cap Owned(q) = {}
    /\ \A r \in Roots : \A i, j \in DOMAIN Joined[r] :
          i # j => Joined[r][i] # Joined[r][j] \/ Joined[r][i] = NoTask

VARIABLES
    frame,                 \* of each task: where its coroutine is
    running, completionPosted,   \* of each root: _running_on_executor, _completion_posted
    count,                 \* of each root: WhenAllCtlBlock::count
    posted,                \* nodes to be run: <<"wk", task>> or <<"event", task>>
    stack,                 \* of each worker: calls under way, the innermost last
    suspends, joins, calls \* what each coroutine has done so far

promiseVars == <<running, completionPosted, count>>
progVars == <<suspends, joins, calls>>
vars == <<frame, promiseVars, posted, stack, progVars>>

Call(k, t, i) == [kind |-> k, task |-> t, arg |-> i]
Top(w) == stack[w][Len(stack[w])]
Below(w) == SubSeq(stack[w], 1, Len(stack[w]) - 1)
At(w, k) == stack[w] # << >> /\ Top(w).kind = k
SetStack(w, s) == stack' = [stack EXCEPT ![w] = s]
SetTop(w, c) == SetStack(w, Append(Below(w), c))
Pop(w) == SetStack(w, Below(w))

Init ==
    /\ frame = [t \in Tasks |-> "initial"]
    /\ running = [r \in Roots |-> FALSE] /\ completionPosted = [r \in Roots |-> FALSE]
    /\ count = [r \in Roots |-> 0]
    /\ posted = {}
    /\ stack = [w \in Workers |-> << >>]
    /\ suspends = [t \in Tasks |-> 0]
    /\ joins = [r \in Roots |-> FALSE] /\ calls = [r \in Roots |-> FALSE]

-----------------------------------------------------------------------------
(* Posted tasks.                                                           *)

(* post_to: prepare_for_post, detach, post.                                 *)
PostTo(r) ==
    /\ frame[r] = "initial" /\ <<"wk", r>> \notin posted
    /\ \A w \in Workers : \A i \in DOMAIN stack[w] : stack[w][i].task # r
    /\ posted' = posted \cup {<<"wk", r>>}
    /\ completionPosted' = [completionPosted EXCEPT ![r] = FALSE]
    /\ UNCHANGED <<frame, running, count, stack, progVars>>

(* The event a coroutine waits for has come (semaphore, timer, reactor ...) *)
(* and its awaiter's node is posted.                                        *)
EventArrives(t) ==
    /\ frame[t] = "suspended" /\ <<"event", t>> \notin posted
    /\ posted' = posted \cup {<<"event", t>>}
    /\ UNCHANGED <<frame, promiseVars, stack, progVars>>

(* A worker runs a node: wk_cb of a task, or the awaiter's h.resume().      *)
TakeTask(w, r) ==
    /\ stack[w] = << >> /\ <<"wk", r>> \in posted
    /\ posted' = posted \ {<<"wk", r>>}
    /\ SetStack(w, <<Call("wk_cb", r, 0)>>)
    /\ UNCHANGED <<frame, promiseVars, progVars>>

TakeEvent(w, t) ==
    /\ stack[w] = << >> /\ <<"event", t>> \in posted
    /\ posted' = posted \ {<<"event", t>>}
    /\ frame' = [frame EXCEPT ![t] = "running"]
    /\ SetStack(w, <<Call("run", t, 0)>>)
    /\ UNCHANGED <<promiseVars, progVars>>

(* wk_cb: resume unless the coroutine is done ...                           *)
WkResume(w) ==
    /\ At(w, "wk_cb")
    /\ LET r == Top(w).task
       IN  /\ running' = [running EXCEPT ![r] = TRUE]
           /\ IF frame[r] # "final"
                THEN /\ frame' = [frame EXCEPT ![r] = "running"]
                     /\ SetStack(w, Below(w) \o <<Call("wk_back", r, 0), Call("run", r, 0)>>)
                ELSE SetTop(w, Call("wk_back", r, 0)) /\ UNCHANGED frame
    /\ UNCHANGED <<completionPosted, count, posted, progVars>>

(* ... when it has suspended or ended, not running any more ...             *)
WkBack(w) ==
    /\ At(w, "wk_back")
    /\ running' = [running EXCEPT ![Top(w).task] = FALSE]
    /\ SetTop(w, Call("wk_done", Top(w).task, 0))
    /\ UNCHANGED <<frame, completionPosted, count, posted, progVars>>

(* Variant with a fault: leaves a task that is done to nobody.              *)
WkDoneKeeps(w) ==
    /\ At(w, "wk_done")
    /\ Pop(w)
    /\ UNCHANGED <<frame, promiseVars, posted, progVars>>

(* ... and destroyed if it is done.                                         *)
WkDone(w) ==
    /\ At(w, "wk_done")
    /\ LET r == Top(w).task
       IN  IF frame[r] = "final"
             THEN /\ completionPosted' = [completionPosted EXCEPT ![r] = FALSE]
                  /\ frame' = [frame EXCEPT ![r] = "destroyed"]
             ELSE UNCHANGED <<frame, completionPosted>>
    /\ Pop(w)
    /\ UNCHANGED <<running, count, posted, progVars>>

-----------------------------------------------------------------------------
(* What a running coroutine does.                                          *)

(* It waits for an event: resume() returns to whoever called it.            *)
Suspend(w) ==
    /\ At(w, "run")
    /\ suspends[Top(w).task] < MaxSuspends
    /\ suspends' = [suspends EXCEPT ![Top(w).task] = @ + 1]
    /\ frame' = [frame EXCEPT ![Top(w).task] = "suspended"]
    /\ Pop(w)
    /\ UNCHANGED <<promiseVars, posted, joins, calls>>

(* co_await of a task: Awaiter::await_suspend sets mPrevious and transfers. *)
AwaitTask(w) ==
    /\ At(w, "run") /\ Top(w).task \in Roots
    /\ LET r == Top(w).task
       IN  /\ Called[r] # NoTask /\ ~ calls[r]
           /\ calls' = [calls EXCEPT ![r] = TRUE]
           /\ frame' = [frame EXCEPT ![r] = "awaiting", ![Called[r]] = "running"]
           /\ SetTop(w, Call("run", Called[r], 0))
    /\ UNCHANGED <<promiseVars, posted, suspends, joins>>

(* co_await when_all(...)                                                   *)
AwaitAll(w) ==
    /\ At(w, "run") /\ Top(w).task \in Roots
    /\ LET r == Top(w).task
       IN  /\ Joined[r] # << >> /\ ~ joins[r]
           /\ joins' = [joins EXCEPT ![r] = TRUE]
           /\ count' = [count EXCEPT ![r] = Len(Joined[r])]
           /\ frame' = [frame EXCEPT ![r] = "awaiting"]
           /\ SetTop(w, Call("join", r, 1))
    /\ UNCHANGED <<running, completionPosted, posted, suspends, calls>>

(* WhenAllAwaiter::await_suspend resumes the tasks one after the other; a   *)
(* task that holds no coroutine is passed over.                             *)
JoinNext(w) ==
    /\ At(w, "join")
    /\ LET r == Top(w).task  i == Top(w).arg
       IN  \/ /\ i > Len(Joined[r])
              /\ Pop(w) /\ UNCHANGED frame
           \/ /\ i <= Len(Joined[r])
              /\ IF Joined[r][i] = NoTask
                   THEN SetTop(w, Call("join", r, i + 1)) /\ UNCHANGED frame
                   ELSE /\ frame' = [frame EXCEPT ![Joined[r][i]] = "running"]
                        /\ SetStack(w, Below(w) \o <<Call("join", r, i + 1),
                                                     Call("run", Joined[r][i], 0)>>)
    /\ UNCHANGED <<promiseVars, posted, progVars>>

(* co_return: the locals go, the tasks it awaited among them, and the       *)
(* coroutine is at its final suspension.                                    *)
Return(w) ==
    /\ At(w, "run")
    /\ LET t == Top(w).task
       IN  /\ t \in Roots => (Joined[t] # << >> => joins[t]) /\ (Called[t] # NoTask => calls[t])
           /\ frame' = [u \in Tasks |-> IF u = t THEN "final"
                                        ELSE IF t \in Roots /\ u \in Owned(t) THEN "destroyed"
                                        ELSE frame[u]]
           /\ SetTop(w, Call("final", t, 0))
    /\ UNCHANGED <<promiseVars, posted, progVars>>

-----------------------------------------------------------------------------
(* FinalAwaiter::await_suspend.                                            *)

(* Variant with a fault: does not ask whether wk_cb is still there.         *)
FinalRootAlwaysPosts(w) ==
    /\ At(w, "final") /\ Top(w).task \in Roots
    /\ LET r == Top(w).task
       IN  IF ~ completionPosted[r]
             THEN /\ completionPosted' = [completionPosted EXCEPT ![r] = TRUE]
                  /\ posted' = posted \cup {<<"wk", r>>}
             ELSE UNCHANGED <<completionPosted, posted>>
    /\ Pop(w)
    /\ UNCHANGED <<frame, running, count, progVars>>

(* A posted task: on_completed_adapter.  post() makes wk_cb the function of *)
(* the node again.                                                          *)
FinalRoot(w) ==
    /\ At(w, "final") /\ Top(w).task \in Roots
    /\ LET r == Top(w).task
       IN  IF ~ completionPosted[r] /\ ~ running[r]
             THEN /\ completionPosted' = [completionPosted EXCEPT ![r] = TRUE]
                  /\ posted' = posted \cup {<<"wk", r>>}
             ELSE UNCHANGED <<completionPosted, posted>>
    /\ Pop(w)
    /\ UNCHANGED <<frame, running, count, progVars>>

(* An awaited task: mPrevious goes on.                                      *)
FinalCalled(w) ==
    /\ At(w, "final") /\ Top(w).task \notin Roots
    /\ LET t == Top(w).task  r == Owner(t)
       IN  /\ t = Called[r]
           /\ frame' = [frame EXCEPT ![r] = "running"]
           /\ SetTop(w, Call("run", r, 0))
    /\ UNCHANGED <<promiseVars, posted, progVars>>

(* A joined task: on_completed reads the plain counter ...                  *)
FinalJoined(w) ==
    /\ At(w, "final") /\ Top(w).task \notin Roots
    /\ LET t == Top(w).task
       IN  /\ t \in Kids(Owner(t))
           /\ SetTop(w, Call("count", t, count[Owner(t)]))
    /\ UNCHANGED <<frame, promiseVars, posted, progVars>>

(* Variant with a fault: the first task that ends resumes the coroutine.    *)
JoinAtFirst(w) ==
    /\ At(w, "count")
    /\ LET r == Owner(Top(w).task)
       IN  /\ count' = [count EXCEPT ![r] = Top(w).arg - 1]
           /\ IF frame[r] = "awaiting"
                THEN /\ frame' = [frame EXCEPT ![r] = "running"]
                     /\ SetStack(w, Below(w) \o <<Call("unwind", Top(w).task, 0), Call("run", r, 0)>>)
                ELSE Pop(w) /\ UNCHANGED frame
    /\ UNCHANGED <<running, completionPosted, posted, progVars>>

(* ... writes it back and resumes the coroutine when it was the last.       *)
JoinCount(w) ==
    /\ At(w, "count")
    /\ LET r == Owner(Top(w).task)
       IN  /\ count' = [count EXCEPT ![r] = Top(w).arg - 1]
           /\ IF Top(w).arg = 1
                THEN /\ frame' = [frame EXCEPT ![r] = "running"]
                     /\ SetStack(w, Below(w) \o <<Call("unwind", Top(w).task, 0), Call("run", r, 0)>>)
                ELSE Pop(w) /\ UNCHANGED frame
    /\ UNCHANGED <<running, completionPosted, posted, progVars>>

(* The resumed coroutine has suspended or ended; nothing is left to do.     *)
Unwind(w) ==
    /\ At(w, "unwind")
    /\ Pop(w)
    /\ UNCHANGED <<frame, promiseVars, posted, progVars>>

-----------------------------------------------------------------------------

WorkerStep(w) ==
    \/ \E r \in Roots : TakeTask(w, r)
    \/ \E t \in Tasks : TakeEvent(w, t)
    \/ WkResume(w) \/ WkBack(w) \/ WkDone(w)
    \/ Suspend(w) \/ AwaitTask(w) \/ AwaitAll(w) \/ JoinNext(w) \/ Return(w)
    \/ FinalRoot(w) \/ FinalCalled(w) \/ FinalJoined(w) \/ JoinCount(w) \/ Unwind(w)

Next ==
    \/ \E r \in Roots : PostTo(r)
    \/ \E t \in Tasks : EventArrives(t)
    \/ \E w \in Workers : WorkerStep(w)

Spec == Init /\ [][Next]_vars

(* Workers run, every posted node is taken (Executor, OneShotServed) and    *)
(* the events that coroutines wait for come.                                *)
Fairness ==
    /\ \A w \in Workers : WF_vars(WorkerStep(w))
    /\ \A r \in Roots : SF_vars(\E w \in Workers : TakeTask(w, r))
    /\ \A t \in Tasks : /\ WF_vars(EventArrives(t))
                        /\ SF_vars(\E w \in Workers : TakeEvent(w, t))

FairSpec == Spec /\ Fairness

-----------------------------------------------------------------------------
(* Properties.                                                             *)

Kinds == {"wk_cb", "wk_back", "wk_done", "run", "join", "final", "count", "unwind"}
Calls == [kind : Kinds, task : Tasks, arg : Nat]

(* The variables have their types.                                          *)
TypeOK ==
    /\ frame \in [Tasks -> {"initial", "running", "suspended", "awaiting", "final", "destroyed"}]
    /\ running \in [Roots -> BOOLEAN] /\ completionPosted \in [Roots -> BOOLEAN]
    /\ count \in [Roots -> Nat]
    /\ posted \subseteq {"wk", "event"} \X Tasks
    /\ stack \in [Workers -> Seq(Calls)]
    /\ suspends \in [Tasks -> 0 .. MaxSuspends]
    /\ joins \in [Roots -> BOOLEAN] /\ calls \in [Roots -> BOOLEAN]

(* The call still reads or writes the frame of its task, or the control     *)
(* block in the frame of the coroutine that joins it.                       *)
Touches(c, t) ==
    \/ c.kind \in {"wk_cb", "wk_back", "wk_done", "run", "final"} /\ c.task = t
    \/ c.kind = "join" /\ c.task = t /\ c.arg <= Len(Joined[t])
    \/ c.kind = "count" /\ t = Owner(c.task)

(* No use after destruction: while a frame's node is posted, or a call that *)
(* still needs the frame is under way, the frame exists.  With the two ways *)
(* of destroying a posted task this also says that it is destroyed once.    *)
FramesAlive ==
    \A t \in Tasks : frame[t] = "destroyed" =>
        /\ <<"wk", t>> \notin posted /\ <<"event", t>> \notin posted
        /\ \A w \in Workers : \A i \in DOMAIN stack[w] : ~ Touches(stack[w][i], t)

(* The worker is the one that goes on with task t.                          *)
Drives(w, t) ==
    /\ stack[w] # << >> /\ Top(w).task = t
    /\ Top(w).kind \in {"wk_cb", "run", "final", "count"}

(* The calls below the innermost one wait for it to return.                 *)
CallsNest ==
    \A w \in Workers : \A i \in DOMAIN stack[w] :
        LET c == stack[w][i]
        IN  /\ i < Len(stack[w]) => c.kind \in {"wk_back", "join", "unwind"}
            /\ c.kind \in {"wk_cb", "wk_back", "wk_done", "join"} => c.task \in Roots
            /\ c.kind = "join" => c.arg >= 1

(* A coroutine is in one place: with one worker, or in a posted node.       *)
OneControl ==
    \A t \in Tasks : \A w \in Workers :
        Drives(w, t) => /\ <<"wk", t>> \notin posted
                        /\ \A v \in Workers \ {w} : ~ Drives(v, t)

(* What its frame says of it.                                               *)
FrameTells ==
    \A t \in Tasks :
        /\ <<"event", t>> \in posted => frame[t] = "suspended"
        /\ <<"wk", t>> \in posted =>
              t \in Roots /\ frame[t] \in {"initial", "final", "destroyed"}
        /\ \A w \in Workers : Drives(w, t) =>
              /\ Top(w).kind = "wk_cb" => frame[t] \in {"initial", "final", "destroyed"}
              /\ Top(w).kind = "run" => frame[t] = "running"
              /\ Top(w).kind \in {"final", "count"} => frame[t] \in {"final", "destroyed"}
              /\ Top(w).kind \in {"final", "count"} /\ t \notin Roots =>
                    frame[t] = "final" /\ frame[Owner(t)] = "awaiting"
              /\ Top(w).kind = "count" => t \notin Roots /\ t \in Kids(Owner(t))

(* The task has ended, and its completion has been seen to.                 *)
Over(t) == frame[t] \in {"final", "destroyed"} /\ \A w \in Workers : ~ Drives(w, t)

(* The places in the list given to when_all that have not counted down.     *)
Open(r) == { i \in DOMAIN Joined[r] : Joined[r][i] = NoTask \/ ~ Over(Joined[r][i]) }

(* A coroutine that goes on has nothing open among the tasks it has         *)
(* started, and waits for one thing at a time.                              *)
OwnersWait ==
    \A r \in Roots :
        /\ frame[r] = "initial" => ~ joins[r] /\ ~ calls[r]
        /\ ~ joins[r] => \A t \in Kids(r) : frame[t] = "initial"
        /\ ~ calls[r] => Called[r] = NoTask \/ frame[Called[r]] = "initial"
        /\ calls[r] => Called[r] # NoTask
        /\ joins[r] => frame[r] = "awaiting" \/ Open(r) = {}
        /\ calls[r] => frame[r] = "awaiting" \/ Over(Called[r])
        /\ joins[r] /\ calls[r] => Open(r) = {} \/ Over(Called[r])
        /\ \A t \in Owned(r) : frame[t] = "destroyed" =>
              /\ frame[r] # "awaiting"
              /\ Joined[r] # << >> => joins[r]
              /\ Called[r] # NoTask => calls[r]

(* While when_all is starting tasks its coroutine waits, and those it has   *)
(* not come to are untouched.                                               *)
JoinsInOrder ==
    \A w \in Workers : \A i \in DOMAIN stack[w] :
        LET c == stack[w][i]  r == c.task
        IN  c.kind = "join" =>
              /\ joins[r]
              /\ c.arg <= Len(Joined[r]) => frame[r] = "awaiting"
              /\ \A j \in DOMAIN Joined[r] :
                    j >= c.arg => Joined[r][j] = NoTask \/ frame[Joined[r][j]] = "initial"
              /\ \A v \in Workers : \A k \in DOMAIN stack[v] :
                    stack[v][k].kind = "join" /\ stack[v][k].task = r => v = w /\ k = i

(* The plain counter may lose a decrement, but it never runs ahead of the   *)
(* tasks that have ended.                                                   *)
CountsOpen ==
    \A r \in Roots : joins[r] =>
        /\ count[r] >= Cardinality(Open(r))
        /\ \A w \in Workers : At(w, "count") /\ Top(w).task \in Kids(r) =>
              Top(w).arg >= Cardinality(Open(r))

(* Whatever the number of workers: a coroutine is never in two places, and  *)
(* when_all counts no task that has not ended.                              *)
ControlInv ==
    TypeOK /\ CallsNest /\ OneControl /\ FrameTells /\ OwnersWait /\ JoinsInOrder /\ CountsOpen

(* With one worker: wk_cb is the outermost call and has the task to itself. *)
WkCbAlone ==
    /\ \A w \in Workers : \A i \in DOMAIN stack[w] :
          LET c == stack[w][i]  r == c.task
          IN  c.kind \in {"wk_cb", "wk_back", "wk_done"} =>
                /\ i = 1
                /\ <<"wk", r>> \notin posted
                /\ frame[r] # "destroyed"
                /\ c.kind = "wk_back" => running[r]
    /\ \A r \in Roots :
          frame[r] = "destroyed" => <<"wk", r>> \notin posted /\ \A w \in Workers : ~ Drives(w, r)

(* Types, and no frame is used after its destruction.                       *)
FrameInv == ControlInv /\ WkCbAlone /\ FramesAlive

(* when_all resumes its coroutine only when every task it joins has ended.  *)
JoinWaitsForAll ==
    [][ \A r \in Roots :
          joins[r] /\ frame[r] = "awaiting" /\ frame'[r] = "running"
          /\ (Called[r] # NoTask => frame[Called[r]] # "final")
            => \A t \in Kids(r) : frame[t] = "final" ]_vars

(* A posted task is destroyed in the end: none is leaked, although the      *)
(* decision who destroys it is made before it has left its final suspension.*)
NoFrameLeaked == \A r \in Roots : <<"wk", r>> \in posted ~> frame[r] = "destroyed"
=============================================================================
