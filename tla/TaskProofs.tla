----------------------------- MODULE TaskProofs -----------------------------
(* when_all resumes its coroutine only when all its tasks have ended, for    *)
(* any number of workers; with one worker no frame is used after its         *)
(* destruction.                                                              *)
EXTENDS TaskFrame, FiniteSetTheorems, TLAPS

-----------------------------------------------------------------------------
(* The tasks and their owners.                                             *)

(* A task that is awaited has one owner and is not posted.                  *)
LEMMA OwnedTask ==
    ASSUME NEW r \in Roots, NEW t \in Owned(r)
    PROVE  Owner(t) = r /\ t \notin Roots /\ t \in Tasks
  <1>1. Owner(t) \in Roots /\ t \in Owned(Owner(t))
    BY DEF Owner
  <1>2. Owner(t) = r
    <2>1. SUFFICES ASSUME Owner(t) # r PROVE FALSE
      OBVIOUS
    <2>2. Owned(r) \cap Owned(Owner(t)) = {}
      BY <1>1, <2>1, TaskAssumption
    <2> QED  BY <1>1, <2>2
  <1>3. t \notin Roots
    <2>1. Owned(r) \cap Roots = {}
      BY TaskAssumption
    <2> QED  BY <2>1
  <1> QED  BY <1>2, <1>3 DEF Tasks

(* A task that is not posted is awaited by its owner.                       *)
LEMMA OwnerOf ==
    ASSUME NEW t \in Tasks, t \notin Roots
    PROVE  Owner(t) \in Roots /\ t \in Owned(Owner(t))
  BY DEF Owner, Tasks

LEMMA NoTaskIsNone == NoTask \notin Tasks
  BY TaskAssumption DEF Tasks, Owned, Kids

(* The list given to when_all.                                              *)
LEMMA JoinedList ==
    ASSUME NEW r \in Roots
    PROVE  /\ Len(Joined[r]) \in Nat /\ DOMAIN Joined[r] = 1 .. Len(Joined[r])
           /\ \A i \in DOMAIN Joined[r] : Joined[r][i] = NoTask \/ Joined[r][i] \in Kids(r)
           /\ \A t \in Kids(r) : \E i \in DOMAIN Joined[r] : Joined[r][i] = t
           /\ Kids(r) \subseteq Owned(r) /\ NoTask \notin Kids(r)
           /\ Joined[r] # << >> <=> Len(Joined[r]) > 0
           /\ \A i, j \in DOMAIN Joined[r] :
                 Joined[r][i] = Joined[r][j] => i = j \/ Joined[r][i] = NoTask
  <1>1. Joined[r] \in Seq(Tasks \cup {NoTask})
    BY TaskAssumption
  <1>2. \A i, j \in DOMAIN Joined[r] : Joined[r][i] = Joined[r][j] => i = j \/ Joined[r][i] = NoTask
    BY TaskAssumption
  <1> QED  BY <1>1, <1>2 DEF Kids, Owned

(* The task it awaits on its own.                                           *)
LEMMA CalledTask ==
    ASSUME NEW r \in Roots, Called[r] # NoTask
    PROVE  Called[r] \in Owned(r) /\ Called[r] \notin Kids(r)
  BY TaskAssumption DEF Owned

-----------------------------------------------------------------------------
(* The stacks.                                                             *)

(* What an action does to the stack of its worker, call by call.            *)
Others(w) == stack' \in [Workers -> Seq(Calls)] /\ \A v \in Workers \ {w} : stack'[v] = stack[v]
Same(w, n) == \A i \in 1 .. n : stack'[w][i] = stack[w][i]

Began(w, c) ==
    /\ Others(w) /\ stack[w] = << >>
    /\ Len(stack'[w]) = 1 /\ stack'[w][1] = c
Popped(w) ==
    /\ Others(w) /\ stack[w] # << >>
    /\ Len(stack'[w]) = Len(stack[w]) - 1 /\ Same(w, Len(stack[w]) - 1)
Replaced(w, c) ==
    /\ Others(w) /\ stack[w] # << >>
    /\ Len(stack'[w]) = Len(stack[w]) /\ Same(w, Len(stack[w]) - 1)
    /\ stack'[w][Len(stack[w])] = c
Pushed(w, c, d) ==
    /\ Others(w) /\ stack[w] # << >>
    /\ Len(stack'[w]) = Len(stack[w]) + 1 /\ Same(w, Len(stack[w]) - 1)
    /\ stack'[w][Len(stack[w])] = c /\ stack'[w][Len(stack[w]) + 1] = d

LEMMA TopTyped ==
    ASSUME TypeOK, NEW w \in Workers, stack[w] # << >>
    PROVE  /\ Top(w) \in Calls /\ Len(stack[w]) \in Nat \ {0}
           /\ DOMAIN stack[w] = 1 .. Len(stack[w])
           /\ Top(w) = stack[w][Len(stack[w])]
  BY DEF TypeOK, Top

LEMMA StackChanges ==
    ASSUME TypeOK, NEW w \in Workers, NEW s \in Seq(Calls), SetStack(w, s)
    PROVE  Others(w) /\ stack'[w] = s
  BY DEF TypeOK, SetStack, Others

LEMMA BelowFacts ==
    ASSUME TypeOK, NEW w \in Workers, stack[w] # << >>
    PROVE  /\ Below(w) \in Seq(Calls) /\ Len(Below(w)) = Len(stack[w]) - 1
           /\ \A i \in 1 .. Len(stack[w]) - 1 : Below(w)[i] = stack[w][i]
  <1>1. stack[w] \in Seq(Calls) /\ Len(stack[w]) \in Nat \ {0}
    BY TopTyped DEF TypeOK
  <1> QED  BY <1>1 DEF Below

LEMMA PopStack ==
    ASSUME TypeOK, NEW w \in Workers, stack[w] # << >>, Pop(w)
    PROVE  Popped(w)
  <1>1. /\ Below(w) \in Seq(Calls) /\ Len(Below(w)) = Len(stack[w]) - 1
        /\ \A i \in 1 .. Len(stack[w]) - 1 : Below(w)[i] = stack[w][i]
    BY BelowFacts
  <1>2. Others(w) /\ stack'[w] = Below(w)
    BY <1>1, StackChanges DEF Pop
  <1> QED  BY <1>1, <1>2 DEF Popped, Same

LEMMA ReplaceTop ==
    ASSUME TypeOK, NEW w \in Workers, stack[w] # << >>, NEW c \in Calls, SetTop(w, c)
    PROVE  Replaced(w, c)
  <1>1. /\ Below(w) \in Seq(Calls) /\ Len(Below(w)) = Len(stack[w]) - 1
        /\ \A i \in 1 .. Len(stack[w]) - 1 : Below(w)[i] = stack[w][i]
        /\ Len(stack[w]) \in Nat \ {0}
    BY BelowFacts, TopTyped
  <1> DEFINE s == Append(Below(w), c)
  <1>2. /\ s \in Seq(Calls) /\ Len(s) = Len(stack[w]) /\ s[Len(stack[w])] = c
        /\ \A i \in 1 .. Len(stack[w]) - 1 : s[i] = Below(w)[i]
    BY <1>1
  <1>3. Others(w) /\ stack'[w] = s
    BY <1>2, StackChanges DEF SetTop
  <1> HIDE DEF s
  <1> QED  BY <1>1, <1>2, <1>3 DEF Replaced, Same

LEMMA PushTop ==
    ASSUME TypeOK, NEW w \in Workers, stack[w] # << >>, NEW c \in Calls, NEW d \in Calls,
           SetStack(w, Below(w) \o <<c, d>>)
    PROVE  Pushed(w, c, d)
  <1>1. /\ Below(w) \in Seq(Calls) /\ Len(Below(w)) = Len(stack[w]) - 1
        /\ \A i \in 1 .. Len(stack[w]) - 1 : Below(w)[i] = stack[w][i]
        /\ Len(stack[w]) \in Nat \ {0}
    BY BelowFacts, TopTyped
  <1> DEFINE s == Below(w) \o <<c, d>>
  <1>2. /\ s \in Seq(Calls) /\ Len(s) = Len(stack[w]) + 1
        /\ s[Len(stack[w])] = c /\ s[Len(stack[w]) + 1] = d
        /\ \A i \in 1 .. Len(stack[w]) - 1 : s[i] = Below(w)[i]
    BY SMTT(30), <1>1
  <1>3. Others(w) /\ stack'[w] = s
    BY <1>2, StackChanges
  <1> HIDE DEF s
  <1> QED  BY <1>1, <1>2, <1>3 DEF Pushed, Same

LEMMA BeginStack ==
    ASSUME TypeOK, NEW w \in Workers, stack[w] = << >>, NEW c \in Calls, SetStack(w, <<c>>)
    PROVE  Began(w, c)
  <1>1. <<c>> \in Seq(Calls)
    OBVIOUS
  <1>2. Others(w) /\ stack'[w] = <<c>>
    BY <1>1, StackChanges
  <1> QED  BY <1>2 DEF Began
(* The calls that go on with a task, and what an action makes of them: c is *)
(* the innermost call of its worker afterwards.                             *)
Driving == {"wk_cb", "run", "final", "count"}
Back == Call("unwind", NoTask, 0)

Turn(w, c) ==
    /\ \A t \in Tasks : Drives(w, t)' <=> c.task = t /\ c.kind \in Driving
    /\ c.kind \in Driving => Top(w)' = c
    /\ At(w, "count")' <=> c.kind = "count"
    /\ \A v \in Workers \ {w} :
          /\ Top(v)' = Top(v) /\ (At(v, "count")' <=> At(v, "count"))
          /\ \A t \in Tasks : Drives(v, t)' <=> Drives(v, t)

(* A stack that the action leaves alone.                                    *)
LEMMA OtherTops ==
    ASSUME NEW v \in Workers, stack'[v] = stack[v]
    PROVE  /\ Top(v)' = Top(v) /\ (At(v, "count")' <=> At(v, "count"))
           /\ \A t \in Tasks : Drives(v, t)' <=> Drives(v, t)
  BY DEF Top, At, Drives

LEMMA TurnsTo ==
    ASSUME NEW w \in Workers, NEW c \in Calls,
           \A v \in Workers \ {w} : stack'[v] = stack[v],
           stack'[w] # << >>, stack'[w][Len(stack'[w])] = c
    PROVE  Turn(w, c)
  <1>1. Top(w)' = c
    BY DEF Top
  <1>2. \A t \in Tasks : Drives(w, t)' <=> c.task = t /\ c.kind \in Driving
    BY <1>1 DEF Drives, Driving
  <1>3. At(w, "count")' <=> c.kind = "count"
    BY <1>1 DEF At
  <1> QED  BY <1>1, <1>2, <1>3, OtherTops DEF Turn

LEMMA TurnsBack ==
    ASSUME TypeOK, CallsNest, NEW w \in Workers, Popped(w)
    PROVE  Turn(w, Back)
  <1>1. Back.kind = "unwind" /\ Back.kind \notin Driving
    BY DEF Back, Call, Driving
  <1>2. /\ stack[w] \in Seq(Calls) /\ stack'[w] \in Seq(Calls)
        /\ Len(stack[w]) \in Nat \ {0} /\ DOMAIN stack[w] = 1 .. Len(stack[w])
        /\ \A v \in Workers \ {w} : stack'[v] = stack[v]
    BY TopTyped DEF TypeOK, Popped, Others
  <1>3. CASE stack'[w] = << >>
    <2>1. ~ At(w, "count")' /\ \A t \in Tasks : ~ Drives(w, t)'
      BY <1>3 DEF At, Drives
    <2> QED  BY <1>1, <1>2, <2>1, OtherTops DEF Turn
  <1>4. CASE stack'[w] # << >>
    <2> DEFINE n == Len(stack[w]) - 1
    <2>1. n \in 1 .. Len(stack[w]) /\ n < Len(stack[w]) /\ Len(stack'[w]) = n
      BY <1>2, <1>4 DEF Popped
    <2>2. stack'[w][n] = stack[w][n]
      BY <2>1 DEF Popped, Same
    <2>3. stack[w][n].kind \in {"wk_back", "join", "unwind"}
      BY <1>2, <2>1 DEF CallsNest
    <2>4. Top(w)'.kind \in {"wk_back", "join", "unwind"}
      BY <2>1, <2>2, <2>3 DEF Top
    <2>5. ~ At(w, "count")' /\ \A t \in Tasks : ~ Drives(w, t)'
      BY <2>4 DEF At, Drives
    <2> QED  BY <1>1, <1>2, <2>5, OtherTops DEF Turn
  <1> QED  BY <1>3, <1>4

LEMMA TurnOf ==
    ASSUME TypeOK, CallsNest, NEW w \in Workers
    PROVE  /\ Popped(w) => Turn(w, Back)
           /\ \A c \in Calls : Began(w, c) \/ Replaced(w, c) => Turn(w, c)
           /\ \A c, d \in Calls : Pushed(w, c, d) => Turn(w, d)
  <1>1. ASSUME NEW c \in Calls, Began(w, c) PROVE Turn(w, c)
    <2>1. stack'[w] \in Seq(Calls) /\ Len(stack'[w]) = 1
      BY <1>1 DEF Began, Others
    <2>2. stack'[w] # << >> /\ stack'[w][Len(stack'[w])] = c
      BY <1>1, <2>1 DEF Began
    <2> QED  BY <1>1, <2>2, TurnsTo DEF Began, Others
  <1>2. ASSUME NEW c \in Calls, Replaced(w, c) PROVE Turn(w, c)
    <2>1. Len(stack[w]) \in Nat \ {0} /\ stack'[w] \in Seq(Calls)
      BY <1>2, TopTyped DEF Replaced, Others
    <2> QED  BY <1>2, <2>1, TurnsTo DEF Replaced, Others
  <1>3. ASSUME NEW c \in Calls, NEW d \in Calls, Pushed(w, c, d) PROVE Turn(w, d)
    <2>1. Len(stack[w]) \in Nat \ {0} /\ stack'[w] \in Seq(Calls)
      BY <1>3, TopTyped DEF Pushed, Others
    <2> QED  BY <1>3, <2>1, TurnsTo DEF Pushed, Others
  <1>4. Popped(w) => Turn(w, Back)
    BY TurnsBack
  <1> QED  BY <1>1, <1>2, <1>3, <1>4

(* The worker's innermost call was `old' (Back if it had none that goes on  *)
(* with a task) and is `new'.                                               *)
Moves(w, old, new) ==
    /\ \A t \in Tasks : Drives(w, t) <=> old.task = t /\ old.kind \in Driving
    /\ Turn(w, new)

(* Only the frame of t changes.                                             *)
FrameSet(t, x) == frame'[t] = x /\ \A u \in Tasks \ {t} : frame'[u] = frame[u]

LEMMA CallFacts ==
    ASSUME NEW k, NEW t, NEW i
    PROVE  /\ Call(k, t, i).kind = k /\ Call(k, t, i).task = t /\ Call(k, t, i).arg = i
           /\ k \in Kinds /\ t \in Tasks /\ i \in Nat => Call(k, t, i) \in Calls
  BY DEF Call, Calls

LEMMA FrameChange ==
    ASSUME TypeOK, NEW t \in Tasks, NEW x, frame' = [frame EXCEPT ![t] = x]
    PROVE  FrameSet(t, x)
  BY DEF TypeOK, FrameSet

LEMMA DrivesTop ==
    ASSUME NEW w \in Workers
    PROVE  /\ stack[w] = << >> => \A t \in Tasks : Drives(w, t) <=> Back.task = t /\ Back.kind \in Driving
           /\ stack[w] # << >> => \A t \in Tasks : Drives(w, t) <=> Top(w).task = t /\ Top(w).kind \in Driving
  <1>1. Back.kind \notin Driving
    BY DEF Back, Call, Driving
  <1> QED  BY <1>1 DEF Drives, Driving

LEMMA StackMoves ==
    ASSUME TypeOK, CallsNest, NEW w \in Workers
    PROVE  /\ Popped(w) => Moves(w, Top(w), Back)
           /\ \A c \in Calls : Began(w, c) => Moves(w, Back, c)
           /\ \A c \in Calls : Replaced(w, c) => Moves(w, Top(w), c)
           /\ \A c, d \in Calls : Pushed(w, c, d) => Moves(w, Top(w), d)
  BY TurnOf, DrivesTop DEF Moves, Popped, Began, Replaced, Pushed

(* No stack changes.                                                        *)
Still == \A v \in Workers : /\ Top(v)' = Top(v) /\ (At(v, "count")' <=> At(v, "count"))
                            /\ \A t \in Tasks : Drives(v, t)' <=> Drives(v, t)

LEMMA StackStill ==
    ASSUME UNCHANGED stack
    PROVE  Still
  BY OtherTops DEF Still

(* The task of an innermost call.                                           *)
LEMMA TopTask ==
    ASSUME TypeOK, NEW w \in Workers, NEW k, At(w, k)
    PROVE  /\ stack[w] # << >> /\ Top(w) \in Calls /\ Top(w).task \in Tasks /\ Top(w).arg \in Nat
           /\ Top(w).kind = k
  BY TopTyped DEF At, Calls

LEMMA TopRoot ==
    ASSUME TypeOK, CallsNest, NEW w \in Workers, NEW k \in {"wk_cb", "wk_back", "wk_done", "join"},
           At(w, k)
    PROVE  Top(w).task \in Roots /\ (k = "join" => Top(w).arg >= 1)
  <1>1. /\ stack[w] # << >> /\ Top(w).kind = k
        /\ Len(stack[w]) \in DOMAIN stack[w] /\ Top(w) = stack[w][Len(stack[w])]
    BY TopTyped DEF At
  <1> QED  BY <1>1 DEF CallsNest

LEMMA RootsAreTasks == Roots \subseteq Tasks
  BY DEF Tasks

-----------------------------------------------------------------------------
(* What each action does, in these terms.                                  *)

LEMMA TakeTaskDoes ==
    ASSUME TypeOK, CallsNest, NEW w \in Workers, NEW r \in Roots, TakeTask(w, r)
    PROVE  /\ Began(w, Call("wk_cb", r, 0)) /\ Moves(w, Back, Call("wk_cb", r, 0))
           /\ <<"wk", r>> \in posted /\ posted' = posted \ {<<"wk", r>>}
           /\ UNCHANGED <<frame, promiseVars, progVars>>
  <1>1. Call("wk_cb", r, 0) \in Calls
    BY CallFacts, RootsAreTasks DEF Kinds
  <1>2. Began(w, Call("wk_cb", r, 0))
    BY <1>1, BeginStack DEF TakeTask
  <1> QED  BY <1>1, <1>2, StackMoves DEF TakeTask

LEMMA TakeEventDoes ==
    ASSUME TypeOK, CallsNest, NEW w \in Workers, NEW t \in Tasks, TakeEvent(w, t)
    PROVE  /\ Began(w, Call("run", t, 0)) /\ Moves(w, Back, Call("run", t, 0))
           /\ <<"event", t>> \in posted /\ posted' = posted \ {<<"event", t>>}
           /\ FrameSet(t, "running")
           /\ UNCHANGED <<promiseVars, progVars>>
  <1>1. Call("run", t, 0) \in Calls
    BY CallFacts DEF Kinds
  <1>2. Began(w, Call("run", t, 0))
    BY <1>1, BeginStack DEF TakeEvent
  <1>3. FrameSet(t, "running")
    BY FrameChange DEF TakeEvent
  <1> QED  BY <1>1, <1>2, <1>3, StackMoves DEF TakeEvent

(* wk_cb resumes the task unless it is done.                                *)
LEMMA WkResumeDoes ==
    ASSUME TypeOK, CallsNest, NEW w \in Workers, WkResume(w), NEW r, r = Top(w).task
    PROVE  /\ At(w, "wk_cb") /\ r \in Roots /\ Top(w).kind = "wk_cb"
           /\ running' = [running EXCEPT ![r] = TRUE]
           /\ \/ /\ frame[r] # "final" /\ FrameSet(r, "running")
                 /\ Pushed(w, Call("wk_back", r, 0), Call("run", r, 0))
                 /\ Moves(w, Top(w), Call("run", r, 0))
              \/ /\ frame[r] = "final" /\ frame' = frame
                 /\ Replaced(w, Call("wk_back", r, 0)) /\ Moves(w, Top(w), Call("wk_back", r, 0))
           /\ UNCHANGED <<completionPosted, count, posted, progVars>>
  <1>1. At(w, "wk_cb") /\ stack[w] # << >> /\ r \in Roots /\ r \in Tasks /\ Top(w).kind = "wk_cb"
    BY TopRoot, TopTask, RootsAreTasks DEF WkResume
  <1>2. Call("wk_back", r, 0) \in Calls /\ Call("run", r, 0) \in Calls
    BY <1>1, CallFacts DEF Kinds
  <1>3. CASE frame[r] # "final"
    <2>1. Pushed(w, Call("wk_back", r, 0), Call("run", r, 0))
      BY <1>1, <1>2, <1>3, PushTop DEF WkResume
    <2>2. FrameSet(r, "running")
      BY <1>1, <1>3, FrameChange DEF WkResume
    <2> QED  BY <1>1, <1>2, <1>3, <2>1, <2>2, StackMoves DEF WkResume
  <1>4. CASE frame[r] = "final"
    <2>1. Replaced(w, Call("wk_back", r, 0))
      BY <1>1, <1>2, <1>4, ReplaceTop DEF WkResume
    <2> QED  BY <1>1, <1>2, <1>4, <2>1, StackMoves DEF WkResume
  <1> QED  BY <1>3, <1>4

LEMMA WkBackDoes ==
    ASSUME TypeOK, CallsNest, NEW w \in Workers, WkBack(w), NEW r, r = Top(w).task
    PROVE  /\ At(w, "wk_back") /\ r \in Roots /\ Top(w).kind = "wk_back"
           /\ running' = [running EXCEPT ![r] = FALSE]
           /\ Replaced(w, Call("wk_done", r, 0)) /\ Moves(w, Top(w), Call("wk_done", r, 0))
           /\ UNCHANGED <<frame, completionPosted, count, posted, progVars>>
  <1>1. At(w, "wk_back") /\ stack[w] # << >> /\ r \in Roots /\ r \in Tasks /\ Top(w).kind = "wk_back"
    BY TopRoot, TopTask, RootsAreTasks DEF WkBack
  <1>2. Call("wk_done", r, 0) \in Calls
    BY <1>1, CallFacts DEF Kinds
  <1>3. Replaced(w, Call("wk_done", r, 0))
    BY <1>1, <1>2, ReplaceTop DEF WkBack
  <1> QED  BY <1>1, <1>2, <1>3, StackMoves DEF WkBack

LEMMA WkDoneDoes ==
    ASSUME TypeOK, CallsNest, NEW w \in Workers, WkDone(w), NEW r, r = Top(w).task
    PROVE  /\ At(w, "wk_done") /\ r \in Roots /\ Top(w).kind = "wk_done"
           /\ Popped(w) /\ Moves(w, Top(w), Back)
           /\ \/ /\ frame[r] = "final" /\ FrameSet(r, "destroyed")
                 /\ completionPosted' = [completionPosted EXCEPT ![r] = FALSE]
              \/ frame[r] # "final" /\ UNCHANGED <<frame, completionPosted>>
           /\ UNCHANGED <<running, count, posted, progVars>>
  <1>1. At(w, "wk_done") /\ stack[w] # << >> /\ r \in Roots /\ r \in Tasks /\ Top(w).kind = "wk_done"
    BY TopRoot, TopTask, RootsAreTasks DEF WkDone
  <1>2. Popped(w)
    BY <1>1, PopStack DEF WkDone
  <1>3. frame[r] = "final" => FrameSet(r, "destroyed")
    BY <1>1, FrameChange DEF WkDone
  <1> QED  BY <1>1, <1>2, <1>3, StackMoves DEF WkDone

LEMMA SuspendDoes ==
    ASSUME TypeOK, CallsNest, NEW w \in Workers, Suspend(w), NEW t, t = Top(w).task
    PROVE  /\ At(w, "run") /\ t \in Tasks /\ Top(w).kind = "run"
           /\ suspends[t] < MaxSuspends /\ suspends' = [suspends EXCEPT ![t] = @ + 1]
           /\ FrameSet(t, "suspended")
           /\ Popped(w) /\ Moves(w, Top(w), Back)
           /\ UNCHANGED <<promiseVars, posted, joins, calls>>
  <1>1. At(w, "run") /\ stack[w] # << >> /\ t \in Tasks /\ Top(w).kind = "run"
    BY TopTask DEF Suspend
  <1>2. Popped(w) /\ FrameSet(t, "suspended")
    BY <1>1, PopStack, FrameChange DEF Suspend
  <1> QED  BY <1>1, <1>2, StackMoves DEF Suspend

LEMMA AwaitTaskDoes ==
    ASSUME TypeOK, CallsNest, NEW w \in Workers, AwaitTask(w), NEW r, r = Top(w).task
    PROVE  /\ At(w, "run") /\ r \in Roots /\ Top(w).kind = "run"
           /\ Called[r] # NoTask /\ ~ calls[r] /\ calls' = [calls EXCEPT ![r] = TRUE]
           /\ Called[r] \in Owned(r) /\ Called[r] \in Tasks /\ Called[r] # r
           /\ frame'[r] = "awaiting" /\ frame'[Called[r]] = "running"
           /\ \A u \in Tasks \ {r, Called[r]} : frame'[u] = frame[u]
           /\ Replaced(w, Call("run", Called[r], 0)) /\ Moves(w, Top(w), Call("run", Called[r], 0))
           /\ UNCHANGED <<promiseVars, posted, suspends, joins>>
  <1>1. /\ At(w, "run") /\ stack[w] # << >> /\ r \in Roots /\ r \in Tasks /\ Top(w).kind = "run"
        /\ Called[r] # NoTask
    BY TopTask DEF AwaitTask
  <1>2. Called[r] \in Owned(r) /\ Called[r] \in Tasks /\ Called[r] # r
    BY <1>1, CalledTask, OwnedTask
  <1>3. Call("run", Called[r], 0) \in Calls
    BY <1>2, CallFacts DEF Kinds
  <1>4. Replaced(w, Call("run", Called[r], 0))
    BY <1>1, <1>3, ReplaceTop DEF AwaitTask
  <1>5. frame' = [frame EXCEPT ![r] = "awaiting", ![Called[r]] = "running"]
    BY DEF AwaitTask
  <1>6. /\ frame'[r] = "awaiting" /\ frame'[Called[r]] = "running"
        /\ \A u \in Tasks \ {r, Called[r]} : frame'[u] = frame[u]
    BY <1>1, <1>2, <1>5 DEF TypeOK
  <1> QED  BY <1>1, <1>2, <1>3, <1>4, <1>6, StackMoves DEF AwaitTask

LEMMA AwaitAllDoes ==
    ASSUME TypeOK, CallsNest, NEW w \in Workers, AwaitAll(w), NEW r, r = Top(w).task
    PROVE  /\ At(w, "run") /\ r \in Roots /\ Top(w).kind = "run"
           /\ Joined[r] # << >> /\ ~ joins[r] /\ joins' = [joins EXCEPT ![r] = TRUE]
           /\ count' = [count EXCEPT ![r] = Len(Joined[r])]
           /\ FrameSet(r, "awaiting")
           /\ Replaced(w, Call("join", r, 1)) /\ Moves(w, Top(w), Call("join", r, 1))
           /\ UNCHANGED <<running, completionPosted, posted, suspends, calls>>
  <1>1. At(w, "run") /\ stack[w] # << >> /\ r \in Roots /\ r \in Tasks /\ Top(w).kind = "run"
    BY TopTask DEF AwaitAll
  <1>2. Call("join", r, 1) \in Calls
    BY <1>1, CallFacts DEF Kinds
  <1>3. Replaced(w, Call("join", r, 1)) /\ FrameSet(r, "awaiting")
    BY <1>1, <1>2, ReplaceTop, FrameChange DEF AwaitAll
  <1> QED  BY <1>1, <1>2, <1>3, StackMoves DEF AwaitAll

(* One turn of the loop that starts the tasks.                              *)
LEMMA JoinNextDoes ==
    ASSUME TypeOK, CallsNest, NEW w \in Workers, JoinNext(w), NEW r, r = Top(w).task,
           NEW i, i = Top(w).arg
    PROVE  /\ At(w, "join") /\ r \in Roots /\ i \in Nat \ {0} /\ Top(w).kind = "join"
           /\ \/ /\ i > Len(Joined[r]) /\ frame' = frame
                 /\ Popped(w) /\ Moves(w, Top(w), Back)
              \/ /\ i <= Len(Joined[r]) /\ Joined[r][i] = NoTask /\ frame' = frame
                 /\ Replaced(w, Call("join", r, i + 1)) /\ Moves(w, Top(w), Call("join", r, i + 1))
              \/ /\ i <= Len(Joined[r]) /\ Joined[r][i] # NoTask
                 /\ FrameSet(Joined[r][i], "running")
                 /\ Pushed(w, Call("join", r, i + 1), Call("run", Joined[r][i], 0))
                 /\ Moves(w, Top(w), Call("run", Joined[r][i], 0))
           /\ UNCHANGED <<promiseVars, posted, progVars>>
  <1>1. /\ At(w, "join") /\ stack[w] # << >> /\ r \in Roots /\ r \in Tasks /\ Top(w).kind = "join"
        /\ i \in Nat /\ i >= 1
    BY TopTask, TopRoot, RootsAreTasks DEF JoinNext
  <1>2. Call("join", r, i + 1) \in Calls
    BY <1>1, CallFacts DEF Kinds
  <1>3. CASE i > Len(Joined[r])
    <2>1. Popped(w) /\ frame' = frame
      BY <1>1, <1>3, JoinedList, PopStack DEF JoinNext
    <2> QED  BY <1>1, <1>3, <2>1, StackMoves DEF JoinNext
  <1>4. CASE i <= Len(Joined[r]) /\ Joined[r][i] = NoTask
    <2>1. SetTop(w, Call("join", r, i + 1)) /\ frame' = frame
      BY <1>1, <1>4, JoinedList DEF JoinNext
    <2>2. Replaced(w, Call("join", r, i + 1))
      BY <1>1, <1>2, <2>1, ReplaceTop
    <2> QED  BY <1>1, <1>2, <1>4, <2>1, <2>2, StackMoves DEF JoinNext
  <1>5. CASE i <= Len(Joined[r]) /\ Joined[r][i] # NoTask
    <2>1. /\ SetStack(w, Below(w) \o <<Call("join", r, i + 1), Call("run", Joined[r][i], 0)>>)
          /\ frame' = [frame EXCEPT ![Joined[r][i]] = "running"]
      BY <1>1, <1>5, JoinedList DEF JoinNext
    <2>2. Joined[r][i] \in Tasks
      <3>1. i \in DOMAIN Joined[r]
        BY <2>1, <1>1, <1>5, JoinedList
      <3> QED  BY <1>1, <1>5, <3>1, JoinedList, OwnedTask
    <2>3. Call("run", Joined[r][i], 0) \in Calls
      BY <2>2, CallFacts DEF Kinds
    <2>4. Pushed(w, Call("join", r, i + 1), Call("run", Joined[r][i], 0))
      BY <1>1, <1>2, <2>1, <2>3, PushTop
    <2>5. FrameSet(Joined[r][i], "running")
      BY <2>1, <2>2, FrameChange
    <2> QED  BY <1>1, <1>2, <1>5, <2>3, <2>4, <2>5, StackMoves DEF JoinNext
  <1> QED  BY <1>1, <1>3, <1>4, <1>5, JoinedList

LEMMA ReturnDoes ==
    ASSUME TypeOK, CallsNest, NEW w \in Workers, Return(w), NEW t, t = Top(w).task
    PROVE  /\ At(w, "run") /\ t \in Tasks /\ Top(w).kind = "run"
           /\ t \in Roots => (Joined[t] # << >> => joins[t]) /\ (Called[t] # NoTask => calls[t])
           /\ frame'[t] = "final"
           /\ \A u \in Tasks \ {t} : frame'[u] = IF t \in Roots /\ u \in Owned(t) THEN "destroyed"
                                                                                  ELSE frame[u]
           /\ Replaced(w, Call("final", t, 0)) /\ Moves(w, Top(w), Call("final", t, 0))
           /\ UNCHANGED <<promiseVars, posted, progVars>>
  <1>1. At(w, "run") /\ stack[w] # << >> /\ t \in Tasks /\ Top(w).kind = "run"
    BY TopTask DEF Return
  <1>2. Call("final", t, 0) \in Calls
    BY <1>1, CallFacts DEF Kinds
  <1>3. Replaced(w, Call("final", t, 0))
    BY <1>1, <1>2, ReplaceTop DEF Return
  <1>4. frame' = [u \in Tasks |-> IF u = t THEN "final"
                                  ELSE IF t \in Roots /\ u \in Owned(t) THEN "destroyed"
                                  ELSE frame[u]]
    BY DEF Return
  <1>5. /\ frame'[t] = "final"
        /\ \A u \in Tasks \ {t} : frame'[u] = IF t \in Roots /\ u \in Owned(t) THEN "destroyed"
                                                                               ELSE frame[u]
    BY <1>1, <1>4
  <1> QED  BY <1>1, <1>2, <1>3, <1>5, StackMoves DEF Return

LEMMA FinalRootDoes ==
    ASSUME TypeOK, CallsNest, NEW w \in Workers, FinalRoot(w), NEW r, r = Top(w).task
    PROVE  /\ At(w, "final") /\ r \in Roots /\ Top(w).kind = "final"
           /\ \/ /\ ~ completionPosted[r] /\ ~ running[r]
                 /\ completionPosted' = [completionPosted EXCEPT ![r] = TRUE]
                 /\ posted' = posted \cup {<<"wk", r>>}
              \/ UNCHANGED <<completionPosted, posted>>
           /\ Popped(w) /\ Moves(w, Top(w), Back)
           /\ UNCHANGED <<frame, running, count, progVars>>
  <1>1. At(w, "final") /\ stack[w] # << >> /\ r \in Roots /\ Top(w).kind = "final"
    BY TopTask DEF FinalRoot
  <1>2. Popped(w)
    BY <1>1, PopStack DEF FinalRoot
  <1> QED  BY <1>1, <1>2, StackMoves DEF FinalRoot

LEMMA FinalCalledDoes ==
    ASSUME TypeOK, CallsNest, NEW w \in Workers, FinalCalled(w), NEW t, t = Top(w).task,
           NEW r, r = Owner(t)
    PROVE  /\ At(w, "final") /\ t \in Tasks \ Roots /\ r \in Roots /\ Top(w).kind = "final"
           /\ t = Called[r] /\ t \in Owned(r)
           /\ FrameSet(r, "running")
           /\ Replaced(w, Call("run", r, 0)) /\ Moves(w, Top(w), Call("run", r, 0))
           /\ UNCHANGED <<promiseVars, posted, progVars>>
  <1>1. At(w, "final") /\ stack[w] # << >> /\ t \in Tasks \ Roots /\ Top(w).kind = "final"
    BY TopTask DEF FinalCalled
  <1>2. r \in Roots /\ r \in Tasks /\ t \in Owned(r)
    BY <1>1, OwnerOf, RootsAreTasks
  <1>3. Call("run", r, 0) \in Calls
    BY <1>2, CallFacts DEF Kinds
  <1>4. Replaced(w, Call("run", r, 0)) /\ FrameSet(r, "running")
    BY <1>1, <1>2, <1>3, ReplaceTop, FrameChange DEF FinalCalled
  <1> QED  BY <1>1, <1>2, <1>3, <1>4, StackMoves DEF FinalCalled

LEMMA FinalJoinedDoes ==
    ASSUME TypeOK, CallsNest, NEW w \in Workers, FinalJoined(w), NEW t, t = Top(w).task,
           NEW r, r = Owner(t)
    PROVE  /\ At(w, "final") /\ t \in Tasks \ Roots /\ r \in Roots /\ Top(w).kind = "final"
           /\ t \in Kids(r) /\ count[r] \in Nat
           /\ Replaced(w, Call("count", t, count[r])) /\ Moves(w, Top(w), Call("count", t, count[r]))
           /\ UNCHANGED <<frame, promiseVars, posted, progVars>>
  <1>1. At(w, "final") /\ stack[w] # << >> /\ t \in Tasks \ Roots /\ Top(w).kind = "final"
    BY TopTask DEF FinalJoined
  <1>2. r \in Roots /\ count[r] \in Nat
    BY <1>1, OwnerOf DEF TypeOK
  <1>3. Call("count", t, count[r]) \in Calls
    BY <1>1, <1>2, CallFacts DEF Kinds
  <1>4. Replaced(w, Call("count", t, count[r]))
    BY <1>1, <1>2, <1>3, ReplaceTop DEF FinalJoined
  <1> QED  BY <1>1, <1>2, <1>3, <1>4, StackMoves DEF FinalJoined

(* The countdown; FrameTells says that the task is one of those joined.     *)
LEMMA JoinCountDoes ==
    ASSUME TypeOK, CallsNest, FrameTells, NEW w \in Workers, JoinCount(w), NEW t, t = Top(w).task,
           NEW r, r = Owner(t)
    PROVE  /\ At(w, "count") /\ t \in Tasks \ Roots /\ r \in Roots /\ t \in Kids(r)
           /\ Top(w).kind = "count" /\ Drives(w, t)
           /\ count' = [count EXCEPT ![r] = Top(w).arg - 1]
           /\ frame[t] = "final" /\ frame[r] = "awaiting"
           /\ \/ /\ Top(w).arg = 1 /\ FrameSet(r, "running")
                 /\ Pushed(w, Call("unwind", t, 0), Call("run", r, 0))
                 /\ Moves(w, Top(w), Call("run", r, 0))
              \/ /\ Top(w).arg # 1 /\ frame' = frame
                 /\ Popped(w) /\ Moves(w, Top(w), Back)
           /\ UNCHANGED <<running, completionPosted, posted, progVars>>
  <1>1. At(w, "count") /\ stack[w] # << >> /\ t \in Tasks /\ Top(w).kind = "count"
    BY TopTask DEF JoinCount
  <1>2. Drives(w, t)
    BY <1>1 DEF Drives
  <1>3. t \notin Roots /\ frame[t] = "final" /\ frame[r] = "awaiting" /\ t \in Kids(r)
    BY <1>1, <1>2 DEF FrameTells
  <1>4. r \in Roots /\ r \in Tasks
    BY <1>1, <1>3, OwnerOf, RootsAreTasks
  <1>5. Call("unwind", t, 0) \in Calls /\ Call("run", r, 0) \in Calls
    BY <1>1, <1>4, CallFacts DEF Kinds
  <1>6. CASE Top(w).arg = 1
    <2>1. Pushed(w, Call("unwind", t, 0), Call("run", r, 0)) /\ FrameSet(r, "running")
      BY <1>1, <1>4, <1>5, <1>6, PushTop, FrameChange DEF JoinCount
    <2> QED  BY <1>1, <1>2, <1>3, <1>4, <1>5, <1>6, <2>1, StackMoves DEF JoinCount
  <1>7. CASE Top(w).arg # 1
    <2>1. Popped(w)
      BY <1>1, <1>7, PopStack DEF JoinCount
    <2> QED  BY <1>1, <1>2, <1>3, <1>4, <1>7, <2>1, StackMoves DEF JoinCount
  <1> QED  BY <1>6, <1>7

LEMMA UnwindDoes ==
    ASSUME TypeOK, CallsNest, NEW w \in Workers, Unwind(w)
    PROVE  /\ At(w, "unwind") /\ Top(w).kind = "unwind"
           /\ Popped(w) /\ Moves(w, Top(w), Back)
           /\ UNCHANGED <<frame, promiseVars, posted, progVars>>
  <1>1. At(w, "unwind") /\ stack[w] # << >> /\ Top(w).kind = "unwind"
    BY TopTask DEF Unwind
  <1>2. Popped(w)
    BY <1>1, PopStack DEF Unwind
  <1> QED  BY <1>1, <1>2, StackMoves DEF Unwind

(* Every step is one of these.                                              *)
LEMMA StepCases ==
    ASSUME [Next]_vars
    PROVE  \/ UNCHANGED vars
           \/ \E r \in Roots : PostTo(r)
           \/ \E t \in Tasks : EventArrives(t)
           \/ \E w \in Workers : \/ \E r \in Roots : TakeTask(w, r)
                                 \/ \E t \in Tasks : TakeEvent(w, t)
                                 \/ WkResume(w) \/ WkBack(w) \/ WkDone(w)
                                 \/ Suspend(w) \/ AwaitTask(w) \/ AwaitAll(w) \/ JoinNext(w)
                                 \/ Return(w) \/ FinalRoot(w) \/ FinalCalled(w) \/ FinalJoined(w)
                                 \/ JoinCount(w) \/ Unwind(w)
  BY DEF Next, WorkerStep

-----------------------------------------------------------------------------
(* Every step keeps the types and the nesting of the calls.                *)

(* The places that have not counted down.                                  *)
LEMMA OpenFacts ==
    ASSUME NEW r \in Roots
    PROVE  /\ IsFiniteSet(Open(r)) /\ Cardinality(Open(r)) \in Nat
           /\ Open(r) \subseteq DOMAIN Joined[r]
           /\ Cardinality(Open(r)) <= Len(Joined[r])
           /\ Cardinality(Open(r)) = 0 <=> Open(r) = {}
  <1>1. Open(r) \subseteq 1 .. Len(Joined[r]) /\ Len(Joined[r]) \in Nat
    BY JoinedList DEF Open
  <1>2. IsFiniteSet(1 .. Len(Joined[r])) /\ Cardinality(1 .. Len(Joined[r])) = Len(Joined[r])
    BY SMTT(30), <1>1, FS_Interval
  <1>3. IsFiniteSet(Open(r)) /\ Cardinality(Open(r)) <= Cardinality(1 .. Len(Joined[r]))
    BY <1>1, <1>2, FS_Subset
  <1> QED  BY <1>1, <1>2, <1>3, JoinedList, FS_CardinalityType, FS_EmptySet

(* A joined task that a worker goes on with has a place there.              *)
LEMMA DrivenIsOpen ==
    ASSUME NEW r \in Roots, NEW t \in Kids(r), NEW w \in Workers, Drives(w, t)
    PROVE  /\ \E i \in Open(r) : Joined[r][i] = t
           /\ Cardinality(Open(r)) >= 1
  <1>1. PICK i \in DOMAIN Joined[r] : Joined[r][i] = t
    BY JoinedList
  <1>2. i \in Open(r)
    BY <1>1 DEF Open, Over
  <1> QED  BY <1>1, <1>2, OpenFacts

(* ... and so the count it has read is not zero.                            *)
LEMMA CountIsPositive ==
    ASSUME TypeOK, FrameTells, OwnersWait, CountsOpen, NEW w \in Workers, NEW t \in Tasks,
           At(w, "count"), Top(w).task = t, NEW r, r = Owner(t)
    PROVE  r \in Roots /\ joins[r] /\ Top(w).arg >= Cardinality(Open(r)) /\ Top(w).arg >= 1
  <1>1. Drives(w, t) /\ Top(w).kind = "count" /\ Top(w).arg \in Nat
    BY TopTask DEF Drives, At
  <1>2. t \notin Roots /\ t \in Kids(r) /\ frame[t] = "final"
    BY <1>1 DEF FrameTells
  <1>3. r \in Roots
    BY <1>2, OwnerOf
  <1>4. joins[r]
    BY <1>2, <1>3 DEF OwnersWait
  <1>5. Top(w).arg >= Cardinality(Open(r))
    BY <1>2, <1>3, <1>4 DEF CountsOpen
  <1> QED  BY <1>1, <1>1, <1>2, <1>3, <1>4, <1>5, DrivenIsOpen, OpenFacts

(* Types.                                                                   *)
LEMMA TypeStep ==
    ASSUME ControlInv, [Next]_vars
    PROVE  TypeOK'
  <1> USE DEF ControlInv
  <1>1. CASE UNCHANGED vars
    BY <1>1 DEF vars, promiseVars, progVars, TypeOK
  <1>2. ASSUME NEW r \in Roots, PostTo(r) PROVE TypeOK'
    BY <1>2, RootsAreTasks DEF PostTo, TypeOK, promiseVars, progVars
  <1>3. ASSUME NEW t \in Tasks, EventArrives(t) PROVE TypeOK'
    BY <1>3 DEF EventArrives, TypeOK, promiseVars, progVars
  <1>4. ASSUME NEW w \in Workers, NEW r \in Roots, TakeTask(w, r) PROVE TypeOK'
    BY <1>4, TakeTaskDoes DEF TakeTask, TypeOK, Began, Popped, Replaced, Pushed, Others, promiseVars, progVars
  <1>5. ASSUME NEW w \in Workers, NEW t \in Tasks, TakeEvent(w, t) PROVE TypeOK'
    BY <1>5, TakeEventDoes DEF TakeEvent, TypeOK, Began, Popped, Replaced, Pushed, Others, promiseVars, progVars
  <1>6. ASSUME NEW w \in Workers, WkResume(w) PROVE TypeOK'
    BY ZenonT(60), <1>6, WkResumeDoes DEF WkResume, TypeOK, Began, Popped, Replaced, Pushed, Others, promiseVars, progVars
  <1>7. ASSUME NEW w \in Workers, WkBack(w) PROVE TypeOK'
    BY <1>7, WkBackDoes DEF WkBack, TypeOK, Began, Popped, Replaced, Pushed, Others, promiseVars, progVars
  <1>8. ASSUME NEW w \in Workers, WkDone(w) PROVE TypeOK'
    BY ZenonT(60), <1>8, WkDoneDoes DEF WkDone, TypeOK, Began, Popped, Replaced, Pushed, Others, promiseVars, progVars
  <1>9. ASSUME NEW w \in Workers, Suspend(w) PROVE TypeOK'
    <2> DEFINE t == Top(w).task
    <2>1. /\ t \in Tasks /\ suspends[t] < MaxSuspends /\ suspends' = [suspends EXCEPT ![t] = suspends[t] + 1]
          /\ suspends \in [Tasks -> 0 .. MaxSuspends] /\ MaxSuspends \in Nat
      BY <1>9, SuspendDoes, TaskAssumption DEF TypeOK
    <2>2. suspends[t] + 1 \in 0 .. MaxSuspends
      BY <2>1
    <2>3. suspends' \in [Tasks -> 0 .. MaxSuspends]
      BY <2>1, <2>2
    <2> QED  BY <1>9, <2>3, SuspendDoes DEF Suspend, TypeOK, Popped, Others, promiseVars
  <1>10. ASSUME NEW w \in Workers, AwaitTask(w) PROVE TypeOK'
    BY <1>10, AwaitTaskDoes DEF AwaitTask, TypeOK, Began, Popped, Replaced, Pushed, Others, promiseVars, progVars
  <1>11. ASSUME NEW w \in Workers, AwaitAll(w) PROVE TypeOK'
    <2>1. Top(w).task \in Roots /\ Len(Joined[Top(w).task]) \in Nat
      BY <1>11, AwaitAllDoes, JoinedList
    <2> QED  BY <1>11, <2>1, AwaitAllDoes DEF AwaitAll, TypeOK, Replaced, Others
  <1>12. ASSUME NEW w \in Workers, JoinNext(w) PROVE TypeOK'
    <2>1. frame' \in [Tasks -> {"initial", "running", "suspended", "awaiting", "final", "destroyed"}]
      BY <1>12 DEF JoinNext, TypeOK
    <2> QED  BY <1>12, <2>1, JoinNextDoes DEF TypeOK, Popped, Replaced, Pushed, Others, promiseVars, progVars
  <1>13. ASSUME NEW w \in Workers, Return(w) PROVE TypeOK'
    BY <1>13, ReturnDoes DEF Return, TypeOK, Began, Popped, Replaced, Pushed, Others, promiseVars, progVars
  <1>14. ASSUME NEW w \in Workers, FinalRoot(w) PROVE TypeOK'
    <2>0. PICK r \in Roots : posted' = posted \cup {<<"wk", r>>} \/ posted' = posted
      BY <1>14, FinalRootDoes
    <2>1. posted' \subseteq {"wk", "event"} \X Tasks
      BY <2>0, RootsAreTasks DEF TypeOK
    <2> QED  BY <1>14, <2>1, FinalRootDoes DEF FinalRoot, TypeOK, Popped, Others, progVars
  <1>15. ASSUME NEW w \in Workers, FinalCalled(w) PROVE TypeOK'
    BY <1>15, FinalCalledDoes DEF FinalCalled, TypeOK, Began, Popped, Replaced, Pushed, Others, promiseVars, progVars
  <1>16. ASSUME NEW w \in Workers, FinalJoined(w) PROVE TypeOK'
    BY <1>16, FinalJoinedDoes DEF FinalJoined, TypeOK, Began, Popped, Replaced, Pushed, Others, promiseVars, progVars
  <1>17. ASSUME NEW w \in Workers, JoinCount(w) PROVE TypeOK'
    <2>1. /\ Top(w).task \in Tasks /\ Top(w).arg \in Nat /\ Top(w).arg >= 1
          /\ Owner(Top(w).task) \in Roots
      BY <1>17, JoinCountDoes, TopTask, CountIsPositive
    <2>2. Top(w).arg - 1 \in Nat
      BY <2>1
    <2>3. count' \in [Roots -> Nat]
      BY <1>17, <2>1, <2>2, JoinCountDoes DEF TypeOK
    <2>4. frame' \in [Tasks -> {"initial", "running", "suspended", "awaiting", "final", "destroyed"}]
      BY <1>17 DEF JoinCount, TypeOK
    <2> QED  BY ZenonT(60), <1>17, <2>3, <2>4, JoinCountDoes DEF TypeOK, Popped, Pushed, Others, progVars
  <1>18. ASSUME NEW w \in Workers, Unwind(w) PROVE TypeOK'
    BY <1>18, UnwindDoes DEF Unwind, TypeOK, Began, Popped, Replaced, Pushed, Others, promiseVars, progVars
  <1> QED  BY StepCases, <1>1, <1>2, <1>3, <1>4, <1>5, <1>6, <1>7, <1>8, <1>9,
              <1>10, <1>11, <1>12, <1>13, <1>14, <1>15, <1>16, <1>17, <1>18

(* A call that may be innermost.                                            *)
Legal(c) ==
    /\ c.kind \in {"wk_cb", "wk_back", "wk_done", "join"} => c.task \in Roots
    /\ c.kind = "join" => c.arg >= 1

LEMMA NestKept ==
    ASSUME TypeOK, CallsNest, NEW w \in Workers, Others(w),
           NEW n \in Nat, n <= Len(stack[w]), Same(w, n), Len(stack'[w]) >= n,
           \A i \in 1 .. n : i < Len(stack'[w]) =>
               stack[w][i].kind \in {"wk_back", "join", "unwind"},
           \A i \in n + 1 .. Len(stack'[w]) :
               /\ Legal(stack'[w][i])
               /\ i < Len(stack'[w]) => stack'[w][i].kind \in {"wk_back", "join", "unwind"}
    PROVE  CallsNest'
  <1>1. stack[w] \in Seq(Calls) /\ stack'[w] \in Seq(Calls)
    BY DEF TypeOK, Others
  <1>2. ASSUME NEW i \in DOMAIN stack'[w]
        PROVE  /\ Legal(stack'[w][i])
               /\ i < Len(stack'[w]) => stack'[w][i].kind \in {"wk_back", "join", "unwind"}
    <2>1. CASE i \in 1 .. n
      <3>1. stack'[w][i] = stack[w][i] /\ i \in DOMAIN stack[w]
        BY <1>1, <2>1 DEF Same
      <3>2. Legal(stack[w][i])
        BY <3>1 DEF CallsNest, Legal
      <3> QED  BY <2>1, <3>1, <3>2
    <2>2. CASE i \in n + 1 .. Len(stack'[w])
      BY <2>2
    <2> QED  BY <1>1, <2>1, <2>2
  <1>3. ASSUME NEW v \in Workers, NEW i \in DOMAIN stack'[v]
        PROVE  /\ Legal(stack'[v][i])
               /\ i < Len(stack'[v]) => stack'[v][i].kind \in {"wk_back", "join", "unwind"}
    <2>1. CASE v = w
      BY <1>2, <2>1
    <2>2. CASE v # w
      <3>1. stack'[v] = stack[v]
        BY <2>2 DEF Others
      <3> QED  BY <3>1 DEF CallsNest, Legal
    <2> QED  BY <2>1, <2>2
  <1> QED  BY <1>3 DEF CallsNest, Legal

LEMMA NestAfter ==
    ASSUME TypeOK, CallsNest, NEW w \in Workers
    PROVE  /\ Popped(w) => CallsNest'
           /\ \A c \in Calls : Legal(c) /\ (Began(w, c) \/ Replaced(w, c)) => CallsNest'
           /\ \A c, d \in Calls :
                 /\ Legal(c) /\ Legal(d) /\ c.kind \in {"wk_back", "join", "unwind"}
                 /\ Pushed(w, c, d)
                 => CallsNest'
  <1> DEFINE n == Len(stack[w]) - 1
  <1>1. stack[w] # << >> =>
          /\ n \in Nat /\ n <= Len(stack[w]) /\ Len(stack[w]) \in Nat /\ n + 1 = Len(stack[w])
          /\ \A i \in 1 .. n : stack[w][i].kind \in {"wk_back", "join", "unwind"}
    <2> SUFFICES ASSUME stack[w] # << >> PROVE
          /\ n \in Nat /\ n <= Len(stack[w]) /\ Len(stack[w]) \in Nat /\ n + 1 = Len(stack[w])
          /\ \A i \in 1 .. n : stack[w][i].kind \in {"wk_back", "join", "unwind"}
      OBVIOUS
    <2>1. Len(stack[w]) \in Nat \ {0} /\ DOMAIN stack[w] = 1 .. Len(stack[w])
      BY TopTyped
    <2>2. ASSUME NEW i \in 1 .. n PROVE stack[w][i].kind \in {"wk_back", "join", "unwind"}
      BY <2>1 DEF CallsNest
    <2> QED  BY <2>1, <2>2
  <1>2. ASSUME Popped(w) PROVE CallsNest'
    <2>1. stack[w] # << >> /\ Others(w) /\ Same(w, n) /\ Len(stack'[w]) = n
      BY <1>2 DEF Popped
    <2> HIDE DEF n
    <2>2. \A i \in n + 1 .. Len(stack'[w]) : FALSE
      BY <1>1, <2>1
    <2> QED  BY <1>1, <2>1, <2>2, NestKept
  <1>3. ASSUME NEW c \in Calls, Legal(c), Began(w, c) PROVE CallsNest'
    <2> DEFINE m == 0
    <2>1. /\ Others(w) /\ Same(w, m) /\ Len(stack'[w]) = 1 /\ stack'[w][1] = c
          /\ m \in Nat /\ m <= Len(stack[w]) /\ Len(stack'[w]) >= m /\ m + 1 = 1
          /\ \A i \in 1 .. m : FALSE
      BY <1>3 DEF Began, Same
    <2> HIDE DEF m
    <2>2. \A i \in m + 1 .. Len(stack'[w]) : Legal(stack'[w][i]) /\ ~ i < Len(stack'[w])
      BY <1>3, <2>1
    <2> QED  BY <2>1, <2>2, NestKept
  <1>4. ASSUME NEW c \in Calls, Legal(c), Replaced(w, c) PROVE CallsNest'
    <2>1. /\ stack[w] # << >> /\ Others(w) /\ Same(w, n) /\ Len(stack'[w]) = Len(stack[w])
          /\ stack'[w][Len(stack[w])] = c
      BY <1>4 DEF Replaced
    <2> HIDE DEF n
    <2>2. \A i \in n + 1 .. Len(stack'[w]) : i = Len(stack[w]) /\ stack'[w][i] = c
      BY <1>1, <2>1
    <2> QED  BY <1>1, <1>4, <2>1, <2>2, NestKept
  <1>5. ASSUME NEW c \in Calls, NEW d \in Calls, Legal(c), Legal(d),
               c.kind \in {"wk_back", "join", "unwind"}, Pushed(w, c, d)
        PROVE  CallsNest'
    <2>1. /\ stack[w] # << >> /\ Others(w) /\ Same(w, n) /\ Len(stack'[w]) = Len(stack[w]) + 1
          /\ stack'[w][Len(stack[w])] = c /\ stack'[w][Len(stack[w]) + 1] = d
      BY <1>5 DEF Pushed
    <2> HIDE DEF n
    <2>2. \A i \in n + 1 .. Len(stack'[w]) :
             \/ i = Len(stack[w]) /\ stack'[w][i] = c
             \/ i = Len(stack'[w]) /\ stack'[w][i] = d
      BY <1>1, <2>1
    <2>3. \A i \in n + 1 .. Len(stack'[w]) :
             /\ Legal(stack'[w][i])
             /\ i < Len(stack'[w]) => stack'[w][i].kind \in {"wk_back", "join", "unwind"}
      BY <1>1, <1>5, <2>1, <2>2
    <2>4. Len(stack'[w]) >= n
      BY <1>1, <2>1
    <2> QED  BY <1>1, <2>1, <2>3, <2>4, NestKept
  <1> QED  BY <1>2, <1>3, <1>4, <1>5

LEMMA LegalCall ==
    ASSUME NEW k, NEW t \in Tasks, NEW i \in Nat,
           k \in Kinds, k \in {"wk_cb", "wk_back", "wk_done", "join"} => t \in Roots,
           k = "join" => i >= 1
    PROVE  Call(k, t, i) \in Calls /\ Legal(Call(k, t, i)) /\ Call(k, t, i).kind = k
  BY CallFacts DEF Legal

(* The nesting of the calls.                                                *)
LEMMA NestStep ==
    ASSUME TypeOK, CallsNest, FrameTells, [Next]_vars
    PROVE  CallsNest'
  <1>1. CASE UNCHANGED vars
    BY <1>1 DEF vars, CallsNest
  <1>2. ASSUME NEW r \in Roots, PostTo(r) PROVE CallsNest'
    BY <1>2 DEF PostTo, CallsNest
  <1>3. ASSUME NEW t \in Tasks, EventArrives(t) PROVE CallsNest'
    BY <1>3 DEF EventArrives, CallsNest
  <1>4. ASSUME NEW w \in Workers, NEW r \in Roots, TakeTask(w, r) PROVE CallsNest'
    <2>1. Call("wk_cb", r, 0) \in Calls /\ Legal(Call("wk_cb", r, 0))
      BY <1>4, TakeTaskDoes, LegalCall, RootsAreTasks DEF Kinds
    <2> QED  BY <1>4, <2>1, TakeTaskDoes, NestAfter
  <1>5. ASSUME NEW w \in Workers, NEW t \in Tasks, TakeEvent(w, t) PROVE CallsNest'
    <2>1. Call("run", t, 0) \in Calls /\ Legal(Call("run", t, 0))
      BY <1>5, TakeEventDoes, LegalCall, RootsAreTasks DEF Kinds
    <2> QED  BY <1>5, <2>1, TakeEventDoes, NestAfter
  <1>6. ASSUME NEW w \in Workers, WkResume(w) PROVE CallsNest'
    <2> DEFINE r == Top(w).task
    <2>1. /\ Call("wk_back", r, 0) \in Calls /\ Legal(Call("wk_back", r, 0))
          /\ Call("run", r, 0) \in Calls /\ Legal(Call("run", r, 0))
          /\ Call("wk_back", r, 0).kind = "wk_back"
      BY <1>6, WkResumeDoes, LegalCall, RootsAreTasks DEF Kinds
    <2> QED  BY <1>6, <2>1, WkResumeDoes, NestAfter
  <1>7. ASSUME NEW w \in Workers, WkBack(w) PROVE CallsNest'
    <2>1. Call("wk_done", Top(w).task, 0) \in Calls /\ Legal(Call("wk_done", Top(w).task, 0))
      BY <1>7, WkBackDoes, LegalCall, RootsAreTasks DEF Kinds
    <2> QED  BY <1>7, <2>1, WkBackDoes, NestAfter
  <1>8. ASSUME NEW w \in Workers, WkDone(w) PROVE CallsNest'
    BY <1>8, WkDoneDoes, NestAfter
  <1>9. ASSUME NEW w \in Workers, Suspend(w) PROVE CallsNest'
    BY <1>9, SuspendDoes, NestAfter
  <1>10. ASSUME NEW w \in Workers, AwaitTask(w) PROVE CallsNest'
    <2>1. Call("run", Called[Top(w).task], 0) \in Calls /\ Legal(Call("run", Called[Top(w).task], 0))
      BY <1>10, AwaitTaskDoes, LegalCall, RootsAreTasks DEF Kinds
    <2> QED  BY <1>10, <2>1, AwaitTaskDoes, NestAfter
  <1>11. ASSUME NEW w \in Workers, AwaitAll(w) PROVE CallsNest'
    <2>1. Call("join", Top(w).task, 1) \in Calls /\ Legal(Call("join", Top(w).task, 1))
      BY <1>11, AwaitAllDoes, LegalCall, RootsAreTasks DEF Kinds
    <2> QED  BY <1>11, <2>1, AwaitAllDoes, NestAfter
  <1>12. ASSUME NEW w \in Workers, JoinNext(w) PROVE CallsNest'
    <2> DEFINE r == Top(w).task  i == Top(w).arg
    <2>1. /\ Call("join", r, i + 1) \in Calls /\ Legal(Call("join", r, i + 1))
          /\ Call("join", r, i + 1).kind = "join"
      BY <1>12, JoinNextDoes, LegalCall, RootsAreTasks DEF Kinds
    <2>2. CASE i <= Len(Joined[r]) /\ Joined[r][i] # NoTask
      <3>1. r \in Roots /\ i \in DOMAIN Joined[r]
        BY <1>12, <2>2, JoinNextDoes, JoinedList
      <3>2. Joined[r][i] \in Tasks
        BY <2>2, <3>1, JoinedList, OwnedTask
      <3>3. Call("run", Joined[r][i], 0) \in Calls /\ Legal(Call("run", Joined[r][i], 0))
        BY <3>2, LegalCall DEF Kinds
      <3> QED  BY <1>12, <2>1, <2>2, <3>3, JoinNextDoes, NestAfter
    <2>3. CASE ~ (i <= Len(Joined[r]) /\ Joined[r][i] # NoTask)
      BY <1>12, <2>1, <2>3, JoinNextDoes, NestAfter
    <2> QED  BY <2>2, <2>3
  <1>13. ASSUME NEW w \in Workers, Return(w) PROVE CallsNest'
    <2>1. Call("final", Top(w).task, 0) \in Calls /\ Legal(Call("final", Top(w).task, 0))
      BY <1>13, ReturnDoes, LegalCall, RootsAreTasks DEF Kinds
    <2> QED  BY <1>13, <2>1, ReturnDoes, NestAfter
  <1>14. ASSUME NEW w \in Workers, FinalRoot(w) PROVE CallsNest'
    BY <1>14, FinalRootDoes, NestAfter
  <1>15. ASSUME NEW w \in Workers, FinalCalled(w) PROVE CallsNest'
    <2>1. Call("run", Owner(Top(w).task), 0) \in Calls /\ Legal(Call("run", Owner(Top(w).task), 0))
      BY <1>15, FinalCalledDoes, LegalCall, RootsAreTasks DEF Kinds
    <2> QED  BY <1>15, <2>1, FinalCalledDoes, NestAfter
  <1>16. ASSUME NEW w \in Workers, FinalJoined(w) PROVE CallsNest'
    <2>1. Call("count", Top(w).task, count[Owner(Top(w).task)]) \in Calls /\ Legal(Call("count", Top(w).task, count[Owner(Top(w).task)]))
      BY <1>16, FinalJoinedDoes, LegalCall, RootsAreTasks DEF Kinds
    <2> QED  BY <1>16, <2>1, FinalJoinedDoes, NestAfter
  <1>17. ASSUME NEW w \in Workers, JoinCount(w) PROVE CallsNest'
    <2> DEFINE t == Top(w).task
    <2>1. t \in Tasks /\ Owner(t) \in Tasks
      BY <1>17, JoinCountDoes, RootsAreTasks
    <2>2. /\ Call("unwind", t, 0) \in Calls /\ Legal(Call("unwind", t, 0))
          /\ Call("run", Owner(t), 0) \in Calls /\ Legal(Call("run", Owner(t), 0))
          /\ Call("unwind", t, 0).kind = "unwind"
      BY <2>1, LegalCall DEF Kinds
    <2> QED  BY <1>17, <2>2, JoinCountDoes, NestAfter
  <1>18. ASSUME NEW w \in Workers, Unwind(w) PROVE CallsNest'
    BY <1>18, UnwindDoes, NestAfter
  <1> QED  BY StepCases, <1>1, <1>2, <1>3, <1>4, <1>5, <1>6, <1>7, <1>8, <1>9,
              <1>10, <1>11, <1>12, <1>13, <1>14, <1>15, <1>16, <1>17, <1>18

-----------------------------------------------------------------------------
(* A coroutine is in one place, and its frame says where.                  *)

(* Nobody goes on with a task that waits or has not begun.                  *)
LEMMA Undriven ==
    ASSUME TypeOK, CallsNest, FrameTells, NEW t \in Tasks,
           \/ frame[t] \in {"suspended", "awaiting"}
           \/ frame[t] = "initial" /\ t \notin Roots
    PROVE  <<"wk", t>> \notin posted /\ \A w \in Workers : ~ Drives(w, t)
  <1>1. <<"wk", t>> \notin posted
    BY DEF FrameTells
  <1>2. ASSUME NEW w \in Workers, Drives(w, t) PROVE FALSE
    <2>1. Top(w).kind \in {"wk_cb", "run", "final", "count"}
      BY <1>2 DEF Drives
    <2>2. frame[t] \in {"final", "destroyed", "running"} \/ Top(w).kind = "wk_cb"
      BY <1>2, <2>1 DEF FrameTells
    <2>3. CASE Top(w).kind = "wk_cb"
      <3>1. frame[t] \in {"initial", "final", "destroyed"}
        BY <1>2, <2>3 DEF FrameTells
      <3>2. t \in Roots
        BY <1>2, <2>3, TopRoot DEF Drives, At
      <3> QED  BY <3>1, <3>2
    <2> QED  BY <2>2, <2>3
  <1> QED  BY <1>1, <1>2

(* The tasks a coroutine is about to start.                                 *)
LEMMA NotStarted ==
    ASSUME TypeOK, CallsNest, FrameTells, OwnersWait, JoinsInOrder, NEW w \in Workers, NEW r, r = Top(w).task
    PROVE  /\ AwaitTask(w) => frame[Called[r]] = "initial" /\ frame[r] = "running"
           /\ JoinNext(w) /\ Top(w).arg <= Len(Joined[r]) /\ Joined[r][Top(w).arg] # NoTask =>
                 /\ frame[Joined[r][Top(w).arg]] = "initial" /\ frame[r] = "awaiting"
                 /\ Joined[r][Top(w).arg] \in Kids(r) /\ Top(w).arg \in DOMAIN Joined[r]
  <1>1. ASSUME AwaitTask(w) PROVE frame[Called[r]] = "initial" /\ frame[r] = "running"
    <2>1. r \in Roots /\ r \in Tasks /\ ~ calls[r] /\ Called[r] # NoTask /\ Drives(w, r) /\ Top(w).kind = "run"
      BY <1>1, AwaitTaskDoes, RootsAreTasks DEF Drives, At
    <2> QED  BY <2>1 DEF OwnersWait, FrameTells
  <1>2. ASSUME JoinNext(w), Top(w).arg <= Len(Joined[r]), Joined[r][Top(w).arg] # NoTask
        PROVE  /\ frame[Joined[r][Top(w).arg]] = "initial" /\ frame[r] = "awaiting"
               /\ Joined[r][Top(w).arg] \in Kids(r) /\ Top(w).arg \in DOMAIN Joined[r]
    <2> DEFINE i == Top(w).arg
    <2>1. /\ r \in Roots /\ i \in Nat \ {0} /\ Top(w).kind = "join" /\ stack[w] # << >>
          /\ Len(Joined[r]) \in Nat
      BY <1>2, JoinNextDoes, JoinedList DEF At
    <2>2. i \in DOMAIN Joined[r] /\ i >= i
      BY <1>2, <2>1, JoinedList
    <2>3. Len(stack[w]) \in DOMAIN stack[w] /\ Top(w) = stack[w][Len(stack[w])]
      BY <2>1, TopTyped
    <2>4. /\ i <= Len(Joined[r]) => frame[r] = "awaiting"
          /\ \A j \in DOMAIN Joined[r] : j >= i => Joined[r][j] = NoTask \/ frame[Joined[r][j]] = "initial"
      BY <2>1, <2>3 DEF JoinsInOrder
    <2> QED  BY <1>2, <2>1, <2>2, <2>4, JoinedList
  <1> QED  BY <1>1, <1>2

(* A coroutine is with one worker or in a posted node.                      *)
LEMMA OneControlStep ==
    ASSUME TypeOK, CallsNest, OneControl, FrameTells, OwnersWait, JoinsInOrder, [Next]_vars
    PROVE  OneControl'
  <1>1. CASE UNCHANGED vars
    <2>1. Still /\ posted' = posted
      BY <1>1, StackStill DEF vars
    <2> QED  BY <2>1 DEF OneControl, Still
  <1>2. ASSUME NEW r \in Roots, PostTo(r) PROVE OneControl'
    <2>1. Still /\ posted' = posted \cup {<<"wk", r>>} /\ <<"wk", r>> \notin posted
      BY <1>2, StackStill DEF PostTo
    <2>2. ASSUME NEW v \in Workers, Drives(v, r) PROVE FALSE
      <3>1. stack[v] # << >> /\ Top(v).task = r
        BY <2>2 DEF Drives
      <3>2. Len(stack[v]) \in DOMAIN stack[v] /\ Top(v) = stack[v][Len(stack[v])]
        BY <3>1, TopTyped
      <3> QED  BY <1>2, <3>1, <3>2 DEF PostTo
    <2> QED  BY <2>1, <2>2 DEF OneControl, Still
  <1>3. ASSUME NEW t \in Tasks, EventArrives(t) PROVE OneControl'
    <2>1. Still /\ posted' = posted \cup {<<"event", t>>}
      BY <1>3, StackStill DEF EventArrives
    <2> QED  BY <2>1 DEF OneControl, Still
  <1>4. ASSUME NEW w \in Workers, NEW r \in Roots, TakeTask(w, r) PROVE OneControl'
    <2>1. /\ Moves(w, Back, Call("wk_cb", r, 0)) /\ <<"wk", r>> \in posted
          /\ posted' = posted \ {<<"wk", r>>}
      BY <1>4, TakeTaskDoes
    <2> QED  BY <2>1, RootsAreTasks DEF OneControl, Moves, Turn, Back, Call, Driving
  <1>5. ASSUME NEW w \in Workers, NEW t \in Tasks, TakeEvent(w, t) PROVE OneControl'
    <2>1. /\ Moves(w, Back, Call("run", t, 0)) /\ <<"event", t>> \in posted
          /\ posted' = posted \ {<<"event", t>>}
      BY <1>5, TakeEventDoes
    <2>2. <<"wk", t>> \notin posted /\ \A v \in Workers : ~ Drives(v, t)
      BY <2>1, Undriven DEF FrameTells
    <2> QED  BY <2>1, <2>2 DEF OneControl, Moves, Turn, Back, Call, Driving
  <1>6. ASSUME NEW w \in Workers, WkResume(w) PROVE OneControl'
    <2> DEFINE r == Top(w).task
    <2>1. /\ Moves(w, Top(w), Call("run", r, 0)) \/ Moves(w, Top(w), Call("wk_back", r, 0))
          /\ posted' = posted /\ r \in Roots /\ Top(w).kind = "wk_cb"
      BY <1>6, WkResumeDoes
    <2> QED  BY <2>1, RootsAreTasks DEF OneControl, Moves, Turn, Call, Driving
  <1>7. ASSUME NEW w \in Workers, WkBack(w) PROVE OneControl'
    <2>1. Moves(w, Top(w), Call("wk_done", Top(w).task, 0)) /\ posted' = posted
      BY <1>7, WkBackDoes
    <2> QED  BY <2>1 DEF OneControl, Moves, Turn, Call, Driving
  <1>8. ASSUME NEW w \in Workers, WkDone(w) PROVE OneControl'
    <2>1. Moves(w, Top(w), Back) /\ posted' = posted
      BY <1>8, WkDoneDoes
    <2> QED  BY <2>1 DEF OneControl, Moves, Turn, Back, Call, Driving
  <1>9. ASSUME NEW w \in Workers, Suspend(w) PROVE OneControl'
    <2>1. Moves(w, Top(w), Back) /\ posted' = posted
      BY <1>9, SuspendDoes
    <2> QED  BY <2>1 DEF OneControl, Moves, Turn, Back, Call, Driving
  <1>10. ASSUME NEW w \in Workers, AwaitTask(w) PROVE OneControl'
    <2> DEFINE r == Top(w).task  t == Called[r]
    <2>1. /\ Moves(w, Top(w), Call("run", t, 0)) /\ posted' = posted
          /\ r \in Roots /\ t \in Owned(r) /\ t \in Tasks
      BY <1>10, AwaitTaskDoes
    <2>2. <<"wk", t>> \notin posted /\ \A v \in Workers : ~ Drives(v, t)
      BY <1>10, <2>1, NotStarted, OwnedTask, Undriven
    <2> QED  BY <2>1, <2>2 DEF OneControl, Moves, Turn, Call, Driving
  <1>11. ASSUME NEW w \in Workers, AwaitAll(w) PROVE OneControl'
    <2>1. Moves(w, Top(w), Call("join", Top(w).task, 1)) /\ posted' = posted
      BY <1>11, AwaitAllDoes
    <2> QED  BY <2>1 DEF OneControl, Moves, Turn, Call, Driving
  <1>12. ASSUME NEW w \in Workers, JoinNext(w) PROVE OneControl'
    <2> DEFINE r == Top(w).task  i == Top(w).arg
    <2>1. CASE i <= Len(Joined[r]) /\ Joined[r][i] # NoTask
      <3>1. r \in Roots /\ frame[Joined[r][i]] = "initial" /\ Joined[r][i] \in Kids(r)
        BY <1>12, <2>1, NotStarted, JoinNextDoes
      <3>2. Joined[r][i] \in Tasks \ Roots
        BY <3>1, JoinedList, OwnedTask
      <3>3. <<"wk", Joined[r][i]>> \notin posted /\ \A v \in Workers : ~ Drives(v, Joined[r][i])
        BY <3>1, <3>2, Undriven
      <3>4. Moves(w, Top(w), Call("run", Joined[r][i], 0)) /\ posted' = posted /\ Top(w).kind = "join"
        BY <1>12, <2>1, JoinNextDoes
      <3> QED  BY <3>2, <3>3, <3>4 DEF OneControl, Moves, Turn, Call, Driving
    <2>2. CASE ~ (i <= Len(Joined[r]) /\ Joined[r][i] # NoTask)
      <3>1. Moves(w, Top(w), Back) \/ Moves(w, Top(w), Call("join", r, i + 1))
        BY <1>12, <2>2, JoinNextDoes
      <3>2. posted' = posted
        BY <1>12, JoinNextDoes
      <3> QED  BY <3>1, <3>2 DEF OneControl, Moves, Turn, Back, Call, Driving
    <2> QED  BY <2>1, <2>2
  <1>13. ASSUME NEW w \in Workers, Return(w) PROVE OneControl'
    <2>1. Moves(w, Top(w), Call("final", Top(w).task, 0)) /\ posted' = posted /\ Top(w).kind \in Driving
      BY <1>13, ReturnDoes DEF Driving
    <2> QED  BY <2>1 DEF OneControl, Moves, Turn, Call, Driving
  <1>14. ASSUME NEW w \in Workers, FinalRoot(w) PROVE OneControl'
    <2> DEFINE r == Top(w).task
    <2>1. /\ Moves(w, Top(w), Back) /\ r \in Roots /\ Top(w).kind = "final"
          /\ posted' = posted \cup {<<"wk", r>>} \/ posted' = posted
      BY <1>14, FinalRootDoes
    <2> QED  BY <2>1, RootsAreTasks DEF OneControl, Moves, Turn, Back, Call, Driving
  <1>15. ASSUME NEW w \in Workers, FinalCalled(w) PROVE OneControl'
    <2> DEFINE t == Top(w).task  r == Owner(t)
    <2>1. t \in Tasks /\ r \in Tasks /\ r \in Roots /\ frame[r] = "awaiting"
      <3>1. At(w, "final") /\ Top(w).kind = "final" /\ t \in Tasks \ Roots /\ r \in Roots
        BY <1>15, FinalCalledDoes
      <3>2. Drives(w, t)
        BY <3>1 DEF At, Drives
      <3> QED  BY <3>1, <3>2, RootsAreTasks DEF FrameTells
    <2>2. <<"wk", r>> \notin posted /\ \A v \in Workers : ~ Drives(v, r)
      BY <2>1, Undriven
    <2>3. Moves(w, Top(w), Call("run", r, 0)) /\ posted' = posted
      BY <1>15, FinalCalledDoes
    <2> QED  BY <2>1, <2>2, <2>3 DEF OneControl, Moves, Turn, Call, Driving
  <1>16. ASSUME NEW w \in Workers, FinalJoined(w) PROVE OneControl'
    <2>1. Moves(w, Top(w), Call("count", Top(w).task, count[Owner(Top(w).task)])) /\ posted' = posted /\ Top(w).kind \in Driving
      BY <1>16, FinalJoinedDoes DEF Driving
    <2> QED  BY <2>1 DEF OneControl, Moves, Turn, Call, Driving
  <1>17. ASSUME NEW w \in Workers, JoinCount(w) PROVE OneControl'
    <2> DEFINE t == Top(w).task  r == Owner(t)
    <2>1. t \in Tasks /\ r \in Tasks /\ frame[r] = "awaiting" /\ posted' = posted
      BY <1>17, JoinCountDoes, RootsAreTasks
    <2>2. <<"wk", r>> \notin posted /\ \A v \in Workers : ~ Drives(v, r)
      BY <2>1, Undriven
    <2>3. Moves(w, Top(w), Call("run", r, 0)) \/ Moves(w, Top(w), Back)
      BY <1>17, JoinCountDoes
    <2> QED  BY <2>1, <2>2, <2>3 DEF OneControl, Moves, Turn, Back, Call, Driving
  <1>18. ASSUME NEW w \in Workers, Unwind(w) PROVE OneControl'
    <2>1. Moves(w, Top(w), Back) /\ posted' = posted
      BY <1>18, UnwindDoes
    <2> QED  BY <2>1 DEF OneControl, Moves, Turn, Back, Call, Driving
  <1> QED  BY StepCases, <1>1, <1>2, <1>3, <1>4, <1>5, <1>6, <1>7, <1>8, <1>9,
              <1>10, <1>11, <1>12, <1>13, <1>14, <1>15, <1>16, <1>17, <1>18

(* A coroutine that does not wait has its tasks to itself.                  *)
LEMMA OwnerAlone ==
    ASSUME TypeOK, CallsNest, FrameTells, OwnersWait, NEW r \in Roots, frame[r] # "awaiting", NEW u \in Owned(r)
    PROVE  /\ \A v \in Workers : ~ Drives(v, u)
           /\ frame[u] \in {"initial", "final", "destroyed"}
           /\ u \in Kids(r) /\ joins[r] => Over(u)
           /\ u = Called[r] /\ calls[r] => Over(u)
  <1>1. u \in Tasks \ Roots
    BY OwnedTask
  <1>2. frame[u] = "initial" => \A v \in Workers : ~ Drives(v, u)
    BY <1>1, Undriven
  <1>3. CASE u \in Kids(r)
    <2>1. u # Called[r]
      BY <1>3, TaskAssumption
    <2>2. CASE joins[r]
      <3>1. Open(r) = {}
        BY <2>2 DEF OwnersWait
      <3>2. PICK i \in DOMAIN Joined[r] : Joined[r][i] = u
        BY <1>3, JoinedList
      <3>3. Over(u)
        BY <3>1, <3>2 DEF Open
      <3> QED  BY <2>1, <3>3 DEF Over
    <2>3. CASE ~ joins[r]
      <3>1. frame[u] = "initial"
        BY <1>3, <2>3 DEF OwnersWait
      <3> QED  BY <1>2, <2>1, <2>3, <3>1
    <2> QED  BY <2>2, <2>3
  <1>4. CASE u \notin Kids(r)
    <2>1. u = Called[r] /\ Called[r] # NoTask
      BY <1>4 DEF Owned
    <2>2. CASE calls[r]
      <3>1. Over(u)
        BY <2>1, <2>2 DEF OwnersWait
      <3> QED  BY <1>4, <3>1 DEF Over
    <2>3. CASE ~ calls[r]
      <3>1. frame[u] = "initial"
        BY <2>1, <2>3 DEF OwnersWait
      <3> QED  BY <1>2, <1>4, <2>3, <3>1
    <2> QED  BY <2>2, <2>3
  <1> QED  BY <1>3, <1>4

(* The task that its owner awaits on its own is the only one under way.     *)
LEMMA CalledAlone ==
    ASSUME TypeOK, CallsNest, OneControl, FrameTells, OwnersWait, NEW r \in Roots,
           NEW w \in Workers, NEW t \in Owned(r), t = Called[r], Drives(w, t)
    PROVE  /\ calls[r] /\ (joins[r] => Open(r) = {})
           /\ \A u \in Owned(r) \ {t} : \A v \in Workers : ~ Drives(v, u)
  <1>1. t \in Tasks \ Roots /\ t # NoTask
    BY OwnedTask, NoTaskIsNone
  <1>2. calls[r]
    <2>1. frame[t] # "initial"
      BY <1>1, Undriven
    <2> QED  BY <1>1, <2>1 DEF OwnersWait
  <1>3. ~ Over(t)
    BY DEF Over
  <1>4. joins[r] => Open(r) = {}
    BY <1>2, <1>3 DEF OwnersWait
  <1>5. ASSUME NEW u \in Owned(r) \ {t}, NEW v \in Workers, Drives(v, u) PROVE FALSE
    <2>1. u \in Kids(r) /\ u \in Tasks \ Roots
      BY OwnedTask DEF Owned
    <2>2. frame[u] # "initial"
      BY <1>5, <2>1, Undriven
    <2>3. joins[r]
      BY <2>1, <2>2 DEF OwnersWait
    <2>4. Open(r) # {}
      BY <1>5, <2>1, DrivenIsOpen
    <2> QED  BY <1>4, <2>3, <2>4
  <1> QED  BY <1>2, <1>4, <1>5

(* A joined task that reads one is the only place still open.               *)
LEMMA LastAlone ==
    ASSUME TypeOK, CallsNest, OneControl, FrameTells, OwnersWait, CountsOpen, NEW r \in Roots,
           NEW w \in Workers, NEW t \in Kids(r), At(w, "count"), Top(w).task = t
    PROVE  /\ joins[r] /\ (calls[r] => Over(Called[r]))
           /\ Top(w).arg = 1 =>
                 /\ \A i \in Open(r) : Joined[r][i] = t
                 /\ \A u \in Owned(r) \ {t} : \A v \in Workers : ~ Drives(v, u)
  <1>1. t \in Owned(r) /\ Owner(t) = r /\ t \in Tasks \ Roots
    BY JoinedList, OwnedTask
  <1>2. joins[r] /\ Top(w).arg >= Cardinality(Open(r)) /\ Drives(w, t)
    BY <1>1, CountIsPositive DEF Drives, At
  <1>3. PICK k \in Open(r) : Joined[r][k] = t
    BY <1>2, DrivenIsOpen
  <1>4. calls[r] => Over(Called[r])
    BY <1>2, <1>3 DEF OwnersWait
  <1>5. ASSUME Top(w).arg = 1, NEW i \in Open(r) PROVE i = k
    <2>1. IsFiniteSet(Open(r)) /\ Cardinality(Open(r)) \in Nat /\ Cardinality(Open(r)) <= 1
      BY <1>2, <1>5, OpenFacts
    <2>2. Cardinality(Open(r) \ {k}) = Cardinality(Open(r)) - 1 /\ IsFiniteSet(Open(r) \ {k})
      BY <1>3, <2>1, FS_RemoveElement
    <2>3. Cardinality(Open(r) \ {k}) \in Nat
      BY <2>2, FS_CardinalityType
    <2>4. Cardinality(Open(r) \ {k}) = 0
      BY <2>1, <2>2, <2>3
    <2>5. Open(r) \ {k} = {}
      BY <2>2, <2>4, FS_EmptySet
    <2> QED  BY <2>5
  <1>6. ASSUME Top(w).arg = 1, NEW u \in Owned(r) \ {t}, NEW v \in Workers, Drives(v, u) PROVE FALSE
    <2>1. CASE u \in Kids(r)
      <3>1. PICK i \in Open(r) : Joined[r][i] = u
        BY <1>6, <2>1, DrivenIsOpen
      <3>2. i = k
        BY <1>5, <1>6, <3>1
      <3> QED  BY <1>3, <3>1, <3>2
    <2>2. CASE u \notin Kids(r)
      <3>1. u = Called[r] /\ u \in Tasks \ Roots /\ u # NoTask
        BY <2>2, OwnedTask, NoTaskIsNone DEF Owned
      <3>2. frame[u] # "initial"
        BY <1>6, <3>1, Undriven
      <3>3. calls[r]
        BY <3>1, <3>2 DEF OwnersWait
      <3> QED  BY <1>4, <1>6, <3>1, <3>3 DEF Over
    <2> QED  BY <2>1, <2>2
  <1>7. Top(w).arg = 1 => \A i \in Open(r) : Joined[r][i] = t
    BY <1>3, <1>5
  <1> QED  BY <1>2, <1>4, <1>6, <1>7

(* Nothing that the other workers are doing is disturbed.                   *)
Calm(w) ==
    \A v \in Workers \ {w} : \A u \in Tasks : Drives(v, u) =>
        /\ \/ frame'[u] = frame[u]
           \/ u \in Roots /\ frame[u] = "final" /\ frame'[u] = "destroyed"
        /\ u \notin Roots /\ frame[Owner(u)] = "awaiting" => frame'[Owner(u)] = "awaiting"

(* The frame of its task agrees with the new call.                          *)
Fits(c) ==
    /\ c.kind = "wk_cb" => frame'[c.task] \in {"initial", "final", "destroyed"}
    /\ c.kind = "run" => frame'[c.task] = "running"
    /\ c.kind \in {"final", "count"} => frame'[c.task] \in {"final", "destroyed"}
    /\ c.kind \in {"final", "count"} /\ c.task \notin Roots =>
          frame'[c.task] = "final" /\ frame'[Owner(c.task)] = "awaiting"
    /\ c.kind = "count" => c.task \notin Roots /\ c.task \in Kids(Owner(c.task))

(* ... and with the posted nodes.                                           *)
PostedFit ==
    \A t \in Tasks :
        /\ <<"event", t>> \in posted' => frame'[t] = "suspended"
        /\ <<"wk", t>> \in posted' => t \in Roots /\ frame'[t] \in {"initial", "final", "destroyed"}

LEMMA TellsAfter ==
    ASSUME FrameTells, NEW w \in Workers, NEW old, NEW new,
           Moves(w, old, new), Calm(w), new.kind \in Driving => Fits(new), PostedFit
    PROVE  FrameTells'
  <1>1. ASSUME NEW t \in Tasks, NEW v \in Workers, Drives(v, t)'
        PROVE  /\ Top(v)'.kind = "wk_cb" => frame'[t] \in {"initial", "final", "destroyed"}
               /\ Top(v)'.kind = "run" => frame'[t] = "running"
               /\ Top(v)'.kind \in {"final", "count"} => frame'[t] \in {"final", "destroyed"}
               /\ Top(v)'.kind \in {"final", "count"} /\ t \notin Roots =>
                     frame'[t] = "final" /\ frame'[Owner(t)] = "awaiting"
               /\ Top(v)'.kind = "count" => t \notin Roots /\ t \in Kids(Owner(t))
    <2>1. CASE v = w
      <3>1. new.task = t /\ new.kind \in Driving /\ Top(w)' = new
        BY <1>1, <2>1 DEF Moves, Turn
      <3> QED  BY <2>1, <3>1 DEF Fits
    <2>2. CASE v # w
      <3>1. Drives(v, t) /\ Top(v)' = Top(v)
        BY <1>1, <2>2 DEF Moves, Turn
      <3>2. /\ \/ frame'[t] = frame[t]
               \/ t \in Roots /\ frame[t] = "final" /\ frame'[t] = "destroyed"
            /\ t \notin Roots /\ frame[Owner(t)] = "awaiting" => frame'[Owner(t)] = "awaiting"
        BY <2>2, <3>1 DEF Calm
      <3> QED  BY <3>1, <3>2 DEF FrameTells
    <2> QED  BY <2>1, <2>2
  <1> QED  BY <1>1 DEF FrameTells, PostedFit

(* The frames that change are not those of tasks others go on with, nor of  *)
(* coroutines that wait for one of these.                                   *)
LEMMA CalmSet ==
    ASSUME NEW w \in Workers, NEW x \in Tasks, NEW y, FrameSet(x, y),
           \A v \in Workers \ {w} : ~ Drives(v, x), frame[x] # "awaiting"
    PROVE  Calm(w)
  <1>1. ASSUME NEW u \in Tasks, u \notin Roots, frame[Owner(u)] = "awaiting" PROVE frame'[Owner(u)] = "awaiting"
    BY <1>1, OwnerOf, RootsAreTasks DEF FrameSet
  <1> QED  BY <1>1 DEF Calm, FrameSet

LEMMA CalmResume ==
    ASSUME NEW w \in Workers, NEW x \in Roots, FrameSet(x, "running"),
           \A v \in Workers : ~ Drives(v, x),
           \A u \in Owned(x) : \A v \in Workers \ {w} : ~ Drives(v, u)
    PROVE  Calm(w)
  <1>1. ASSUME NEW u \in Tasks, u \notin Roots, NEW v \in Workers \ {w}, Drives(v, u),
               frame[Owner(u)] = "awaiting"
        PROVE  frame'[Owner(u)] = "awaiting"
    <2>1. Owner(u) \in Roots /\ u \in Owned(Owner(u))
      BY <1>1, OwnerOf
    <2>2. Owner(u) # x
      BY <1>1, <2>1
    <2> QED  BY <1>1, <2>1, <2>2, RootsAreTasks DEF FrameSet
  <1> QED  BY <1>1, RootsAreTasks DEF Calm, FrameSet

LEMMA CalmSame ==
    ASSUME NEW w \in Workers, frame' = frame
    PROVE  Calm(w)
  BY DEF Calm

(* The task a worker goes on with.                                          *)
LEMMA Mine ==
    ASSUME TypeOK, OneControl, FrameTells, NEW w \in Workers, NEW k \in Driving, At(w, k), NEW t, t = Top(w).task
    PROVE  /\ t \in Tasks /\ Drives(w, t) /\ Top(w).kind = k
           /\ \A v \in Workers \ {w} : ~ Drives(v, t)
           /\ <<"wk", t>> \notin posted /\ <<"event", t>> \notin posted
           /\ k = "run" => frame[t] = "running"
  <1>1. t \in Tasks /\ Drives(w, t) /\ Top(w).kind = k
    BY TopTask DEF Drives, At, Driving
  <1>2. (\A v \in Workers \ {w} : ~ Drives(v, t)) /\ <<"wk", t>> \notin posted
    BY <1>1 DEF OneControl
  <1>3. frame[t] # "suspended" /\ (k = "run" => frame[t] = "running")
    BY <1>1 DEF FrameTells, Driving
  <1>4. <<"event", t>> \notin posted
    BY <1>1, <1>3 DEF FrameTells
  <1> QED  BY <1>1, <1>2, <1>3, <1>4

(* What the frames say.                                                     *)
LEMMA FrameTellsStep ==
    ASSUME ControlInv, [Next]_vars
    PROVE  FrameTells'
  <1> USE DEF ControlInv
  <1>1. CASE UNCHANGED vars
    <2>1. Still /\ posted' = posted /\ frame' = frame
      BY <1>1, StackStill DEF vars
    <2> QED  BY <2>1 DEF FrameTells, Still
  <1>2. ASSUME NEW r \in Roots, PostTo(r) PROVE FrameTells'
    <2>1. Still /\ posted' = posted \cup {<<"wk", r>>} /\ frame' = frame /\ frame[r] = "initial"
      BY <1>2, StackStill DEF PostTo
    <2> QED  BY <2>1 DEF FrameTells, Still
  <1>3. ASSUME NEW t \in Tasks, EventArrives(t) PROVE FrameTells'
    <2>1. Still /\ posted' = posted \cup {<<"event", t>>} /\ frame' = frame /\ frame[t] = "suspended"
      BY <1>3, StackStill DEF EventArrives
    <2> QED  BY <2>1 DEF FrameTells, Still
  <1>4. ASSUME NEW w \in Workers, NEW r \in Roots, TakeTask(w, r) PROVE FrameTells'
    <2> DEFINE c == Call("wk_cb", r, 0)
    <2>1. /\ Moves(w, Back, c) /\ <<"wk", r>> \in posted /\ r \in Tasks
          /\ posted' = posted \ {<<"wk", r>>} /\ frame' = frame
      BY <1>4, TakeTaskDoes, RootsAreTasks
    <2>2. PostedFit
      BY <2>1 DEF FrameTells, PostedFit
    <2>3. Fits(c)
      BY <2>1 DEF FrameTells, Fits, Call
    <2> QED  BY <2>1, <2>2, <2>3, CalmSame, TellsAfter
  <1>5. ASSUME NEW w \in Workers, NEW t \in Tasks, TakeEvent(w, t) PROVE FrameTells'
    <2> DEFINE c == Call("run", t, 0)
    <2>1. /\ Moves(w, Back, c) /\ <<"event", t>> \in posted /\ FrameSet(t, "running")
          /\ posted' = posted \ {<<"event", t>>}
      BY <1>5, TakeEventDoes
    <2>2. frame[t] = "suspended" /\ <<"wk", t>> \notin posted
      BY <2>1 DEF FrameTells
    <2>3. \A v \in Workers : ~ Drives(v, t)
      BY <2>2, Undriven
    <2>4. Calm(w)
      BY <2>1, <2>2, <2>3, CalmSet
    <2>5. PostedFit
      BY <2>1, <2>2 DEF FrameTells, PostedFit, FrameSet
    <2>6. Fits(c)
      BY <2>1 DEF Fits, Call, FrameSet
    <2> QED  BY <2>1, <2>4, <2>5, <2>6, TellsAfter
  <1>6. ASSUME NEW w \in Workers, WkResume(w) PROVE FrameTells'
    <2> DEFINE r == Top(w).task  c == Call("run", r, 0)  d == Call("wk_back", r, 0)
    <2>1. /\ At(w, "wk_cb") /\ r \in Roots /\ posted' = posted
          /\ \/ FrameSet(r, "running") /\ Moves(w, Top(w), c)
             \/ frame' = frame /\ Moves(w, Top(w), d)
      BY <1>6, WkResumeDoes
    <2>2. /\ r \in Tasks /\ \A v \in Workers \ {w} : ~ Drives(v, r)
          /\ <<"wk", r>> \notin posted /\ <<"event", r>> \notin posted /\ Drives(w, r) /\ Top(w).kind = "wk_cb"
      BY <2>1, Mine DEF Driving
    <2>3. frame[r] # "awaiting"
      BY <2>2 DEF FrameTells
    <2>4. CASE FrameSet(r, "running") /\ Moves(w, Top(w), c)
      <3>1. Calm(w)
        BY <2>2, <2>3, <2>4, CalmSet
      <3>2. PostedFit
        BY <2>1, <2>2, <2>4 DEF FrameTells, PostedFit, FrameSet
      <3>3. Fits(c)
        BY <2>4 DEF Fits, Call, FrameSet
      <3> QED  BY <2>4, <3>1, <3>2, <3>3, TellsAfter
    <2>5. CASE frame' = frame /\ Moves(w, Top(w), d)
      <3>1. Calm(w) /\ PostedFit /\ d.kind \notin Driving
        BY <2>1, <2>5, CalmSame DEF FrameTells, PostedFit, Call, Driving
      <3> QED  BY <2>5, <3>1, TellsAfter
    <2> QED  BY <2>1, <2>4, <2>5
  <1>7. ASSUME NEW w \in Workers, WkBack(w) PROVE FrameTells'
    <2>1. frame' = frame /\ posted' = posted /\ Moves(w, Top(w), Call("wk_done", Top(w).task, 0))
      BY <1>7, WkBackDoes
    <2>2. Calm(w) /\ PostedFit /\ Call("wk_done", Top(w).task, 0).kind \notin Driving
      BY <2>1, CalmSame DEF FrameTells, PostedFit, Back, Call, Driving
    <2> QED  BY <2>1, <2>2, TellsAfter
  <1>8. ASSUME NEW w \in Workers, WkDone(w) PROVE FrameTells'
    <2> DEFINE r == Top(w).task
    <2>1. /\ Moves(w, Top(w), Back) /\ r \in Tasks /\ r \in Roots /\ posted' = posted /\ Back.kind \notin Driving
          /\ frame' = frame \/ (frame[r] = "final" /\ FrameSet(r, "destroyed"))
      BY <1>8, WkDoneDoes, RootsAreTasks DEF Back, Call, Driving
    <2>2. PostedFit
      BY <2>1 DEF FrameTells, PostedFit, FrameSet
    <2>3. Calm(w)
      <3>1. ASSUME NEW u \in Tasks, u \notin Roots, frame[Owner(u)] = "awaiting" PROVE frame'[Owner(u)] = "awaiting"
        BY <2>1, <3>1, OwnerOf, RootsAreTasks DEF FrameSet
      <3> QED  BY <2>1, <3>1 DEF Calm, FrameSet
    <2> QED  BY <2>1, <2>2, <2>3, TellsAfter
  <1>9. ASSUME NEW w \in Workers, Suspend(w) PROVE FrameTells'
    <2> DEFINE t == Top(w).task
    <2>1. /\ Moves(w, Top(w), Back) /\ At(w, "run") /\ FrameSet(t, "suspended") /\ posted' = posted
          /\ Back.kind \notin Driving
      BY <1>9, SuspendDoes DEF Back, Call, Driving
    <2>2. /\ t \in Tasks /\ \A v \in Workers \ {w} : ~ Drives(v, t)
          /\ <<"wk", t>> \notin posted /\ frame[t] = "running"
      BY <2>1, Mine DEF Driving
    <2>3. Calm(w)
      BY <2>1, <2>2, CalmSet
    <2>4. PostedFit
      BY <2>1, <2>2 DEF FrameTells, PostedFit, FrameSet
    <2> QED  BY <2>1, <2>3, <2>4, TellsAfter
  <1>10. ASSUME NEW w \in Workers, AwaitTask(w) PROVE FrameTells'
    <2> DEFINE r == Top(w).task  t == Called[r]  c == Call("run", t, 0)
    <2>1. /\ Moves(w, Top(w), c) /\ At(w, "run") /\ r \in Roots /\ t \in Owned(r) /\ t \in Tasks
          /\ frame'[r] = "awaiting" /\ frame'[t] = "running" /\ posted' = posted
          /\ \A u \in Tasks \ {r, t} : frame'[u] = frame[u]
      BY <1>10, AwaitTaskDoes
    <2>2. /\ r \in Tasks /\ \A v \in Workers \ {w} : ~ Drives(v, r)
          /\ <<"wk", r>> \notin posted /\ <<"event", r>> \notin posted /\ frame[r] = "running"
      BY <2>1, Mine DEF Driving
    <2>3. frame[t] = "initial" /\ t \notin Roots
      BY <1>10, <2>1, NotStarted, OwnedTask
    <2>4. \A v \in Workers : ~ Drives(v, t)
      BY <2>1, <2>3, Undriven
    <2>5. <<"wk", t>> \notin posted /\ <<"event", t>> \notin posted
      BY <2>1, <2>3 DEF FrameTells
    <2>6. Calm(w)
      <3>1. ASSUME NEW u \in Tasks, u \notin Roots, frame[Owner(u)] = "awaiting" PROVE frame'[Owner(u)] = "awaiting"
        BY <2>1, <2>3, <3>1, OwnerOf, RootsAreTasks
      <3> QED  BY <2>1, <2>2, <2>4, <3>1 DEF Calm
    <2>7. PostedFit
      BY <2>1, <2>2, <2>5 DEF FrameTells, PostedFit
    <2>8. Fits(c)
      BY <2>1 DEF Fits, Call
    <2> QED  BY <2>1, <2>6, <2>7, <2>8, TellsAfter
  <1>11. ASSUME NEW w \in Workers, AwaitAll(w) PROVE FrameTells'
    <2> DEFINE r == Top(w).task  c == Call("join", r, 1)
    <2>1. /\ Moves(w, Top(w), c) /\ At(w, "run") /\ FrameSet(r, "awaiting") /\ posted' = posted
          /\ c.kind \notin Driving
      BY <1>11, AwaitAllDoes DEF Call, Driving
    <2>2. /\ r \in Tasks /\ \A v \in Workers \ {w} : ~ Drives(v, r)
          /\ <<"wk", r>> \notin posted /\ <<"event", r>> \notin posted /\ frame[r] = "running"
      BY <2>1, Mine DEF Driving
    <2>3. Calm(w)
      BY <2>1, <2>2, CalmSet
    <2>4. PostedFit
      BY <2>1, <2>2 DEF FrameTells, PostedFit, FrameSet
    <2> HIDE DEF c
    <2> QED  BY <2>1, <2>3, <2>4, TellsAfter
  <1>12. ASSUME NEW w \in Workers, JoinNext(w) PROVE FrameTells'
    <2> DEFINE r == Top(w).task  i == Top(w).arg  t == Joined[r][i]  c == Call("run", t, 0)
    <2>1. CASE i <= Len(Joined[r]) /\ t # NoTask
      <3>1. Moves(w, Top(w), c) /\ FrameSet(t, "running") /\ posted' = posted /\ r \in Roots
        BY <1>12, <2>1, JoinNextDoes
      <3>2. t \in Kids(r) /\ frame[t] = "initial"
        BY <1>12, <2>1, NotStarted
      <3>3. t \in Tasks \ Roots
        BY <3>1, <3>2, JoinedList, OwnedTask
      <3>4. \A v \in Workers : ~ Drives(v, t)
        BY <3>2, <3>3, Undriven
      <3>5. <<"wk", t>> \notin posted /\ <<"event", t>> \notin posted
        BY <3>2, <3>3 DEF FrameTells
      <3>6. Calm(w)
        BY <3>1, <3>2, <3>3, <3>4, CalmSet
      <3>7. PostedFit
        BY <3>1, <3>5 DEF FrameTells, PostedFit, FrameSet
      <3>8. Fits(c)
        BY <3>1 DEF Fits, Call, FrameSet
      <3> QED  BY <3>1, <3>6, <3>7, <3>8, TellsAfter
    <2>2. CASE ~ (i <= Len(Joined[r]) /\ t # NoTask)
      <3> DEFINE d == Call("join", r, i + 1)
      <3>1. (Moves(w, Top(w), Back) \/ Moves(w, Top(w), d)) /\ posted' = posted /\ frame' = frame
        BY <1>12, <2>2, JoinNextDoes
      <3>2. Calm(w) /\ PostedFit /\ d.kind \notin Driving /\ Back.kind \notin Driving
        BY <3>1, CalmSame DEF FrameTells, PostedFit, Back, Call, Driving
      <3> HIDE DEF d
      <3> QED  BY <3>1, <3>2, TellsAfter
    <2> QED  BY <2>1, <2>2
  <1>13. ASSUME NEW w \in Workers, Return(w) PROVE FrameTells'
    <2> DEFINE t == Top(w).task  c == Call("final", t, 0)
    <2>1. /\ Moves(w, Top(w), c) /\ At(w, "run") /\ frame'[t] = "final" /\ posted' = posted
          /\ \A u \in Tasks \ {t} : frame'[u] = IF t \in Roots /\ u \in Owned(t) THEN "destroyed"
                                                                               ELSE frame[u]
      BY <1>13, ReturnDoes
    <2>2. /\ t \in Tasks /\ Drives(w, t) /\ \A v \in Workers \ {w} : ~ Drives(v, t)
          /\ <<"wk", t>> \notin posted /\ <<"event", t>> \notin posted /\ frame[t] = "running"
      BY <2>1, Mine DEF Driving
    <2>3. ASSUME t \in Roots, NEW u \in Owned(t)
          PROVE  /\ u \in Tasks \ Roots /\ \A v \in Workers : ~ Drives(v, u)
                 /\ <<"wk", u>> \notin posted /\ <<"event", u>> \notin posted
      <3>1. u \in Tasks \ Roots
        BY <2>3, OwnedTask
      <3>2. frame[u] \in {"initial", "final", "destroyed"} /\ \A v \in Workers : ~ Drives(v, u)
        BY <2>2, <2>3, OwnerAlone
      <3> QED  BY <3>1, <3>2 DEF FrameTells
    <2>4. ASSUME NEW u \in Tasks, u \notin Roots, frame[Owner(u)] = "awaiting" PROVE frame'[Owner(u)] = "awaiting"
      <3>1. Owner(u) \in Roots /\ Owner(u) \in Tasks /\ Owner(u) # t
        BY <2>2, <2>4, OwnerOf, RootsAreTasks
      <3> QED  BY <2>1, <2>3, <2>4, <3>1
    <2>5. Calm(w)
      BY <2>1, <2>2, <2>3, <2>4 DEF Calm
    <2>6. PostedFit
      BY <2>1, <2>2, <2>3 DEF FrameTells, PostedFit
    <2>7. Fits(c)
      <3>1. CASE t \in Roots
        BY <2>1, <3>1 DEF Fits, Call
      <3>2. CASE t \notin Roots
        <4>1. Owner(t) \in Roots /\ t \in Owned(Owner(t)) /\ Owner(t) \in Tasks
          BY <2>2, <3>2, OwnerOf, RootsAreTasks
        <4>2. frame[Owner(t)] = "awaiting"
          BY <2>2, <4>1, OwnerAlone
        <4>3. frame'[Owner(t)] = "awaiting"
          BY <2>2, <2>4, <3>2, <4>2
        <4> QED  BY <2>1, <3>2, <4>3 DEF Fits, Call
      <3> QED  BY <3>1, <3>2
    <2> QED  BY <2>1, <2>5, <2>6, <2>7, TellsAfter
  <1>14. ASSUME NEW w \in Workers, FinalRoot(w) PROVE FrameTells'
    <2> DEFINE r == Top(w).task
    <2>1. /\ Moves(w, Top(w), Back) /\ At(w, "final") /\ r \in Roots /\ frame' = frame
          /\ posted' = posted \cup {<<"wk", r>>} \/ posted' = posted
          /\ Back.kind \notin Driving
      BY <1>14, FinalRootDoes DEF Back, Call, Driving
    <2>2. r \in Tasks /\ Drives(w, r) /\ Top(w).kind = "final"
      BY <2>1, Mine DEF Driving
    <2>3. frame[r] \in {"final", "destroyed"}
      BY <2>2 DEF FrameTells
    <2> HIDE DEF r
    <2>4. \A t \in Tasks : /\ <<"event", t>> \in posted' => <<"event", t>> \in posted
                        /\ <<"wk", t>> \in posted' => <<"wk", t>> \in posted \/ t = r
      BY <2>1
    <2>5. PostedFit
      BY <2>1, <2>3, <2>4 DEF FrameTells, PostedFit
    <2> QED  BY <2>1, <2>5, CalmSame, TellsAfter
  <1>15. ASSUME NEW w \in Workers, FinalCalled(w) PROVE FrameTells'
    <2> DEFINE t == Top(w).task  r == Owner(t)  c == Call("run", r, 0)
    <2>1. /\ Moves(w, Top(w), c) /\ At(w, "final") /\ r \in Roots /\ r \in Tasks /\ t \in Tasks \ Roots
          /\ t = Called[r] /\ t \in Owned(r) /\ FrameSet(r, "running") /\ posted' = posted
      BY <1>15, FinalCalledDoes, RootsAreTasks
    <2>2. /\ Drives(w, t) /\ Top(w).kind = "final" /\ \A v \in Workers \ {w} : ~ Drives(v, t)
      BY <2>1, Mine DEF Driving
    <2>3. frame[r] = "awaiting"
      BY <2>1, <2>2 DEF FrameTells
    <2>4. \A v \in Workers : ~ Drives(v, r)
      BY <2>1, <2>3, Undriven
    <2>5. <<"wk", r>> \notin posted /\ <<"event", r>> \notin posted
      BY <2>1, <2>3 DEF FrameTells
    <2>6. \A u \in Owned(r) \ {t} : \A v \in Workers : ~ Drives(v, u)
      BY <2>1, <2>2, CalledAlone
    <2>7. Calm(w)
      BY <2>1, <2>2, <2>4, <2>6, CalmResume
    <2>8. PostedFit
      BY <2>1, <2>5 DEF FrameTells, PostedFit, FrameSet
    <2>9. Fits(c)
      BY <2>1 DEF Fits, Call, FrameSet
    <2> QED  BY <2>1, <2>7, <2>8, <2>9, TellsAfter
  <1>16. ASSUME NEW w \in Workers, FinalJoined(w) PROVE FrameTells'
    <2> DEFINE t == Top(w).task  r == Owner(t)  c == Call("count", t, count[r])
    <2>1. /\ Moves(w, Top(w), c) /\ At(w, "final") /\ t \in Tasks \ Roots /\ t \in Kids(r)
          /\ frame' = frame /\ posted' = posted
      BY <1>16, FinalJoinedDoes
    <2>2. Drives(w, t) /\ Top(w).kind = "final"
      BY <2>1, Mine DEF Driving
    <2>3. frame[t] = "final" /\ frame[r] = "awaiting"
      BY <2>1, <2>2 DEF FrameTells
    <2>4. PostedFit
      BY <2>1 DEF FrameTells, PostedFit
    <2>5. Fits(c)
      BY <2>1, <2>3 DEF Fits, Call
    <2> QED  BY <2>1, <2>4, <2>5, CalmSame, TellsAfter
  <1>17. ASSUME NEW w \in Workers, JoinCount(w) PROVE FrameTells'
    <2> DEFINE t == Top(w).task  r == Owner(t)  c == Call("run", r, 0)
    <2>1. /\ At(w, "count") /\ r \in Roots /\ r \in Tasks /\ t \in Kids(r) /\ Drives(w, t)
          /\ frame[r] = "awaiting" /\ posted' = posted
          /\ \/ Top(w).arg = 1 /\ FrameSet(r, "running") /\ Moves(w, Top(w), c)
             \/ frame' = frame /\ Moves(w, Top(w), Back)
      BY <1>17, JoinCountDoes, RootsAreTasks
    <2>2. CASE Top(w).arg = 1 /\ FrameSet(r, "running") /\ Moves(w, Top(w), c)
      <3>1. \A v \in Workers : ~ Drives(v, r)
        BY <2>1, Undriven
      <3>2. <<"wk", r>> \notin posted /\ <<"event", r>> \notin posted
        BY <2>1 DEF FrameTells
      <3>3. \A v \in Workers \ {w} : ~ Drives(v, t)
        BY <2>1, Mine DEF Driving
      <3>4. \A u \in Owned(r) \ {t} : \A v \in Workers : ~ Drives(v, u)
        BY <2>1, <2>2, LastAlone
      <3>5. Calm(w)
        BY <2>1, <2>2, <3>1, <3>3, <3>4, CalmResume
      <3>6. PostedFit
        BY <2>1, <2>2, <3>2 DEF FrameTells, PostedFit, FrameSet
      <3>7. Fits(c)
        BY <2>2 DEF Fits, Call, FrameSet
      <3> QED  BY <2>2, <3>5, <3>6, <3>7, TellsAfter
    <2>3. CASE frame' = frame /\ Moves(w, Top(w), Back)
      <3>1. Calm(w) /\ PostedFit /\ Back.kind \notin Driving
        BY <2>1, <2>3, CalmSame DEF FrameTells, PostedFit, Back, Call, Driving
      <3> QED  BY <2>3, <3>1, TellsAfter
    <2> QED  BY <2>1, <2>2, <2>3
  <1>18. ASSUME NEW w \in Workers, Unwind(w) PROVE FrameTells'
    <2>1. frame' = frame /\ posted' = posted /\ Moves(w, Top(w), Back)
      BY <1>18, UnwindDoes
    <2>2. Calm(w) /\ PostedFit /\ Back.kind \notin Driving
      BY <2>1, CalmSame DEF FrameTells, PostedFit, Back, Call, Driving
    <2> QED  BY <2>1, <2>2, TellsAfter
  <1> QED  BY StepCases, <1>1, <1>2, <1>3, <1>4, <1>5, <1>6, <1>7, <1>8, <1>9,
              <1>10, <1>11, <1>12, <1>13, <1>14, <1>15, <1>16, <1>17, <1>18

-----------------------------------------------------------------------------
(* What was over stays over, and what has begun was asked for.             *)

LEMMA OverKept ==
    ASSUME NEW u \in Tasks, Over(u), NEW w \in Workers, NEW old, NEW new, Moves(w, old, new),
           new.kind \in Driving => new.task # u, frame'[u] = frame[u] \/ frame'[u] = "destroyed"
    PROVE  Over(u)'
  BY DEF Over, Moves, Turn

LEMMA OverStill ==
    ASSUME NEW u \in Tasks, Over(u), Still, frame' = frame
    PROVE  Over(u)'
  BY DEF Over, Still

(* A task that is awaited and over stays over.                              *)
LEMMA OverStays ==
    ASSUME TypeOK, CallsNest, OneControl, FrameTells, OwnersWait, JoinsInOrder,
           NEW u \in Tasks \ Roots, Over(u), [Next]_vars
    PROVE  Over(u)'
  <1>1. CASE UNCHANGED vars
    <2>1. Still /\ frame' = frame
      BY <1>1, StackStill DEF vars
    <2> QED  BY <2>1, OverStill
  <1>2. ASSUME NEW r \in Roots, PostTo(r) PROVE Over(u)'
    <2>1. /\ Still /\ frame' = frame /\ UNCHANGED <<joins, calls, count>>
      BY <1>2, StackStill DEF PostTo, progVars
    <2> QED  BY <2>1, OverStill
  <1>3. ASSUME NEW t \in Tasks, EventArrives(t) PROVE Over(u)'
    <2>1. /\ Still /\ frame' = frame /\ UNCHANGED <<joins, calls, count>>
      BY <1>3, StackStill DEF EventArrives, promiseVars, progVars
    <2> QED  BY <2>1, OverStill
  <1>4. ASSUME NEW w \in Workers, NEW r \in Roots, TakeTask(w, r) PROVE Over(u)'
    <2> DEFINE c == Call("wk_cb", r, 0)
    <2>1. /\ Moves(w, Back, c) /\ c.task = r /\ frame' = frame /\ r \in Roots
          /\ UNCHANGED <<joins, calls, count>>
      BY <1>4, TakeTaskDoes DEF Call, promiseVars, progVars
    <2> HIDE DEF c
    <2> QED  BY <2>1, OverKept
  <1>5. ASSUME NEW w \in Workers, NEW t \in Tasks, TakeEvent(w, t) PROVE Over(u)'
    <2> DEFINE c == Call("run", t, 0)
    <2>1. /\ Moves(w, Back, c) /\ c.task = t /\ FrameSet(t, "running") /\ <<"event", t>> \in posted
          /\ UNCHANGED <<joins, calls, count>>
      BY <1>5, TakeEventDoes DEF Call, promiseVars, progVars
    <2> HIDE DEF c
    <2>2. t # u
      BY <2>1 DEF FrameTells, Over
    <2> QED  BY <2>1, <2>2, OverKept DEF FrameSet
  <1>6. ASSUME NEW w \in Workers, WkResume(w) PROVE Over(u)'
    <2> DEFINE r == Top(w).task  c == Call("run", r, 0)  d == Call("wk_back", r, 0)
    <2>1. /\ At(w, "wk_cb") /\ r \in Roots /\ c.task = r /\ d.task = r
          /\ \/ FrameSet(r, "running") /\ Moves(w, Top(w), c)
             \/ frame' = frame /\ Moves(w, Top(w), d)
          /\ UNCHANGED <<joins, calls, count>>
      BY <1>6, WkResumeDoes DEF Call, progVars
    <2> HIDE DEF c, d
    <2> QED  BY <2>1, OverKept, RootsAreTasks DEF FrameSet
  <1>7. ASSUME NEW w \in Workers, WkBack(w) PROVE Over(u)'
    <2> DEFINE r == Top(w).task  c == Call("wk_done", r, 0)
    <2>1. /\ Moves(w, Top(w), c) /\ c.kind \notin Driving /\ frame' = frame
          /\ UNCHANGED <<joins, calls, count>>
      BY <1>7, WkBackDoes DEF Call, Driving, progVars
    <2> HIDE DEF c
    <2> QED  BY <2>1, OverKept
  <1>8. ASSUME NEW w \in Workers, WkDone(w) PROVE Over(u)'
    <2> DEFINE r == Top(w).task
    <2>1. /\ Moves(w, Top(w), Back) /\ Back.kind \notin Driving /\ r \in Roots
          /\ frame' = frame \/ (frame[r] = "final" /\ FrameSet(r, "destroyed"))
          /\ UNCHANGED <<joins, calls, count>>
      BY <1>8, WkDoneDoes DEF Back, Call, Driving, progVars
    <2> QED  BY <2>1, OverKept, RootsAreTasks DEF FrameSet
  <1>9. ASSUME NEW w \in Workers, Suspend(w) PROVE Over(u)'
    <2> DEFINE t == Top(w).task
    <2>1. /\ Moves(w, Top(w), Back) /\ Back.kind \notin Driving /\ At(w, "run")
          /\ FrameSet(t, "suspended") /\ UNCHANGED <<joins, calls, count>>
      BY <1>9, SuspendDoes DEF Back, Call, Driving, promiseVars
    <2>2. t # u
      BY <2>1, Mine DEF Over, Driving
    <2> QED  BY <2>1, <2>2, OverKept DEF FrameSet
  <1>10. ASSUME NEW w \in Workers, AwaitTask(w) PROVE Over(u)'
    <2> DEFINE r == Top(w).task  t == Called[r]  c == Call("run", t, 0)
    <2>1. /\ Moves(w, Top(w), c) /\ c.task = t /\ At(w, "run") /\ r \in Roots /\ t \in Owned(r) /\ t # NoTask
          /\ frame'[r] = "awaiting" /\ frame'[t] = "running" /\ ~ calls[r]
          /\ \A x \in Tasks \ {r, t} : frame'[x] = frame[x]
          /\ calls' = [calls EXCEPT ![r] = TRUE] /\ UNCHANGED <<joins, count>>
      BY <1>10, AwaitTaskDoes DEF Call, promiseVars
    <2> HIDE DEF c
    <2>2. t # u
      BY <1>10, <2>1, NotStarted DEF Over
    <2> QED  BY <2>1, <2>2, OverKept
  <1>11. ASSUME NEW w \in Workers, AwaitAll(w) PROVE Over(u)'
    <2> DEFINE r == Top(w).task  c == Call("join", r, 1)
    <2>1. /\ Moves(w, Top(w), c) /\ c.kind \notin Driving /\ At(w, "run") /\ r \in Roots
          /\ FrameSet(r, "awaiting") /\ ~ joins[r] /\ Joined[r] # << >> /\ joins' = [joins EXCEPT ![r] = TRUE]
          /\ count' = [count EXCEPT ![r] = Len(Joined[r])] /\ UNCHANGED calls
      BY <1>11, AwaitAllDoes DEF Call, Driving
    <2> HIDE DEF c
    <2> QED  BY <2>1, OverKept, RootsAreTasks DEF FrameSet
  <1>12. ASSUME NEW w \in Workers, JoinNext(w) PROVE Over(u)'
    <2> DEFINE r == Top(w).task  i == Top(w).arg  t == Joined[r][i]  c == Call("run", t, 0)  d == Call("join", r, i + 1)
    <2>1. /\ At(w, "join") /\ r \in Roots /\ c.task = t /\ d.kind \notin Driving /\ Back.kind \notin Driving
          /\ \/ frame' = frame /\ (Moves(w, Top(w), Back) \/ Moves(w, Top(w), d))
             \/ i <= Len(Joined[r]) /\ t # NoTask /\ FrameSet(t, "running") /\ Moves(w, Top(w), c)
          /\ UNCHANGED <<joins, calls, count>>
      BY <1>12, JoinNextDoes DEF Call, Back, Driving, promiseVars, progVars
    <2> HIDE DEF c, d
    <2>2. i <= Len(Joined[r]) /\ t # NoTask => t # u
      BY <1>12, <2>1, NotStarted DEF Over
    <2> QED  BY <2>1, <2>2, OverKept DEF FrameSet
  <1>13. ASSUME NEW w \in Workers, Return(w) PROVE Over(u)'
    <2> DEFINE t == Top(w).task  c == Call("final", t, 0)
    <2>1. /\ Moves(w, Top(w), c) /\ c.task = t /\ At(w, "run") /\ frame'[t] = "final"
          /\ \A x \in Tasks \ {t} : frame'[x] = IF t \in Roots /\ x \in Owned(t) THEN "destroyed"
                                                                             ELSE frame[x]
          /\ t \in Roots => (Joined[t] # << >> => joins[t]) /\ (Called[t] # NoTask => calls[t])
          /\ UNCHANGED <<joins, calls, count>>
      BY <1>13, ReturnDoes DEF Call, promiseVars, progVars
    <2> HIDE DEF c
    <2>2. t # u
      BY <2>1, Mine DEF Over, Driving
    <2> QED  BY <2>1, <2>2, OverKept
  <1>14. ASSUME NEW w \in Workers, FinalRoot(w) PROVE Over(u)'
    <2>1. /\ Moves(w, Top(w), Back) /\ Back.kind \notin Driving /\ frame' = frame
          /\ UNCHANGED <<joins, calls, count>>
      BY <1>14, FinalRootDoes DEF Back, Call, Driving, progVars
    <2> QED  BY <2>1, OverKept
  <1>15. ASSUME NEW w \in Workers, FinalCalled(w) PROVE Over(u)'
    <2> DEFINE t == Top(w).task  r == Owner(t)  c == Call("run", r, 0)
    <2>1. /\ Moves(w, Top(w), c) /\ c.task = r /\ At(w, "final") /\ t \in Tasks \ Roots /\ r \in Roots
          /\ t = Called[r] /\ t \in Owned(r) /\ FrameSet(r, "running")
          /\ UNCHANGED <<joins, calls, count>>
      BY <1>15, FinalCalledDoes DEF Call, promiseVars, progVars
    <2> HIDE DEF c
    <2> QED  BY <2>1, OverKept, RootsAreTasks DEF FrameSet
  <1>16. ASSUME NEW w \in Workers, FinalJoined(w) PROVE Over(u)'
    <2> DEFINE t == Top(w).task  r == Owner(t)  c == Call("count", t, count[r])
    <2>1. /\ Moves(w, Top(w), c) /\ c.task = t /\ c.arg = count[r] /\ c.kind = "count" /\ At(w, "final")
          /\ t \in Tasks \ Roots /\ r \in Roots /\ t \in Kids(r) /\ frame' = frame
          /\ UNCHANGED <<joins, calls, count>>
      BY <1>16, FinalJoinedDoes DEF Call, promiseVars, progVars
    <2> HIDE DEF c
    <2>2. t # u
      BY <2>1, Mine DEF Over, Driving
    <2> QED  BY <2>1, <2>2, OverKept
  <1>17. ASSUME NEW w \in Workers, JoinCount(w) PROVE Over(u)'
    <2> DEFINE t == Top(w).task  r == Owner(t)  c == Call("run", r, 0)
    <2>0. c.task = r /\ Back.kind \notin Driving
      BY DEF Call, Back, Driving
    <2>1. /\ At(w, "count") /\ t \in Tasks \ Roots /\ r \in Roots /\ t \in Kids(r) /\ Drives(w, t)
          /\ frame[t] = "final" /\ frame[r] = "awaiting" /\ c.task = r /\ Back.kind \notin Driving
          /\ \/ Top(w).arg = 1 /\ FrameSet(r, "running") /\ Moves(w, Top(w), c)
             \/ Top(w).arg # 1 /\ frame' = frame /\ Moves(w, Top(w), Back)
          /\ count' = [count EXCEPT ![r] = Top(w).arg - 1] /\ UNCHANGED <<joins, calls>>
      BY <1>17, <2>0, JoinCountDoes DEF progVars
    <2> HIDE DEF c
    <2> QED  BY <2>1, OverKept, RootsAreTasks DEF FrameSet
  <1>18. ASSUME NEW w \in Workers, Unwind(w) PROVE Over(u)'
    <2>1. /\ Moves(w, Top(w), Back) /\ Back.kind \notin Driving /\ frame' = frame
          /\ UNCHANGED <<joins, calls, count>>
      BY <1>18, UnwindDoes DEF Back, Call, Driving, promiseVars, progVars
    <2> QED  BY <2>1, OverKept
  <1> QED  BY StepCases, <1>1, <1>2, <1>3, <1>4, <1>5, <1>6, <1>7, <1>8, <1>9,
              <1>10, <1>11, <1>12, <1>13, <1>14, <1>15, <1>16, <1>17, <1>18

LEMMA OpenShrinks ==
    ASSUME TypeOK, CallsNest, OneControl, FrameTells, OwnersWait, JoinsInOrder, [Next]_vars, NEW r \in Roots
    PROVE  Open(r)' \subseteq Open(r)
  <1>1. ASSUME NEW i \in DOMAIN Joined[r], Joined[r][i] # NoTask, Over(Joined[r][i])
        PROVE  Over(Joined[r][i])'
    <2>1. Joined[r][i] \in Tasks \ Roots
      BY <1>1, JoinedList, OwnedTask
    <2> QED  BY <1>1, <2>1, OverStays
  <1> QED  BY <1>1 DEF Open

(* No frame becomes new, and a coroutine starts waiting when it starts      *)
(* tasks.                                                                   *)
Begins ==
    /\ \A u \in Tasks : frame'[u] = "initial" => frame[u] = "initial"
    /\ \A r \in Roots :
          /\ joins[r] => joins'[r]
          /\ calls[r] => calls'[r]
          /\ joins'[r] /\ ~ joins[r] => frame[r] = "running" /\ frame'[r] = "awaiting" /\ calls'[r] = calls[r]
          /\ calls'[r] /\ ~ calls[r] =>
                frame[r] = "running" /\ frame'[r] = "awaiting" /\ joins'[r] = joins[r] /\ Called[r] # NoTask
          /\ frame'[r] = "awaiting" => \/ frame[r] = "awaiting"
                                       \/ Joined[r] # << >> /\ ~ joins[r]
                                       \/ Called[r] # NoTask /\ ~ calls[r]

(* A task leaves its initial suspension only when its owner asks for it.    *)
Asked ==
    \A r \in Roots :
        /\ \A t \in Kids(r) : frame[t] = "initial" /\ ~ joins'[r] => frame'[t] = "initial"
        /\ Called[r] # NoTask /\ frame[Called[r]] = "initial" /\ ~ calls'[r] => frame'[Called[r]] = "initial"

(* Nothing else begins.                                                     *)
LEMMA BeginsStep ==
    ASSUME TypeOK, CallsNest, OneControl, FrameTells, [Next]_vars
    PROVE  Begins
  <1>1. CASE UNCHANGED vars
    BY <1>1 DEF vars, progVars, Begins
  <1>2. ASSUME NEW r \in Roots, PostTo(r) PROVE Begins
    <2>1. /\ Still /\ frame' = frame /\ UNCHANGED <<joins, calls, count>>
      BY <1>2, StackStill DEF PostTo, progVars
    <2> QED  BY <2>1 DEF Begins
  <1>3. ASSUME NEW t \in Tasks, EventArrives(t) PROVE Begins
    <2>1. /\ Still /\ frame' = frame /\ UNCHANGED <<joins, calls, count>>
      BY <1>3, StackStill DEF EventArrives, promiseVars, progVars
    <2> QED  BY <2>1 DEF Begins
  <1>4. ASSUME NEW w \in Workers, NEW r \in Roots, TakeTask(w, r) PROVE Begins
    <2> DEFINE c == Call("wk_cb", r, 0)
    <2>1. /\ Moves(w, Back, c) /\ c.task = r /\ frame' = frame /\ r \in Roots
          /\ UNCHANGED <<joins, calls, count>>
      BY <1>4, TakeTaskDoes DEF Call, promiseVars, progVars
    <2> HIDE DEF c
    <2> QED  BY <2>1 DEF Begins
  <1>5. ASSUME NEW w \in Workers, NEW t \in Tasks, TakeEvent(w, t) PROVE Begins
    <2> DEFINE c == Call("run", t, 0)
    <2>1. /\ Moves(w, Back, c) /\ c.task = t /\ FrameSet(t, "running") /\ <<"event", t>> \in posted
          /\ UNCHANGED <<joins, calls, count>>
      BY <1>5, TakeEventDoes DEF Call, promiseVars, progVars
    <2> HIDE DEF c
    <2> QED  BY <2>1, RootsAreTasks DEF Begins, FrameSet
  <1>6. ASSUME NEW w \in Workers, WkResume(w) PROVE Begins
    <2> DEFINE r == Top(w).task  c == Call("run", r, 0)  d == Call("wk_back", r, 0)
    <2>1. /\ At(w, "wk_cb") /\ r \in Roots /\ c.task = r /\ d.task = r
          /\ \/ FrameSet(r, "running") /\ Moves(w, Top(w), c)
             \/ frame' = frame /\ Moves(w, Top(w), d)
          /\ UNCHANGED <<joins, calls, count>>
      BY <1>6, WkResumeDoes DEF Call, progVars
    <2> HIDE DEF c, d
    <2> QED  BY <2>1, RootsAreTasks DEF Begins, FrameSet
  <1>7. ASSUME NEW w \in Workers, WkBack(w) PROVE Begins
    <2> DEFINE r == Top(w).task  c == Call("wk_done", r, 0)
    <2>1. /\ Moves(w, Top(w), c) /\ c.kind \notin Driving /\ frame' = frame
          /\ UNCHANGED <<joins, calls, count>>
      BY <1>7, WkBackDoes DEF Call, Driving, progVars
    <2> HIDE DEF c
    <2> QED  BY <2>1 DEF Begins
  <1>8. ASSUME NEW w \in Workers, WkDone(w) PROVE Begins
    <2> DEFINE r == Top(w).task
    <2>1. /\ Moves(w, Top(w), Back) /\ Back.kind \notin Driving /\ r \in Roots
          /\ frame' = frame \/ (frame[r] = "final" /\ FrameSet(r, "destroyed"))
          /\ UNCHANGED <<joins, calls, count>>
      BY <1>8, WkDoneDoes DEF Back, Call, Driving, progVars
    <2> QED  BY <2>1, RootsAreTasks DEF Begins, FrameSet
  <1>9. ASSUME NEW w \in Workers, Suspend(w) PROVE Begins
    <2> DEFINE t == Top(w).task
    <2>1. /\ Moves(w, Top(w), Back) /\ Back.kind \notin Driving /\ At(w, "run")
          /\ FrameSet(t, "suspended") /\ UNCHANGED <<joins, calls, count>>
      BY <1>9, SuspendDoes DEF Back, Call, Driving, promiseVars
    <2> QED  BY <2>1, RootsAreTasks DEF Begins, FrameSet
  <1>10. ASSUME NEW w \in Workers, AwaitTask(w) PROVE Begins
    <2> DEFINE r == Top(w).task  t == Called[r]  c == Call("run", t, 0)
    <2>1. /\ Moves(w, Top(w), c) /\ c.task = t /\ At(w, "run") /\ r \in Roots /\ t \in Owned(r) /\ t # NoTask
          /\ frame'[r] = "awaiting" /\ frame'[t] = "running" /\ ~ calls[r]
          /\ \A u \in Tasks \ {r, t} : frame'[u] = frame[u]
          /\ calls' = [calls EXCEPT ![r] = TRUE] /\ UNCHANGED <<joins, count>>
      BY <1>10, AwaitTaskDoes DEF Call, promiseVars
    <2> HIDE DEF c
    <2>2. frame[r] = "running" /\ r \in Tasks /\ t \in Tasks
      BY <2>1, Mine, OwnedTask DEF Driving
    <2>3. calls'[r] /\ \A q \in Roots \ {r} : calls'[q] = calls[q]
      BY <2>1 DEF TypeOK
    <2>4. \A u \in Tasks : frame'[u] = "initial" => frame[u] = "initial"
      BY <2>1, <2>2
    <2>5. \A q \in Roots \ {r} : frame'[q] = frame[q]
      BY <2>1, OwnedTask, RootsAreTasks
    <2> HIDE DEF r
    <2> QED  BY <2>1, <2>2, <2>3, <2>4, <2>5 DEF Begins
  <1>11. ASSUME NEW w \in Workers, AwaitAll(w) PROVE Begins
    <2> DEFINE r == Top(w).task  c == Call("join", r, 1)
    <2>1. /\ Moves(w, Top(w), c) /\ c.kind \notin Driving /\ At(w, "run") /\ r \in Roots
          /\ FrameSet(r, "awaiting") /\ ~ joins[r] /\ Joined[r] # << >> /\ joins' = [joins EXCEPT ![r] = TRUE]
          /\ count' = [count EXCEPT ![r] = Len(Joined[r])] /\ UNCHANGED calls
      BY <1>11, AwaitAllDoes DEF Call, Driving
    <2> HIDE DEF c
    <2>2. frame[r] = "running" /\ r \in Tasks
      BY <2>1, Mine DEF Driving
    <2>3. joins'[r] /\ \A q \in Roots \ {r} : joins'[q] = joins[q]
      BY <2>1 DEF TypeOK
    <2>4. \A u \in Tasks : frame'[u] = "initial" => frame[u] = "initial"
      BY <2>1, <2>2 DEF FrameSet
    <2>5. frame'[r] = "awaiting" /\ \A q \in Roots \ {r} : frame'[q] = frame[q]
      BY <2>1, RootsAreTasks DEF FrameSet
    <2> HIDE DEF r
    <2> QED  BY <2>1, <2>2, <2>3, <2>4, <2>5 DEF Begins
  <1>12. ASSUME NEW w \in Workers, JoinNext(w) PROVE Begins
    <2> DEFINE r == Top(w).task  i == Top(w).arg  t == Joined[r][i]  c == Call("run", t, 0)  d == Call("join", r, i + 1)
    <2>1. /\ At(w, "join") /\ r \in Roots /\ c.task = t /\ d.kind \notin Driving /\ Back.kind \notin Driving
          /\ \/ frame' = frame /\ (Moves(w, Top(w), Back) \/ Moves(w, Top(w), d))
             \/ i <= Len(Joined[r]) /\ t # NoTask /\ FrameSet(t, "running") /\ Moves(w, Top(w), c)
          /\ UNCHANGED <<joins, calls, count>>
      BY <1>12, JoinNextDoes DEF Call, Back, Driving, promiseVars, progVars
    <2> HIDE DEF c, d
    <2> QED  BY <2>1, RootsAreTasks DEF Begins, FrameSet
  <1>13. ASSUME NEW w \in Workers, Return(w) PROVE Begins
    <2> DEFINE t == Top(w).task  c == Call("final", t, 0)
    <2>1. /\ Moves(w, Top(w), c) /\ c.task = t /\ At(w, "run") /\ frame'[t] = "final"
          /\ \A u \in Tasks \ {t} : frame'[u] = IF t \in Roots /\ u \in Owned(t) THEN "destroyed"
                                                                             ELSE frame[u]
          /\ t \in Roots => (Joined[t] # << >> => joins[t]) /\ (Called[t] # NoTask => calls[t])
          /\ UNCHANGED <<joins, calls, count>>
      BY <1>13, ReturnDoes DEF Call, promiseVars, progVars
    <2> HIDE DEF c
    <2> QED  BY <2>1, RootsAreTasks DEF Begins
  <1>14. ASSUME NEW w \in Workers, FinalRoot(w) PROVE Begins
    <2>1. /\ Moves(w, Top(w), Back) /\ Back.kind \notin Driving /\ frame' = frame
          /\ UNCHANGED <<joins, calls, count>>
      BY <1>14, FinalRootDoes DEF Back, Call, Driving, progVars
    <2> QED  BY <2>1 DEF Begins
  <1>15. ASSUME NEW w \in Workers, FinalCalled(w) PROVE Begins
    <2> DEFINE t == Top(w).task  r == Owner(t)  c == Call("run", r, 0)
    <2>1. /\ Moves(w, Top(w), c) /\ c.task = r /\ At(w, "final") /\ t \in Tasks \ Roots /\ r \in Roots
          /\ t = Called[r] /\ t \in Owned(r) /\ FrameSet(r, "running")
          /\ UNCHANGED <<joins, calls, count>>
      BY <1>15, FinalCalledDoes DEF Call, promiseVars, progVars
    <2> HIDE DEF c
    <2> QED  BY <2>1, RootsAreTasks DEF Begins, FrameSet
  <1>16. ASSUME NEW w \in Workers, FinalJoined(w) PROVE Begins
    <2> DEFINE t == Top(w).task  r == Owner(t)  c == Call("count", t, count[r])
    <2>1. /\ Moves(w, Top(w), c) /\ c.task = t /\ c.arg = count[r] /\ c.kind = "count" /\ At(w, "final")
          /\ t \in Tasks \ Roots /\ r \in Roots /\ t \in Kids(r) /\ frame' = frame
          /\ UNCHANGED <<joins, calls, count>>
      BY <1>16, FinalJoinedDoes DEF Call, promiseVars, progVars
    <2> HIDE DEF c
    <2> QED  BY <2>1 DEF Begins
  <1>17. ASSUME NEW w \in Workers, JoinCount(w) PROVE Begins
    <2> DEFINE t == Top(w).task  r == Owner(t)  c == Call("run", r, 0)
    <2>0. c.task = r /\ Back.kind \notin Driving
      BY DEF Call, Back, Driving
    <2>1. /\ At(w, "count") /\ t \in Tasks \ Roots /\ r \in Roots /\ t \in Kids(r) /\ Drives(w, t)
          /\ frame[t] = "final" /\ frame[r] = "awaiting" /\ c.task = r /\ Back.kind \notin Driving
          /\ \/ Top(w).arg = 1 /\ FrameSet(r, "running") /\ Moves(w, Top(w), c)
             \/ Top(w).arg # 1 /\ frame' = frame /\ Moves(w, Top(w), Back)
          /\ count' = [count EXCEPT ![r] = Top(w).arg - 1] /\ UNCHANGED <<joins, calls>>
      BY <1>17, <2>0, JoinCountDoes DEF progVars
    <2> HIDE DEF c
    <2> QED  BY <2>1, RootsAreTasks DEF Begins, FrameSet
  <1>18. ASSUME NEW w \in Workers, Unwind(w) PROVE Begins
    <2>1. /\ Moves(w, Top(w), Back) /\ Back.kind \notin Driving /\ frame' = frame
          /\ UNCHANGED <<joins, calls, count>>
      BY <1>18, UnwindDoes DEF Back, Call, Driving, promiseVars, progVars
    <2> QED  BY <2>1 DEF Begins
  <1> QED  BY StepCases, <1>1, <1>2, <1>3, <1>4, <1>5, <1>6, <1>7, <1>8, <1>9,
              <1>10, <1>11, <1>12, <1>13, <1>14, <1>15, <1>16, <1>17, <1>18

LEMMA AskedIf ==
    ASSUME NEW x \in Tasks, NEW y, FrameSet(x, y), x \in Roots \/ frame[x] # "initial"
    PROVE  Asked
  <1>1. ASSUME NEW t \in Tasks \ Roots, frame[t] = "initial" PROVE frame'[t] = "initial"
    BY <1>1 DEF FrameSet
  <1>2. ASSUME NEW r \in Roots, NEW t \in Owned(r) PROVE t \in Tasks \ Roots
    BY <1>2, OwnedTask
  <1> QED  BY <1>1, <1>2, JoinedList, CalledTask DEF Asked

(* Tasks are started by their owners.                                       *)
LEMMA AskedStep ==
    ASSUME TypeOK, CallsNest, OneControl, FrameTells, OwnersWait, JoinsInOrder, [Next]_vars
    PROVE  Asked
  <1>1. CASE UNCHANGED vars
    BY <1>1 DEF vars, Asked
  <1>2. ASSUME NEW r \in Roots, PostTo(r) PROVE Asked
    <2>1. /\ Still /\ frame' = frame /\ UNCHANGED <<joins, calls, count>>
      BY <1>2, StackStill DEF PostTo, progVars
    <2> QED  BY <2>1 DEF Asked
  <1>3. ASSUME NEW t \in Tasks, EventArrives(t) PROVE Asked
    <2>1. /\ Still /\ frame' = frame /\ UNCHANGED <<joins, calls, count>>
      BY <1>3, StackStill DEF EventArrives, promiseVars, progVars
    <2> QED  BY <2>1 DEF Asked
  <1>4. ASSUME NEW w \in Workers, NEW r \in Roots, TakeTask(w, r) PROVE Asked
    <2> DEFINE c == Call("wk_cb", r, 0)
    <2>1. /\ Moves(w, Back, c) /\ c.task = r /\ frame' = frame /\ r \in Roots
          /\ UNCHANGED <<joins, calls, count>>
      BY <1>4, TakeTaskDoes DEF Call, promiseVars, progVars
    <2> HIDE DEF c
    <2> QED  BY <2>1 DEF Asked
  <1>5. ASSUME NEW w \in Workers, NEW t \in Tasks, TakeEvent(w, t) PROVE Asked
    <2> DEFINE c == Call("run", t, 0)
    <2>1. /\ Moves(w, Back, c) /\ c.task = t /\ FrameSet(t, "running") /\ <<"event", t>> \in posted
          /\ UNCHANGED <<joins, calls, count>>
      BY <1>5, TakeEventDoes DEF Call, promiseVars, progVars
    <2> HIDE DEF c
    <2>2. frame[t] = "suspended"
      BY <2>1 DEF FrameTells
    <2> QED  BY <2>1, <2>2, AskedIf
  <1>6. ASSUME NEW w \in Workers, WkResume(w) PROVE Asked
    <2> DEFINE r == Top(w).task  c == Call("run", r, 0)  d == Call("wk_back", r, 0)
    <2>1. /\ At(w, "wk_cb") /\ r \in Roots /\ c.task = r /\ d.task = r
          /\ \/ FrameSet(r, "running") /\ Moves(w, Top(w), c)
             \/ frame' = frame /\ Moves(w, Top(w), d)
          /\ UNCHANGED <<joins, calls, count>>
      BY <1>6, WkResumeDoes DEF Call, progVars
    <2> HIDE DEF c, d
    <2>2. CASE frame' = frame
      BY <2>2 DEF Asked
    <2>3. CASE FrameSet(r, "running")
      BY <2>1, <2>3, RootsAreTasks, AskedIf
    <2> QED  BY <2>1, <2>2, <2>3
  <1>7. ASSUME NEW w \in Workers, WkBack(w) PROVE Asked
    <2> DEFINE r == Top(w).task  c == Call("wk_done", r, 0)
    <2>1. /\ Moves(w, Top(w), c) /\ c.kind \notin Driving /\ frame' = frame
          /\ UNCHANGED <<joins, calls, count>>
      BY <1>7, WkBackDoes DEF Call, Driving, progVars
    <2> HIDE DEF c
    <2> QED  BY <2>1 DEF Asked
  <1>8. ASSUME NEW w \in Workers, WkDone(w) PROVE Asked
    <2> DEFINE r == Top(w).task
    <2>1. /\ Moves(w, Top(w), Back) /\ Back.kind \notin Driving /\ r \in Roots
          /\ frame' = frame \/ (frame[r] = "final" /\ FrameSet(r, "destroyed"))
          /\ UNCHANGED <<joins, calls, count>>
      BY <1>8, WkDoneDoes DEF Back, Call, Driving, progVars
    <2>2. CASE frame' = frame
      BY <2>2 DEF Asked
    <2>3. CASE FrameSet(r, "destroyed")
      BY <2>1, <2>3, RootsAreTasks, AskedIf
    <2> QED  BY <2>1, <2>2, <2>3
  <1>9. ASSUME NEW w \in Workers, Suspend(w) PROVE Asked
    <2> DEFINE t == Top(w).task
    <2>1. /\ Moves(w, Top(w), Back) /\ Back.kind \notin Driving /\ At(w, "run")
          /\ FrameSet(t, "suspended") /\ UNCHANGED <<joins, calls, count>>
      BY <1>9, SuspendDoes DEF Back, Call, Driving, promiseVars
    <2>2. t \in Tasks /\ frame[t] = "running"
      BY <2>1, Mine DEF Driving
    <2> QED  BY <2>1, <2>2, AskedIf
  <1>10. ASSUME NEW w \in Workers, AwaitTask(w) PROVE Asked
    <2> DEFINE r == Top(w).task  t == Called[r]  c == Call("run", t, 0)
    <2>1. /\ Moves(w, Top(w), c) /\ c.task = t /\ At(w, "run") /\ r \in Roots /\ t \in Owned(r) /\ t # NoTask
          /\ frame'[r] = "awaiting" /\ frame'[t] = "running" /\ ~ calls[r]
          /\ \A u \in Tasks \ {r, t} : frame'[u] = frame[u]
          /\ calls' = [calls EXCEPT ![r] = TRUE] /\ UNCHANGED <<joins, count>>
      BY <1>10, AwaitTaskDoes DEF Call, promiseVars
    <2> HIDE DEF c
    <2>2. r \in Tasks /\ t \in Tasks \ Roots /\ Owner(t) = r /\ t \notin Kids(r) /\ calls'[r]
      BY <2>1, OwnedTask, RootsAreTasks, TaskAssumption DEF TypeOK
    <2>3. ASSUME NEW q \in Roots, NEW s \in Owned(q), frame[s] = "initial", frame'[s] # "initial"
          PROVE  q = r /\ s = t
      <3>1. s \in Tasks \ Roots /\ Owner(s) = q
        BY <2>3, OwnedTask
      <3> QED  BY <2>1, <2>2, <2>3, <3>1
    <2> HIDE DEF t
    <2> QED  BY <2>1, <2>2, <2>3, JoinedList, CalledTask DEF Asked
  <1>11. ASSUME NEW w \in Workers, AwaitAll(w) PROVE Asked
    <2> DEFINE r == Top(w).task  c == Call("join", r, 1)
    <2>1. /\ Moves(w, Top(w), c) /\ c.kind \notin Driving /\ At(w, "run") /\ r \in Roots
          /\ FrameSet(r, "awaiting") /\ ~ joins[r] /\ Joined[r] # << >> /\ joins' = [joins EXCEPT ![r] = TRUE]
          /\ count' = [count EXCEPT ![r] = Len(Joined[r])] /\ UNCHANGED calls
      BY <1>11, AwaitAllDoes DEF Call, Driving
    <2> HIDE DEF c
    <2> QED  BY <2>1, RootsAreTasks, AskedIf
  <1>12. ASSUME NEW w \in Workers, JoinNext(w) PROVE Asked
    <2> DEFINE r == Top(w).task  i == Top(w).arg  t == Joined[r][i]  c == Call("run", t, 0)  d == Call("join", r, i + 1)
    <2>1. /\ At(w, "join") /\ r \in Roots /\ c.task = t /\ d.kind \notin Driving /\ Back.kind \notin Driving
          /\ \/ frame' = frame /\ (Moves(w, Top(w), Back) \/ Moves(w, Top(w), d))
             \/ i <= Len(Joined[r]) /\ t # NoTask /\ FrameSet(t, "running") /\ Moves(w, Top(w), c)
          /\ UNCHANGED <<joins, calls, count>>
      BY <1>12, JoinNextDoes DEF Call, Back, Driving, promiseVars, progVars
    <2> HIDE DEF c, d
    <2>2. CASE frame' = frame
      BY <2>2 DEF Asked
    <2>3. CASE i <= Len(Joined[r]) /\ t # NoTask /\ FrameSet(t, "running")
      <3>1. t \in Kids(r) /\ joins[r]
        <4>1. stack[w] # << >> /\ Top(w).kind = "join"
          BY <2>1 DEF At
        <4>2. Len(stack[w]) \in DOMAIN stack[w] /\ Top(w) = stack[w][Len(stack[w])]
          BY <4>1, TopTyped
        <4>3. joins[r]
          BY <4>1, <4>2 DEF JoinsInOrder
        <4> QED  BY <1>12, <2>3, <4>3, NotStarted
      <3>2. t \in Tasks \ Roots /\ Owner(t) = r /\ t # Called[r]
        BY <2>1, <3>1, JoinedList, OwnedTask, TaskAssumption
      <3>3. ASSUME NEW q \in Roots, NEW s \in Owned(q), frame[s] = "initial", frame'[s] # "initial"
            PROVE  q = r /\ s = t
        <4>1. s \in Tasks \ Roots /\ Owner(s) = q
          BY <3>3, OwnedTask
        <4> QED  BY <2>3, <3>2, <3>3, <4>1 DEF FrameSet
      <3> HIDE DEF t
      <3> QED  BY <2>1, <3>1, <3>2, <3>3, JoinedList, CalledTask DEF Asked
    <2> QED  BY <2>1, <2>2, <2>3
  <1>13. ASSUME NEW w \in Workers, Return(w) PROVE Asked
    <2> DEFINE t == Top(w).task  c == Call("final", t, 0)
    <2>1. /\ Moves(w, Top(w), c) /\ c.task = t /\ At(w, "run") /\ frame'[t] = "final"
          /\ \A u \in Tasks \ {t} : frame'[u] = IF t \in Roots /\ u \in Owned(t) THEN "destroyed"
                                                                             ELSE frame[u]
          /\ t \in Roots => (Joined[t] # << >> => joins[t]) /\ (Called[t] # NoTask => calls[t])
          /\ UNCHANGED <<joins, calls, count>>
      BY <1>13, ReturnDoes DEF Call, promiseVars, progVars
    <2> HIDE DEF c
    <2>2. t \in Tasks /\ frame[t] = "running"
      BY <2>1, Mine DEF Driving
    <2>3. ASSUME NEW q \in Roots, NEW s \in Owned(q), frame[s] = "initial", frame'[s] # "initial"
          PROVE  q = t
      <3>1. s \in Tasks \ Roots /\ Owner(s) = q
        BY <2>3, OwnedTask
      <3>2. t \in Roots /\ s \in Owned(t)
        BY <2>1, <2>2, <2>3, <3>1
      <3> QED  BY <3>1, <3>2, OwnedTask
    <2>4. \A q \in Roots : Kids(q) # {} => Joined[q] # << >>
      BY DEF Kids
    <2> HIDE DEF t
    <2> QED  BY <2>1, <2>3, <2>4, JoinedList, CalledTask DEF Asked
  <1>14. ASSUME NEW w \in Workers, FinalRoot(w) PROVE Asked
    <2>1. /\ Moves(w, Top(w), Back) /\ Back.kind \notin Driving /\ frame' = frame
          /\ UNCHANGED <<joins, calls, count>>
      BY <1>14, FinalRootDoes DEF Back, Call, Driving, progVars
    <2> QED  BY <2>1 DEF Asked
  <1>15. ASSUME NEW w \in Workers, FinalCalled(w) PROVE Asked
    <2> DEFINE t == Top(w).task  r == Owner(t)  c == Call("run", r, 0)
    <2>1. /\ Moves(w, Top(w), c) /\ c.task = r /\ At(w, "final") /\ t \in Tasks \ Roots /\ r \in Roots
          /\ t = Called[r] /\ t \in Owned(r) /\ FrameSet(r, "running")
          /\ UNCHANGED <<joins, calls, count>>
      BY <1>15, FinalCalledDoes DEF Call, promiseVars, progVars
    <2> HIDE DEF c
    <2> QED  BY <2>1, RootsAreTasks, AskedIf
  <1>16. ASSUME NEW w \in Workers, FinalJoined(w) PROVE Asked
    <2> DEFINE t == Top(w).task  r == Owner(t)  c == Call("count", t, count[r])
    <2>1. /\ Moves(w, Top(w), c) /\ c.task = t /\ c.arg = count[r] /\ c.kind = "count" /\ At(w, "final")
          /\ t \in Tasks \ Roots /\ r \in Roots /\ t \in Kids(r) /\ frame' = frame
          /\ UNCHANGED <<joins, calls, count>>
      BY <1>16, FinalJoinedDoes DEF Call, promiseVars, progVars
    <2> HIDE DEF c
    <2> QED  BY <2>1 DEF Asked
  <1>17. ASSUME NEW w \in Workers, JoinCount(w) PROVE Asked
    <2> DEFINE t == Top(w).task  r == Owner(t)  c == Call("run", r, 0)
    <2>0. c.task = r /\ Back.kind \notin Driving
      BY DEF Call, Back, Driving
    <2>1. /\ At(w, "count") /\ t \in Tasks \ Roots /\ r \in Roots /\ t \in Kids(r) /\ Drives(w, t)
          /\ frame[t] = "final" /\ frame[r] = "awaiting" /\ c.task = r /\ Back.kind \notin Driving
          /\ \/ Top(w).arg = 1 /\ FrameSet(r, "running") /\ Moves(w, Top(w), c)
             \/ Top(w).arg # 1 /\ frame' = frame /\ Moves(w, Top(w), Back)
          /\ count' = [count EXCEPT ![r] = Top(w).arg - 1] /\ UNCHANGED <<joins, calls>>
      BY <1>17, <2>0, JoinCountDoes DEF progVars
    <2> HIDE DEF c
    <2>2. CASE frame' = frame
      BY <2>2 DEF Asked
    <2>3. CASE FrameSet(r, "running")
      BY <2>1, <2>3, RootsAreTasks, AskedIf
    <2> QED  BY <2>1, <2>2, <2>3
  <1>18. ASSUME NEW w \in Workers, Unwind(w) PROVE Asked
    <2>1. /\ Moves(w, Top(w), Back) /\ Back.kind \notin Driving /\ frame' = frame
          /\ UNCHANGED <<joins, calls, count>>
      BY <1>18, UnwindDoes DEF Back, Call, Driving, promiseVars, progVars
    <2> QED  BY <2>1 DEF Asked
  <1> QED  BY StepCases, <1>1, <1>2, <1>3, <1>4, <1>5, <1>6, <1>7, <1>8, <1>9,
              <1>10, <1>11, <1>12, <1>13, <1>14, <1>15, <1>16, <1>17, <1>18

(* Only a coroutine that returns destroys the tasks it owns.                *)
Destroys ==
    \A r \in Roots : \A t \in Owned(r) : frame'[t] = "destroyed" /\ frame[t] # "destroyed" =>
        /\ frame'[r] = "final"
        /\ Joined[r] # << >> => joins'[r]
        /\ Called[r] # NoTask => calls'[r]

LEMMA DestroysNone ==
    ASSUME NEW x \in Tasks, NEW y, FrameSet(x, y), x \in Roots \/ y # "destroyed"
    PROVE  Destroys
  <1>1. ASSUME NEW r \in Roots, NEW t \in Owned(r) PROVE t \in Tasks \ Roots
    BY <1>1, OwnedTask
  <1> QED  BY <1>1 DEF Destroys, FrameSet

(* Owned tasks are destroyed by the return of their owner.                  *)
LEMMA DestroysStep ==
    ASSUME TypeOK, CallsNest, OneControl, FrameTells, OwnersWait, JoinsInOrder, [Next]_vars
    PROVE  Destroys
  <1>1. CASE UNCHANGED vars
    BY <1>1 DEF vars, Destroys
  <1>2. ASSUME NEW r \in Roots, PostTo(r) PROVE Destroys
    <2>1. /\ Still /\ frame' = frame /\ UNCHANGED <<joins, calls, count>>
      BY <1>2, StackStill DEF PostTo, progVars
    <2> QED  BY <2>1 DEF Destroys
  <1>3. ASSUME NEW t \in Tasks, EventArrives(t) PROVE Destroys
    <2>1. /\ Still /\ frame' = frame /\ UNCHANGED <<joins, calls, count>>
      BY <1>3, StackStill DEF EventArrives, promiseVars, progVars
    <2> QED  BY <2>1 DEF Destroys
  <1>4. ASSUME NEW w \in Workers, NEW r \in Roots, TakeTask(w, r) PROVE Destroys
    <2> DEFINE c == Call("wk_cb", r, 0)
    <2>1. /\ Moves(w, Back, c) /\ c.task = r /\ frame' = frame /\ r \in Roots
          /\ UNCHANGED <<joins, calls, count>>
      BY <1>4, TakeTaskDoes DEF Call, promiseVars, progVars
    <2> HIDE DEF c
    <2> QED  BY <2>1 DEF Destroys
  <1>5. ASSUME NEW w \in Workers, NEW t \in Tasks, TakeEvent(w, t) PROVE Destroys
    <2> DEFINE c == Call("run", t, 0)
    <2>1. /\ Moves(w, Back, c) /\ c.task = t /\ FrameSet(t, "running") /\ <<"event", t>> \in posted
          /\ UNCHANGED <<joins, calls, count>>
      BY <1>5, TakeEventDoes DEF Call, promiseVars, progVars
    <2> HIDE DEF c
    <2> QED  BY <2>1, RootsAreTasks, DestroysNone
  <1>6. ASSUME NEW w \in Workers, WkResume(w) PROVE Destroys
    <2> DEFINE r == Top(w).task  c == Call("run", r, 0)  d == Call("wk_back", r, 0)
    <2>1. /\ At(w, "wk_cb") /\ r \in Roots /\ c.task = r /\ d.task = r
          /\ \/ FrameSet(r, "running") /\ Moves(w, Top(w), c)
             \/ frame' = frame /\ Moves(w, Top(w), d)
          /\ UNCHANGED <<joins, calls, count>>
      BY <1>6, WkResumeDoes DEF Call, progVars
    <2> HIDE DEF c, d
    <2>2. CASE frame' = frame
      BY <2>2 DEF Destroys
    <2>3. CASE FrameSet(r, "running")
      BY <2>1, <2>3, RootsAreTasks, DestroysNone
    <2> QED  BY <2>1, <2>2, <2>3
  <1>7. ASSUME NEW w \in Workers, WkBack(w) PROVE Destroys
    <2> DEFINE r == Top(w).task  c == Call("wk_done", r, 0)
    <2>1. /\ Moves(w, Top(w), c) /\ c.kind \notin Driving /\ frame' = frame
          /\ UNCHANGED <<joins, calls, count>>
      BY <1>7, WkBackDoes DEF Call, Driving, progVars
    <2> HIDE DEF c
    <2> QED  BY <2>1 DEF Destroys
  <1>8. ASSUME NEW w \in Workers, WkDone(w) PROVE Destroys
    <2> DEFINE r == Top(w).task
    <2>1. /\ Moves(w, Top(w), Back) /\ Back.kind \notin Driving /\ r \in Roots
          /\ frame' = frame \/ (frame[r] = "final" /\ FrameSet(r, "destroyed"))
          /\ UNCHANGED <<joins, calls, count>>
      BY <1>8, WkDoneDoes DEF Back, Call, Driving, progVars
    <2>2. CASE frame' = frame
      BY <2>2 DEF Destroys
    <2>3. CASE FrameSet(r, "destroyed")
      BY <2>1, <2>3, RootsAreTasks, DestroysNone
    <2> QED  BY <2>1, <2>2, <2>3
  <1>9. ASSUME NEW w \in Workers, Suspend(w) PROVE Destroys
    <2> DEFINE t == Top(w).task
    <2>1. /\ Moves(w, Top(w), Back) /\ Back.kind \notin Driving /\ At(w, "run")
          /\ FrameSet(t, "suspended") /\ UNCHANGED <<joins, calls, count>>
      BY <1>9, SuspendDoes DEF Back, Call, Driving, promiseVars
    <2>2. t \in Tasks
      BY <2>1, Mine DEF Driving
    <2> QED  BY <2>1, <2>2, DestroysNone
  <1>10. ASSUME NEW w \in Workers, AwaitTask(w) PROVE Destroys
    <2> DEFINE r == Top(w).task  t == Called[r]  c == Call("run", t, 0)
    <2>1. /\ Moves(w, Top(w), c) /\ c.task = t /\ At(w, "run") /\ r \in Roots /\ t \in Owned(r) /\ t # NoTask
          /\ frame'[r] = "awaiting" /\ frame'[t] = "running" /\ ~ calls[r]
          /\ \A u \in Tasks \ {r, t} : frame'[u] = frame[u]
          /\ calls' = [calls EXCEPT ![r] = TRUE] /\ UNCHANGED <<joins, count>>
      BY <1>10, AwaitTaskDoes DEF Call, promiseVars
    <2> HIDE DEF c
    <2>2. r \in Tasks /\ t \in Tasks
      BY <2>1, OwnedTask, RootsAreTasks
    <2>3. ASSUME NEW q \in Roots, NEW s \in Owned(q), frame'[s] = "destroyed" PROVE frame[s] = "destroyed"
      BY <2>1, <2>2, <2>3, OwnedTask
    <2> QED  BY <2>3 DEF Destroys
  <1>11. ASSUME NEW w \in Workers, AwaitAll(w) PROVE Destroys
    <2> DEFINE r == Top(w).task  c == Call("join", r, 1)
    <2>1. /\ Moves(w, Top(w), c) /\ c.kind \notin Driving /\ At(w, "run") /\ r \in Roots
          /\ FrameSet(r, "awaiting") /\ ~ joins[r] /\ Joined[r] # << >> /\ joins' = [joins EXCEPT ![r] = TRUE]
          /\ count' = [count EXCEPT ![r] = Len(Joined[r])] /\ UNCHANGED calls
      BY <1>11, AwaitAllDoes DEF Call, Driving
    <2> HIDE DEF c
    <2> QED  BY <2>1, RootsAreTasks, DestroysNone
  <1>12. ASSUME NEW w \in Workers, JoinNext(w) PROVE Destroys
    <2> DEFINE r == Top(w).task  i == Top(w).arg  t == Joined[r][i]  c == Call("run", t, 0)  d == Call("join", r, i + 1)
    <2>1. /\ At(w, "join") /\ r \in Roots /\ c.task = t /\ d.kind \notin Driving /\ Back.kind \notin Driving
          /\ \/ frame' = frame /\ (Moves(w, Top(w), Back) \/ Moves(w, Top(w), d))
             \/ i <= Len(Joined[r]) /\ t # NoTask /\ FrameSet(t, "running") /\ Moves(w, Top(w), c)
          /\ UNCHANGED <<joins, calls, count>>
      BY <1>12, JoinNextDoes DEF Call, Back, Driving, promiseVars, progVars
    <2> HIDE DEF c, d
    <2>2. CASE frame' = frame
      BY <2>2 DEF Destroys
    <2>3. CASE i <= Len(Joined[r]) /\ t # NoTask /\ FrameSet(t, "running")
      <3>1. t \in Tasks
        BY <1>12, <2>1, <2>3, NotStarted, JoinedList, OwnedTask
      <3> QED  BY <2>3, <3>1, DestroysNone
    <2> QED  BY <2>1, <2>2, <2>3
  <1>13. ASSUME NEW w \in Workers, Return(w) PROVE Destroys
    <2> DEFINE t == Top(w).task  c == Call("final", t, 0)
    <2>1. /\ Moves(w, Top(w), c) /\ c.task = t /\ At(w, "run") /\ frame'[t] = "final"
          /\ \A u \in Tasks \ {t} : frame'[u] = IF t \in Roots /\ u \in Owned(t) THEN "destroyed"
                                                                             ELSE frame[u]
          /\ t \in Roots => (Joined[t] # << >> => joins[t]) /\ (Called[t] # NoTask => calls[t])
          /\ UNCHANGED <<joins, calls, count>>
      BY <1>13, ReturnDoes DEF Call, promiseVars, progVars
    <2> HIDE DEF c
    <2>2. t \in Tasks
      BY <2>1, Mine DEF Driving
    <2>3. ASSUME NEW q \in Roots, NEW s \in Owned(q), frame'[s] = "destroyed", frame[s] # "destroyed"
          PROVE  q = t
      <3>1. s \in Tasks \ Roots /\ Owner(s) = q
        BY <2>3, OwnedTask
      <3>2. t \in Roots /\ s \in Owned(t)
        BY <2>1, <2>2, <2>3, <3>1
      <3> QED  BY <3>1, <3>2, OwnedTask
    <2> HIDE DEF t
    <2> QED  BY <2>1, <2>3 DEF Destroys
  <1>14. ASSUME NEW w \in Workers, FinalRoot(w) PROVE Destroys
    <2>1. /\ Moves(w, Top(w), Back) /\ Back.kind \notin Driving /\ frame' = frame
          /\ UNCHANGED <<joins, calls, count>>
      BY <1>14, FinalRootDoes DEF Back, Call, Driving, progVars
    <2> QED  BY <2>1 DEF Destroys
  <1>15. ASSUME NEW w \in Workers, FinalCalled(w) PROVE Destroys
    <2> DEFINE t == Top(w).task  r == Owner(t)  c == Call("run", r, 0)
    <2>1. /\ Moves(w, Top(w), c) /\ c.task = r /\ At(w, "final") /\ t \in Tasks \ Roots /\ r \in Roots
          /\ t = Called[r] /\ t \in Owned(r) /\ FrameSet(r, "running")
          /\ UNCHANGED <<joins, calls, count>>
      BY <1>15, FinalCalledDoes DEF Call, promiseVars, progVars
    <2> HIDE DEF c
    <2> QED  BY <2>1, RootsAreTasks, DestroysNone
  <1>16. ASSUME NEW w \in Workers, FinalJoined(w) PROVE Destroys
    <2> DEFINE t == Top(w).task  r == Owner(t)  c == Call("count", t, count[r])
    <2>1. /\ Moves(w, Top(w), c) /\ c.task = t /\ c.arg = count[r] /\ c.kind = "count" /\ At(w, "final")
          /\ t \in Tasks \ Roots /\ r \in Roots /\ t \in Kids(r) /\ frame' = frame
          /\ UNCHANGED <<joins, calls, count>>
      BY <1>16, FinalJoinedDoes DEF Call, promiseVars, progVars
    <2> HIDE DEF c
    <2> QED  BY <2>1 DEF Destroys
  <1>17. ASSUME NEW w \in Workers, JoinCount(w) PROVE Destroys
    <2> DEFINE t == Top(w).task  r == Owner(t)  c == Call("run", r, 0)
    <2>0. c.task = r /\ Back.kind \notin Driving
      BY DEF Call, Back, Driving
    <2>1. /\ At(w, "count") /\ t \in Tasks \ Roots /\ r \in Roots /\ t \in Kids(r) /\ Drives(w, t)
          /\ frame[t] = "final" /\ frame[r] = "awaiting" /\ c.task = r /\ Back.kind \notin Driving
          /\ \/ Top(w).arg = 1 /\ FrameSet(r, "running") /\ Moves(w, Top(w), c)
             \/ Top(w).arg # 1 /\ frame' = frame /\ Moves(w, Top(w), Back)
          /\ count' = [count EXCEPT ![r] = Top(w).arg - 1] /\ UNCHANGED <<joins, calls>>
      BY <1>17, <2>0, JoinCountDoes DEF progVars
    <2> HIDE DEF c
    <2>2. CASE frame' = frame
      BY <2>2 DEF Destroys
    <2>3. CASE FrameSet(r, "running")
      BY <2>1, <2>3, RootsAreTasks, DestroysNone
    <2> QED  BY <2>1, <2>2, <2>3
  <1>18. ASSUME NEW w \in Workers, Unwind(w) PROVE Destroys
    <2>1. /\ Moves(w, Top(w), Back) /\ Back.kind \notin Driving /\ frame' = frame
          /\ UNCHANGED <<joins, calls, count>>
      BY <1>18, UnwindDoes DEF Back, Call, Driving, promiseVars, progVars
    <2> QED  BY <2>1 DEF Destroys
  <1> QED  BY StepCases, <1>1, <1>2, <1>3, <1>4, <1>5, <1>6, <1>7, <1>8, <1>9,
              <1>10, <1>11, <1>12, <1>13, <1>14, <1>15, <1>16, <1>17, <1>18

-----------------------------------------------------------------------------
(* A coroutine goes on when what it waited for is over.                    *)

Resumed(r) ==
    /\ joins'[r] => Open(r)' = {}
    /\ calls'[r] => Over(Called[r])'
    /\ \/ Called[r] # NoTask /\ frame[Called[r]] = "final"
       \/ \A t \in Kids(r) : frame[t] = "final"

(* It was the task it awaits on its own ...                                 *)
LEMMA ResumedByCalled ==
    ASSUME ControlInv, [Next]_vars, NEW w \in Workers, FinalCalled(w),
           NEW t, t = Top(w).task, NEW r, r = Owner(t)
    PROVE  r \in Roots /\ Resumed(r)
  <1> USE DEF ControlInv
  <1> DEFINE c == Call("run", r, 0)
  <1>1. /\ Moves(w, Top(w), c) /\ c.task = r /\ At(w, "final") /\ t \in Tasks \ Roots /\ r \in Roots
        /\ t = Called[r] /\ t \in Owned(r) /\ FrameSet(r, "running")
        /\ UNCHANGED <<joins, calls, count>>
    BY FinalCalledDoes DEF Call, promiseVars, progVars
  <1> HIDE DEF c
  <1>2. Drives(w, t) /\ Top(w).kind = "final" /\ (\A v \in Workers \ {w} : ~ Drives(v, t)) /\ t # NoTask
    BY <1>1, Mine, NoTaskIsNone DEF Driving
  <1>3. frame[t] = "final"
    BY <1>1, <1>2 DEF FrameTells
  <1>4. calls[r] /\ (joins[r] => Open(r) = {})
    BY <1>1, <1>2, CalledAlone
  <1>5. joins'[r] => Open(r)' = {}
    BY <1>1, <1>4, OpenShrinks
  <1>6. Over(t)'
    BY <1>1, <1>2, <1>3 DEF Over, Moves, Turn, FrameSet
  <1>7. Over(Called[r])'
    <2>1. \A x : x = t => Over(x)'
      BY <1>6
    <2> QED  BY <1>1, <2>1
  <1> QED  BY <1>1, <1>2, <1>3, <1>5, <1>7 DEF Resumed

(* ... or the last of those it joins.                                       *)
LEMMA ResumedByLast ==
    ASSUME ControlInv, [Next]_vars, NEW w \in Workers, JoinCount(w),
           NEW t, t = Top(w).task, NEW r, r = Owner(t), Top(w).arg = 1
    PROVE  r \in Roots /\ Resumed(r)
  <1> USE DEF ControlInv
  <1> DEFINE c == Call("run", r, 0)
  <1>0. c.task = r
    BY DEF Call
  <1>1. /\ At(w, "count") /\ t \in Tasks \ Roots /\ r \in Roots /\ t \in Kids(r) /\ Drives(w, t)
        /\ frame[t] = "final" /\ frame[r] = "awaiting" /\ FrameSet(r, "running") /\ Moves(w, Top(w), c)
        /\ UNCHANGED <<joins, calls>>
    BY JoinCountDoes DEF progVars
  <1> HIDE DEF c
  <1>2. \A v \in Workers \ {w} : ~ Drives(v, t)
    BY <1>1, Mine DEF Driving
  <1>3. /\ joins[r] /\ (calls[r] => Over(Called[r]))
        /\ \A i \in Open(r) : Joined[r][i] = t
    BY <1>1, LastAlone
  <1>4. Over(t)'
    BY <1>0, <1>1, <1>2 DEF Over, Moves, Turn, FrameSet
  <1>5. Open(r)' = {}
    <2>1. \A i \in Open(r)' : Joined[r][i] = t
      BY <1>1, <1>3, OpenShrinks
    <2>2. \A i \in DOMAIN Joined[r] : Joined[r][i] = t => Over(Joined[r][i])'
      BY <1>4
    <2>3. t # NoTask
      BY <1>1, NoTaskIsNone
    <2> QED  BY <2>1, <2>2, <2>3 DEF Open
  <1>6. calls'[r] => Over(Called[r])'
    <2>1. ASSUME calls[r] PROVE Over(Called[r])'
      <3>1. Called[r] \in Tasks \ Roots
        BY <1>1, <2>1, CalledTask, OwnedTask DEF OwnersWait
      <3> QED  BY <1>3, <2>1, <3>1, OverStays
    <2> QED  BY <1>1, <2>1
  <1>7. ASSUME NEW u \in Kids(r) PROVE frame[u] = "final"
    <2>1. PICK i \in DOMAIN Joined[r] : Joined[r][i] = u
      BY <1>1, JoinedList
    <2>2. CASE i \in Open(r)
      BY <1>1, <1>3, <2>1, <2>2
    <2>3. CASE i \notin Open(r)
      <3>1. frame[u] \in {"final", "destroyed"}
        BY <2>1, <2>3 DEF Open, Over
      <3>2. u \in Owned(r)
        BY <1>1, JoinedList
      <3> QED  BY <1>1, <3>1, <3>2 DEF OwnersWait
    <2> QED  BY <2>2, <2>3
  <1> QED  BY <1>1, <1>5, <1>6, <1>7 DEF Resumed

(* There is no other way.                                                   *)
LEMMA ResumedStep ==
    ASSUME ControlInv, NEW q \in Roots, frame[q] = "awaiting", frame'[q] # "awaiting", [Next]_vars
    PROVE  Resumed(q)
  <1> USE DEF ControlInv
  <1>1. CASE UNCHANGED vars
    BY <1>1 DEF vars
  <1>2. ASSUME NEW r \in Roots, PostTo(r) PROVE Resumed(q)
    <2>1. /\ Still /\ frame' = frame /\ UNCHANGED <<joins, calls, count>>
      BY <1>2, StackStill DEF PostTo, progVars
    <2> QED  BY <1>2, <2>1
  <1>3. ASSUME NEW t \in Tasks, EventArrives(t) PROVE Resumed(q)
    <2>1. /\ Still /\ frame' = frame /\ UNCHANGED <<joins, calls, count>>
      BY <1>3, StackStill DEF EventArrives, promiseVars, progVars
    <2> QED  BY <1>3, <2>1
  <1>4. ASSUME NEW w \in Workers, NEW r \in Roots, TakeTask(w, r) PROVE Resumed(q)
    <2> DEFINE c == Call("wk_cb", r, 0)
    <2>1. /\ Moves(w, Back, c) /\ c.task = r /\ frame' = frame /\ r \in Roots
          /\ UNCHANGED <<joins, calls, count>>
      BY <1>4, TakeTaskDoes DEF Call, promiseVars, progVars
    <2> HIDE DEF c
    <2> QED  BY <1>4, <2>1
  <1>5. ASSUME NEW w \in Workers, NEW t \in Tasks, TakeEvent(w, t) PROVE Resumed(q)
    <2> DEFINE c == Call("run", t, 0)
    <2>1. /\ Moves(w, Back, c) /\ c.task = t /\ FrameSet(t, "running") /\ <<"event", t>> \in posted
          /\ UNCHANGED <<joins, calls, count>>
      BY <1>5, TakeEventDoes DEF Call, promiseVars, progVars
    <2> HIDE DEF c
    <2>2. frame[t] = "suspended"
      BY <2>1 DEF FrameTells
    <2> QED  BY <2>1, <2>2, RootsAreTasks DEF FrameSet
  <1>6. ASSUME NEW w \in Workers, WkResume(w) PROVE Resumed(q)
    <2> DEFINE r == Top(w).task  c == Call("run", r, 0)  d == Call("wk_back", r, 0)
    <2>1. /\ At(w, "wk_cb") /\ r \in Roots /\ c.task = r /\ d.task = r
          /\ \/ FrameSet(r, "running") /\ Moves(w, Top(w), c)
             \/ frame' = frame /\ Moves(w, Top(w), d)
          /\ UNCHANGED <<joins, calls, count>>
      BY <1>6, WkResumeDoes DEF Call, progVars
    <2> HIDE DEF c, d
    <2>2. frame[r] # "awaiting"
      <3>1. r \in Tasks /\ Drives(w, r) /\ Top(w).kind = "wk_cb"
        BY <2>1, Mine DEF Driving
      <3> QED  BY <3>1 DEF FrameTells
    <2> QED  BY <2>1, <2>2, RootsAreTasks DEF FrameSet
  <1>7. ASSUME NEW w \in Workers, WkBack(w) PROVE Resumed(q)
    <2> DEFINE r == Top(w).task  c == Call("wk_done", r, 0)
    <2>1. /\ Moves(w, Top(w), c) /\ c.kind \notin Driving /\ frame' = frame
          /\ UNCHANGED <<joins, calls, count>>
      BY <1>7, WkBackDoes DEF Call, Driving, progVars
    <2> HIDE DEF c
    <2> QED  BY <1>7, <2>1
  <1>8. ASSUME NEW w \in Workers, WkDone(w) PROVE Resumed(q)
    <2> DEFINE r == Top(w).task
    <2>1. /\ Moves(w, Top(w), Back) /\ Back.kind \notin Driving /\ r \in Roots
          /\ frame' = frame \/ (frame[r] = "final" /\ FrameSet(r, "destroyed"))
          /\ UNCHANGED <<joins, calls, count>>
      BY <1>8, WkDoneDoes DEF Back, Call, Driving, progVars
    <2> QED  BY <2>1, RootsAreTasks DEF FrameSet
  <1>9. ASSUME NEW w \in Workers, Suspend(w) PROVE Resumed(q)
    <2> DEFINE t == Top(w).task
    <2>1. /\ Moves(w, Top(w), Back) /\ Back.kind \notin Driving /\ At(w, "run")
          /\ FrameSet(t, "suspended") /\ UNCHANGED <<joins, calls, count>>
      BY <1>9, SuspendDoes DEF Back, Call, Driving, promiseVars
    <2>2. t \in Tasks /\ frame[t] = "running"
      BY <2>1, Mine DEF Driving
    <2> QED  BY <2>1, <2>2, RootsAreTasks DEF FrameSet
  <1>10. ASSUME NEW w \in Workers, AwaitTask(w) PROVE Resumed(q)
    <2> DEFINE r == Top(w).task  t == Called[r]  c == Call("run", t, 0)
    <2>1. /\ Moves(w, Top(w), c) /\ c.task = t /\ At(w, "run") /\ r \in Roots /\ t \in Owned(r) /\ t # NoTask
          /\ frame'[r] = "awaiting" /\ frame'[t] = "running" /\ ~ calls[r]
          /\ \A u \in Tasks \ {r, t} : frame'[u] = frame[u]
          /\ calls' = [calls EXCEPT ![r] = TRUE] /\ UNCHANGED <<joins, count>>
      BY <1>10, AwaitTaskDoes DEF Call, promiseVars
    <2> HIDE DEF c
    <2>2. t \notin Roots
      BY <2>1, OwnedTask
    <2> QED  BY <2>1, <2>2, RootsAreTasks
  <1>11. ASSUME NEW w \in Workers, AwaitAll(w) PROVE Resumed(q)
    <2> DEFINE r == Top(w).task  c == Call("join", r, 1)
    <2>1. /\ Moves(w, Top(w), c) /\ c.kind \notin Driving /\ At(w, "run") /\ r \in Roots
          /\ FrameSet(r, "awaiting") /\ ~ joins[r] /\ Joined[r] # << >> /\ joins' = [joins EXCEPT ![r] = TRUE]
          /\ count' = [count EXCEPT ![r] = Len(Joined[r])] /\ UNCHANGED calls
      BY <1>11, AwaitAllDoes DEF Call, Driving
    <2> HIDE DEF c
    <2> QED  BY <2>1, RootsAreTasks DEF FrameSet
  <1>12. ASSUME NEW w \in Workers, JoinNext(w) PROVE Resumed(q)
    <2> DEFINE r == Top(w).task  i == Top(w).arg  t == Joined[r][i]  c == Call("run", t, 0)  d == Call("join", r, i + 1)
    <2>1. /\ At(w, "join") /\ r \in Roots /\ c.task = t /\ d.kind \notin Driving /\ Back.kind \notin Driving
          /\ \/ frame' = frame /\ (Moves(w, Top(w), Back) \/ Moves(w, Top(w), d))
             \/ i <= Len(Joined[r]) /\ t # NoTask /\ FrameSet(t, "running") /\ Moves(w, Top(w), c)
          /\ UNCHANGED <<joins, calls, count>>
      BY <1>12, JoinNextDoes DEF Call, Back, Driving, promiseVars, progVars
    <2> HIDE DEF c, d
    <2>2. i <= Len(Joined[r]) /\ t # NoTask => t \notin Roots
      BY <1>12, <2>1, NotStarted, JoinedList, OwnedTask
    <2> QED  BY <2>1, <2>2, RootsAreTasks DEF FrameSet
  <1>13. ASSUME NEW w \in Workers, Return(w) PROVE Resumed(q)
    <2> DEFINE t == Top(w).task  c == Call("final", t, 0)
    <2>1. /\ Moves(w, Top(w), c) /\ c.task = t /\ At(w, "run") /\ frame'[t] = "final"
          /\ \A u \in Tasks \ {t} : frame'[u] = IF t \in Roots /\ u \in Owned(t) THEN "destroyed"
                                                                             ELSE frame[u]
          /\ t \in Roots => (Joined[t] # << >> => joins[t]) /\ (Called[t] # NoTask => calls[t])
          /\ UNCHANGED <<joins, calls, count>>
      BY <1>13, ReturnDoes DEF Call, promiseVars, progVars
    <2> HIDE DEF c
    <2>2. t \in Tasks /\ frame[t] = "running"
      BY <2>1, Mine DEF Driving
    <2>3. t \in Roots => q \notin Owned(t)
      BY OwnedTask
    <2> QED  BY <2>1, <2>2, <2>3, RootsAreTasks
  <1>14. ASSUME NEW w \in Workers, FinalRoot(w) PROVE Resumed(q)
    <2>1. /\ Moves(w, Top(w), Back) /\ Back.kind \notin Driving /\ frame' = frame
          /\ UNCHANGED <<joins, calls, count>>
      BY <1>14, FinalRootDoes DEF Back, Call, Driving, progVars
    <2> QED  BY <1>14, <2>1
  <1>15. ASSUME NEW w \in Workers, FinalCalled(w) PROVE Resumed(q)
    <2> DEFINE t == Top(w).task  r == Owner(t)  c == Call("run", r, 0)
    <2>1. /\ Moves(w, Top(w), c) /\ c.task = r /\ At(w, "final") /\ t \in Tasks \ Roots /\ r \in Roots
          /\ t = Called[r] /\ t \in Owned(r) /\ FrameSet(r, "running")
          /\ UNCHANGED <<joins, calls, count>>
      BY <1>15, FinalCalledDoes DEF Call, promiseVars, progVars
    <2> HIDE DEF c
    <2>2. q = r
      BY <2>1, RootsAreTasks DEF FrameSet
    <2> QED  BY <1>15, <2>2, ResumedByCalled
  <1>16. ASSUME NEW w \in Workers, FinalJoined(w) PROVE Resumed(q)
    <2> DEFINE t == Top(w).task  r == Owner(t)  c == Call("count", t, count[r])
    <2>1. /\ Moves(w, Top(w), c) /\ c.task = t /\ c.arg = count[r] /\ c.kind = "count" /\ At(w, "final")
          /\ t \in Tasks \ Roots /\ r \in Roots /\ t \in Kids(r) /\ frame' = frame
          /\ UNCHANGED <<joins, calls, count>>
      BY <1>16, FinalJoinedDoes DEF Call, promiseVars, progVars
    <2> HIDE DEF c
    <2> QED  BY <1>16, <2>1
  <1>17. ASSUME NEW w \in Workers, JoinCount(w) PROVE Resumed(q)
    <2> DEFINE t == Top(w).task  r == Owner(t)  c == Call("run", r, 0)
    <2>0. c.task = r /\ Back.kind \notin Driving
      BY DEF Call, Back, Driving
    <2>1. /\ At(w, "count") /\ t \in Tasks \ Roots /\ r \in Roots /\ t \in Kids(r) /\ Drives(w, t)
          /\ frame[t] = "final" /\ frame[r] = "awaiting" /\ c.task = r /\ Back.kind \notin Driving
          /\ \/ Top(w).arg = 1 /\ FrameSet(r, "running") /\ Moves(w, Top(w), c)
             \/ Top(w).arg # 1 /\ frame' = frame /\ Moves(w, Top(w), Back)
          /\ count' = [count EXCEPT ![r] = Top(w).arg - 1] /\ UNCHANGED <<joins, calls>>
      BY <1>17, <2>0, JoinCountDoes DEF progVars
    <2> HIDE DEF c
    <2>2. q = r /\ Top(w).arg = 1
      BY <2>1, RootsAreTasks DEF FrameSet
    <2> QED  BY <1>17, <2>2, ResumedByLast
  <1>18. ASSUME NEW w \in Workers, Unwind(w) PROVE Resumed(q)
    <2>1. /\ Moves(w, Top(w), Back) /\ Back.kind \notin Driving /\ frame' = frame
          /\ UNCHANGED <<joins, calls, count>>
      BY <1>18, UnwindDoes DEF Back, Call, Driving, promiseVars, progVars
    <2> QED  BY <1>18, <2>1
  <1> QED  BY StepCases, <1>1, <1>2, <1>3, <1>4, <1>5, <1>6, <1>7, <1>8, <1>9,
              <1>10, <1>11, <1>12, <1>13, <1>14, <1>15, <1>16, <1>17, <1>18

(* So a coroutine that goes on has nothing open.                            *)
LEMMA OwnersWaitStep ==
    ASSUME ControlInv, [Next]_vars
    PROVE  OwnersWait'
  <1> USE DEF ControlInv
  <1> SUFFICES ASSUME NEW r \in Roots
               PROVE  /\ frame'[r] = "initial" => ~ joins'[r] /\ ~ calls'[r]
                      /\ ~ joins'[r] => \A t \in Kids(r) : frame'[t] = "initial"
                      /\ ~ calls'[r] => Called[r] = NoTask \/ frame'[Called[r]] = "initial"
                      /\ calls'[r] => Called[r] # NoTask
                      /\ joins'[r] => frame'[r] = "awaiting" \/ Open(r)' = {}
                      /\ calls'[r] => frame'[r] = "awaiting" \/ Over(Called[r])'
                      /\ joins'[r] /\ calls'[r] => Open(r)' = {} \/ Over(Called[r])'
                      /\ \A t \in Owned(r) : frame'[t] = "destroyed" =>
                            /\ frame'[r] # "awaiting"
                            /\ Joined[r] # << >> => joins'[r]
                            /\ Called[r] # NoTask => calls'[r]
    BY DEF OwnersWait
  <1>1. Begins /\ Asked /\ Destroys /\ r \in Tasks
    BY BeginsStep, AskedStep, DestroysStep, RootsAreTasks
  <1>2. Open(r) = {} => Open(r)' = {}
    BY OpenShrinks
  <1>3. calls[r] /\ Over(Called[r]) => Over(Called[r])'
    <2>1. ASSUME calls[r], Over(Called[r]) PROVE Over(Called[r])'
      <3>1. Called[r] \in Tasks \ Roots
        BY <2>1, CalledTask, OwnedTask DEF OwnersWait
      <3> QED  BY <2>1, <3>1, OverStays
    <2> QED  BY <2>1
  <1>4. frame[r] = "awaiting" /\ frame'[r] # "awaiting" => Resumed(r)
    BY ResumedStep
  <1>5. frame'[r] = "initial" => ~ joins'[r] /\ ~ calls'[r]
    BY <1>1 DEF Begins, OwnersWait
  <1>6. ~ joins'[r] => \A t \in Kids(r) : frame'[t] = "initial"
    BY <1>1 DEF Begins, Asked, OwnersWait
  <1>7. ~ calls'[r] => Called[r] = NoTask \/ frame'[Called[r]] = "initial"
    BY <1>1 DEF Begins, Asked, OwnersWait
  <1>8. calls'[r] => Called[r] # NoTask
    BY <1>1 DEF Begins, OwnersWait
  <1>9. joins'[r] => frame'[r] = "awaiting" \/ Open(r)' = {}
    <2>1. CASE ~ joins[r]
      BY <1>1, <2>1 DEF Begins
    <2>2. CASE joins[r] /\ Open(r) = {}
      BY <1>2, <2>2
    <2>3. CASE joins[r] /\ frame[r] = "awaiting"
      BY <1>4, <2>3 DEF Resumed
    <2> QED  BY <2>1, <2>2, <2>3 DEF OwnersWait
  <1>10. calls'[r] => frame'[r] = "awaiting" \/ Over(Called[r])'
    <2>1. CASE ~ calls[r]
      BY <1>1, <2>1 DEF Begins
    <2>2. CASE calls[r] /\ Over(Called[r])
      BY <1>3, <2>2
    <2>3. CASE calls[r] /\ frame[r] = "awaiting"
      BY <1>4, <2>3 DEF Resumed
    <2> QED  BY <2>1, <2>2, <2>3 DEF OwnersWait
  <1>11. joins'[r] /\ calls'[r] => Open(r)' = {} \/ Over(Called[r])'
    <2>1. CASE ~ joins[r]
      <3>1. joins'[r] => frame[r] = "running" /\ calls'[r] = calls[r]
        BY <1>1, <2>1 DEF Begins
      <3>2. joins'[r] /\ calls'[r] => Over(Called[r]) /\ calls[r]
        BY <3>1 DEF OwnersWait
      <3> QED  BY <1>3, <3>2
    <2>2. CASE ~ calls[r]
      <3>1. calls'[r] => frame[r] = "running" /\ joins'[r] = joins[r]
        BY <1>1, <2>2 DEF Begins
      <3>2. joins'[r] /\ calls'[r] => Open(r) = {}
        BY <3>1 DEF OwnersWait
      <3> QED  BY <1>2, <3>2
    <2>3. CASE joins[r] /\ calls[r]
      BY <1>2, <1>3, <2>3 DEF OwnersWait
    <2> QED  BY <2>1, <2>2, <2>3
  <1>12. ASSUME NEW t \in Owned(r), frame'[t] = "destroyed"
         PROVE  /\ frame'[r] # "awaiting"
                /\ Joined[r] # << >> => joins'[r]
                /\ Called[r] # NoTask => calls'[r]
    <2>1. CASE frame[t] # "destroyed"
      BY <1>1, <1>12, <2>1 DEF Destroys
    <2>2. CASE frame[t] = "destroyed"
      <3>1. frame[r] # "awaiting" /\ (Joined[r] # << >> => joins[r]) /\ (Called[r] # NoTask => calls[r])
        BY <2>2 DEF OwnersWait
      <3> QED  BY <1>1, <3>1 DEF Begins
    <2> QED  BY <2>1, <2>2
  <1> QED  BY <1>5, <1>6, <1>7, <1>8, <1>9, <1>10, <1>11, <1>12

-----------------------------------------------------------------------------
(* The loops that start tasks.                                             *)

(* The call was there before and is not the one the action is about.        *)
Kept(w, v, k) ==
    k \in DOMAIN stack[v] /\ stack'[v][k] = stack[v][k] /\ (v = w => k < Len(stack[w]))

LEMMA CallsAfter ==
    ASSUME TypeOK, NEW w \in Workers
    PROVE  /\ Popped(w) => \A v \in Workers : \A k \in DOMAIN stack'[v] : Kept(w, v, k)
           /\ \A c : Began(w, c) => \A v \in Workers : \A k \in DOMAIN stack'[v] :
                 Kept(w, v, k) \/ (v = w /\ k = 1 /\ stack'[v][k] = c)
           /\ \A c : Replaced(w, c) => \A v \in Workers : \A k \in DOMAIN stack'[v] :
                 Kept(w, v, k) \/ (v = w /\ k = Len(stack[w]) /\ stack'[v][k] = c)
           /\ \A c, d : Pushed(w, c, d) => \A v \in Workers : \A k \in DOMAIN stack'[v] :
                 \/ Kept(w, v, k)
                 \/ (v = w /\ k = Len(stack[w]) /\ stack'[v][k] = c)
                 \/ (v = w /\ k = Len(stack[w]) + 1 /\ stack'[v][k] = d)
  <1>1. /\ stack \in [Workers -> Seq(Calls)] /\ Len(stack[w]) \in Nat
        /\ stack[w] # << >> => Len(stack[w]) > 0
    BY TopTyped DEF TypeOK
  <1>2. ASSUME Others(w), NEW v \in Workers, v # w, NEW k \in DOMAIN stack'[v] PROVE Kept(w, v, k)
    BY <1>2 DEF Others, Kept
  <1>3. ASSUME Others(w), NEW n \in Nat, n < Len(stack[w]), Same(w, n), NEW k \in 1 .. n
        PROVE  Kept(w, w, k)
    BY <1>1, <1>3 DEF Same, Kept
  <1>4. Others(w) => stack'[w] \in Seq(Calls) /\ DOMAIN stack'[w] = 1 .. Len(stack'[w])
    BY DEF Others
  <1>5. ASSUME Popped(w), NEW v \in Workers, NEW k \in DOMAIN stack'[v] PROVE Kept(w, v, k)
    <2>1. Others(w) /\ stack[w] # << >> /\ Len(stack'[w]) = Len(stack[w]) - 1 /\ Same(w, Len(stack[w]) - 1)
      BY <1>5 DEF Popped
    <2>2. v = w => k \in 1 .. Len(stack[w]) - 1
      BY <1>4, <1>5, <2>1
    <2> QED  BY <1>1, <1>2, <1>3, <1>5, <2>1, <2>2
  <1>6. ASSUME NEW c, Began(w, c), NEW v \in Workers, NEW k \in DOMAIN stack'[v]
        PROVE  Kept(w, v, k) \/ (v = w /\ k = 1 /\ stack'[v][k] = c)
    <2>1. Others(w) /\ Len(stack'[w]) = 1 /\ stack'[w][1] = c
      BY <1>6 DEF Began
    <2>2. v = w => k = 1
      BY <1>4, <1>6, <2>1
    <2> QED  BY <1>2, <1>6, <2>1, <2>2
  <1>7. ASSUME NEW c, Replaced(w, c), NEW v \in Workers, NEW k \in DOMAIN stack'[v]
        PROVE  Kept(w, v, k) \/ (v = w /\ k = Len(stack[w]) /\ stack'[v][k] = c)
    <2>1. /\ Others(w) /\ stack[w] # << >> /\ Len(stack'[w]) = Len(stack[w]) /\ Same(w, Len(stack[w]) - 1)
          /\ stack'[w][Len(stack[w])] = c
      BY <1>7 DEF Replaced
    <2>2. v = w => k \in 1 .. Len(stack[w]) - 1 \/ k = Len(stack[w])
      BY <1>1, <1>4, <1>7, <2>1
    <2> QED  BY <1>1, <1>2, <1>3, <1>7, <2>1, <2>2
  <1>8. ASSUME NEW c, NEW d, Pushed(w, c, d), NEW v \in Workers, NEW k \in DOMAIN stack'[v]
        PROVE  \/ Kept(w, v, k)
               \/ (v = w /\ k = Len(stack[w]) /\ stack'[v][k] = c)
               \/ (v = w /\ k = Len(stack[w]) + 1 /\ stack'[v][k] = d)
    <2>1. /\ Others(w) /\ stack[w] # << >> /\ Len(stack'[w]) = Len(stack[w]) + 1
          /\ Same(w, Len(stack[w]) - 1)
          /\ stack'[w][Len(stack[w])] = c /\ stack'[w][Len(stack[w]) + 1] = d
      BY <1>8 DEF Pushed
    <2>2. v = w => k \in 1 .. Len(stack[w]) - 1 \/ k = Len(stack[w]) \/ k = Len(stack[w]) + 1
      BY <1>1, <1>4, <1>8, <2>1
    <2> QED  BY <1>1, <1>2, <1>3, <1>8, <2>1, <2>2
  <1> QED  BY <1>5, <1>6, <1>7, <1>8

(* A loop has its coroutine waiting and the rest of its tasks untouched.    *)
InOrder(c) ==
    /\ joins[c.task]
    /\ c.arg <= Len(Joined[c.task]) => frame[c.task] = "awaiting"
    /\ \A j \in DOMAIN Joined[c.task] :
          j >= c.arg => Joined[c.task][j] = NoTask \/ frame[Joined[c.task][j]] = "initial"

(* The step starts none of the tasks of r.                                  *)
Unstarted(r) ==
    frame[r] = "awaiting" => \A t \in Kids(r) : frame[t] = "initial" => frame'[t] = "initial"

LEMMA InOrderStays ==
    ASSUME ControlInv, [Next]_vars, NEW v \in Workers, NEW k \in DOMAIN stack[v],
           NEW c, c = stack[v][k], c.kind = "join", Unstarted(c.task)
    PROVE  InOrder(c)'
  <1> USE DEF ControlInv
  <1> DEFINE r == c.task
  <1>1. r \in Roots /\ r \in Tasks /\ c.arg \in Nat /\ c.arg >= 1
    <2>1. c \in Calls
      BY DEF TypeOK
    <2> QED  BY <2>1, RootsAreTasks DEF CallsNest, Calls
  <1>2. joins[r] /\ InOrder(c)
    BY DEF JoinsInOrder, InOrder
  <1>3. joins'[r]
    BY <1>1, <1>2, BeginsStep DEF Begins
  <1>4. ASSUME NEW j \in DOMAIN Joined[r], j >= c.arg
        PROVE  Joined[r][j] = NoTask \/ frame'[Joined[r][j]] = "initial"
    <2>1. c.arg <= Len(Joined[r])
      BY <1>1, <1>4, JoinedList
    <2>2. frame[r] = "awaiting" /\ (Joined[r][j] = NoTask \/ frame[Joined[r][j]] = "initial")
      BY <1>2, <1>4, <2>1 DEF InOrder
    <2>3. Joined[r][j] = NoTask \/ Joined[r][j] \in Kids(r)
      BY <1>1, JoinedList
    <2> QED  BY <2>2, <2>3 DEF Unstarted
  <1>5. ASSUME c.arg <= Len(Joined[r]) PROVE frame'[r] = "awaiting"
    <2>1. frame[r] = "awaiting"
      BY <1>2, <1>5 DEF InOrder
    <2>2. c.arg \in DOMAIN Joined[r] /\ c.arg >= c.arg
      BY <1>1, <1>5, JoinedList
    <2>3. c.arg \in Open(r)'
      BY <1>4, <2>2 DEF Open, Over
    <2>4. Open(r)' # {}
      BY <2>3
    <2> QED  BY <1>1, <1>3, <2>1, <2>4, ResumedStep DEF Resumed
  <1> QED  BY <1>3, <1>4, <1>5 DEF InOrder

(* The steps that are not about a loop.                                     *)
LEMMA LoopsStay ==
    ASSUME ControlInv, [Next]_vars, NEW w \in Workers, \A r \in Roots : Unstarted(r),
           \A v \in Workers : \A k \in DOMAIN stack'[v] :
               stack'[v][k].kind = "join" => Kept(w, v, k)
    PROVE  JoinsInOrder'
  <1> USE DEF ControlInv
  <1>1. ASSUME NEW v \in Workers, NEW k \in DOMAIN stack'[v], NEW c, c = stack'[v][k], c.kind = "join"
        PROVE  /\ InOrder(c)'
               /\ \A u \in Workers : \A i \in DOMAIN stack'[u] :
                     stack'[u][i].kind = "join" /\ stack'[u][i].task = c.task => u = v /\ i = k
    <2>1. k \in DOMAIN stack[v] /\ c = stack[v][k]
      BY <1>1 DEF Kept
    <2>2. c.task \in Roots
      BY <1>1, <2>1 DEF CallsNest
    <2>3. InOrder(c)'
      BY <1>1, <2>1, <2>2, InOrderStays
    <2>4. ASSUME NEW u \in Workers, NEW i \in DOMAIN stack'[u], stack'[u][i].kind = "join",
                 stack'[u][i].task = c.task
          PROVE  u = v /\ i = k
      <3>1. i \in DOMAIN stack[u] /\ stack[u][i] = stack'[u][i]
        BY <2>4 DEF Kept
      <3> QED  BY <1>1, <2>1, <2>4, <3>1 DEF JoinsInOrder
    <2> QED  BY <2>3, <2>4
  <1>2. ASSUME NEW v \in Workers, NEW k \in DOMAIN stack'[v], stack'[v][k].kind = "join"
        PROVE  LET e == stack'[v][k]
               IN  /\ joins'[e.task]
                   /\ e.arg <= Len(Joined[e.task]) => frame'[e.task] = "awaiting"
                   /\ \A j \in DOMAIN Joined[e.task] :
                         j >= e.arg => Joined[e.task][j] = NoTask \/ frame'[Joined[e.task][j]] = "initial"
                   /\ \A u \in Workers : \A i \in DOMAIN stack'[u] :
                         stack'[u][i].kind = "join" /\ stack'[u][i].task = e.task => u = v /\ i = k
    <2>1. ASSUME NEW c, c = stack'[v][k]
          PROVE  /\ joins'[c.task]
                 /\ c.arg <= Len(Joined[c.task]) => frame'[c.task] = "awaiting"
                 /\ \A j \in DOMAIN Joined[c.task] :
                       j >= c.arg => Joined[c.task][j] = NoTask \/ frame'[Joined[c.task][j]] = "initial"
                 /\ \A u \in Workers : \A i \in DOMAIN stack'[u] :
                       stack'[u][i].kind = "join" /\ stack'[u][i].task = c.task => u = v /\ i = k
      BY <1>1, <1>2, <2>1 DEF InOrder
    <2> HIDE DEF ControlInv
    <2> QED  BY <2>1
  <1> HIDE DEF ControlInv
  <1> QED  BY <1>2, Zenon DEF JoinsInOrder

(* The steps of one loop: afterwards it is the call n of worker w.          *)
LEMMA LoopSteps ==
    ASSUME ControlInv, [Next]_vars, NEW w \in Workers, NEW n, NEW q \in Roots, NEW c, c.task = q, InOrder(c)',
           \A r \in Roots \ {q} : Unstarted(r),
           \A v \in Workers : \A k \in DOMAIN stack'[v] : stack'[v][k].kind = "join" =>
               Kept(w, v, k) \/ (v = w /\ k = n /\ stack'[v][k] = c),
           \A v \in Workers : \A k \in DOMAIN stack[v] :
               stack[v][k].kind = "join" /\ stack[v][k].task = q => ~ Kept(w, v, k)
    PROVE  JoinsInOrder'
  <1> USE DEF ControlInv
  <1>1. ASSUME NEW v \in Workers, NEW k \in DOMAIN stack'[v], NEW e, e = stack'[v][k], e.kind = "join"
        PROVE  /\ InOrder(e)'
               /\ \A u \in Workers : \A i \in DOMAIN stack'[u] :
                     stack'[u][i].kind = "join" /\ stack'[u][i].task = e.task => u = v /\ i = k
    <2>1. CASE e.task # q
      <3>1. k \in DOMAIN stack[v] /\ e = stack[v][k]
        BY <1>1, <2>1 DEF Kept
      <3>2. e.task \in Roots
        BY <1>1, <3>1 DEF CallsNest
      <3>3. InOrder(e)'
        BY <1>1, <2>1, <3>1, <3>2, InOrderStays
      <3>4. ASSUME NEW u \in Workers, NEW i \in DOMAIN stack'[u], stack'[u][i].kind = "join",
                   stack'[u][i].task = e.task
            PROVE  u = v /\ i = k
        <4>1. i \in DOMAIN stack[u] /\ stack[u][i] = stack'[u][i]
          BY <2>1, <3>4 DEF Kept
        <4> QED  BY <1>1, <3>1, <3>4, <4>1 DEF JoinsInOrder
      <3> QED  BY <3>3, <3>4
    <2>2. CASE e.task = q
      <3>1. ASSUME NEW u \in Workers, NEW i \in DOMAIN stack'[u], stack'[u][i].kind = "join",
                   stack'[u][i].task = q
            PROVE  u = w /\ i = n /\ stack'[u][i] = c
        <4>1. CASE Kept(w, u, i)
          <5>1. i \in DOMAIN stack[u] /\ stack[u][i] = stack'[u][i]
            BY <4>1 DEF Kept
          <5> QED  BY <3>1, <4>1, <5>1
        <4> QED  BY <3>1, <4>1
      <3>2. v = w /\ k = n /\ e = c
        BY <1>1, <2>2, <3>1
      <3> QED  BY <2>2, <3>1, <3>2
    <2> QED  BY <2>1, <2>2
  <1>2. ASSUME NEW v \in Workers, NEW k \in DOMAIN stack'[v], NEW e, e = stack'[v][k], e.kind = "join"
        PROVE  /\ joins'[e.task]
               /\ e.arg <= Len(Joined[e.task]) => frame'[e.task] = "awaiting"
               /\ \A j \in DOMAIN Joined[e.task] :
                     j >= e.arg => Joined[e.task][j] = NoTask \/ frame'[Joined[e.task][j]] = "initial"
               /\ \A u \in Workers : \A i \in DOMAIN stack'[u] :
                     stack'[u][i].kind = "join" /\ stack'[u][i].task = e.task => u = v /\ i = k
    <2>1. InOrder(e)'
      BY <1>1, <1>2
    <2>2. \A u \in Workers : \A i \in DOMAIN stack'[u] :
             stack'[u][i].kind = "join" /\ stack'[u][i].task = e.task => u = v /\ i = k
      BY <1>1, <1>2
    <2> QED  BY <2>1, <2>2 DEF InOrder
  <1>3. ASSUME NEW v \in Workers, NEW k \in DOMAIN stack'[v], stack'[v][k].kind = "join"
        PROVE  LET e == stack'[v][k]
               IN  /\ joins'[e.task]
                   /\ e.arg <= Len(Joined[e.task]) => frame'[e.task] = "awaiting"
                   /\ \A j \in DOMAIN Joined[e.task] :
                         j >= e.arg => Joined[e.task][j] = NoTask \/ frame'[Joined[e.task][j]] = "initial"
                   /\ \A u \in Workers : \A i \in DOMAIN stack'[u] :
                         stack'[u][i].kind = "join" /\ stack'[u][i].task = e.task => u = v /\ i = k
    <2> DEFINE e == stack'[v][k]
    <2>1. e = stack'[v][k] /\ e.kind = "join"
      BY <1>3
    <2> HIDE DEF e, ControlInv
    <2> QED  BY <1>2, <2>1
  <1> HIDE DEF ControlInv
  <1> QED  BY <1>3, Zenon DEF JoinsInOrder

(* Frames whose change starts no joined task.                               *)
LEMMA StartsNone ==
    ASSUME NEW x \in Tasks, NEW y, FrameSet(x, y), NEW r \in Roots,
           x \in Roots \/ frame[x] # "initial" \/ x \notin Kids(r)
    PROVE  Unstarted(r)
  <1>1. ASSUME NEW t \in Kids(r) PROVE t \in Tasks \ Roots
    BY <1>1, JoinedList, OwnedTask
  <1> QED  BY <1>1 DEF Unstarted, FrameSet

(* The loops.                                                               *)
LEMMA JoinsInOrderStep ==
    ASSUME ControlInv, [Next]_vars
    PROVE  JoinsInOrder'
  <1> USE DEF ControlInv
  <1>1. CASE UNCHANGED vars
    BY <1>1 DEF vars, progVars, JoinsInOrder
  <1>2. ASSUME NEW r \in Roots, PostTo(r) PROVE JoinsInOrder'
    <2>1. /\ Still /\ frame' = frame /\ UNCHANGED <<joins, calls, count>>
      BY <1>2, StackStill DEF PostTo, progVars
    <2>2. UNCHANGED <<stack, joins>>
      BY <1>2 DEF PostTo, progVars
    <2> QED  BY <2>1, <2>2 DEF JoinsInOrder
  <1>3. ASSUME NEW t \in Tasks, EventArrives(t) PROVE JoinsInOrder'
    <2>1. /\ Still /\ frame' = frame /\ UNCHANGED <<joins, calls, count>>
      BY <1>3, StackStill DEF EventArrives, promiseVars, progVars
    <2>2. UNCHANGED <<stack, joins>>
      BY <1>3 DEF EventArrives, progVars
    <2> QED  BY <2>1, <2>2 DEF JoinsInOrder
  <1>4. ASSUME NEW w \in Workers, NEW r \in Roots, TakeTask(w, r) PROVE JoinsInOrder'
    <2> DEFINE c == Call("wk_cb", r, 0)
    <2>1. /\ Moves(w, Back, c) /\ c.task = r /\ frame' = frame /\ r \in Roots
          /\ UNCHANGED <<joins, calls, count>>
      BY <1>4, TakeTaskDoes DEF Call, promiseVars, progVars
    <2> HIDE DEF c
    <2>2. \A v \in Workers : \A k \in DOMAIN stack'[v] : stack'[v][k].kind = "join" => Kept(w, v, k)
      <3>1. Began(w, Call("wk_cb", r, 0)) /\ Call("wk_cb", r, 0).kind # "join"
        BY <1>4, TakeTaskDoes DEF Call
      <3> QED  BY <3>1, CallsAfter
    <2>3. ASSUME NEW q \in Roots PROVE Unstarted(q)
      BY <2>1 DEF Unstarted
    <2> QED  BY <2>2, <2>3, LoopsStay
  <1>5. ASSUME NEW w \in Workers, NEW t \in Tasks, TakeEvent(w, t) PROVE JoinsInOrder'
    <2> DEFINE c == Call("run", t, 0)
    <2>1. /\ Moves(w, Back, c) /\ c.task = t /\ FrameSet(t, "running") /\ <<"event", t>> \in posted
          /\ UNCHANGED <<joins, calls, count>>
      BY <1>5, TakeEventDoes DEF Call, promiseVars, progVars
    <2> HIDE DEF c
    <2>2. \A v \in Workers : \A k \in DOMAIN stack'[v] : stack'[v][k].kind = "join" => Kept(w, v, k)
      <3>1. Began(w, Call("run", t, 0)) /\ Call("run", t, 0).kind # "join"
        BY <1>5, TakeEventDoes DEF Call
      <3> QED  BY <3>1, CallsAfter
    <2>3. ASSUME NEW q \in Roots PROVE Unstarted(q)
      <3>1. frame[t] = "suspended"
        BY <2>1 DEF FrameTells
      <3> QED  BY <2>1, <3>1, StartsNone
    <2> QED  BY <2>2, <2>3, LoopsStay
  <1>6. ASSUME NEW w \in Workers, WkResume(w) PROVE JoinsInOrder'
    <2> DEFINE r == Top(w).task  c == Call("run", r, 0)  d == Call("wk_back", r, 0)
    <2>1. /\ At(w, "wk_cb") /\ r \in Roots /\ c.task = r /\ d.task = r
          /\ \/ FrameSet(r, "running") /\ Moves(w, Top(w), c)
             \/ frame' = frame /\ Moves(w, Top(w), d)
          /\ UNCHANGED <<joins, calls, count>>
      BY <1>6, WkResumeDoes DEF Call, progVars
    <2> HIDE DEF c, d
    <2>2. \A v \in Workers : \A k \in DOMAIN stack'[v] : stack'[v][k].kind = "join" => Kept(w, v, k)
      <3>1. /\ \/ Pushed(w, Call("wk_back", r, 0), Call("run", r, 0))
               \/ Replaced(w, Call("wk_back", r, 0))
            /\ Call("wk_back", r, 0).kind # "join" /\ Call("run", r, 0).kind # "join"
        BY <1>6, WkResumeDoes DEF Call
      <3> QED  BY <3>1, CallsAfter
    <2>3. ASSUME NEW q \in Roots PROVE Unstarted(q)
      BY <2>1, RootsAreTasks, StartsNone DEF Unstarted
    <2> QED  BY <2>2, <2>3, LoopsStay
  <1>7. ASSUME NEW w \in Workers, WkBack(w) PROVE JoinsInOrder'
    <2> DEFINE r == Top(w).task  c == Call("wk_done", r, 0)
    <2>1. /\ Moves(w, Top(w), c) /\ c.kind \notin Driving /\ frame' = frame
          /\ UNCHANGED <<joins, calls, count>>
      BY <1>7, WkBackDoes DEF Call, Driving, progVars
    <2> HIDE DEF c
    <2>2. \A v \in Workers : \A k \in DOMAIN stack'[v] : stack'[v][k].kind = "join" => Kept(w, v, k)
      <3>1. Replaced(w, Call("wk_done", r, 0)) /\ Call("wk_done", r, 0).kind # "join"
        BY <1>7, WkBackDoes DEF Call
      <3> QED  BY <3>1, CallsAfter
    <2>3. ASSUME NEW q \in Roots PROVE Unstarted(q)
      BY <2>1 DEF Unstarted
    <2> QED  BY <2>2, <2>3, LoopsStay
  <1>8. ASSUME NEW w \in Workers, WkDone(w) PROVE JoinsInOrder'
    <2> DEFINE r == Top(w).task
    <2>1. /\ Moves(w, Top(w), Back) /\ Back.kind \notin Driving /\ r \in Roots
          /\ frame' = frame \/ (frame[r] = "final" /\ FrameSet(r, "destroyed"))
          /\ UNCHANGED <<joins, calls, count>>
      BY <1>8, WkDoneDoes DEF Back, Call, Driving, progVars
    <2>2. \A v \in Workers : \A k \in DOMAIN stack'[v] : stack'[v][k].kind = "join" => Kept(w, v, k)
      <3>1. Popped(w)
        BY <1>8, WkDoneDoes DEF Call
      <3> QED  BY <3>1, CallsAfter
    <2>3. ASSUME NEW q \in Roots PROVE Unstarted(q)
      BY <2>1, RootsAreTasks, StartsNone DEF Unstarted
    <2> QED  BY <2>2, <2>3, LoopsStay
  <1>9. ASSUME NEW w \in Workers, Suspend(w) PROVE JoinsInOrder'
    <2> DEFINE t == Top(w).task
    <2>1. /\ Moves(w, Top(w), Back) /\ Back.kind \notin Driving /\ At(w, "run")
          /\ FrameSet(t, "suspended") /\ UNCHANGED <<joins, calls, count>>
      BY <1>9, SuspendDoes DEF Back, Call, Driving, promiseVars
    <2>2. \A v \in Workers : \A k \in DOMAIN stack'[v] : stack'[v][k].kind = "join" => Kept(w, v, k)
      <3>1. Popped(w)
        BY <1>9, SuspendDoes DEF Call
      <3> QED  BY <3>1, CallsAfter
    <2>3. ASSUME NEW q \in Roots PROVE Unstarted(q)
      <3>1. t \in Tasks /\ frame[t] = "running"
        BY <2>1, Mine DEF Driving
      <3> QED  BY <2>1, <3>1, StartsNone
    <2> QED  BY <2>2, <2>3, LoopsStay
  <1>10. ASSUME NEW w \in Workers, AwaitTask(w) PROVE JoinsInOrder'
    <2> DEFINE r == Top(w).task  t == Called[r]  c == Call("run", t, 0)
    <2>1. /\ Moves(w, Top(w), c) /\ c.task = t /\ At(w, "run") /\ r \in Roots /\ t \in Owned(r) /\ t # NoTask
          /\ frame'[r] = "awaiting" /\ frame'[t] = "running" /\ ~ calls[r]
          /\ \A u \in Tasks \ {r, t} : frame'[u] = frame[u]
          /\ calls' = [calls EXCEPT ![r] = TRUE] /\ UNCHANGED <<joins, count>>
      BY <1>10, AwaitTaskDoes DEF Call, promiseVars
    <2> HIDE DEF c
    <2>2. \A v \in Workers : \A k \in DOMAIN stack'[v] : stack'[v][k].kind = "join" => Kept(w, v, k)
      <3>1. Replaced(w, Call("run", t, 0)) /\ Call("run", t, 0).kind # "join"
        BY <1>10, AwaitTaskDoes DEF Call
      <3> QED  BY <3>1, CallsAfter
    <2>3. ASSUME NEW q \in Roots PROVE Unstarted(q)
      <3>1. ASSUME NEW u \in Kids(q) PROVE u \in Tasks \ {r, t}
        <4>1. u \in Owned(q) /\ u \in Tasks \ Roots /\ Owner(u) = q
          BY <3>1, JoinedList, OwnedTask
        <4>2. u # t
          BY <2>1, <3>1, <4>1, CalledTask, OwnedTask
        <4> QED  BY <2>1, <4>1, <4>2
      <3> QED  BY <2>1, <3>1 DEF Unstarted
    <2> QED  BY <2>2, <2>3, LoopsStay
  <1>11. ASSUME NEW w \in Workers, AwaitAll(w) PROVE JoinsInOrder'
    <2> DEFINE r == Top(w).task  c == Call("join", r, 1)
    <2>1. /\ Moves(w, Top(w), c) /\ c.kind \notin Driving /\ At(w, "run") /\ r \in Roots
          /\ FrameSet(r, "awaiting") /\ ~ joins[r] /\ Joined[r] # << >> /\ joins' = [joins EXCEPT ![r] = TRUE]
          /\ count' = [count EXCEPT ![r] = Len(Joined[r])] /\ UNCHANGED calls
      BY <1>11, AwaitAllDoes DEF Call, Driving
    <2> HIDE DEF c
    <2>0. PICK e : e = c
      OBVIOUS
    <2>2. frame[r] = "running" /\ Replaced(w, e) /\ r \in Tasks /\ Len(stack[w]) \in Nat
      BY <1>11, <2>0, <2>1, AwaitAllDoes, Mine, TopTyped DEF c, Driving, At
    <2>3. \A v \in Workers : \A k \in DOMAIN stack'[v] : stack'[v][k].kind = "join" =>
             Kept(w, v, k) \/ (v = w /\ k = Len(stack[w]) /\ stack'[v][k] = e)
      BY <2>2, CallsAfter
    <2>4. \A v \in Workers : \A k \in DOMAIN stack[v] :
             ~ (stack[v][k].kind = "join" /\ stack[v][k].task = r)
      BY <2>1 DEF JoinsInOrder
    <2>5. InOrder(e)'
      <3>1. e.task = r /\ joins'[r] /\ frame'[r] = "awaiting"
        BY <2>0, <2>1 DEF TypeOK, FrameSet, c, Call
      <3>2. ASSUME NEW j \in DOMAIN Joined[r]
            PROVE  Joined[r][j] = NoTask \/ frame'[Joined[r][j]] = "initial"
        <4>1. Joined[r][j] = NoTask \/ Joined[r][j] \in Kids(r)
          BY <2>1, JoinedList
        <4>2. Joined[r][j] # NoTask => frame[Joined[r][j]] = "initial" /\ Joined[r][j] \in Tasks \ Roots
          BY <2>1, <4>1, JoinedList, OwnedTask DEF OwnersWait
        <4> QED  BY <2>1, <4>2 DEF FrameSet
      <3> QED  BY <3>1, <3>2 DEF InOrder
    <2>6. \A q \in Roots \ {r} : Unstarted(q)
      BY <2>1, <2>2, StartsNone
    <2>7. e.task = r
      BY <2>0 DEF c, Call
    <2> QED  BY SMTT(30), <2>1, <2>3, <2>4, <2>5, <2>6, <2>7, LoopSteps
  <1>12. ASSUME NEW w \in Workers, JoinNext(w) PROVE JoinsInOrder'
    <2> DEFINE r == Top(w).task  i == Top(w).arg  t == Joined[r][i]  c == Call("run", t, 0)  d == Call("join", r, i + 1)
    <2>1. /\ At(w, "join") /\ r \in Roots /\ c.task = t /\ d.kind \notin Driving /\ Back.kind \notin Driving
          /\ \/ frame' = frame /\ (Moves(w, Top(w), Back) \/ Moves(w, Top(w), d))
             \/ i <= Len(Joined[r]) /\ t # NoTask /\ FrameSet(t, "running") /\ Moves(w, Top(w), c)
          /\ UNCHANGED <<joins, calls, count>>
      BY <1>12, JoinNextDoes DEF Call, Back, Driving, promiseVars, progVars
    <2> HIDE DEF c, d
    <2>2. /\ stack[w] # << >> /\ Len(stack[w]) \in DOMAIN stack[w] /\ Top(w) = stack[w][Len(stack[w])]
          /\ Top(w).kind = "join" /\ i \in Nat \ {0} /\ joins[r]
      <3>1. /\ stack[w] # << >> /\ Len(stack[w]) \in DOMAIN stack[w] /\ Top(w) = stack[w][Len(stack[w])]
            /\ Top(w).kind = "join" /\ i \in Nat \ {0}
        BY <1>12, JoinNextDoes, TopTyped DEF At
      <3> QED  BY <3>1 DEF JoinsInOrder
    <2>3. CASE Popped(w) /\ frame' = frame
      <3>1. \A q \in Roots : Unstarted(q)
        BY <2>3 DEF Unstarted
      <3>2. \A v \in Workers : \A k \in DOMAIN stack'[v] : Kept(w, v, k)
        BY <2>3, CallsAfter
      <3> QED  BY <3>1, <3>2, LoopsStay
    <2>4. CASE ~ (Popped(w) /\ frame' = frame)
      <3> PICK e, f : e = d /\ f = c
        OBVIOUS
      <3>0. e.task = r /\ e.arg = i + 1 /\ f.kind # "join"
        BY DEF c, d, Call
      <3>1. /\ i \in DOMAIN Joined[r] /\ Len(Joined[r]) \in Nat
            /\ \/ t = NoTask /\ frame' = frame /\ Replaced(w, e)
               \/ t \in Kids(r) /\ FrameSet(t, "running") /\ Pushed(w, e, f)
        <4>1. \/ i <= Len(Joined[r]) /\ t = NoTask /\ frame' = frame /\ Replaced(w, e)
              \/ i <= Len(Joined[r]) /\ t # NoTask /\ FrameSet(t, "running") /\ Pushed(w, e, f)
          BY <1>12, <2>2, <2>4, JoinNextDoes DEF c, d
        <4>2. i \in DOMAIN Joined[r] /\ Len(Joined[r]) \in Nat
          BY SMTT(30), <2>1, <2>2, <4>1, JoinedList
        <4>3. t # NoTask => t \in Kids(r)
          BY <2>1, <4>2, JoinedList
        <4> QED  BY <4>1, <4>2, <4>3
      <3>2. \A v \in Workers : \A k \in DOMAIN stack'[v] : stack'[v][k].kind = "join" =>
               Kept(w, v, k) \/ (v = w /\ k = Len(stack[w]) /\ stack'[v][k] = e)
        BY <3>0, <3>1, CallsAfter
      <3>3. \A v \in Workers : \A k \in DOMAIN stack[v] :
               stack[v][k].kind = "join" /\ stack[v][k].task = r => ~ Kept(w, v, k)
        <4>1. ASSUME NEW v \in Workers, NEW k \in DOMAIN stack[v], stack[v][k].kind = "join",
                     stack[v][k].task = r
              PROVE  v = w /\ k = Len(stack[w])
          BY <2>2, <4>1 DEF JoinsInOrder
        <4>2. Len(stack[w]) \in Nat
          BY <2>2, TopTyped
        <4> QED  BY <4>1, <4>2 DEF Kept
      <3>4. r \in Tasks /\ t # r
        BY <2>1, <3>1, RootsAreTasks, NoTaskIsNone, JoinedList, OwnedTask
      <3>5. frame[r] = "awaiting" /\ frame'[r] = "awaiting"
        <4>1. i <= Len(Joined[r])
          BY <3>1, JoinedList, <2>1
        <4>2. frame[r] = "awaiting"
          BY <2>2, <4>1 DEF JoinsInOrder
        <4> QED  BY <3>1, <3>4, <4>2 DEF FrameSet
      <3>6. ASSUME NEW j \in DOMAIN Joined[r], j >= i + 1
            PROVE  Joined[r][j] = NoTask \/ frame'[Joined[r][j]] = "initial"
        <4>1. j \in Nat /\ j >= i /\ j # i
          BY <2>1, <2>2, <3>6, JoinedList
        <4>2. Joined[r][j] = NoTask \/ frame[Joined[r][j]] = "initial"
          BY <2>2, <4>1 DEF JoinsInOrder
        <4>3. Joined[r][j] # NoTask => Joined[r][j] # t /\ Joined[r][j] \in Tasks
          BY <2>1, <3>1, <4>1, JoinedList, OwnedTask
        <4> QED  BY <3>1, <4>2, <4>3 DEF FrameSet
      <3>7. joins'[r]
        BY <2>1, <2>2
      <3>8. InOrder(e)'
        BY <3>0, <3>5, <3>6, <3>7 DEF InOrder
      <3>9. ASSUME NEW q \in Roots \ {r} PROVE Unstarted(q)
        <4>1. t \in Kids(r) => t \in Tasks /\ t \notin Kids(q)
          BY <2>1, JoinedList, OwnedTask
        <4> QED  BY <3>1, <4>1, StartsNone DEF Unstarted
      <3>10. \A q \in Roots \ {r} : Unstarted(q)
        BY <3>9
      <3> PICK p, n : p = r /\ n = Len(stack[w])
        OBVIOUS
      <3>11. p \in Roots /\ e.task = p /\ (\A q \in Roots \ {p} : Unstarted(q))
        BY <2>1, <3>0, <3>10
      <3>12. \A v \in Workers : \A k \in DOMAIN stack[v] :
               stack[v][k].kind = "join" /\ stack[v][k].task = p => ~ Kept(w, v, k)
        BY <3>3
      <3>13. \A v \in Workers : \A k \in DOMAIN stack'[v] : stack'[v][k].kind = "join" =>
               Kept(w, v, k) \/ (v = w /\ k = n /\ stack'[v][k] = e)
        BY <3>2
      <3> QED  BY <3>8, <3>11, <3>12, <3>13, LoopSteps
    <2> QED  BY <2>3, <2>4
  <1>13. ASSUME NEW w \in Workers, Return(w) PROVE JoinsInOrder'
    <2> DEFINE t == Top(w).task  c == Call("final", t, 0)
    <2>1. /\ Moves(w, Top(w), c) /\ c.task = t /\ At(w, "run") /\ frame'[t] = "final"
          /\ \A u \in Tasks \ {t} : frame'[u] = IF t \in Roots /\ u \in Owned(t) THEN "destroyed"
                                                                             ELSE frame[u]
          /\ t \in Roots => (Joined[t] # << >> => joins[t]) /\ (Called[t] # NoTask => calls[t])
          /\ UNCHANGED <<joins, calls, count>>
      BY <1>13, ReturnDoes DEF Call, promiseVars, progVars
    <2> HIDE DEF c
    <2>2. \A v \in Workers : \A k \in DOMAIN stack'[v] : stack'[v][k].kind = "join" => Kept(w, v, k)
      <3>1. Replaced(w, Call("final", t, 0)) /\ Call("final", t, 0).kind # "join"
        BY <1>13, ReturnDoes DEF Call
      <3> QED  BY <3>1, CallsAfter
    <2>3. ASSUME NEW q \in Roots PROVE Unstarted(q)
      <3>1. t \in Tasks /\ frame[t] = "running"
        BY <2>1, Mine DEF Driving
      <3>2. ASSUME NEW u \in Kids(q), frame[u] = "initial", frame[q] = "awaiting" PROVE frame'[u] = "initial"
        <4>1. u \in Owned(q) /\ u \in Tasks \ Roots /\ Owner(u) = q
          BY <3>2, JoinedList, OwnedTask
        <4>2. t \in Roots => u \notin Owned(t)
          BY <3>1, <3>2, <4>1, OwnedTask
        <4> QED  BY <2>1, <3>1, <3>2, <4>1, <4>2
      <3> QED  BY <3>2 DEF Unstarted
    <2> QED  BY <2>2, <2>3, LoopsStay
  <1>14. ASSUME NEW w \in Workers, FinalRoot(w) PROVE JoinsInOrder'
    <2>1. /\ Moves(w, Top(w), Back) /\ Back.kind \notin Driving /\ frame' = frame
          /\ UNCHANGED <<joins, calls, count>>
      BY <1>14, FinalRootDoes DEF Back, Call, Driving, progVars
    <2>2. \A v \in Workers : \A k \in DOMAIN stack'[v] : stack'[v][k].kind = "join" => Kept(w, v, k)
      <3>1. Popped(w)
        BY <1>14, FinalRootDoes DEF Call
      <3> QED  BY <3>1, CallsAfter
    <2>3. ASSUME NEW q \in Roots PROVE Unstarted(q)
      BY <2>1 DEF Unstarted
    <2> QED  BY <2>2, <2>3, LoopsStay
  <1>15. ASSUME NEW w \in Workers, FinalCalled(w) PROVE JoinsInOrder'
    <2> DEFINE t == Top(w).task  r == Owner(t)  c == Call("run", r, 0)
    <2>1. /\ Moves(w, Top(w), c) /\ c.task = r /\ At(w, "final") /\ t \in Tasks \ Roots /\ r \in Roots
          /\ t = Called[r] /\ t \in Owned(r) /\ FrameSet(r, "running")
          /\ UNCHANGED <<joins, calls, count>>
      BY <1>15, FinalCalledDoes DEF Call, promiseVars, progVars
    <2> HIDE DEF c
    <2>2. \A v \in Workers : \A k \in DOMAIN stack'[v] : stack'[v][k].kind = "join" => Kept(w, v, k)
      <3>1. Replaced(w, Call("run", r, 0)) /\ Call("run", r, 0).kind # "join"
        BY <1>15, FinalCalledDoes DEF Call
      <3> QED  BY <3>1, CallsAfter
    <2>3. ASSUME NEW q \in Roots PROVE Unstarted(q)
      BY <2>1, RootsAreTasks, StartsNone DEF Unstarted
    <2> QED  BY <2>2, <2>3, LoopsStay
  <1>16. ASSUME NEW w \in Workers, FinalJoined(w) PROVE JoinsInOrder'
    <2> DEFINE t == Top(w).task  r == Owner(t)  c == Call("count", t, count[r])
    <2>1. /\ Moves(w, Top(w), c) /\ c.task = t /\ c.arg = count[r] /\ c.kind = "count" /\ At(w, "final")
          /\ t \in Tasks \ Roots /\ r \in Roots /\ t \in Kids(r) /\ frame' = frame
          /\ UNCHANGED <<joins, calls, count>>
      BY <1>16, FinalJoinedDoes DEF Call, promiseVars, progVars
    <2> HIDE DEF c
    <2>2. \A v \in Workers : \A k \in DOMAIN stack'[v] : stack'[v][k].kind = "join" => Kept(w, v, k)
      <3>1. Replaced(w, Call("count", t, count[r])) /\ Call("count", t, count[r]).kind # "join"
        BY <1>16, FinalJoinedDoes DEF Call
      <3> QED  BY <3>1, CallsAfter
    <2>3. ASSUME NEW q \in Roots PROVE Unstarted(q)
      BY <2>1 DEF Unstarted
    <2> QED  BY <2>2, <2>3, LoopsStay
  <1>17. ASSUME NEW w \in Workers, JoinCount(w) PROVE JoinsInOrder'
    <2> DEFINE t == Top(w).task  r == Owner(t)  c == Call("run", r, 0)
    <2>0. c.task = r /\ Back.kind \notin Driving
      BY DEF Call, Back, Driving
    <2>1. /\ At(w, "count") /\ t \in Tasks \ Roots /\ r \in Roots /\ t \in Kids(r) /\ Drives(w, t)
          /\ frame[t] = "final" /\ frame[r] = "awaiting" /\ c.task = r /\ Back.kind \notin Driving
          /\ \/ Top(w).arg = 1 /\ FrameSet(r, "running") /\ Moves(w, Top(w), c)
             \/ Top(w).arg # 1 /\ frame' = frame /\ Moves(w, Top(w), Back)
          /\ count' = [count EXCEPT ![r] = Top(w).arg - 1] /\ UNCHANGED <<joins, calls>>
      BY <1>17, <2>0, JoinCountDoes DEF progVars
    <2> HIDE DEF c
    <2>2. \A v \in Workers : \A k \in DOMAIN stack'[v] : stack'[v][k].kind = "join" => Kept(w, v, k)
      <3>1. /\ Pushed(w, Call("unwind", t, 0), Call("run", r, 0)) \/ Popped(w)
            /\ Call("unwind", t, 0).kind # "join" /\ Call("run", r, 0).kind # "join"
        BY <1>17, JoinCountDoes DEF Call
      <3> QED  BY <3>1, CallsAfter
    <2>3. ASSUME NEW q \in Roots PROVE Unstarted(q)
      BY <2>1, RootsAreTasks, StartsNone DEF Unstarted
    <2> QED  BY <2>2, <2>3, LoopsStay
  <1>18. ASSUME NEW w \in Workers, Unwind(w) PROVE JoinsInOrder'
    <2>1. /\ Moves(w, Top(w), Back) /\ Back.kind \notin Driving /\ frame' = frame
          /\ UNCHANGED <<joins, calls, count>>
      BY <1>18, UnwindDoes DEF Back, Call, Driving, promiseVars, progVars
    <2>2. \A v \in Workers : \A k \in DOMAIN stack'[v] : stack'[v][k].kind = "join" => Kept(w, v, k)
      <3>1. Popped(w)
        BY <1>18, UnwindDoes DEF Call
      <3> QED  BY <3>1, CallsAfter
    <2>3. ASSUME NEW q \in Roots PROVE Unstarted(q)
      BY <2>1 DEF Unstarted
    <2> QED  BY <2>2, <2>3, LoopsStay
  <1> QED  BY StepCases, <1>1, <1>2, <1>3, <1>4, <1>5, <1>6, <1>7, <1>8, <1>9,
              <1>10, <1>11, <1>12, <1>13, <1>14, <1>15, <1>16, <1>17, <1>18

-----------------------------------------------------------------------------
(* The counters.                                                           *)

(* There is no more to count down than before.                              *)
LEMMA FewerOpen ==
    ASSUME ControlInv, [Next]_vars, NEW r \in Roots
    PROVE  /\ Cardinality(Open(r)') \in Nat /\ Cardinality(Open(r)') <= Cardinality(Open(r))
           /\ \A k \in Open(r) : k \notin Open(r)' => Cardinality(Open(r)') <= Cardinality(Open(r)) - 1
  <1>1. Open(r)' \subseteq Open(r) /\ IsFiniteSet(Open(r)) /\ Cardinality(Open(r)) \in Nat
    BY OpenShrinks, OpenFacts DEF ControlInv
  <1>2. /\ IsFiniteSet(Open(r)') /\ Cardinality(Open(r)') <= Cardinality(Open(r))
    BY <1>1, FS_Subset
  <1>3. ASSUME NEW k \in Open(r), k \notin Open(r)'
        PROVE  Cardinality(Open(r)') <= Cardinality(Open(r)) - 1
    <2>1. IsFiniteSet(Open(r) \ {k}) /\ Cardinality(Open(r) \ {k}) = Cardinality(Open(r)) - 1
      BY <1>1, FS_RemoveElement
    <2>2. Open(r)' \subseteq Open(r) \ {k}
      BY <1>1, <1>3
    <2> QED  BY <2>1, <2>2, FS_Subset
  <1> QED  BY <1>2, <1>3, FS_CardinalityType

(* The steps that read and write no counter.                                *)
LEMMA CountsStay ==
    ASSUME ControlInv, [Next]_vars, UNCHANGED <<joins, count>>,
           \A v \in Workers : At(v, "count")' => At(v, "count") /\ Top(v)' = Top(v)
    PROVE  CountsOpen'
  <1> USE DEF ControlInv
  <1> SUFFICES ASSUME NEW r \in Roots, joins[r]
               PROVE  /\ count[r] >= Cardinality(Open(r)')
                      /\ \A v \in Workers : At(v, "count")' /\ Top(v)'.task \in Kids(r) =>
                            Top(v)'.arg >= Cardinality(Open(r)')
    BY DEF CountsOpen
  <1>1. /\ Cardinality(Open(r)') \in Nat /\ Cardinality(Open(r)') <= Cardinality(Open(r))
        /\ Cardinality(Open(r)) \in Nat /\ count[r] \in Nat
    BY FewerOpen, OpenFacts DEF TypeOK
  <1>2. count[r] >= Cardinality(Open(r))
    BY DEF CountsOpen
  <1>3. ASSUME NEW v \in Workers, At(v, "count")', Top(v)'.task \in Kids(r)
        PROVE  Top(v)'.arg >= Cardinality(Open(r)')
    <2>1. At(v, "count") /\ Top(v)' = Top(v) /\ Top(v).arg \in Nat
      BY <1>3, TopTask
    <2>2. Top(v).arg >= Cardinality(Open(r))
      BY <1>3, <2>1 DEF CountsOpen
    <2> QED  BY <1>1, <2>1, <2>2
  <1> QED  BY <1>1, <1>2, <1>3

(* The counters.                                                            *)
LEMMA CountsOpenStep ==
    ASSUME ControlInv, [Next]_vars
    PROVE  CountsOpen'
  <1> USE DEF ControlInv
  <1>1. CASE UNCHANGED vars
    <2>1. Still /\ UNCHANGED <<joins, count>>
      BY <1>1, StackStill DEF vars, promiseVars, progVars
    <2> QED  BY <2>1, CountsStay DEF Still
  <1>2. ASSUME NEW r \in Roots, PostTo(r) PROVE CountsOpen'
    <2>1. /\ Still /\ frame' = frame /\ UNCHANGED <<joins, calls, count>>
      BY <1>2, StackStill DEF PostTo, progVars
    <2> QED  BY <2>1, CountsStay DEF Still
  <1>3. ASSUME NEW t \in Tasks, EventArrives(t) PROVE CountsOpen'
    <2>1. /\ Still /\ frame' = frame /\ UNCHANGED <<joins, calls, count>>
      BY <1>3, StackStill DEF EventArrives, promiseVars, progVars
    <2> QED  BY <2>1, CountsStay DEF Still
  <1>4. ASSUME NEW w \in Workers, NEW r \in Roots, TakeTask(w, r) PROVE CountsOpen'
    <2> DEFINE c == Call("wk_cb", r, 0)
    <2>1. /\ Moves(w, Back, c) /\ c.task = r /\ frame' = frame /\ r \in Roots
          /\ UNCHANGED <<joins, calls, count>>
      BY <1>4, TakeTaskDoes DEF Call, promiseVars, progVars
    <2> HIDE DEF c
    <2>0. c.kind # "count"
      BY DEF c, Call
    <2>2. \A v \in Workers : At(v, "count")' => At(v, "count") /\ Top(v)' = Top(v)
      BY <2>0, <2>1 DEF Moves, Turn
    <2> QED  BY <2>1, <2>2, CountsStay
  <1>5. ASSUME NEW w \in Workers, NEW t \in Tasks, TakeEvent(w, t) PROVE CountsOpen'
    <2> DEFINE c == Call("run", t, 0)
    <2>1. /\ Moves(w, Back, c) /\ c.task = t /\ FrameSet(t, "running") /\ <<"event", t>> \in posted
          /\ UNCHANGED <<joins, calls, count>>
      BY <1>5, TakeEventDoes DEF Call, promiseVars, progVars
    <2> HIDE DEF c
    <2>0. c.kind # "count"
      BY DEF c, Call
    <2>2. \A v \in Workers : At(v, "count")' => At(v, "count") /\ Top(v)' = Top(v)
      BY <2>0, <2>1 DEF Moves, Turn
    <2> QED  BY <2>1, <2>2, CountsStay
  <1>6. ASSUME NEW w \in Workers, WkResume(w) PROVE CountsOpen'
    <2> DEFINE r == Top(w).task  c == Call("run", r, 0)  d == Call("wk_back", r, 0)
    <2>1. /\ At(w, "wk_cb") /\ r \in Roots /\ c.task = r /\ d.task = r
          /\ \/ FrameSet(r, "running") /\ Moves(w, Top(w), c)
             \/ frame' = frame /\ Moves(w, Top(w), d)
          /\ UNCHANGED <<joins, calls, count>>
      BY <1>6, WkResumeDoes DEF Call, progVars
    <2> HIDE DEF c, d
    <2>0. c.kind # "count" /\ d.kind # "count" /\ Back.kind # "count"
      BY DEF c, d, Call, Back
    <2>2. \A v \in Workers : At(v, "count")' => At(v, "count") /\ Top(v)' = Top(v)
      BY <2>0, <2>1 DEF Moves, Turn
    <2> QED  BY <2>1, <2>2, CountsStay
  <1>7. ASSUME NEW w \in Workers, WkBack(w) PROVE CountsOpen'
    <2> DEFINE r == Top(w).task  c == Call("wk_done", r, 0)
    <2>1. /\ Moves(w, Top(w), c) /\ c.kind \notin Driving /\ frame' = frame
          /\ UNCHANGED <<joins, calls, count>>
      BY <1>7, WkBackDoes DEF Call, Driving, progVars
    <2> HIDE DEF c
    <2>0. c.kind # "count"
      BY DEF c, Call
    <2>2. \A v \in Workers : At(v, "count")' => At(v, "count") /\ Top(v)' = Top(v)
      BY <2>0, <2>1 DEF Moves, Turn
    <2> QED  BY <2>1, <2>2, CountsStay
  <1>8. ASSUME NEW w \in Workers, WkDone(w) PROVE CountsOpen'
    <2> DEFINE r == Top(w).task
    <2>1. /\ Moves(w, Top(w), Back) /\ Back.kind \notin Driving /\ r \in Roots
          /\ frame' = frame \/ (frame[r] = "final" /\ FrameSet(r, "destroyed"))
          /\ UNCHANGED <<joins, calls, count>>
      BY <1>8, WkDoneDoes DEF Back, Call, Driving, progVars
    <2>2. \A v \in Workers : At(v, "count")' => At(v, "count") /\ Top(v)' = Top(v)
      BY <2>1 DEF Moves, Turn, Driving
    <2> QED  BY <2>1, <2>2, CountsStay
  <1>9. ASSUME NEW w \in Workers, Suspend(w) PROVE CountsOpen'
    <2> DEFINE t == Top(w).task
    <2>1. /\ Moves(w, Top(w), Back) /\ Back.kind \notin Driving /\ At(w, "run")
          /\ FrameSet(t, "suspended") /\ UNCHANGED <<joins, calls, count>>
      BY <1>9, SuspendDoes DEF Back, Call, Driving, promiseVars
    <2>2. \A v \in Workers : At(v, "count")' => At(v, "count") /\ Top(v)' = Top(v)
      BY <2>1 DEF Moves, Turn, Driving
    <2> QED  BY <2>1, <2>2, CountsStay
  <1>10. ASSUME NEW w \in Workers, AwaitTask(w) PROVE CountsOpen'
    <2> DEFINE r == Top(w).task  t == Called[r]  c == Call("run", t, 0)
    <2>1. /\ Moves(w, Top(w), c) /\ c.task = t /\ At(w, "run") /\ r \in Roots /\ t \in Owned(r) /\ t # NoTask
          /\ frame'[r] = "awaiting" /\ frame'[t] = "running" /\ ~ calls[r]
          /\ \A u \in Tasks \ {r, t} : frame'[u] = frame[u]
          /\ calls' = [calls EXCEPT ![r] = TRUE] /\ UNCHANGED <<joins, count>>
      BY <1>10, AwaitTaskDoes DEF Call, promiseVars
    <2> HIDE DEF c
    <2>0. c.kind # "count"
      BY DEF c, Call
    <2>2. \A v \in Workers : At(v, "count")' => At(v, "count") /\ Top(v)' = Top(v)
      BY <2>0, <2>1 DEF Moves, Turn
    <2> QED  BY <2>1, <2>2, CountsStay
  <1>11. ASSUME NEW w \in Workers, AwaitAll(w) PROVE CountsOpen'
    <2> DEFINE r == Top(w).task  c == Call("join", r, 1)
    <2>1. /\ Moves(w, Top(w), c) /\ c.kind \notin Driving /\ At(w, "run") /\ r \in Roots
          /\ FrameSet(r, "awaiting") /\ ~ joins[r] /\ Joined[r] # << >> /\ joins' = [joins EXCEPT ![r] = TRUE]
          /\ count' = [count EXCEPT ![r] = Len(Joined[r])] /\ UNCHANGED calls
      BY <1>11, AwaitAllDoes DEF Call, Driving
    <2> HIDE DEF c
    <2>0. c.kind # "count"
      BY DEF c, Call
    <2> SUFFICES ASSUME NEW q \in Roots, joins'[q]
                 PROVE  /\ count'[q] >= Cardinality(Open(q)')
                        /\ \A v \in Workers : At(v, "count")' /\ Top(v)'.task \in Kids(q) =>
                              Top(v)'.arg >= Cardinality(Open(q)')
      BY DEF CountsOpen
    <2>2. /\ Cardinality(Open(q)') \in Nat /\ Cardinality(Open(q)') <= Cardinality(Open(q))
          /\ Cardinality(Open(q)) \in Nat /\ count[q] \in Nat
      BY FewerOpen, OpenFacts DEF TypeOK
    <2>3. count'[q] >= Cardinality(Open(q)')
      <3>1. CASE q = r
        <4>1. count'[q] = Len(Joined[q]) /\ Len(Joined[q]) \in Nat /\ Cardinality(Open(q)) <= Len(Joined[q])
          BY <2>1, <3>1, OpenFacts, JoinedList DEF TypeOK
        <4> QED  BY <2>2, <4>1
      <3>2. CASE q # r
        <4>1. count'[q] = count[q] /\ joins[q]
          BY <2>1, <3>2 DEF TypeOK
        <4>2. count[q] >= Cardinality(Open(q))
          BY <4>1 DEF CountsOpen
        <4> QED  BY <2>2, <4>1, <4>2
      <3> QED  BY <3>1, <3>2
    <2>4. ASSUME NEW v \in Workers \ {w}, At(v, "count")', Top(v)'.task \in Kids(q)
          PROVE  Top(v)'.arg >= Cardinality(Open(q)')
      <3>1. At(v, "count") /\ Top(v)' = Top(v) /\ Top(v).arg \in Nat /\ Top(v).task \in Tasks
        BY <2>1, <2>4, TopTask DEF Moves, Turn
      <3>2. Owner(Top(v).task) = q
        BY <2>4, <3>1, JoinedList, OwnedTask
      <3>3. Top(v).arg >= Cardinality(Open(q))
        BY <3>1, <3>2, CountIsPositive
      <3> QED  BY <2>2, <3>1, <3>3
    <2>5. ~ At(w, "count")'
      BY <2>0, <2>1 DEF Moves, Turn
    <2> QED  BY <2>3, <2>4, <2>5
  <1>12. ASSUME NEW w \in Workers, JoinNext(w) PROVE CountsOpen'
    <2> DEFINE r == Top(w).task  i == Top(w).arg  t == Joined[r][i]  c == Call("run", t, 0)  d == Call("join", r, i + 1)
    <2>1. /\ At(w, "join") /\ r \in Roots /\ c.task = t /\ d.kind \notin Driving /\ Back.kind \notin Driving
          /\ \/ frame' = frame /\ (Moves(w, Top(w), Back) \/ Moves(w, Top(w), d))
             \/ i <= Len(Joined[r]) /\ t # NoTask /\ FrameSet(t, "running") /\ Moves(w, Top(w), c)
          /\ UNCHANGED <<joins, calls, count>>
      BY <1>12, JoinNextDoes DEF Call, Back, Driving, promiseVars, progVars
    <2> HIDE DEF c, d
    <2>0. c.kind # "count" /\ d.kind # "count" /\ Back.kind # "count"
      BY DEF c, d, Call, Back
    <2>2. \A v \in Workers : At(v, "count")' => At(v, "count") /\ Top(v)' = Top(v)
      BY <2>0, <2>1 DEF Moves, Turn
    <2> QED  BY <2>1, <2>2, CountsStay
  <1>13. ASSUME NEW w \in Workers, Return(w) PROVE CountsOpen'
    <2> DEFINE t == Top(w).task  c == Call("final", t, 0)
    <2>1. /\ Moves(w, Top(w), c) /\ c.task = t /\ At(w, "run") /\ frame'[t] = "final"
          /\ \A u \in Tasks \ {t} : frame'[u] = IF t \in Roots /\ u \in Owned(t) THEN "destroyed"
                                                                             ELSE frame[u]
          /\ t \in Roots => (Joined[t] # << >> => joins[t]) /\ (Called[t] # NoTask => calls[t])
          /\ UNCHANGED <<joins, calls, count>>
      BY <1>13, ReturnDoes DEF Call, promiseVars, progVars
    <2> HIDE DEF c
    <2>0. c.kind # "count"
      BY DEF c, Call
    <2>2. \A v \in Workers : At(v, "count")' => At(v, "count") /\ Top(v)' = Top(v)
      BY <2>0, <2>1 DEF Moves, Turn
    <2> QED  BY <2>1, <2>2, CountsStay
  <1>14. ASSUME NEW w \in Workers, FinalRoot(w) PROVE CountsOpen'
    <2>1. /\ Moves(w, Top(w), Back) /\ Back.kind \notin Driving /\ frame' = frame
          /\ UNCHANGED <<joins, calls, count>>
      BY <1>14, FinalRootDoes DEF Back, Call, Driving, progVars
    <2>2. \A v \in Workers : At(v, "count")' => At(v, "count") /\ Top(v)' = Top(v)
      BY <2>1 DEF Moves, Turn, Driving
    <2> QED  BY <2>1, <2>2, CountsStay
  <1>15. ASSUME NEW w \in Workers, FinalCalled(w) PROVE CountsOpen'
    <2> DEFINE t == Top(w).task  r == Owner(t)  c == Call("run", r, 0)
    <2>1. /\ Moves(w, Top(w), c) /\ c.task = r /\ At(w, "final") /\ t \in Tasks \ Roots /\ r \in Roots
          /\ t = Called[r] /\ t \in Owned(r) /\ FrameSet(r, "running")
          /\ UNCHANGED <<joins, calls, count>>
      BY <1>15, FinalCalledDoes DEF Call, promiseVars, progVars
    <2> HIDE DEF c
    <2>0. c.kind # "count"
      BY DEF c, Call
    <2>2. \A v \in Workers : At(v, "count")' => At(v, "count") /\ Top(v)' = Top(v)
      BY <2>0, <2>1 DEF Moves, Turn
    <2> QED  BY <2>1, <2>2, CountsStay
  <1>16. ASSUME NEW w \in Workers, FinalJoined(w) PROVE CountsOpen'
    <2> DEFINE t == Top(w).task  r == Owner(t)  c == Call("count", t, count[r])
    <2>1. /\ Moves(w, Top(w), c) /\ c.task = t /\ c.arg = count[r] /\ c.kind = "count" /\ At(w, "final")
          /\ t \in Tasks \ Roots /\ r \in Roots /\ t \in Kids(r) /\ frame' = frame
          /\ UNCHANGED <<joins, calls, count>>
      BY <1>16, FinalJoinedDoes DEF Call, promiseVars, progVars
    <2> HIDE DEF c
    <2> SUFFICES ASSUME NEW q \in Roots, joins'[q]
                 PROVE  /\ count'[q] >= Cardinality(Open(q)')
                        /\ \A v \in Workers : At(v, "count")' /\ Top(v)'.task \in Kids(q) =>
                              Top(v)'.arg >= Cardinality(Open(q)')
      BY DEF CountsOpen
    <2>2. /\ Cardinality(Open(q)') \in Nat /\ Cardinality(Open(q)') <= Cardinality(Open(q))
          /\ Cardinality(Open(q)) \in Nat /\ count[q] \in Nat
      BY FewerOpen, OpenFacts DEF TypeOK
    <2>3. count'[q] = count[q] /\ count[q] >= Cardinality(Open(q)')
      <3>1. count'[q] = count[q] /\ joins[q]
        BY <2>1
      <3>2. count[q] >= Cardinality(Open(q))
        BY <3>1 DEF CountsOpen
      <3> QED  BY <2>2, <3>1, <3>2
    <2>4. ASSUME NEW v \in Workers \ {w}, At(v, "count")', Top(v)'.task \in Kids(q)
          PROVE  Top(v)'.arg >= Cardinality(Open(q)')
      <3>1. At(v, "count") /\ Top(v)' = Top(v) /\ Top(v).arg \in Nat /\ Top(v).task \in Tasks
        BY <2>1, <2>4, TopTask DEF Moves, Turn
      <3>2. Owner(Top(v).task) = q
        BY <2>4, <3>1, JoinedList, OwnedTask
      <3>3. Top(v).arg >= Cardinality(Open(q))
        BY <3>1, <3>2, CountIsPositive
      <3> QED  BY <2>2, <3>1, <3>3
    <2>5. ASSUME Top(w)'.task \in Kids(q) PROVE Top(w)'.arg >= Cardinality(Open(q)')
      <3>1. Top(w)' = c
        BY <2>1 DEF Moves, Turn, Driving
      <3>2. q = r
        BY <2>1, <2>5, <3>1, JoinedList, OwnedTask
      <3> QED  BY <2>1, <2>3, <3>1, <3>2
    <2> QED  BY <2>3, <2>4, <2>5
  <1>17. ASSUME NEW w \in Workers, JoinCount(w) PROVE CountsOpen'
    <2> DEFINE t == Top(w).task  r == Owner(t)  c == Call("run", r, 0)
    <2>0. c.task = r /\ Back.kind \notin Driving
      BY DEF Call, Back, Driving
    <2>1. /\ At(w, "count") /\ t \in Tasks \ Roots /\ r \in Roots /\ t \in Kids(r) /\ Drives(w, t)
          /\ frame[t] = "final" /\ frame[r] = "awaiting" /\ c.task = r /\ Back.kind \notin Driving
          /\ \/ Top(w).arg = 1 /\ FrameSet(r, "running") /\ Moves(w, Top(w), c)
             \/ Top(w).arg # 1 /\ frame' = frame /\ Moves(w, Top(w), Back)
          /\ count' = [count EXCEPT ![r] = Top(w).arg - 1] /\ UNCHANGED <<joins, calls>>
      BY <1>17, <2>0, JoinCountDoes DEF progVars
    <2> HIDE DEF c
    <2>a. c.kind # "count" /\ Back.kind # "count"
      BY DEF c, Call, Back
    <2> SUFFICES ASSUME NEW q \in Roots, joins'[q]
                 PROVE  /\ count'[q] >= Cardinality(Open(q)')
                        /\ \A v \in Workers : At(v, "count")' /\ Top(v)'.task \in Kids(q) =>
                              Top(v)'.arg >= Cardinality(Open(q)')
      BY DEF CountsOpen
    <2>2. /\ Cardinality(Open(q)') \in Nat /\ Cardinality(Open(q)') <= Cardinality(Open(q))
          /\ Cardinality(Open(q)) \in Nat /\ count[q] \in Nat
      BY FewerOpen, OpenFacts DEF TypeOK
    <2>3. count'[q] >= Cardinality(Open(q)')
      <3>1. CASE q = r
        <4>1. /\ Top(w).arg \in Nat /\ Top(w).arg >= Cardinality(Open(r)) /\ count'[r] = Top(w).arg - 1
          BY <2>1, TopTask, CountIsPositive DEF TypeOK
        <4> PICK u : u = t
          OBVIOUS
        <4>2. Over(u)'
          <5>1. frame'[u] = "final"
            BY <2>1 DEF FrameSet
          <5>2. ASSUME NEW v \in Workers PROVE ~ Drives(v, u)'
            <6>1. CASE v = w
              <7>1. c.task # u
                BY <2>1
              <7> QED  BY <2>1, <6>1, <7>1 DEF Moves, Turn
            <6>2. CASE v # w
              <7>1. ~ Drives(v, u)
                BY <2>1, <6>2, Mine DEF Driving
              <7> QED  BY <2>1, <6>2, <7>1 DEF Moves, Turn
            <6> QED  BY <6>1, <6>2
          <5> QED  BY <5>1, <5>2 DEF Over
        <4>3. PICK k \in Open(r) : Joined[r][k] = u
          BY <2>1, DrivenIsOpen
        <4>4. k \notin Open(q)' /\ k \in Open(q)
          <5>1. u # NoTask /\ Joined[q][k] = u
            BY <2>1, <3>1, <4>3, NoTaskIsNone
          <5> QED  BY <3>1, <4>2, <4>3, <5>1 DEF Open
        <4>5. Cardinality(Open(q)') <= Cardinality(Open(q)) - 1
          BY <4>4, FewerOpen
        <4> QED  BY <2>2, <3>1, <4>1, <4>5
      <3>2. CASE q # r
        <4>1. count'[q] = count[q] /\ joins[q]
          BY <2>1, <3>2 DEF TypeOK
        <4>2. count[q] >= Cardinality(Open(q))
          BY <4>1 DEF CountsOpen
        <4> QED  BY <2>2, <4>1, <4>2
      <3> QED  BY <3>1, <3>2
    <2>4. ASSUME NEW v \in Workers \ {w}, At(v, "count")', Top(v)'.task \in Kids(q)
          PROVE  Top(v)'.arg >= Cardinality(Open(q)')
      <3>1. At(v, "count") /\ Top(v)' = Top(v) /\ Top(v).arg \in Nat /\ Top(v).task \in Tasks
        BY <2>1, <2>4, TopTask DEF Moves, Turn
      <3>2. Owner(Top(v).task) = q
        BY <2>4, <3>1, JoinedList, OwnedTask
      <3>3. Top(v).arg >= Cardinality(Open(q))
        BY <3>1, <3>2, CountIsPositive
      <3> QED  BY <2>2, <3>1, <3>3
    <2>5. ~ At(w, "count")'
      BY <2>a, <2>1 DEF Moves, Turn
    <2> QED  BY <2>3, <2>4, <2>5
  <1>18. ASSUME NEW w \in Workers, Unwind(w) PROVE CountsOpen'
    <2>1. /\ Moves(w, Top(w), Back) /\ Back.kind \notin Driving /\ frame' = frame
          /\ UNCHANGED <<joins, calls, count>>
      BY <1>18, UnwindDoes DEF Back, Call, Driving, promiseVars, progVars
    <2>2. \A v \in Workers : At(v, "count")' => At(v, "count") /\ Top(v)' = Top(v)
      BY <2>1 DEF Moves, Turn, Driving
    <2> QED  BY <2>1, <2>2, CountsStay
  <1> QED  BY StepCases, <1>1, <1>2, <1>3, <1>4, <1>5, <1>6, <1>7, <1>8, <1>9,
              <1>10, <1>11, <1>12, <1>13, <1>14, <1>15, <1>16, <1>17, <1>18

-----------------------------------------------------------------------------
(* The invariant, whatever the number of workers.                          *)

LEMMA ControlInit ==
    ASSUME Init
    PROVE  ControlInv
  <1>1. /\ \A w \in Workers : stack[w] = << >> /\ ~ At(w, "count")
        /\ \A w \in Workers : \A t \in Tasks : ~ Drives(w, t)
        /\ posted = {} /\ \A t \in Tasks : frame[t] = "initial"
        /\ \A r \in Roots : ~ joins[r] /\ ~ calls[r]
    BY DEF Init, Drives, At
  <1>2. TypeOK
    <2>1. << >> \in Seq(Calls) /\ 0 \in 0 .. MaxSuspends
      BY TaskAssumption
    <2> QED  BY <2>1 DEF Init, TypeOK
  <1>3. \A w \in Workers : DOMAIN stack[w] = {}
    BY <1>1
  <1>4. CallsNest /\ JoinsInOrder
    BY <1>3 DEF CallsNest, JoinsInOrder
  <1>5. OneControl /\ FrameTells /\ CountsOpen
    BY <1>1 DEF OneControl, FrameTells, CountsOpen
  <1>6. OwnersWait
    <2>1. ASSUME NEW r \in Roots, NEW t \in Owned(r) PROVE frame[t] = "initial"
      BY <1>1, OwnedTask
    <2> QED  BY <1>1, <2>1, JoinedList, CalledTask DEF OwnersWait
  <1> QED  BY <1>2, <1>4, <1>5, <1>6 DEF ControlInv

(* Every step of every worker keeps the seven conjuncts of ControlInv.      *)
LEMMA ControlStep ==
    ASSUME ControlInv, [Next]_vars
    PROVE  ControlInv'
  <1>1. TypeOK' /\ CallsNest' /\ OneControl' /\ FrameTells'
    BY TypeStep, NestStep, OneControlStep, FrameTellsStep DEF ControlInv
  <1>2. OwnersWait' /\ JoinsInOrder' /\ CountsOpen'
    BY OwnersWaitStep, JoinsInOrderStep, CountsOpenStep
  <1> QED  BY <1>1, <1>2 DEF ControlInv

(* With any number of workers a coroutine is never resumed in two places,   *)
(* no owner goes on before the tasks it has started, and the plain counter  *)
(* of when_all, which may lose a decrement, never counts a task that has    *)
(* not ended.                                                               *)
THEOREM ControlHolds == Spec => []ControlInv
  <1>1. Init => ControlInv
    BY ControlInit
  <1>2. ControlInv /\ [Next]_vars => ControlInv'
    BY ControlStep
  <1> QED  BY <1>1, <1>2, PTL DEF Spec

(* when_all resumes its coroutine only when every task it joins has ended,  *)
(* with any number of workers: the step that resumes it is the completion   *)
(* of the task it awaits on its own, or of the last of those it joins.      *)
THEOREM JoinWaits == Spec => JoinWaitsForAll
  <1>1. ControlInv /\ [Next]_vars =>
          [ \A r \in Roots :
              joins[r] /\ frame[r] = "awaiting" /\ frame'[r] = "running"
              /\ (Called[r] # NoTask => frame[Called[r]] # "final")
                => \A t \in Kids(r) : frame[t] = "final" ]_vars
    BY ResumedStep DEF Resumed
  <1> QED  BY <1>1, ControlHolds, PTL DEF Spec, JoinWaitsForAll

-----------------------------------------------------------------------------
(* With one worker no frame is used after its destruction.                 *)

WkKinds == {"wk_cb", "wk_back", "wk_done"}

(* What wk_cb relies on while it is under way.                              *)
Alone(c, k) ==
    /\ k = 1
    /\ <<"wk", c.task>> \notin posted
    /\ frame[c.task] # "destroyed"
    /\ c.kind = "wk_back" => running[c.task]

(* A posted task that is destroyed is gone.                                 *)
Gone == \A r \in Roots :
    frame[r] = "destroyed" => <<"wk", r>> \notin posted /\ \A w \in Workers : ~ Drives(w, r)

LEMMA AloneIs ==
    WkCbAlone <=> /\ \A v \in Workers : \A k \in DOMAIN stack[v] : \A c :
                        c = stack[v][k] /\ c.kind \in WkKinds => Alone(c, k)
                  /\ Gone
  BY DEF WkCbAlone, Gone, Alone, WkKinds

LEMMA AloneThen ==
    ASSUME \A v \in Workers : \A k \in DOMAIN stack'[v] : \A c :
               c = stack'[v][k] /\ c.kind \in WkKinds => Alone(c, k)',
           Gone'
    PROVE  WkCbAlone'
  <1>1. ASSUME NEW v \in Workers, NEW k \in DOMAIN stack'[v], NEW c, c = stack'[v][k], c.kind \in WkKinds
        PROVE  /\ k = 1 /\ <<"wk", c.task>> \notin posted' /\ frame'[c.task] # "destroyed"
               /\ c.kind = "wk_back" => running'[c.task]
    <2>1. Alone(c, k)'
      BY <1>1
    <2> QED  BY <2>1 DEF Alone
  <1> QED  BY <1>1 DEF WkCbAlone, Gone, WkKinds

(* The steps in which wk_cb has no part.                                    *)
LEMMA AloneStays ==
    ASSUME ControlInv, WkCbAlone, NEW w \in Workers, UNCHANGED running,
           \A v \in Workers : \A k \in DOMAIN stack'[v] :
               stack'[v][k].kind \in WkKinds => Kept(w, v, k),
           \A r \in Roots : /\ <<"wk", r>> \in posted' => <<"wk", r>> \in posted
                            /\ frame'[r] = "destroyed" => frame[r] = "destroyed"
                            /\ \A v \in Workers : Drives(v, r)' =>
                                  Drives(v, r) \/ frame'[r] # "destroyed"
    PROVE  WkCbAlone'
  <1>1. ASSUME NEW v \in Workers, NEW k \in DOMAIN stack'[v], NEW c, c = stack'[v][k], c.kind \in WkKinds
        PROVE  Alone(c, k)'
    <2>1. k \in DOMAIN stack[v] /\ c = stack[v][k]
      BY <1>1 DEF Kept
    <2>2. c.task \in Roots
      BY <1>1, <2>1 DEF ControlInv, CallsNest, WkKinds
    <2>3. Alone(c, k)
      BY <1>1, <2>1, AloneIs
    <2> QED  BY <2>2, <2>3 DEF Alone
  <1>2. Gone
    BY AloneIs
  <1>3. Gone'
    BY <1>2 DEF Gone
  <1> QED  BY <1>1, <1>3, AloneThen

(* wk_cb is the only call of its worker.                                    *)
LEMMA Outermost ==
    ASSUME TypeOK, WkCbAlone, NEW w \in Workers, NEW k \in WkKinds, At(w, k), NEW r, r = Top(w).task
    PROVE  Len(stack[w]) = 1 /\ <<"wk", r>> \notin posted /\ frame[r] # "destroyed"
  <1>1. Len(stack[w]) \in DOMAIN stack[w] /\ Top(w) = stack[w][Len(stack[w])] /\ Top(w).kind = k
    BY TopTyped DEF At
  <1> QED  BY <1>1 DEF WkCbAlone, WkKinds

(* wk_cb has its task to itself.                                            *)
LEMMA AloneStep ==
    ASSUME ControlInv, WkCbAlone, \A v, w \in Workers : v = w, [Next]_vars
    PROVE  WkCbAlone'
  <1> USE DEF ControlInv
  <1>1. CASE UNCHANGED vars
    BY <1>1, StackStill, RootsAreTasks DEF vars, promiseVars, WkCbAlone, Still
  <1>2. ASSUME NEW r \in Roots, PostTo(r) PROVE WkCbAlone'
    <2>1. /\ Still /\ frame' = frame /\ UNCHANGED <<joins, calls, count>>
      BY <1>2, StackStill DEF PostTo, progVars
    <2>2. /\ UNCHANGED <<stack, running>> /\ posted' = posted \cup {<<"wk", r>>}
          /\ frame[r] = "initial"
          /\ \A v \in Workers : \A k \in DOMAIN stack[v] : stack[v][k].task # r
      BY <1>2 DEF PostTo
    <2>3. \A q : <<"wk", q>> \in posted' => <<"wk", q>> \in posted \/ q = r
      BY <2>2
    <2> QED  BY <2>1, <2>2, <2>3, RootsAreTasks DEF WkCbAlone, Still
  <1>3. ASSUME NEW t \in Tasks, EventArrives(t) PROVE WkCbAlone'
    <2>1. /\ Still /\ frame' = frame /\ UNCHANGED <<joins, calls, count>>
      BY <1>3, StackStill DEF EventArrives, promiseVars, progVars
    <2>2. UNCHANGED <<stack, running>> /\ \A q : <<"wk", q>> \in posted' => <<"wk", q>> \in posted
      BY <1>3 DEF EventArrives, promiseVars
    <2> QED  BY <2>1, <2>2, RootsAreTasks DEF WkCbAlone, Still
  <1>4. ASSUME NEW w \in Workers, NEW r \in Roots, TakeTask(w, r) PROVE WkCbAlone'
    <2> DEFINE c == Call("wk_cb", r, 0)
    <2>1. /\ Moves(w, Back, c) /\ c.task = r /\ frame' = frame /\ r \in Roots
          /\ UNCHANGED <<joins, calls, count>>
      BY <1>4, TakeTaskDoes DEF Call, promiseVars, progVars
    <2> HIDE DEF c
    <2>2. /\ Began(w, c) /\ posted' = posted \ {<<"wk", r>>} /\ <<"wk", r>> \in posted
          /\ c.kind = "wk_cb" /\ UNCHANGED running
      BY <1>4, TakeTaskDoes DEF c, Call, promiseVars
    <2>3. Gone
      BY AloneIs
    <2>4. frame[r] # "destroyed"
      BY <2>2, <2>3 DEF Gone
    <2> PICK p : p = c
      OBVIOUS
    <2>5. Alone(p, 1)'
      BY <2>1, <2>2, <2>4 DEF Alone
    <2>6. \A v \in Workers : \A k \in DOMAIN stack'[v] : k = 1 /\ stack'[v][k] = p
      <3>1. ASSUME NEW v \in Workers, NEW k \in DOMAIN stack'[v] PROVE ~ Kept(w, v, k)
        <4>1. v = w /\ stack[w] = << >>
          BY <2>2 DEF Began
        <4> QED  BY <4>1 DEF Kept
      <3> QED  BY <2>2, <3>1, CallsAfter
    <2>7. Gone'
      BY <2>1, <2>2, <2>3, <2>4, RootsAreTasks DEF Gone, Moves, Turn
    <2> QED  BY <2>5, <2>6, <2>7, AloneThen
  <1>5. ASSUME NEW w \in Workers, NEW t \in Tasks, TakeEvent(w, t) PROVE WkCbAlone'
    <2> DEFINE c == Call("run", t, 0)
    <2>1. /\ Moves(w, Back, c) /\ c.task = t /\ FrameSet(t, "running") /\ <<"event", t>> \in posted
          /\ UNCHANGED <<joins, calls, count>>
      BY <1>5, TakeEventDoes DEF Call, promiseVars, progVars
    <2> HIDE DEF c
    <2>2. UNCHANGED running /\ \A q : <<"wk", q>> \in posted' => <<"wk", q>> \in posted
      BY <1>5 DEF TakeEvent, promiseVars
    <2>3. Began(w, c) /\ c.kind \notin WkKinds
      BY <1>5, TakeEventDoes DEF c, Call, WkKinds
    <2>4. \A v \in Workers : \A k \in DOMAIN stack'[v] : stack'[v][k].kind \in WkKinds => Kept(w, v, k)
      BY <2>3, CallsAfter
    <2>5. ASSUME NEW q \in Roots
          PROVE  /\ frame'[q] = "destroyed" => frame[q] = "destroyed"
                 /\ \A v \in Workers : Drives(v, q)' => Drives(v, q) \/ frame'[q] # "destroyed"
      <3>1. q # t => ~ Drives(w, q)'
        BY <2>1, RootsAreTasks DEF Moves, Turn
      <3> QED  BY <2>1, <3>1, RootsAreTasks DEF FrameSet, Moves, Turn
    <2> QED  BY <2>2, <2>4, <2>5, AloneStays
  <1>6. ASSUME NEW w \in Workers, WkResume(w) PROVE WkCbAlone'
    <2> DEFINE r == Top(w).task  c == Call("run", r, 0)  d == Call("wk_back", r, 0)
    <2>1. /\ At(w, "wk_cb") /\ r \in Roots /\ c.task = r /\ d.task = r
          /\ \/ FrameSet(r, "running") /\ Moves(w, Top(w), c)
             \/ frame' = frame /\ Moves(w, Top(w), d)
          /\ UNCHANGED <<joins, calls, count>>
      BY <1>6, WkResumeDoes DEF Call, progVars
    <2> HIDE DEF c, d
    <2>2. /\ Pushed(w, d, c) \/ Replaced(w, d)
          /\ c.kind \notin WkKinds /\ UNCHANGED posted /\ running' = [running EXCEPT ![r] = TRUE]
      BY <1>6, WkResumeDoes DEF c, d, Call, WkKinds
    <2>3. Gone /\ Len(stack[w]) = 1 /\ <<"wk", r>> \notin posted /\ frame[r] # "destroyed"
      BY <2>1, AloneIs, Outermost DEF WkKinds
    <2> PICK p : p = d
      OBVIOUS
    <2>4. Alone(p, 1)'
      <3>1. frame'[r] # "destroyed" /\ running'[r]
        BY <2>1, <2>2, <2>3 DEF FrameSet, TypeOK
      <3> QED  BY <2>1, <2>2, <2>3, <3>1 DEF Alone
    <2>5. ASSUME NEW v \in Workers, NEW k \in DOMAIN stack'[v], stack'[v][k].kind \in WkKinds
          PROVE  k = 1 /\ stack'[v][k] = p
      <3>1. v = w
        OBVIOUS
      <3>2. ~ Kept(w, v, k)
        <4>1. DOMAIN stack[w] = 1 .. Len(stack[w])
          BY DEF TypeOK
        <4> QED  BY <2>3, <3>1, <4>1 DEF Kept
      <3>3. CASE Replaced(w, d)
        <4>1. Replaced(w, p)
          BY <3>3
        <4>2. Kept(w, v, k) \/ (v = w /\ k = Len(stack[w]) /\ stack'[v][k] = p)
          BY <4>1, CallsAfter
        <4> QED  BY <2>3, <3>2, <4>2
      <3>4. CASE Pushed(w, d, c)
        <4> PICK f : f = c
          OBVIOUS
        <4>1. Pushed(w, p, f) /\ f.kind \notin WkKinds
          BY <2>2, <3>4
        <4>2. \/ Kept(w, v, k)
              \/ (v = w /\ k = Len(stack[w]) /\ stack'[v][k] = p)
              \/ stack'[v][k] = f
          BY <4>1, CallsAfter
        <4> QED  BY <2>3, <2>5, <3>2, <4>1, <4>2
      <3> QED  BY <2>2, <3>3, <3>4
    <2>6. Gone'
      <3>1. frame'[r] # "destroyed"
        BY <2>1, <2>3 DEF FrameSet
      <3>2. ASSUME NEW q \in Roots, q # r PROVE frame'[q] = frame[q] /\ \A v \in Workers : ~ Drives(v, q)'
        BY <2>1, <3>2, RootsAreTasks DEF FrameSet, Moves, Turn
      <3> QED  BY <2>2, <2>3, <3>1, <3>2 DEF Gone
    <2> QED  BY <2>4, <2>5, <2>6, AloneThen
  <1>7. ASSUME NEW w \in Workers, WkBack(w) PROVE WkCbAlone'
    <2> DEFINE r == Top(w).task  c == Call("wk_done", r, 0)
    <2>1. /\ Moves(w, Top(w), c) /\ c.kind \notin Driving /\ frame' = frame
          /\ UNCHANGED <<joins, calls, count>>
      BY <1>7, WkBackDoes DEF Call, Driving, progVars
    <2> HIDE DEF c
    <2>2. /\ Replaced(w, c) /\ c.task = r /\ c.kind = "wk_done" /\ UNCHANGED posted /\ At(w, "wk_back")
      BY <1>7, WkBackDoes DEF c, Call
    <2>3. Gone /\ Len(stack[w]) = 1 /\ <<"wk", r>> \notin posted /\ frame[r] # "destroyed"
      BY <2>2, AloneIs, Outermost DEF WkKinds
    <2> PICK p : p = c
      OBVIOUS
    <2>4. Alone(p, 1)'
      BY <2>1, <2>2, <2>3 DEF Alone
    <2>5. ASSUME NEW v \in Workers, NEW k \in DOMAIN stack'[v] PROVE k = 1 /\ stack'[v][k] = p
      <3>1. v = w
        OBVIOUS
      <3>2. ~ Kept(w, v, k)
        <4>1. DOMAIN stack[w] = 1 .. Len(stack[w])
          BY DEF TypeOK
        <4> QED  BY <2>3, <3>1, <4>1 DEF Kept
      <3>3. Replaced(w, p)
        BY <2>2
      <3>4. Kept(w, v, k) \/ (v = w /\ k = Len(stack[w]) /\ stack'[v][k] = p)
        BY <3>3, CallsAfter
      <3> QED  BY <2>3, <3>2, <3>4
    <2>6. Gone'
      <3>1. ASSUME NEW q \in Roots, NEW v \in Workers PROVE ~ Drives(v, q)'
        BY <2>1, RootsAreTasks DEF Moves, Turn
      <3> QED  BY <2>1, <2>2, <2>3, <3>1 DEF Gone
    <2> QED  BY <2>4, <2>5, <2>6, AloneThen
  <1>8. ASSUME NEW w \in Workers, WkDone(w) PROVE WkCbAlone'
    <2> DEFINE r == Top(w).task
    <2>1. /\ Moves(w, Top(w), Back) /\ Back.kind \notin Driving /\ r \in Roots
          /\ frame' = frame \/ (frame[r] = "final" /\ FrameSet(r, "destroyed"))
          /\ UNCHANGED <<joins, calls, count>>
      BY <1>8, WkDoneDoes DEF Back, Call, Driving, progVars
    <2>2. Popped(w) /\ UNCHANGED posted /\ At(w, "wk_done")
      BY <1>8, WkDoneDoes
    <2>3. Gone /\ Len(stack[w]) = 1 /\ <<"wk", r>> \notin posted
      BY <2>2, AloneIs, Outermost DEF WkKinds
    <2>4. ASSUME NEW v \in Workers, NEW k \in DOMAIN stack'[v] PROVE FALSE
      <3>1. v = w
        OBVIOUS
      <3>2. ~ Kept(w, v, k)
        <4>1. DOMAIN stack[w] = 1 .. Len(stack[w])
          BY DEF TypeOK
        <4> QED  BY <2>3, <3>1, <4>1 DEF Kept
      <3> QED  BY <2>2, <3>2, CallsAfter
    <2>5. Gone'
      <3>1. ASSUME NEW q \in Roots, NEW v \in Workers PROVE ~ Drives(v, q)'
        BY <2>1, RootsAreTasks DEF Moves, Turn
      <3> QED  BY <2>1, <2>2, <2>3, <3>1, RootsAreTasks DEF Gone, FrameSet
    <2> QED  BY <2>4, <2>5, AloneThen
  <1>9. ASSUME NEW w \in Workers, Suspend(w) PROVE WkCbAlone'
    <2> DEFINE t == Top(w).task
    <2>1. /\ Moves(w, Top(w), Back) /\ Back.kind \notin Driving /\ At(w, "run")
          /\ FrameSet(t, "suspended") /\ UNCHANGED <<joins, calls, count>>
      BY <1>9, SuspendDoes DEF Back, Call, Driving, promiseVars
    <2>2. UNCHANGED running /\ \A q : <<"wk", q>> \in posted' => <<"wk", q>> \in posted
      BY <1>9 DEF Suspend, promiseVars
    <2>3. Popped(w)
      BY <1>9, SuspendDoes DEF Call, WkKinds
    <2>4. \A v \in Workers : \A k \in DOMAIN stack'[v] : stack'[v][k].kind \in WkKinds => Kept(w, v, k)
      BY <2>3, CallsAfter
    <2>5. ASSUME NEW q \in Roots
          PROVE  /\ frame'[q] = "destroyed" => frame[q] = "destroyed"
                 /\ \A v \in Workers : Drives(v, q)' => Drives(v, q) \/ frame'[q] # "destroyed"
      BY <2>1, RootsAreTasks DEF FrameSet, Moves, Turn
    <2> QED  BY <2>2, <2>4, <2>5, AloneStays
  <1>10. ASSUME NEW w \in Workers, AwaitTask(w) PROVE WkCbAlone'
    <2> DEFINE r == Top(w).task  t == Called[r]  c == Call("run", t, 0)
    <2>1. /\ Moves(w, Top(w), c) /\ c.task = t /\ At(w, "run") /\ r \in Roots /\ t \in Owned(r) /\ t # NoTask
          /\ frame'[r] = "awaiting" /\ frame'[t] = "running" /\ ~ calls[r]
          /\ \A u \in Tasks \ {r, t} : frame'[u] = frame[u]
          /\ calls' = [calls EXCEPT ![r] = TRUE] /\ UNCHANGED <<joins, count>>
      BY <1>10, AwaitTaskDoes DEF Call, promiseVars
    <2> HIDE DEF c
    <2>2. UNCHANGED running /\ \A q : <<"wk", q>> \in posted' => <<"wk", q>> \in posted
      BY <1>10 DEF AwaitTask, promiseVars
    <2>3. Replaced(w, c) /\ c.kind \notin WkKinds
      BY <1>10, AwaitTaskDoes DEF c, Call, WkKinds
    <2>4. \A v \in Workers : \A k \in DOMAIN stack'[v] : stack'[v][k].kind \in WkKinds => Kept(w, v, k)
      BY <2>3, CallsAfter
    <2>5. ASSUME NEW q \in Roots
          PROVE  /\ frame'[q] = "destroyed" => frame[q] = "destroyed"
                 /\ \A v \in Workers : Drives(v, q)' => Drives(v, q) \/ frame'[q] # "destroyed"
      <3>1. q # t
        BY <2>1, OwnedTask
      <3> QED  BY <2>1, <3>1, RootsAreTasks DEF Moves, Turn
    <2> QED  BY <2>2, <2>4, <2>5, AloneStays
  <1>11. ASSUME NEW w \in Workers, AwaitAll(w) PROVE WkCbAlone'
    <2> DEFINE r == Top(w).task  c == Call("join", r, 1)
    <2>1. /\ Moves(w, Top(w), c) /\ c.kind \notin Driving /\ At(w, "run") /\ r \in Roots
          /\ FrameSet(r, "awaiting") /\ ~ joins[r] /\ Joined[r] # << >> /\ joins' = [joins EXCEPT ![r] = TRUE]
          /\ count' = [count EXCEPT ![r] = Len(Joined[r])] /\ UNCHANGED calls
      BY <1>11, AwaitAllDoes DEF Call, Driving
    <2> HIDE DEF c
    <2>2. UNCHANGED running /\ \A q : <<"wk", q>> \in posted' => <<"wk", q>> \in posted
      BY <1>11 DEF AwaitAll, promiseVars
    <2>3. Replaced(w, c) /\ c.kind \notin WkKinds
      BY <1>11, AwaitAllDoes DEF c, Call, WkKinds
    <2>4. \A v \in Workers : \A k \in DOMAIN stack'[v] : stack'[v][k].kind \in WkKinds => Kept(w, v, k)
      BY <2>3, CallsAfter
    <2>5. ASSUME NEW q \in Roots
          PROVE  /\ frame'[q] = "destroyed" => frame[q] = "destroyed"
                 /\ \A v \in Workers : Drives(v, q)' => Drives(v, q) \/ frame'[q] # "destroyed"
      BY <2>1, RootsAreTasks DEF FrameSet, Moves, Turn
    <2> QED  BY <2>2, <2>4, <2>5, AloneStays
  <1>12. ASSUME NEW w \in Workers, JoinNext(w) PROVE WkCbAlone'
    <2> DEFINE r == Top(w).task  i == Top(w).arg  t == Joined[r][i]  c == Call("run", t, 0)  d == Call("join", r, i + 1)
    <2>1. /\ At(w, "join") /\ r \in Roots /\ c.task = t /\ d.kind \notin Driving /\ Back.kind \notin Driving
          /\ \/ frame' = frame /\ (Moves(w, Top(w), Back) \/ Moves(w, Top(w), d))
             \/ i <= Len(Joined[r]) /\ t # NoTask /\ FrameSet(t, "running") /\ Moves(w, Top(w), c)
          /\ UNCHANGED <<joins, calls, count>>
      BY <1>12, JoinNextDoes DEF Call, Back, Driving, promiseVars, progVars
    <2> HIDE DEF c, d
    <2>2. UNCHANGED running /\ \A q : <<"wk", q>> \in posted' => <<"wk", q>> \in posted
      BY <1>12 DEF JoinNext, promiseVars
    <2>3. /\ Popped(w) \/ Replaced(w, d) \/ Pushed(w, d, c)
          /\ c.kind \notin WkKinds /\ d.kind \notin WkKinds
      BY <1>12, JoinNextDoes DEF c, d, Call, WkKinds
    <2>4. \A v \in Workers : \A k \in DOMAIN stack'[v] : stack'[v][k].kind \in WkKinds => Kept(w, v, k)
      BY <2>3, CallsAfter
    <2>5. ASSUME NEW q \in Roots
          PROVE  /\ frame'[q] = "destroyed" => frame[q] = "destroyed"
                 /\ \A v \in Workers : Drives(v, q)' => Drives(v, q) \/ frame'[q] # "destroyed"
      <3>1. i <= Len(Joined[r]) /\ t # NoTask => q # t
        BY <1>12, <2>1, NotStarted, JoinedList, OwnedTask
      <3> QED  BY <2>1, <3>1, RootsAreTasks DEF FrameSet, Moves, Turn
    <2> QED  BY <2>2, <2>4, <2>5, AloneStays
  <1>13. ASSUME NEW w \in Workers, Return(w) PROVE WkCbAlone'
    <2> DEFINE t == Top(w).task  c == Call("final", t, 0)
    <2>1. /\ Moves(w, Top(w), c) /\ c.task = t /\ At(w, "run") /\ frame'[t] = "final"
          /\ \A u \in Tasks \ {t} : frame'[u] = IF t \in Roots /\ u \in Owned(t) THEN "destroyed"
                                                                             ELSE frame[u]
          /\ t \in Roots => (Joined[t] # << >> => joins[t]) /\ (Called[t] # NoTask => calls[t])
          /\ UNCHANGED <<joins, calls, count>>
      BY <1>13, ReturnDoes DEF Call, promiseVars, progVars
    <2> HIDE DEF c
    <2>2. UNCHANGED running /\ \A q : <<"wk", q>> \in posted' => <<"wk", q>> \in posted
      BY <1>13 DEF Return, promiseVars
    <2>3. Replaced(w, c) /\ c.kind \notin WkKinds
      BY <1>13, ReturnDoes DEF c, Call, WkKinds
    <2>4. \A v \in Workers : \A k \in DOMAIN stack'[v] : stack'[v][k].kind \in WkKinds => Kept(w, v, k)
      BY <2>3, CallsAfter
    <2>5. ASSUME NEW q \in Roots
          PROVE  /\ frame'[q] = "destroyed" => frame[q] = "destroyed"
                 /\ \A v \in Workers : Drives(v, q)' => Drives(v, q) \/ frame'[q] # "destroyed"
      <3>1. t \in Roots => q \notin Owned(t)
        BY OwnedTask
      <3> QED  BY <2>1, <3>1, RootsAreTasks DEF Moves, Turn
    <2> QED  BY <2>2, <2>4, <2>5, AloneStays
  <1>14. ASSUME NEW w \in Workers, FinalRoot(w) PROVE WkCbAlone'
    <2>1. /\ Moves(w, Top(w), Back) /\ Back.kind \notin Driving /\ frame' = frame
          /\ UNCHANGED <<joins, calls, count>>
      BY <1>14, FinalRootDoes DEF Back, Call, Driving, progVars
    <2> DEFINE r == Top(w).task
    <2>2. /\ At(w, "final") /\ r \in Roots /\ Popped(w) /\ UNCHANGED running
          /\ \A q : <<"wk", q>> \in posted' => <<"wk", q>> \in posted \/ (q = r /\ ~ running[r])
      BY <1>14, FinalRootDoes
    <2>3. Gone /\ Drives(w, r) /\ frame[r] # "destroyed"
      <3>1. Gone /\ Drives(w, r)
        BY <2>2, AloneIs, Mine DEF Driving
      <3> QED  BY <2>2, <3>1 DEF Gone
    <2>4. ASSUME NEW v \in Workers, NEW k \in DOMAIN stack'[v], NEW e, e = stack'[v][k], e.kind \in WkKinds
          PROVE  Alone(e, k)'
      <3>1. k \in DOMAIN stack[v] /\ e = stack[v][k] /\ k < Len(stack[v]) /\ v = w
        BY <2>2, <2>4, CallsAfter DEF Kept
      <3>2. e.kind = "wk_back"
        BY <2>4, <3>1 DEF CallsNest, WkKinds
      <3>3. Alone(e, k)
        BY <2>4, <3>1, AloneIs
      <3>4. <<"wk", e.task>> \notin posted'
        BY <2>2, <3>2, <3>3 DEF Alone
      <3> QED  BY <2>1, <2>2, <3>3, <3>4 DEF Alone
    <2>5. Gone'
      <3>1. ASSUME NEW q \in Roots, NEW v \in Workers PROVE ~ Drives(v, q)'
        BY <2>1, RootsAreTasks DEF Moves, Turn
      <3> QED  BY <2>1, <2>2, <2>3, <3>1 DEF Gone
    <2> QED  BY <2>4, <2>5, AloneThen
  <1>15. ASSUME NEW w \in Workers, FinalCalled(w) PROVE WkCbAlone'
    <2> DEFINE t == Top(w).task  r == Owner(t)  c == Call("run", r, 0)
    <2>1. /\ Moves(w, Top(w), c) /\ c.task = r /\ At(w, "final") /\ t \in Tasks \ Roots /\ r \in Roots
          /\ t = Called[r] /\ t \in Owned(r) /\ FrameSet(r, "running")
          /\ UNCHANGED <<joins, calls, count>>
      BY <1>15, FinalCalledDoes DEF Call, promiseVars, progVars
    <2> HIDE DEF c
    <2>2. UNCHANGED running /\ \A q : <<"wk", q>> \in posted' => <<"wk", q>> \in posted
      BY <1>15 DEF FinalCalled, promiseVars
    <2>3. Replaced(w, c) /\ c.kind \notin WkKinds
      BY <1>15, FinalCalledDoes DEF c, Call, WkKinds
    <2>4. \A v \in Workers : \A k \in DOMAIN stack'[v] : stack'[v][k].kind \in WkKinds => Kept(w, v, k)
      BY <2>3, CallsAfter
    <2>5. ASSUME NEW q \in Roots
          PROVE  /\ frame'[q] = "destroyed" => frame[q] = "destroyed"
                 /\ \A v \in Workers : Drives(v, q)' => Drives(v, q) \/ frame'[q] # "destroyed"
      BY <2>1, RootsAreTasks DEF FrameSet, Moves, Turn
    <2> QED  BY <2>2, <2>4, <2>5, AloneStays
  <1>16. ASSUME NEW w \in Workers, FinalJoined(w) PROVE WkCbAlone'
    <2> DEFINE t == Top(w).task  r == Owner(t)  c == Call("count", t, count[r])
    <2>1. /\ Moves(w, Top(w), c) /\ c.task = t /\ c.arg = count[r] /\ c.kind = "count" /\ At(w, "final")
          /\ t \in Tasks \ Roots /\ r \in Roots /\ t \in Kids(r) /\ frame' = frame
          /\ UNCHANGED <<joins, calls, count>>
      BY <1>16, FinalJoinedDoes DEF Call, promiseVars, progVars
    <2> HIDE DEF c
    <2>2. UNCHANGED running /\ \A q : <<"wk", q>> \in posted' => <<"wk", q>> \in posted
      BY <1>16 DEF FinalJoined, promiseVars
    <2>3. Replaced(w, c) /\ c.kind \notin WkKinds
      BY <1>16, FinalJoinedDoes DEF c, Call, WkKinds
    <2>4. \A v \in Workers : \A k \in DOMAIN stack'[v] : stack'[v][k].kind \in WkKinds => Kept(w, v, k)
      BY <2>3, CallsAfter
    <2>5. ASSUME NEW q \in Roots
          PROVE  /\ frame'[q] = "destroyed" => frame[q] = "destroyed"
                 /\ \A v \in Workers : Drives(v, q)' => Drives(v, q) \/ frame'[q] # "destroyed"
      BY <2>1, RootsAreTasks DEF Moves, Turn
    <2> QED  BY <2>2, <2>4, <2>5, AloneStays
  <1>17. ASSUME NEW w \in Workers, JoinCount(w) PROVE WkCbAlone'
    <2> DEFINE t == Top(w).task  r == Owner(t)  c == Call("run", r, 0)
    <2>0. c.task = r /\ Back.kind \notin Driving
      BY DEF Call, Back, Driving
    <2>1. /\ At(w, "count") /\ t \in Tasks \ Roots /\ r \in Roots /\ t \in Kids(r) /\ Drives(w, t)
          /\ frame[t] = "final" /\ frame[r] = "awaiting" /\ c.task = r /\ Back.kind \notin Driving
          /\ \/ Top(w).arg = 1 /\ FrameSet(r, "running") /\ Moves(w, Top(w), c)
             \/ Top(w).arg # 1 /\ frame' = frame /\ Moves(w, Top(w), Back)
          /\ count' = [count EXCEPT ![r] = Top(w).arg - 1] /\ UNCHANGED <<joins, calls>>
      BY <1>17, <2>0, JoinCountDoes DEF progVars
    <2> HIDE DEF c
    <2>2. UNCHANGED running /\ \A q : <<"wk", q>> \in posted' => <<"wk", q>> \in posted
      BY <1>17 DEF JoinCount, promiseVars
    <2>3. /\ Pushed(w, Call("unwind", t, 0), c) \/ Popped(w)
          /\ c.kind \notin WkKinds /\ Call("unwind", t, 0).kind \notin WkKinds
      BY <1>17, JoinCountDoes DEF c, Call, WkKinds
    <2>4. \A v \in Workers : \A k \in DOMAIN stack'[v] : stack'[v][k].kind \in WkKinds => Kept(w, v, k)
      BY <2>3, CallsAfter
    <2>5. ASSUME NEW q \in Roots
          PROVE  /\ frame'[q] = "destroyed" => frame[q] = "destroyed"
                 /\ \A v \in Workers : Drives(v, q)' => Drives(v, q) \/ frame'[q] # "destroyed"
      BY <2>1, RootsAreTasks DEF FrameSet, Moves, Turn
    <2> QED  BY <2>2, <2>4, <2>5, AloneStays
  <1>18. ASSUME NEW w \in Workers, Unwind(w) PROVE WkCbAlone'
    <2>1. /\ Moves(w, Top(w), Back) /\ Back.kind \notin Driving /\ frame' = frame
          /\ UNCHANGED <<joins, calls, count>>
      BY <1>18, UnwindDoes DEF Back, Call, Driving, promiseVars, progVars
    <2>2. UNCHANGED running /\ \A q : <<"wk", q>> \in posted' => <<"wk", q>> \in posted
      BY <1>18 DEF Unwind, promiseVars
    <2>3. Popped(w)
      BY <1>18, UnwindDoes DEF Call, WkKinds
    <2>4. \A v \in Workers : \A k \in DOMAIN stack'[v] : stack'[v][k].kind \in WkKinds => Kept(w, v, k)
      BY <2>3, CallsAfter
    <2>5. ASSUME NEW q \in Roots
          PROVE  /\ frame'[q] = "destroyed" => frame[q] = "destroyed"
                 /\ \A v \in Workers : Drives(v, q)' => Drives(v, q) \/ frame'[q] # "destroyed"
      BY <2>1, RootsAreTasks DEF Moves, Turn
    <2> QED  BY <2>2, <2>4, <2>5, AloneStays
  <1> QED  BY StepCases, <1>1, <1>2, <1>3, <1>4, <1>5, <1>6, <1>7, <1>8, <1>9,
              <1>10, <1>11, <1>12, <1>13, <1>14, <1>15, <1>16, <1>17, <1>18

(* What a call that is under way says of the frames it touches.             *)
LEMMA AliveFrom ==
    ASSUME ControlInv, WkCbAlone
    PROVE  FramesAlive
  <1> USE DEF ControlInv
  <1> SUFFICES ASSUME NEW t \in Tasks, frame[t] = "destroyed"
               PROVE  /\ <<"wk", t>> \notin posted /\ <<"event", t>> \notin posted
                      /\ \A w \in Workers : \A i \in DOMAIN stack[w] : ~ Touches(stack[w][i], t)
    BY DEF FramesAlive
  <1>1. <<"event", t>> \notin posted
    BY DEF FrameTells
  <1>2. <<"wk", t>> \notin posted
    BY DEF FrameTells, WkCbAlone
  <1>3. ASSUME NEW w \in Workers, NEW i \in DOMAIN stack[w], NEW c, c = stack[w][i], Touches(c, t)
        PROVE  FALSE
    <2>1. stack[w] # << >> /\ (c.kind \in Driving => c = Top(w))
      <3>1. stack[w] # << >> /\ i \in 1 .. Len(stack[w]) /\ Len(stack[w]) \in Nat
        BY DEF TypeOK
      <3>2. c.kind \in Driving => ~ i < Len(stack[w])
        BY <1>3 DEF CallsNest, Driving
      <3> QED  BY <1>3, <3>1, <3>2 DEF Top
    <2>2. CASE c.kind \in WkKinds /\ c.task = t
      BY <1>3, <2>2 DEF WkCbAlone, WkKinds
    <2>3. CASE c.kind \in {"run", "final"} /\ c.task = t
      <3>1. Drives(w, t) /\ Top(w).kind = c.kind
        BY <2>1, <2>3 DEF Drives, Driving
      <3>2. frame[t] = "destroyed" /\ t \in Roots
        BY <2>3, <3>1 DEF FrameTells
      <3> QED  BY <3>1, <3>2 DEF WkCbAlone
    <2>4. CASE c.kind = "join" /\ c.task = t /\ c.arg <= Len(Joined[t])
      BY <1>3, <2>4 DEF JoinsInOrder
    <2>5. CASE c.kind = "count" /\ t = Owner(c.task)
      <3>1. c \in Calls
        BY <1>3 DEF TypeOK
      <3>2. Drives(w, c.task) /\ Top(w).kind = "count" /\ c.task \in Tasks
        BY <2>1, <2>5, <3>1 DEF Drives, Driving, Calls
      <3> QED  BY <2>5, <3>2 DEF FrameTells
    <2> QED  BY <1>3, <2>2, <2>3, <2>4, <2>5 DEF Touches, WkKinds
  <1> QED  BY <1>1, <1>2, <1>3

(* With one worker no frame is used after its destruction: none of its      *)
(* nodes is posted and no call that needs it is under way; and so a posted  *)
(* task is destroyed once, by wk_cb or by the node posted at its end.       *)
THEOREM FramesLive ==
    ASSUME \A v, w \in Workers : v = w
    PROVE  Spec => []FrameInv
  <1>1. Init => ControlInv /\ WkCbAlone
    <2>1. Init => \A w \in Workers : DOMAIN stack[w] = {}
      BY DEF Init
    <2>2. Init => \A r \in Roots : frame[r] = "initial"
      BY RootsAreTasks DEF Init
    <2> QED  BY <2>1, <2>2, ControlInit DEF WkCbAlone
  <1>2. ControlInv /\ WkCbAlone /\ [Next]_vars => (ControlInv /\ WkCbAlone)'
    BY ControlStep, AloneStep
  <1>3. ControlInv /\ WkCbAlone => FrameInv
    BY AliveFrom DEF FrameInv
  <1> QED  BY <1>1, <1>2, <1>3, PTL DEF Spec

=============================================================================
