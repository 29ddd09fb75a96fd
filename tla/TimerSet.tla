------------------------------ MODULE TimerSet ------------------------------
(***************************************************************************)
(* What Timer_check_queue promises: a set of armed timers with deadlines.  *)
(* A timer's deadline counts from the moment its delay is asked for, and   *)
(* it may be due already when it enters the set.  It leaves the set by     *)
(* being cancelled, alone, or by firing, when it is due and no armed timer *)
(* is due earlier.                                                         *)
(***************************************************************************)
EXTENDS Integers

CONSTANTS Timers, Never, MaxDelay

VARIABLES
    asked,      \* the deadline of a timer that is about to be armed, or Never
    deadline,   \* of each timer, Never if it is not armed
    fired,      \* timers whose work is queued and has not run yet
    now

Armed(t) == deadline[t] # Never

TimerInit ==
    /\ asked = [t \in Timers |-> Never]
    /\ deadline = [t \in Timers |-> Never]
    /\ fired = {}
    /\ now = 0

Elapse == now' = now + 1 /\ UNCHANGED <<asked, deadline, fired>>

Ask(t) ==
    /\ UNCHANGED <<deadline, fired, now>>
    /\ t \notin fired /\ ~ Armed(t) /\ asked[t] = Never
    /\ \E d \in 0 .. MaxDelay : asked' = [asked EXCEPT ![t] = now + d]

Arm(t) ==
    /\ UNCHANGED <<fired, now>>
    /\ asked[t] # Never /\ ~ Armed(t)
    /\ deadline' = [deadline EXCEPT ![t] = asked[t]]
    /\ asked' = [asked EXCEPT ![t] = Never]

Disarm(t) ==
    /\ UNCHANGED <<asked, fired, now>>
    /\ Armed(t)
    /\ deadline' = [deadline EXCEPT ![t] = Never]

Fire(t) ==
    /\ UNCHANGED <<asked, now>>
    /\ t \notin fired /\ fired' = fired \cup {t}
    /\ Armed(t) /\ deadline[t] <= now
    /\ \A u \in Timers : Armed(u) => deadline[t] <= deadline[u]
    /\ deadline' = [deadline EXCEPT ![t] = Never]

Run(t) ==
    /\ t \in fired
    /\ fired' = fired \ {t}
    /\ UNCHANGED <<asked, deadline, now>>

TimerNext ==
    Elapse \/ \E t \in Timers :
        Ask(t) \/ Arm(t) \/ Disarm(t) \/ Fire(t) \/ Run(t)

TimerSpec == TimerInit /\ [][TimerNext]_<<asked, deadline, fired, now>>
=============================================================================
