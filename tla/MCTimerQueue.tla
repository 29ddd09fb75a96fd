---------------------------- MODULE MCTimerQueue ----------------------------
(* Timers armed, cancelled and fired while the ticker ticks.                 *)
EXTENDS TimerQueue
=============================================================================
