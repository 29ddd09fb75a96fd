----------------------------- MODULE MCTaskFrame -----------------------------
(* One task that joins two others and one that awaits a third; or one that   *)
(* joins three and awaits a fourth.                                          *)
EXTENDS TaskFrame, TLC

CONSTANTS a, b, k1, k2, k3, k4

MCJoined == a :> <<k1, k2>> @@ b :> << >>
MCCalled == a :> NoTask @@ b :> k4

MCJoinedThree == a :> <<k1, k2, k3>>
MCCalledToo == a :> k4
=============================================================================
