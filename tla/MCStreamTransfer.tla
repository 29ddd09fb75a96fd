-------------------------- MODULE MCStreamTransfer --------------------------
(* Sends of a buffer and of iovecs, one of them empty, against reads of      *)
(* other sizes, one of them of no bytes, through two bytes of buffer.        *)
EXTENDS StreamTransfer, TLC

CONSTANTS s1, s2, r1, r2, r3

MCSegments ==
    s1 :> <<1>> @@ s2 :> <<2, 0>> @@ r1 :> <<2>> @@ r2 :> <<2>> @@ r3 :> <<0>>

(* The network fails for the sender and the receiver hears of a reset; or    *)
(* the sender does, and the receiver's error was taken by one of its sends.  *)
MCFailures == {[tx |-> "timeout", rx |-> "reset"], [tx |-> "reset", rx |-> "none"]}
=============================================================================
