------------------------------- MODULE MCDial -------------------------------
(* Two clients of a server with two acceptors, one on each side more than    *)
(* the queue of the listener has room for; a resolver with two threads.      *)
EXTENDS Dial

Host(addresses, f, d) == [host |-> addresses, family |-> f, dual |-> d]

(* An address that the socket has no use for; and two of which the first is *)
(* to be mapped.                                                            *)
MCTargets == {Host(<<"inet">>, "inet6", FALSE), Host(<<"inet", "inet6">>, "inet6", TRUE)}
=============================================================================
