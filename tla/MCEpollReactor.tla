--------------------------- MODULE MCEpollReactor ---------------------------
(* Two readers and two writers of one fd, one of them with a deadline.       *)
EXTENDS EpollReactor
=============================================================================
