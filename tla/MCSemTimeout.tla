---------------------------- MODULE MCSemTimeout ----------------------------
(* Coroutines that wait with a timeout for one token, on two workers.        *)
EXTENDS SemTimeout

MCNodes == { Ev(r) : r \in Reqs } \cup { Tm(r) : r \in Reqs } \cup {SemNode}
=============================================================================
