------------------------------ MODULE WorkQueue ------------------------------
(***************************************************************************)
(* The run queue of workqueue<Lock> (task/workqueue.hpp): an intrusive     *)
(* list of worknodes.  A worknode has one pair of links, so it is on the   *)
(* queue at most once and posting a queued node moves it to the tail.      *)
(* The operators are shared by every module that posts work; the           *)
(* specification at the end is what the queue promises its users.          *)
(***************************************************************************)
EXTENDS Sequences, Integers, SequencesExt

-----------------------------------------------------------------------------
(* Intrusive list operations, on the sequence of nodes a list holds.       *)

OnList(q, n) == \E i \in DOMAIN q : q[i] = n

list_del(q, n) ==
    IF OnList(q, n)
      THEN RemoveAt(q, CHOOSE i \in DOMAIN q : q[i] = n)
      ELSE q

list_add_tail(q, n) == Append(q, n)

(* Variant with a fault, for checking the checks: links without unlinking.  *)
AppendAgain(q, n) == list_add_tail(q, n)

(* post(worknode) and add_new_nolock, inside the critical section.          *)
MoveToTail(q, n) == list_add_tail(list_del(q, n), n)

(* post(list_head), inside the critical section.                            *)
SpliceTail(q, batch) == q \o batch

NoDuplicates(q) == \A i, j \in DOMAIN q : q[i] = q[j] => i = j

-----------------------------------------------------------------------------
(* The abstract run queue: work is added at the tail, taken at the head.   *)

CONSTANT Nodes

VARIABLE queue

QueueInit == queue = << >>

QueuePost(n) == queue' = MoveToTail(queue, n)

QueuePostBatch(batch) ==
    /\ batch # << >>
    /\ queue' = SpliceTail(queue, batch)

QueueTake ==
    /\ queue # << >>
    /\ queue' = Tail(queue)

(* Lists of distinct nodes that are not queued: a batch is a list of its    *)
(* own, and a node has one pair of links.                                   *)
Batches ==
    { b \in UNION { [1 .. k -> Nodes] : k \in 1 .. 2 } :
        NoDuplicates(b) /\ \A i \in DOMAIN b : ~ OnList(queue, b[i]) }

QueueNext ==
    \/ \E n \in Nodes : QueuePost(n)
    \/ \E b \in Batches : QueuePostBatch(b)
    \/ QueueTake

QueueSpec == QueueInit /\ [][QueueNext]_queue
=============================================================================
