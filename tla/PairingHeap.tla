----------------------------- MODULE PairingHeap -----------------------------
(***************************************************************************)
(* The pairing heap inside Timer_check_queue (sync/timer.hpp), pointer by  *)
(* pointer.  A heap `h' is the record of the fields child, sibling and     *)
(* parent of every Timer_worknode; `expire' is their other field.  The     *)
(* functions of the code that return a root return here the record of the  *)
(* fields they leave and the root.                                         *)
(***************************************************************************)
EXTENDS Integers, FiniteSets

CONSTANTS Timers, Nil

Links == [Timers -> Timers \cup {Nil}]
Heaps == [child : Links, sibling : Links, parent : Links]

Unlinked == [t \in Timers |-> Nil]

EmptyHeap == [child |-> Unlinked, sibling |-> Unlinked, parent |-> Unlinked]

SetParent(h, t, p) == IF t = Nil THEN h ELSE [h EXCEPT !.parent[t] = p]

(* All links of a node become null.                                         *)
ClearLinks(h, t) ==
    [h EXCEPT !.child[t] = Nil, !.sibling[t] = Nil, !.parent[t] = Nil]

(* b becomes the first child of a.                                          *)
AddChild(h, a, b) ==
    [h EXCEPT !.sibling[b] = h.child[a], !.child[a] = b, !.parent[b] = a]

heap_meld(h, expire, a, b) ==
    CASE a = Nil -> [h |-> h, root |-> b]
      [] a # Nil /\ b = Nil -> [h |-> h, root |-> a]
      [] a # Nil /\ b # Nil /\ expire[a] <= expire[b] ->
            [h |-> AddChild(h, a, b), root |-> a]
      [] OTHER -> [h |-> AddChild(h, b, a), root |-> b]

(* One call of two_pass_merge; Rest makes the recursive one.  In which      *)
(* order its last line makes its two calls is open, and all one: they touch *)
(* different nodes.                                                         *)
MergeStep(Rest, expire, h, node) ==
    IF node = Nil \/ h.sibling[node] = Nil
      THEN [h |-> h, root |-> node]
      ELSE LET a    == node
               b    == h.sibling[a]
               rest == h.sibling[b]
               cut  == [h EXCEPT !.sibling[a] = Nil, !.sibling[b] = Nil,
                                 !.parent[a] = Nil, !.parent[b] = Nil]
               pair == heap_meld(cut, expire, a, b)
               tail == Rest[pair.h][rest]
           IN  heap_meld(tail.h, expire, pair.root, tail.root)

(* The calls nest no deeper than there are nodes.                           *)
two_pass_merge(h, expire, node) ==
    LET Merge[depth \in 0 .. Cardinality(Timers)] ==
            [g \in Heaps |-> [x \in Timers \cup {Nil} |->
                IF depth = 0
                  THEN [h |-> g, root |-> x]
                  ELSE MergeStep(Merge[depth - 1], expire, g, x)]]
    IN  Merge[Cardinality(Timers)][h][node]

(* Variant with a fault: the new root keeps the parent it had.              *)
delete_min_keeps_parent(h, expire, root) ==
    two_pass_merge(h, expire, h.child[root])

delete_min(h, expire, root) ==
    LET merged == two_pass_merge(h, expire, h.child[root])
    IN  [merged EXCEPT !.h = SetParent(merged.h, merged.root, Nil)]

(* The child list of p without node.                                        *)
DetachFromParent(h, node) ==
    LET p        == h.parent[node]
        previous == { t \in Timers : h.sibling[t] = node /\ h.parent[t] = p }
    IN  CASE p = Nil -> h
          [] p # Nil /\ h.child[p] = node ->
                [h EXCEPT !.child[p] = h.sibling[node]]
          [] OTHER ->
                [h EXCEPT !.sibling = [t \in Timers |->
                    IF t \in previous THEN h.sibling[node] ELSE h.sibling[t]]]

(* Variant with a fault: the children of the removed node are forgotten.    *)
heap_remove_drops_children(h, expire, root, node) ==
    IF node = root
      THEN delete_min(h, expire, root)
      ELSE [h |-> DetachFromParent(h, node), root |-> root]

(* The body of cancel(): the root is deleted; another node is taken out of  *)
(* its parent's list and its children, merged, join the heap at the root.   *)
heap_remove(h, expire, root, node) ==
    IF node = root
      THEN delete_min(h, expire, root)
      ELSE LET cut    == DetachFromParent(h, node)
               merged == two_pass_merge(cut, expire, cut.child[node])
               joined == heap_meld(SetParent(merged.h, merged.root, Nil), expire,
                                   root, merged.root)
           IN  IF cut.child[node] = Nil
                 THEN [h |-> cut, root |-> root]
                 ELSE [joined EXCEPT !.h = SetParent(joined.h, joined.root, Nil)]

-----------------------------------------------------------------------------
(* What the links mean.                                                    *)

(* No link leads out of S.                                                  *)
Closed(h, S) == \A t \in S : {h.child[t], h.sibling[t]} \subseteq S \cup {Nil}

(* The nodes that can be reached from the root along child and sibling.     *)
Reached(h, root) ==
    { t \in Timers : \A S \in SUBSET Timers :
                        {root} \ {Nil} \subseteq S /\ Closed(h, S) => t \in S }

(* The links form a tree in heap order: a child's parent is the node that   *)
(* has it as child, siblings have the same parent, no two links lead to the *)
(* same node, and a node expires no earlier than its parent.                *)
WellFormed(h, expire, root) ==
    LET in == Reached(h, root)
    IN  /\ root # Nil => h.parent[root] = Nil /\ h.sibling[root] = Nil
        /\ \A t \in in \ {root} :
              h.parent[t] \in in /\ expire[h.parent[t]] <= expire[t]
        /\ \A t \in in :
              /\ h.child[t] # Nil => h.parent[h.child[t]] = t
              /\ h.sibling[t] # Nil => h.parent[h.sibling[t]] = h.parent[t]
        /\ \A s, t \in in :
              /\ h.sibling[s] # Nil /\ h.sibling[s] = h.sibling[t] => s = t
              /\ h.child[s] # Nil => h.child[s] # h.sibling[t]
=============================================================================
