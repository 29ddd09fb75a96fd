----------------------------- MODULE TimerProofs -----------------------------
(* Proofs about the timer queue: the pairing heap, whatever is armed,       *)
(* cancelled and fired, is a heap of exactly the armed timers, and with the *)
(* run queue it implements the set of deadlines of TimerSet.  The first     *)
(* part is about heaps, the second about the specification.                 *)
EXTENDS TimerQueue, WorkQueueProofs, FiniteSetTheorems

-----------------------------------------------------------------------------
(* Lists of heaps.                                                         *)

(* S is no more than what can be reached from x.                            *)
Least(h, S, x) ==
    \A X \in SUBSET S : {x} \ {Nil} \subseteq X /\ Closed(h, X) => S \subseteq X

(* Links and parents agree, and a node inside expires after its parent.     *)
Ordered(h, e, S, x, p) ==
    /\ x # Nil => h.parent[x] = p
    /\ \A t \in S : h.parent[t] = p \/ (h.parent[t] \in S /\ e[h.parent[t]] <= e[t])
    /\ \A t \in S : h.child[t] # Nil => h.parent[h.child[t]] = t
    /\ \A t \in S : h.sibling[t] # Nil => h.parent[h.sibling[t]] = h.parent[t]

(* At most one link leads to a node, and none to x.                         *)
Single(h, S, x) ==
    /\ \A t \in S : h.sibling[t] # Nil => h.sibling[t] # x
    /\ \A s, t \in S : h.sibling[s] # Nil /\ h.sibling[s] = h.sibling[t] => s = t
    /\ \A s, t \in S : h.child[s] # Nil => h.child[s] # h.sibling[t]

(* x is the head of a list of siblings with the parent p, and S the nodes   *)
(* of the heaps whose roots they are.                                       *)
ListOf(h, e, S, x, p) ==
    /\ S \subseteq Timers
    /\ x \in S \/ (x = Nil /\ S = {})
    /\ p \in (Timers \cup {Nil}) \ S
    /\ Closed(h, S) /\ Least(h, S, x)
    /\ Ordered(h, e, S, x, p)
    /\ Single(h, S, x)

(* A heap with the root x: a list of one.                                   *)
TreeOf(h, e, S, x, p) == ListOf(h, e, S, x, p) /\ x # Nil /\ h.sibling[x] = Nil

(* The same links at the nodes of S.                                        *)
Agree(g, h, S) ==
    \A t \in S : /\ g.child[t] = h.child[t]
                 /\ g.sibling[t] = h.sibling[t]
                 /\ g.parent[t] = h.parent[t]

NodeOrNil == Timers \cup {Nil}

LEMMA NilIsNone == Nil \notin Timers
  BY TimerAssumption

(* The fields of a heap.                                                    *)
LEMMA HeapFields ==
    ASSUME NEW h \in Heaps
    PROVE  /\ h.child \in [Timers -> NodeOrNil]
           /\ h.sibling \in [Timers -> NodeOrNil]
           /\ h.parent \in [Timers -> NodeOrNil]
           /\ \A t \in Timers : /\ h.child[t] \in NodeOrNil /\ h.sibling[t] \in NodeOrNil
                                /\ h.parent[t] \in NodeOrNil
  BY DEF Heaps, Links, NodeOrNil

(* What holds at x and is passed on by the links holds for all of S.        *)
LEMMA Spreads ==
    ASSUME NEW h, NEW S, NEW x, Least(h, S, x), NEW X, X \subseteq S,
           x # Nil => x \in X,
           \A t \in X : h.child[t] # Nil => h.child[t] \in X,
           \A t \in X : h.sibling[t] # Nil => h.sibling[t] \in X
    PROVE  X = S
  <1>1. Closed(h, X)
    BY DEF Closed
  <1>2. S \subseteq X
    BY <1>1 DEF Least
  <1> QED  BY <1>2

(* Links stay inside.                                                       *)
LEMMA LinksInside ==
    ASSUME NEW h, NEW S, Closed(h, S), NEW t \in S
    PROVE  /\ h.child[t] # Nil => h.child[t] \in S
           /\ h.sibling[t] # Nil => h.sibling[t] \in S
  BY DEF Closed

(* No link leads to the head.                                               *)
LEMMA NoneToHead ==
    ASSUME NEW h, NEW e, NEW S, NEW x, NEW p, ListOf(h, e, S, x, p), x # Nil, NEW t \in S
    PROVE  h.child[t] # x /\ h.sibling[t] # x
  <1>1. h.parent[x] = p /\ p \notin S
    BY DEF ListOf, Ordered
  <1>2. h.child[t] = x => h.parent[x] = t
    BY DEF ListOf, Ordered
  <1>3. h.sibling[t] # x
    BY DEF ListOf, Single
  <1> QED  BY <1>1, <1>2, <1>3

Leads(h, s, t) == h.child[s] = t \/ h.sibling[s] = t

(* Every node but the head has a link to it.                                *)
LEMMA HasPredecessor ==
    ASSUME NEW h, NEW e, NEW S, NEW x, NEW p, ListOf(h, e, S, x, p), NEW y \in S, y # x
    PROVE  \E s \in S : Leads(h, s, y)
  <1>1. SUFFICES ASSUME \A s \in S : ~ Leads(h, s, y) PROVE FALSE
    OBVIOUS
  <1> DEFINE X == S \ {y}
  <1>2. /\ Least(h, S, x) /\ Closed(h, S) /\ (x # Nil => x \in S)
    BY DEF ListOf
  <1>3. \A t \in X : /\ h.child[t] # Nil => h.child[t] \in X
                     /\ h.sibling[t] # Nil => h.sibling[t] \in X
    BY <1>1, <1>2, LinksInside DEF Leads
  <1>4. X \subseteq S /\ (x # Nil => x \in X)
    BY <1>2
  <1> HIDE DEF X
  <1>5. X = S
    BY <1>2, <1>3, <1>4, Spreads
  <1> QED  BY <1>5 DEF X

(* And only one.                                                            *)
LEMMA OnePredecessor ==
    ASSUME NEW h, NEW e, NEW S, NEW x, NEW p, ListOf(h, e, S, x, p), NEW y \in S,
           NEW s \in S, NEW t \in S, Leads(h, s, y), Leads(h, t, y)
    PROVE  s = t
  <1>1. y # Nil
    BY NilIsNone DEF ListOf
  <1>2. CASE h.child[s] = y /\ h.child[t] = y
    BY <1>1, <1>2 DEF ListOf, Ordered
  <1>3. CASE h.sibling[s] = y /\ h.sibling[t] = y
    BY <1>1, <1>3 DEF ListOf, Single
  <1>4. CASE h.child[s] = y /\ h.sibling[t] = y
    BY <1>1, <1>4 DEF ListOf, Single
  <1>5. CASE h.sibling[s] = y /\ h.child[t] = y
    BY <1>1, <1>5 DEF ListOf, Single
  <1> QED  BY <1>2, <1>3, <1>4, <1>5 DEF Leads

(* A list does not change with what lies outside.                           *)
LEMMA ListFrame ==
    ASSUME NEW h, NEW e, NEW S, NEW x, NEW p, ListOf(h, e, S, x, p),
           NEW g, Agree(g, h, S), NEW f, \A t \in S : f[t] = e[t]
    PROVE  ListOf(g, f, S, x, p)
  <1>1. Closed(g, S)
    BY DEF ListOf, Closed, Agree
  <1>2. Least(g, S, x)
    <2>1. SUFFICES ASSUME NEW X \in SUBSET S, {x} \ {Nil} \subseteq X, Closed(g, X)
                   PROVE  S \subseteq X
      BY DEF Least
    <2>2. Closed(h, X)
      BY <2>1 DEF Closed, Agree
    <2> QED  BY <2>1, <2>2 DEF ListOf, Least
  <1>3. Ordered(g, f, S, x, p)
    <2>1. \A t \in S : (g.child[t] # Nil => g.child[t] \in S) /\ (g.sibling[t] # Nil => g.sibling[t] \in S)
      BY <1>1, LinksInside
    <2>2. x # Nil => x \in S
      BY DEF ListOf
    <2> QED  BY <2>1, <2>2 DEF ListOf, Ordered, Agree
  <1>4. Single(g, S, x)
    BY DEF ListOf, Single, Agree
  <1> QED  BY <1>1, <1>2, <1>3, <1>4 DEF ListOf

-----------------------------------------------------------------------------
(* The parts of a list.                                                    *)

(* What can be reached from y.                                              *)
From(h, S, y) ==
    { t \in S : \A X \in SUBSET S : {y} \ {Nil} \subseteq X /\ Closed(h, X) => t \in X }

LEMMA FromFacts ==
    ASSUME NEW h, NEW S, S \subseteq Timers, Closed(h, S), NEW y \in S \cup {Nil}
    PROVE  LET C == From(h, S, y)
           IN  /\ C \subseteq S
               /\ y \in C \/ (y = Nil /\ C = {})
               /\ Closed(h, C) /\ Least(h, C, y)
  <1> DEFINE C == From(h, S, y)
  <1>1. C \subseteq S
    BY DEF From
  <1>2. y # Nil => y \in C
    BY DEF From
  <1>3. y = Nil => C = {}
    <2>1. Closed(h, {})
      BY DEF Closed
    <2> QED  BY <2>1 DEF From
  <1>4. Closed(h, C)
    <2>1. SUFFICES ASSUME NEW t \in C, NEW u \in {h.child[t], h.sibling[t]}, u # Nil
                   PROVE  u \in C
      BY DEF Closed
    <2>2. u \in S
      BY <1>1, <2>1 DEF Closed
    <2>3. ASSUME NEW X \in SUBSET S, {y} \ {Nil} \subseteq X, Closed(h, X)
          PROVE  u \in X
      <3>1. t \in X
        BY <2>1, <2>3 DEF From
      <3> QED  BY <2>1, <2>3, <3>1 DEF Closed
    <2> QED  BY <2>2, <2>3 DEF From
  <1>5. Least(h, C, y)
    <2>1. SUFFICES ASSUME NEW X \in SUBSET C, {y} \ {Nil} \subseteq X, Closed(h, X)
                   PROVE  C \subseteq X
      BY DEF Least
    <2>2. X \in SUBSET S
      BY <1>1
    <2> QED  BY <2>1, <2>2 DEF From
  <1> QED  BY <1>1, <1>2, <1>3, <1>4, <1>5

(* The heaps below a node.                                                  *)
Below(h, S, n) == From(h, S, h.child[n])

LEMMA BelowFacts ==
    ASSUME NEW h, NEW e, NEW S, NEW x, NEW p, ListOf(h, e, S, x, p), NEW n \in S
    PROVE  LET C == Below(h, S, n)
           IN  /\ C \subseteq S
               /\ h.child[n] \in C \/ (h.child[n] = Nil /\ C = {})
               /\ Closed(h, C) /\ Least(h, C, h.child[n])
  <1>1. S \subseteq Timers /\ Closed(h, S) /\ h.child[n] \in S \cup {Nil}
    BY DEF ListOf, Closed
  <1> QED  BY <1>1, FromFacts DEF Below

(* Links into the heaps below n come from there and from n.                 *)
LEMMA IntoBelow ==
    ASSUME NEW h, NEW e, NEW S, NEW x, NEW p, ListOf(h, e, S, x, p), NEW n \in S,
           NEW s \in S, NEW t \in Below(h, S, n), Leads(h, s, t)
    PROVE  s = n \/ s \in Below(h, S, n)
  <1> DEFINE C == Below(h, S, n)
  <1>1. /\ C \subseteq S /\ (h.child[n] \in C \/ C = {})
        /\ Closed(h, C) /\ Least(h, C, h.child[n])
    BY BelowFacts
  <1>2. CASE t = h.child[n]
    <2>1. Leads(h, n, t)
      BY <1>2 DEF Leads
    <2>2. t \in S
      BY <1>1
    <2> QED  BY <2>1, <2>2, OnePredecessor
  <1>3. CASE t # h.child[n]
    <2>1. SUFFICES ASSUME s \notin C PROVE FALSE
      OBVIOUS
    <2> DEFINE X == C \ {t}
    <2>2. ASSUME NEW u \in X
          PROVE  ~ Leads(h, u, t)
      BY <1>1, <2>1, OnePredecessor
    <2>3. \A u \in X : (h.child[u] # Nil => h.child[u] \in X) /\ (h.sibling[u] # Nil => h.sibling[u] \in X)
      BY <1>1, <2>2, LinksInside DEF Leads
    <2>4. X \subseteq C /\ (h.child[n] # Nil => h.child[n] \in X)
      BY <1>1, <1>3
    <2> HIDE DEF X
    <2>5. CASE ~ Leads(h, t, t)
      <3>1. X = C
        BY <1>1, <2>3, <2>4, Spreads
      <3> QED  BY <3>1 DEF X
    <2>6. CASE Leads(h, t, t)
      <3>1. t \in S /\ s = t
        BY <1>1, <2>6, OnePredecessor
      <3> QED  BY <2>1, <3>1
    <2> QED  BY <2>5, <2>6
  <1> QED  BY <1>2, <1>3

(* A node is not below itself, nor is the head, and the list of its         *)
(* siblings goes on elsewhere.                                              *)
LEMMA NotBelowItself ==
    ASSUME NEW h, NEW e, NEW S, NEW x, NEW p, ListOf(h, e, S, x, p), NEW n \in S
    PROVE  /\ n \notin Below(h, S, n) /\ x \notin Below(h, S, n)
           /\ h.sibling[n] \notin Below(h, S, n)
  <1> DEFINE C == Below(h, S, n)
  <1>1. /\ C \subseteq S /\ (h.child[n] \in C \/ (h.child[n] = Nil /\ C = {}))
        /\ Closed(h, C) /\ Least(h, C, h.child[n])
    BY BelowFacts
  <1>2. /\ Closed(h, S) /\ Least(h, S, x) /\ x # Nil /\ x \in S /\ S \subseteq Timers
    BY NilIsNone DEF ListOf
  <1>3. x \notin C
    <2>1. SUFFICES ASSUME x \in C PROVE FALSE
      OBVIOUS
    <2>2. x # h.child[n]
      BY <1>2, NoneToHead
    <2> DEFINE X == C \ {x}
    <2>3. \A u \in X : (h.child[u] # Nil => h.child[u] \in X) /\ (h.sibling[u] # Nil => h.sibling[u] \in X)
      BY <1>1, <1>2, LinksInside, NoneToHead
    <2>4. X \subseteq C /\ (h.child[n] # Nil => h.child[n] \in X)
      BY <1>1, <2>2
    <2> HIDE DEF X
    <2>5. X = C
      BY <1>1, <2>3, <2>4, Spreads
    <2> QED  BY <2>1, <2>5 DEF X
  <1>4. n \notin C
    <2>1. SUFFICES ASSUME n \in C PROVE FALSE
      OBVIOUS
    <2> DEFINE X == S \ C
    <2>2. ASSUME NEW u \in X, NEW t \in C PROVE ~ Leads(h, u, t)
      BY <2>1, <2>2, IntoBelow
    <2>3. \A u \in X : (h.child[u] # Nil => h.child[u] \in X) /\ (h.sibling[u] # Nil => h.sibling[u] \in X)
      BY <1>2, <2>2, LinksInside DEF Leads
    <2>4. X \subseteq S /\ x \in X
      BY <1>2, <1>3
    <2> HIDE DEF X
    <2>5. X = S
      BY <1>2, <2>3, <2>4, Spreads
    <2> QED  BY <2>1, <2>5 DEF X
  <1>5. h.sibling[n] \notin C
    <2>1. SUFFICES ASSUME h.sibling[n] \in C PROVE FALSE
      OBVIOUS
    <2> DEFINE y == h.sibling[n]
    <2>2. y \in S /\ y # Nil /\ Leads(h, n, y)
      BY <1>1, <1>2, <2>1, NilIsNone DEF Leads
    <2>3. y # h.child[n]
      BY <2>2 DEF ListOf, Single
    <2> DEFINE X == C \ {y}
    <2>4. ASSUME NEW u \in C PROVE ~ Leads(h, u, y)
      BY <1>1, <1>4, <2>2, OnePredecessor
    <2>5. \A u \in X : (h.child[u] # Nil => h.child[u] \in X) /\ (h.sibling[u] # Nil => h.sibling[u] \in X)
      BY <1>1, <2>4, LinksInside DEF Leads
    <2>6. X \subseteq C /\ (h.child[n] # Nil => h.child[n] \in X)
      BY <1>1, <2>3
    <2> HIDE DEF X
    <2>7. X = C
      BY <1>1, <2>5, <2>6, Spreads
    <2> QED  BY <2>1, <2>7 DEF X
  <1> QED  BY <1>3, <1>4, <1>5

(* The parents of the nodes below n are below n or n, and of no others.     *)
LEMMA ParentsBelow ==
    ASSUME NEW h, NEW e, NEW S, NEW x, NEW p, ListOf(h, e, S, x, p), NEW n \in S, NEW t \in S
    PROVE  t \in Below(h, S, n) <=> h.parent[t] \in Below(h, S, n) \cup {n}
  <1> DEFINE C == Below(h, S, n)
             D == C \cup {n}
  <1>1. /\ C \subseteq S /\ (h.child[n] \in C \/ (h.child[n] = Nil /\ C = {}))
        /\ Closed(h, C) /\ Least(h, C, h.child[n])
    BY BelowFacts
  <1>2. /\ Closed(h, S) /\ Least(h, S, x) /\ Ordered(h, e, S, x, p) /\ p \notin S /\ x # Nil /\ x \in S
    BY NilIsNone DEF ListOf
  <1>3. \A u \in C : h.parent[u] \in D
    <2> DEFINE X == { u \in C : h.parent[u] \in D }
    <2>1. \A u \in X : (h.child[u] # Nil => h.child[u] \in X) /\ (h.sibling[u] # Nil => h.sibling[u] \in X)
      BY <1>1, <1>2, LinksInside DEF Ordered
    <2>2. X \subseteq C /\ (h.child[n] # Nil => h.child[n] \in X)
      BY <1>1, <1>2 DEF Ordered
    <2> HIDE DEF X
    <2>3. X = C
      BY <1>1, <2>1, <2>2, Spreads
    <2> QED  BY <2>3 DEF X
  <1>4. \A u \in S : h.parent[u] \in D => u \in C
    <2> DEFINE X == { u \in S : h.parent[u] \in D => u \in C }
    <2>1. ASSUME NEW u \in X, h.child[u] # Nil PROVE h.child[u] \in X
      <3>1. h.child[u] \in S /\ h.parent[h.child[u]] = u
        BY <1>2, <2>1, LinksInside DEF Ordered
      <3>2. u \in D => h.child[u] \in C
        BY <1>1, <2>1, LinksInside
      <3> QED  BY <3>1, <3>2
    <2>2. ASSUME NEW u \in X, h.sibling[u] # Nil PROVE h.sibling[u] \in X
      <3>1. h.sibling[u] \in S /\ h.parent[h.sibling[u]] = h.parent[u]
        BY <1>2, <2>2, LinksInside DEF Ordered
      <3>2. u \in C => h.sibling[u] \in C
        BY <1>1, <2>2, LinksInside
      <3> QED  BY <3>1, <3>2
    <2>3. X \subseteq S /\ x \in X
      BY <1>1, <1>2 DEF Ordered
    <2> HIDE DEF X
    <2>4. X = S
      BY <1>2, <2>1, <2>2, <2>3, Spreads
    <2> QED  BY <2>4 DEF X
  <1> QED  BY <1>3, <1>4

(* The children of a node are a list.                                       *)
LEMMA ChildList ==
    ASSUME NEW h, NEW e, NEW S, NEW x, NEW p, ListOf(h, e, S, x, p), NEW n \in S
    PROVE  ListOf(h, e, Below(h, S, n), h.child[n], n)
  <1> DEFINE C == Below(h, S, n)
             y == h.child[n]
  <1>1. /\ C \subseteq S /\ (y \in C \/ (y = Nil /\ C = {}))
        /\ Closed(h, C) /\ Least(h, C, y)
    BY BelowFacts
  <1>2. /\ S \subseteq Timers /\ Ordered(h, e, S, x, p) /\ Single(h, S, x) /\ n \notin C
    BY NotBelowItself DEF ListOf
  <1>3. Ordered(h, e, C, y, n)
    <2>1. ASSUME NEW t \in C
          PROVE  h.parent[t] = n \/ (h.parent[t] \in C /\ e[h.parent[t]] <= e[t])
      <3>1. t \in S /\ h.parent[t] \in C \cup {n}
        BY <1>1, ParentsBelow
      <3>2. h.parent[t] # p
        BY <1>1, <3>1 DEF ListOf
      <3> QED  BY <1>2, <3>1, <3>2 DEF Ordered
    <2>2. y # Nil => h.parent[y] = n
      BY <1>2 DEF Ordered
    <2> QED  BY <1>1, <1>2, <2>1, <2>2 DEF Ordered
  <1>4. Single(h, C, y)
    BY <1>1, <1>2 DEF Single
  <1> QED  BY <1>1, <1>2, <1>3, <1>4 DEF ListOf

(* The heap of a node, by itself.                                           *)
HeapAt(h, S, n) == {n} \cup Below(h, S, n)

(* The head of a list, cut off, is the root of a heap.                      *)
LEMMA HeadTree ==
    ASSUME NEW h, NEW e, NEW S, NEW x, NEW p, ListOf(h, e, S, x, p), x # Nil,
           NEW g, Agree(g, h, Below(h, S, x)),
           g.child[x] = h.child[x], g.sibling[x] = Nil,
           NEW q, g.parent[x] = q, q \in (Timers \cup {Nil}) \ HeapAt(h, S, x)
    PROVE  TreeOf(g, e, HeapAt(h, S, x), x, q)
  <1> DEFINE C == Below(h, S, x)
             D == HeapAt(h, S, x)
             y == h.child[x]
  <1>1. x \in S /\ S \subseteq Timers /\ Ordered(h, e, S, x, p) /\ Single(h, S, x)
    BY DEF ListOf
  <1>2. /\ C \subseteq S /\ (y \in C \/ (y = Nil /\ C = {}))
        /\ Closed(h, C) /\ Least(h, C, y) /\ x \notin C /\ D = {x} \cup C
    BY <1>1, BelowFacts, NotBelowItself DEF HeapAt
  <1> HIDE DEF C, D, y
  <1>3. /\ g.child[x] = y /\ g.sibling[x] = Nil
        /\ \A t \in C : g.child[t] = h.child[t] /\ g.sibling[t] = h.sibling[t] /\ g.parent[t] = h.parent[t]
    BY DEF Agree, C, y
  <1>4. Closed(g, D)
    BY <1>2, <1>3 DEF Closed
  <1>5. Least(g, D, x)
    <2>1. SUFFICES ASSUME NEW X \in SUBSET D, {x} \ {Nil} \subseteq X, Closed(g, X)
                   PROVE  D \subseteq X
      BY DEF Least
    <2> DEFINE Y == X \cap C
    <2>2. x \in X
      BY <2>1
    <2>3. Y \subseteq C /\ (y # Nil => y \in Y)
      BY <1>2, <1>3, <2>1, <2>2 DEF Closed
    <2>4. \A u \in Y : (h.child[u] # Nil => h.child[u] \in Y) /\ (h.sibling[u] # Nil => h.sibling[u] \in Y)
      BY <1>2, <1>3, <2>1 DEF Closed
    <2> HIDE DEF Y
    <2>5. Y = C
      BY <1>2, <2>3, <2>4, Spreads
    <2> QED  BY <1>2, <2>2, <2>5 DEF Y
  <1>6. Ordered(g, e, D, x, q)
    <2>1. ASSUME NEW t \in C
          PROVE  h.parent[t] \in D /\ e[h.parent[t]] <= e[t]
      <3>1. t \in S /\ h.parent[t] \in D /\ h.parent[t] \in S /\ h.parent[t] # p
        BY <1>1, <1>2, ParentsBelow DEF C, ListOf
      <3> QED  BY <1>1, <3>1 DEF Ordered
    <2>2. \A t \in C : (h.child[t] # Nil => h.child[t] \in C) /\ (h.sibling[t] # Nil => h.sibling[t] \in C)
      BY <1>2, LinksInside
    <2>3. y # Nil => g.parent[y] = x
      BY <1>1, <1>2, <1>3 DEF Ordered, y
    <2>4. \A t \in C : (h.child[t] # Nil => h.parent[h.child[t]] = t)
                    /\ (h.sibling[t] # Nil => h.parent[h.sibling[t]] = h.parent[t])
      BY <1>1, <1>2 DEF Ordered
    <2>5. \A t \in D : t = x \/ t \in C
      BY <1>2
    <2> QED  BY <1>3, <2>1, <2>2, <2>3, <2>4, <2>5 DEF Ordered
  <1>7. Single(g, D, x)
    <2>1. \A t \in C : h.sibling[t] # x /\ (y # Nil => y # h.sibling[t])
      BY <1>1, <1>2, NoneToHead DEF Single, y
    <2>2. \A s, t \in C : /\ h.sibling[s] # Nil /\ h.sibling[s] = h.sibling[t] => s = t
                          /\ h.child[s] # Nil => h.child[s] # h.sibling[t]
      BY <1>1, <1>2 DEF Single
    <2>3. \A t \in D : t = x \/ t \in C
      BY <1>2
    <2> QED  BY <1>3, <2>1, <2>2, <2>3 DEF Single
  <1>8. D \subseteq Timers /\ x \in D
    BY <1>1, <1>2
  <1> QED  BY <1>3, <1>4, <1>5, <1>6, <1>7, <1>8 DEF ListOf, TreeOf, D

(* Links into the heap of n, from elsewhere, lead to n.                     *)
LEMMA IntoHeap ==
    ASSUME NEW h, NEW e, NEW S, NEW x, NEW p, ListOf(h, e, S, x, p), NEW n \in S,
           NEW s \in S \ HeapAt(h, S, n), NEW t \in HeapAt(h, S, n), Leads(h, s, t)
    PROVE  t = n
  BY IntoBelow DEF HeapAt

(* The rest of a list.                                                      *)
LEMMA HeadRest ==
    ASSUME NEW h, NEW e, NEW S, NEW x, NEW p, ListOf(h, e, S, x, p), x # Nil
    PROVE  ListOf(h, e, S \ HeapAt(h, S, x), h.sibling[x], p)
  <1> DEFINE C == Below(h, S, x)
             D == HeapAt(h, S, x)
             R == S \ D
             y == h.sibling[x]
  <1>1. /\ x \in S /\ S \subseteq Timers /\ Ordered(h, e, S, x, p) /\ Single(h, S, x)
        /\ Closed(h, S) /\ Least(h, S, x) /\ p \in (Timers \cup {Nil}) \ S
    BY DEF ListOf
  <1>2. /\ C \subseteq S /\ (h.child[x] \in C \/ (h.child[x] = Nil /\ C = {}))
        /\ Closed(h, C) /\ x \notin C /\ D = {x} \cup C /\ y \notin C
    BY <1>1, BelowFacts, NotBelowItself DEF HeapAt
  <1>3. y \in R \cup {Nil}
    BY <1>1, <1>2, NoneToHead DEF Closed
  <1>4. \A s \in R : \A t \in D : ~ Leads(h, s, t)
    BY <1>1, IntoHeap, NoneToHead DEF Leads
  <1>5. Closed(h, R)
    BY <1>1, <1>4 DEF Closed, Leads
  <1>6. ASSUME NEW X \in SUBSET R, {y} \ {Nil} \subseteq X, Closed(h, X)
        PROVE  R \subseteq X
    <2> DEFINE Y == X \cup D
    <2>1. Y \subseteq S /\ x \in Y
      BY <1>1, <1>2
    <2>2. \A u \in Y : (h.child[u] # Nil => h.child[u] \in Y) /\ (h.sibling[u] # Nil => h.sibling[u] \in Y)
      BY <1>2, <1>6 DEF Closed
    <2> HIDE DEF Y
    <2>3. Y = S
      BY <1>1, <2>1, <2>2, Spreads
    <2> QED  BY <2>3 DEF Y
  <1>7. y = Nil => R = {}
    <2>1. Closed(h, {})
      BY DEF Closed
    <2> QED  BY <1>6, <2>1
  <1>8. Ordered(h, e, R, y, p)
    <2>1. ASSUME NEW t \in R
          PROVE  h.parent[t] = p \/ (h.parent[t] \in R /\ e[h.parent[t]] <= e[t])
      <3>1. h.parent[t] \notin D
        BY <1>1, <1>2, ParentsBelow
      <3> QED  BY <1>1, <3>1 DEF Ordered
    <2>2. y # Nil => h.parent[y] = p
      BY <1>1 DEF Ordered
    <2> QED  BY <1>1, <2>1, <2>2 DEF Ordered
  <1>9. Single(h, R, y)
    <2>1. ASSUME NEW t \in R, h.sibling[t] # Nil PROVE h.sibling[t] # y
      BY <1>1, <1>2, <2>1 DEF Single
    <2> QED  BY <1>1, <2>1 DEF Single
  <1> HIDE DEF C, D, y, R
  <1>10. Least(h, R, y)
    BY <1>6 DEF Least
  <1>11. y \in R \/ (y = Nil /\ R = {})
    BY <1>3, <1>7
  <1>12. R \subseteq S
    BY DEF R
  <1> QED  BY <1>1, <1>5, <1>8, <1>9, <1>10, <1>11, <1>12 DEF ListOf, R, D, y

(* g is h with the link to n replaced by a link to its sibling.             *)
Bypass(g, h, S, n) ==
    \A t \in S : /\ g.parent[t] = h.parent[t]
                 /\ g.child[t] = IF h.child[t] = n THEN h.sibling[n] ELSE h.child[t]
                 /\ g.sibling[t] = IF h.sibling[t] = n THEN h.sibling[n] ELSE h.sibling[t]

(* Without a node and what is below it the list is a list.                  *)
LEMMA Detached ==
    ASSUME NEW h, NEW e, NEW S, NEW x, NEW p, ListOf(h, e, S, x, p), NEW n \in S, n # x,
           NEW g, Bypass(g, h, S, n)
    PROVE  /\ ListOf(g, e, S \ HeapAt(h, S, n), x, p)
           /\ Agree(g, h, Below(h, S, n))
  <1> DEFINE C == Below(h, S, n)
             D == HeapAt(h, S, n)
             R == S \ D
             y == h.sibling[n]
  <1>1. /\ x \in S /\ x # Nil /\ n # Nil /\ S \subseteq Timers /\ Ordered(h, e, S, x, p) /\ Single(h, S, x)
        /\ Closed(h, S) /\ Least(h, S, x) /\ p \in (Timers \cup {Nil}) \ S
    BY NilIsNone DEF ListOf
  <1>2. /\ C \subseteq S /\ (h.child[n] \in C \/ (h.child[n] = Nil /\ C = {}))
        /\ Closed(h, C) /\ n \notin C /\ D = {n} \cup C /\ y \notin C /\ x \in R
    BY <1>1, BelowFacts, NotBelowItself DEF HeapAt
  <1>3. PICK u \in S : Leads(h, u, n)
    BY HasPredecessor
  <1>4. u \notin C
    BY <1>1, <1>2, <1>3 DEF Closed, Leads
  <1>5. u # n
    <2>1. SUFFICES ASSUME u = n PROVE FALSE
      OBVIOUS
    <2> DEFINE X == S \ {n}
    <2>2. \A s \in X : ~ Leads(h, s, n)
      BY <1>3, <2>1, OnePredecessor
    <2>3. \A s \in X : (h.child[s] # Nil => h.child[s] \in X) /\ (h.sibling[s] # Nil => h.sibling[s] \in X)
      BY <1>1, <2>2 DEF Closed, Leads
    <2>4. X \subseteq S /\ x \in X
      BY <1>1
    <2> HIDE DEF X
    <2>5. X = S
      BY <1>1, <2>3, <2>4, Spreads
    <2> QED  BY <2>5 DEF X
  <1>6. u \in R
    BY <1>2, <1>4, <1>5
  <1>7. y # n /\ (y # Nil => y \in R)
    <2>1. y # n
      <3>1. y = n => Leads(h, n, n)
        BY DEF Leads
      <3> QED  BY <1>3, <1>5, <3>1, OnePredecessor
    <2> QED  BY <1>1, <1>2, <2>1 DEF Closed
  <1>8. \A s \in R : \A t \in D : Leads(h, s, t) => t = n /\ s = u
    <2>1. \A s \in R : \A t \in D : Leads(h, s, t) => t = n
      BY IntoHeap
    <2> QED  BY <1>3, <2>1, OnePredecessor
  <1>9. Agree(g, h, C)
    <2>1. \A t \in C : ~ Leads(h, t, n)
      BY <1>1, <1>2 DEF Closed, Leads
    <2> QED  BY <1>2, <2>1 DEF Agree, Bypass, Leads
  <1>10. /\ \A t \in R : /\ g.parent[t] = h.parent[t]
                         /\ g.child[t] = IF h.child[t] = n THEN y ELSE h.child[t]
                         /\ g.sibling[t] = IF h.sibling[t] = n THEN y ELSE h.sibling[t]
    BY DEF Bypass
  <1>11. Closed(g, R)
    <2>1. ASSUME NEW t \in R
          PROVE  g.child[t] \in R \cup {Nil} /\ g.sibling[t] \in R \cup {Nil}
      <3>1. h.child[t] = n \/ h.child[t] \in R \cup {Nil}
        BY <1>1, <1>8 DEF Leads, Closed
      <3>2. h.sibling[t] = n \/ h.sibling[t] \in R \cup {Nil}
        BY <1>1, <1>8 DEF Leads, Closed
      <3> QED  BY <1>7, <1>10, <3>1, <3>2
    <2> QED  BY <2>1 DEF Closed
  <1>12. ASSUME NEW X \in SUBSET R, {x} \ {Nil} \subseteq X, Closed(g, X)
         PROVE  R \subseteq X
    <2> DEFINE Y == X \cup { t \in D : u \in X }
    <2>1. Y \subseteq S /\ x \in Y
      BY <1>1, <1>2, <1>12
    <2>2. ASSUME NEW t \in X
          PROVE  (h.child[t] # Nil => h.child[t] \in Y) /\ (h.sibling[t] # Nil => h.sibling[t] \in Y)
      <3>1. t = u \/ ~ Leads(h, t, n)
        BY <1>2, <1>8
      <3>2. n \in D
        BY <1>2
      <3>3. ~ Leads(h, t, n) => g.child[t] = h.child[t] /\ g.sibling[t] = h.sibling[t]
        BY <1>10 DEF Leads
      <3>4. (g.child[t] # Nil => g.child[t] \in X) /\ (g.sibling[t] # Nil => g.sibling[t] \in X)
        BY <1>12 DEF Closed
      <3>5. CASE t = u
        BY <1>10, <3>2, <3>4, <3>5
      <3> QED  BY <3>1, <3>3, <3>4, <3>5
    <2>3. ASSUME u \in X
          PROVE  y # Nil => y \in Y
      <3>1. g.child[u] = y \/ g.sibling[u] = y
        BY <1>3, <1>6, <1>10 DEF Leads
      <3> QED  BY <1>12, <2>3, <3>1 DEF Closed
    <2>4. ASSUME NEW t \in D, u \in X
          PROVE  (h.child[t] # Nil => h.child[t] \in Y) /\ (h.sibling[t] # Nil => h.sibling[t] \in Y)
      <3>1. CASE t = n
        BY <1>2, <2>3, <2>4, <3>1
      <3>2. CASE t \in C
        BY <1>2, <2>4, <3>2 DEF Closed
      <3> QED  BY <1>2, <3>1, <3>2
    <2>5. \A t \in Y : (h.child[t] # Nil => h.child[t] \in Y) /\ (h.sibling[t] # Nil => h.sibling[t] \in Y)
      BY <2>2, <2>4
    <2> HIDE DEF Y
    <2>6. Y = S
      BY <1>1, <2>1, <2>5, Spreads
    <2> QED  BY <2>6 DEF Y
  <1>13. Ordered(g, e, R, x, p)
    <2>1. ASSUME NEW t \in R
          PROVE  h.parent[t] = p \/ (h.parent[t] \in R /\ e[h.parent[t]] <= e[t])
      <3>1. h.parent[t] \notin D
        BY <1>1, <1>2, ParentsBelow
      <3> QED  BY <1>1, <3>1 DEF Ordered
    <2>2. ASSUME NEW t \in R, g.child[t] # Nil
          PROVE  g.parent[g.child[t]] = t
      <3>1. h.parent[g.child[t]] = t
        BY <1>1, <1>10, <2>2 DEF Ordered
      <3> QED  BY <1>10, <1>11, <2>2, <3>1 DEF Closed
    <2>3. ASSUME NEW t \in R, g.sibling[t] # Nil
          PROVE  g.parent[g.sibling[t]] = g.parent[t]
      <3>1. h.parent[g.sibling[t]] = h.parent[t]
        BY <1>1, <1>10, <2>3 DEF Ordered
      <3> QED  BY <1>10, <1>11, <2>3, <3>1 DEF Closed
    <2>4. h.parent[x] = p
      BY <1>1 DEF Ordered
    <2> QED  BY <1>2, <1>10, <2>1, <2>2, <2>3, <2>4 DEF Ordered
  <1>14. Single(g, R, x)
    <2>1. ASSUME NEW s \in S, NEW t \in S, NEW v, v # Nil, Leads(h, s, v), Leads(h, t, v)
          PROVE  s = t
      <3>1. v \in S
        BY <1>1, <2>1 DEF Closed, Leads
      <3> QED  BY <2>1, <3>1, OnePredecessor
    <2>2. ASSUME NEW t \in R, NEW v, v # Nil, Leads(g, t, v)
          PROVE  Leads(h, t, v) \/ (v = y /\ t = u)
      <3>1. n \in D
        BY <1>2
      <3> QED  BY <1>8, <1>10, <2>2, <3>1 DEF Leads
    <2>3. ASSUME NEW t \in R, g.sibling[t] # Nil PROVE g.sibling[t] # x
      <3>1. y # x
        BY <1>1, NoneToHead
      <3>2. h.sibling[t] # x
        BY <1>1, NoneToHead
      <3> QED  BY <1>10, <3>1, <3>2
    <2>4. Leads(h, n, y) /\ n \notin R /\ \A t \in R : ~ (Leads(h, t, y) /\ y # Nil)
      <3>1. Leads(h, n, y) /\ n \notin R
        BY <1>2 DEF Leads
      <3> QED  BY <2>1, <3>1
    <2>5. ASSUME NEW s \in R, NEW t \in R, g.sibling[s] # Nil, g.sibling[s] = g.sibling[t] PROVE s = t
      <3> DEFINE v == g.sibling[s]
      <3>1. v # Nil /\ Leads(g, s, v) /\ Leads(g, t, v)
        BY <2>5 DEF Leads
      <3> HIDE DEF v
      <3>2. (Leads(h, s, v) \/ (v = y /\ s = u)) /\ (Leads(h, t, v) \/ (v = y /\ t = u))
        BY <2>2, <3>1
      <3> QED  BY <2>1, <2>4, <3>1, <3>2
    <2>6. ASSUME NEW s \in R, NEW t \in R, g.child[s] # Nil PROVE g.child[s] # g.sibling[t]
      <3>1. SUFFICES ASSUME g.child[s] = g.sibling[t] PROVE FALSE
        OBVIOUS
      <3> DEFINE v == g.child[s]
      <3>2. v # Nil /\ Leads(g, s, v) /\ Leads(g, t, v)
        BY <2>6, <3>1 DEF Leads
      <3> HIDE DEF v
      <3>3. (Leads(h, s, v) \/ (v = y /\ s = u)) /\ (Leads(h, t, v) \/ (v = y /\ t = u))
        BY <2>2, <3>2
      <3>4. s = t
        BY <2>1, <2>4, <3>2, <3>3
      <3>5. g.child[s] = v /\ g.sibling[s] = v
        BY <3>1, <3>4 DEF v
      <3>6. CASE v = y
        <4>1. ~ Leads(h, s, v)
          BY <2>4, <3>2, <3>6
        <4>2. h.child[s] = n /\ h.sibling[s] = n
          BY <1>10, <3>5, <4>1 DEF Leads
        <4>3. n # Nil
          BY <1>1, NilIsNone
        <4> QED  BY <1>1, <4>2, <4>3 DEF Single
      <3>7. CASE v # y
        <4>1. h.child[s] = v /\ h.sibling[s] = v
          BY <1>10, <3>5, <3>7
        <4> QED  BY <1>1, <3>2, <4>1 DEF Single
      <3> QED  BY <3>6, <3>7
    <2> QED  BY <2>3, <2>5, <2>6 DEF Single
  <1> HIDE DEF C, D, y, R
  <1>15. Least(g, R, x)
    BY <1>12 DEF Least
  <1>16. R \subseteq S
    BY DEF R
  <1>17. ListOf(g, e, R, x, p)
    BY <1>1, <1>2, <1>11, <1>13, <1>14, <1>15, <1>16 DEF ListOf
  <1> QED  BY <1>9, <1>17 DEF R, D, C

-----------------------------------------------------------------------------
(* The operations on heaps.                                                *)

(* In a heap only the root has no parent inside.                            *)
LEMMA OnlyRoot ==
    ASSUME NEW h, NEW e, NEW S, NEW x, NEW p, TreeOf(h, e, S, x, p), NEW t \in S, t # x
    PROVE  h.parent[t] \in S /\ e[h.parent[t]] <= e[t]
  <1>1. /\ ListOf(h, e, S, x, p) /\ x \in S /\ h.sibling[x] = Nil /\ Ordered(h, e, S, x, p)
        /\ Closed(h, S) /\ Least(h, S, x) /\ p \notin S
    BY DEF TreeOf, ListOf
  <1> DEFINE X == { u \in S : u # x => h.parent[u] # p }
  <1>2. ASSUME NEW u \in X, h.child[u] # Nil PROVE h.child[u] \in X
    <2>1. h.child[u] \in S /\ h.parent[h.child[u]] = u
      BY <1>1, <1>2, LinksInside DEF Ordered
    <2> QED  BY <1>1, <2>1
  <1>3. ASSUME NEW u \in X, h.sibling[u] # Nil PROVE h.sibling[u] \in X
    <2>1. h.sibling[u] \in S /\ h.parent[h.sibling[u]] = h.parent[u]
      BY <1>1, <1>3, LinksInside DEF Ordered
    <2> QED  BY <1>1, <1>3, <2>1
  <1>4. X \subseteq S /\ x \in X
    BY <1>1
  <1> HIDE DEF X
  <1>5. X = S
    BY <1>1, <1>2, <1>3, <1>4, Spreads
  <1>6. h.parent[t] # p
    BY <1>5 DEF X
  <1> QED  BY <1>1, <1>6 DEF Ordered

(* Its root expires first.                                                  *)
LEMMA RootIsFirst ==
    ASSUME NEW h, NEW e \in [Timers -> Int], NEW S, NEW x, NEW p, TreeOf(h, e, S, x, p), NEW t \in S
    PROVE  e[x] <= e[t]
  <1>1. /\ ListOf(h, e, S, x, p) /\ x \in S /\ h.sibling[x] = Nil /\ Ordered(h, e, S, x, p)
        /\ Closed(h, S) /\ Least(h, S, x) /\ p \notin S /\ S \subseteq Timers
    BY DEF TreeOf, ListOf
  <1> DEFINE X == { u \in S : e[x] <= e[u] /\ (u # x => e[x] <= e[h.parent[u]]) }
  <1>2. ASSUME NEW u \in X, h.child[u] # Nil PROVE h.child[u] \in X
    <2>1. h.child[u] \in S /\ h.parent[h.child[u]] = u /\ h.child[u] # x
      BY <1>1, <1>2, LinksInside, NoneToHead DEF Ordered
    <2>2. e[u] <= e[h.child[u]]
      BY <2>1, OnlyRoot
    <2>3. e[x] \in Int /\ e[u] \in Int /\ e[h.child[u]] \in Int /\ e[x] <= e[u]
      BY <1>1, <2>1
    <2> QED  BY <2>1, <2>2, <2>3
  <1>3. ASSUME NEW u \in X, h.sibling[u] # Nil PROVE h.sibling[u] \in X
    <2> DEFINE v == h.sibling[u]
    <2>1. v \in S /\ h.parent[v] = h.parent[u] /\ u # x /\ v # x
      BY <1>1, <1>3, LinksInside, NoneToHead DEF Ordered
    <2>2. h.parent[u] \in S /\ e[h.parent[u]] <= e[v]
      BY <2>1, OnlyRoot
    <2>3. e[x] \in Int /\ e[h.parent[u]] \in Int /\ e[v] \in Int /\ e[x] <= e[h.parent[u]]
      BY <1>1, <2>1, <2>2
    <2> QED  BY <2>1, <2>2, <2>3
  <1>4. X \subseteq S /\ x \in X
    BY <1>1
  <1> HIDE DEF X
  <1>5. X = S
    BY <1>1, <1>2, <1>3, <1>4, Spreads
  <1> QED  BY <1>5 DEF X

LEMMA AddChildFields ==
    ASSUME NEW h \in Heaps, NEW a \in Timers, NEW b \in Timers
    PROVE  LET g == AddChild(h, a, b)
           IN  /\ g \in Heaps
               /\ g.child = [h.child EXCEPT ![a] = b]
               /\ g.sibling = [h.sibling EXCEPT ![b] = h.child[a]]
               /\ g.parent = [h.parent EXCEPT ![b] = a]
  <1>1. /\ h.child \in [Timers -> NodeOrNil] /\ h.sibling \in [Timers -> NodeOrNil]
        /\ h.parent \in [Timers -> NodeOrNil] /\ h.child[a] \in NodeOrNil
        /\ h = [child |-> h.child, sibling |-> h.sibling, parent |-> h.parent]
    BY HeapFields DEF Heaps
  <1>2. AddChild(h, a, b) = [child   |-> [h.child EXCEPT ![a] = b],
                             sibling |-> [h.sibling EXCEPT ![b] = h.child[a]],
                             parent  |-> [h.parent EXCEPT ![b] = a]]
    <2> DEFINE h1 == [h EXCEPT !.sibling[b] = h.child[a]]
               h2 == [h1 EXCEPT !.child[a] = b]
               h3 == [h2 EXCEPT !.parent[b] = a]
    <2>1. AddChild(h, a, b) = h3
      BY DEF AddChild
    <2>2. h1 = [child |-> h.child, sibling |-> [h.sibling EXCEPT ![b] = h.child[a]], parent |-> h.parent]
      BY <1>1
    <2> HIDE DEF h1
    <2>3. h2 = [child |-> [h.child EXCEPT ![a] = b],
                sibling |-> [h.sibling EXCEPT ![b] = h.child[a]], parent |-> h.parent]
      BY <2>2
    <2> HIDE DEF h2
    <2>4. h3 = [child |-> [h.child EXCEPT ![a] = b],
                sibling |-> [h.sibling EXCEPT ![b] = h.child[a]],
                parent |-> [h.parent EXCEPT ![b] = a]]
      BY <2>3
    <2> QED  BY <2>1, <2>4
  <1> QED  BY <1>1, <1>2 DEF Heaps, Links, NodeOrNil

(* The root that expires later becomes the first child of the other.        *)
LEMMA AddChildTree ==
    ASSUME NEW h \in Heaps, NEW e, NEW A, NEW a, NEW qa, TreeOf(h, e, A, a, qa),
           NEW B, NEW b, NEW qb, TreeOf(h, e, B, b, qb), A \cap B = {}, qa \notin B,
           e[a] <= e[b], NEW g, g = AddChild(h, a, b)
    PROVE  /\ g \in Heaps /\ TreeOf(g, e, A \cup B, a, qa)
           /\ Agree(g, h, Timers \ (A \cup B))
  <1> DEFINE S == A \cup B
  <1>1. /\ ListOf(h, e, A, a, qa) /\ a \in A /\ A \subseteq Timers /\ h.sibling[a] = Nil
        /\ Ordered(h, e, A, a, qa) /\ Single(h, A, a) /\ Closed(h, A) /\ Least(h, A, a)
        /\ qa \in (Timers \cup {Nil}) \ A
    BY DEF TreeOf, ListOf
  <1>2. /\ ListOf(h, e, B, b, qb) /\ b \in B /\ B \subseteq Timers /\ h.sibling[b] = Nil
        /\ Ordered(h, e, B, b, qb) /\ Single(h, B, b) /\ Closed(h, B) /\ Least(h, B, b)
    BY DEF TreeOf, ListOf
  <1>3. /\ a # Nil /\ b # Nil /\ a # b /\ a \notin B /\ b \notin A /\ Nil \notin S
    BY <1>1, <1>2, NilIsNone
  <1>4. g \in Heaps
    BY <1>1, <1>2, AddChildFields
  <1>5. /\ \A t \in Timers : /\ g.child[t] = IF t = a THEN b ELSE h.child[t]
                             /\ g.sibling[t] = IF t = b THEN h.child[a] ELSE h.sibling[t]
                             /\ g.parent[t] = IF t = b THEN a ELSE h.parent[t]
    <2>1. a \in Timers /\ b \in Timers
      BY <1>1, <1>2
    <2>2. /\ AddChild(h, a, b).child = [h.child EXCEPT ![a] = b]
          /\ AddChild(h, a, b).sibling = [h.sibling EXCEPT ![b] = h.child[a]]
          /\ AddChild(h, a, b).parent = [h.parent EXCEPT ![b] = a]
      BY <2>1, AddChildFields
    <2>3. /\ g.child = [h.child EXCEPT ![a] = b]
          /\ g.sibling = [h.sibling EXCEPT ![b] = h.child[a]]
          /\ g.parent = [h.parent EXCEPT ![b] = a]
      BY <2>2
    <2> QED  BY <2>1, <2>3, HeapFields
  <1>6. S \subseteq Timers /\ a \in S /\ b \in S /\ \A t \in S : t \in A \/ t \in B
    BY <1>1, <1>2
  <1>7. /\ \A t \in A : h.child[t] \in A \cup {Nil} /\ h.sibling[t] \in A \cup {Nil}
        /\ \A t \in B : h.child[t] \in B \cup {Nil} /\ h.sibling[t] \in B \cup {Nil}
    BY <1>1, <1>2 DEF Closed
  <1>8. Closed(g, S)
    <2>1. ASSUME NEW t \in S
          PROVE  g.child[t] \in S \cup {Nil} /\ g.sibling[t] \in S \cup {Nil}
      BY <1>1, <1>5, <1>6, <1>7
    <2> QED  BY <2>1 DEF Closed
  <1>9. ASSUME NEW X \in SUBSET S, {a} \ {Nil} \subseteq X, Closed(g, X)
        PROVE  S \subseteq X
    <2>1. a \in X /\ b \in X
      BY <1>3, <1>5, <1>6, <1>9 DEF Closed
    <2>2. h.child[a] # Nil => h.child[a] \in X
      BY <1>5, <1>6, <1>9, <2>1 DEF Closed
    <2>3. \A t \in X : (h.child[t] # Nil => h.child[t] \in X) /\ (h.sibling[t] # Nil => h.sibling[t] \in X)
      BY <1>2, <1>5, <1>6, <1>9, <2>2 DEF Closed
    <2> DEFINE Y == X \cap A
               Z == X \cap B
    <2>4. /\ Y \subseteq A /\ a \in Y
          /\ \A t \in Y : (h.child[t] # Nil => h.child[t] \in Y) /\ (h.sibling[t] # Nil => h.sibling[t] \in Y)
      BY <1>1, <1>7, <2>1, <2>3
    <2>5. /\ Z \subseteq B /\ b \in Z
          /\ \A t \in Z : (h.child[t] # Nil => h.child[t] \in Z) /\ (h.sibling[t] # Nil => h.sibling[t] \in Z)
      BY <1>2, <1>7, <2>1, <2>3
    <2> HIDE DEF Y, Z
    <2>6. Y = A
      BY <1>1, <2>4, Spreads
    <2>7. Z = B
      BY <1>2, <2>5, Spreads
    <2> QED  BY <2>6, <2>7 DEF Y, Z
  <1>10. Ordered(g, e, S, a, qa)
    <2>1. \A t \in A : t # a => h.parent[t] \in A /\ e[h.parent[t]] <= e[t]
      BY OnlyRoot
    <2>2. \A t \in B : t # b => h.parent[t] \in B /\ e[h.parent[t]] <= e[t]
      BY OnlyRoot
    <2>3. h.parent[a] = qa
      BY <1>1, <1>3 DEF Ordered
    <2>4. ASSUME NEW t \in S
          PROVE  g.parent[t] = qa \/ (g.parent[t] \in S /\ e[g.parent[t]] <= e[t])
      BY <1>5, <1>6, <2>1, <2>2, <2>3
    <2>5. \A t \in A : /\ h.child[t] # a /\ h.sibling[t] # a
                       /\ h.child[t] # b /\ h.sibling[t] # b
      BY <1>1, <1>3, <1>7, NoneToHead
    <2>6. \A t \in B : h.child[t] # b /\ h.sibling[t] # b
      BY <1>2, <1>3, NoneToHead
    <2>7. \A t \in S : h.child[t] # Nil => h.parent[h.child[t]] = t /\ h.child[t] \in S
      BY <1>1, <1>2, <1>7 DEF Ordered
    <2>8. \A t \in S : h.sibling[t] # Nil => h.parent[h.sibling[t]] = h.parent[t] /\ h.sibling[t] \in S
      BY <1>1, <1>2, <1>7 DEF Ordered
    <2>9. ASSUME NEW t \in S, g.child[t] # Nil
          PROVE  g.parent[g.child[t]] = t
      BY <1>2, <1>5, <1>6, <2>5, <2>6, <2>7, <2>9
    <2>10. ASSUME NEW t \in S, g.sibling[t] # Nil
           PROVE  g.parent[g.sibling[t]] = g.parent[t]
      <3>1. CASE t = b
        BY <1>1, <1>2, <1>5, <1>6, <2>5, <2>7, <2>10, <3>1
      <3>2. CASE t # b
        BY <1>5, <1>6, <2>5, <2>6, <2>8, <2>10, <3>2
      <3> QED  BY <3>1, <3>2
    <2>11. g.parent[a] = qa
      BY <1>1, <1>3, <1>5, <2>3
    <2> QED  BY <2>4, <2>9, <2>10, <2>11 DEF Ordered
  <1>11. Single(g, S, a)
    <2>1. \A t \in S : h.sibling[t] # a /\ h.sibling[t] # b
      BY <1>1, <1>2, <1>3, <1>7, NoneToHead
    <2>2. h.child[a] # a /\ h.child[a] # b
      BY <1>1, <1>3, <1>7, NoneToHead
    <2>3. \A s, t \in S : h.sibling[s] # Nil /\ h.sibling[s] = h.sibling[t] => s = t
      BY <1>1, <1>2, <1>7 DEF Single
    <2>4. \A s, t \in S : h.child[s] # Nil => h.child[s] # h.sibling[t]
      BY <1>1, <1>2, <1>7 DEF Single
    <2>5. \A s \in S : h.child[s] # Nil /\ h.child[s] = h.child[a] => s = a
      BY <1>1, <1>2, <1>7 DEF Ordered
    <2>6. \A t \in S : g.sibling[t] # Nil => g.sibling[t] # a
      BY <1>5, <1>6, <2>1, <2>2
    <2>7. \A s, t \in S : g.sibling[s] # Nil /\ g.sibling[s] = g.sibling[t] => s = t
      BY <1>1, <1>5, <1>6, <2>3, <2>4
    <2>8. \A s, t \in S : g.child[s] # Nil => g.child[s] # g.sibling[t]
      BY <1>1, <1>3, <1>5, <1>6, <2>1, <2>2, <2>4, <2>5
    <2> QED  BY <2>6, <2>7, <2>8 DEF Single
  <1>12. Agree(g, h, Timers \ S)
    BY <1>5, <1>6 DEF Agree
  <1>13. g.sibling[a] = Nil
    BY <1>1, <1>3, <1>5
  <1> HIDE DEF S
  <1>14. Least(g, S, a)
    BY <1>9 DEF Least
  <1>15. qa \in (Timers \cup {Nil}) \ S
    BY <1>1 DEF S
  <1>16. TreeOf(g, e, S, a, qa)
    BY <1>3, <1>6, <1>8, <1>10, <1>11, <1>13, <1>14, <1>15 DEF TreeOf, ListOf
  <1> QED  BY <1>4, <1>12, <1>16 DEF S

(* heap_meld, case by case.                                                 *)
LEMMA MeldCases ==
    ASSUME NEW h \in Heaps, NEW e \in [Timers -> Int], NEW a \in NodeOrNil, NEW b \in NodeOrNil,
           NEW m, m = heap_meld(h, e, a, b)
    PROVE  /\ a = Nil => m = [h |-> h, root |-> b]
           /\ a # Nil /\ b = Nil => m = [h |-> h, root |-> a]
           /\ a # Nil /\ b # Nil => \/ e[a] <= e[b] /\ m = [h |-> AddChild(h, a, b), root |-> a]
                                    \/ e[b] <= e[a] /\ m = [h |-> AddChild(h, b, a), root |-> b]
           /\ m \in [h : Heaps, root : NodeOrNil]
  <1>1. CASE a = Nil
    <2>1. m = [h |-> h, root |-> b]
      BY <1>1 DEF heap_meld
    <2> QED  BY <1>1, <2>1
  <1>2. CASE a # Nil /\ b = Nil
    <2>1. m = [h |-> h, root |-> a]
      BY <1>2 DEF heap_meld
    <2> QED  BY <1>2, <2>1
  <1>3. CASE a # Nil /\ b # Nil
    <2>1. a \in Timers /\ b \in Timers /\ e[a] \in Int /\ e[b] \in Int
      BY <1>3 DEF NodeOrNil
    <2>2. AddChild(h, a, b) \in Heaps /\ AddChild(h, b, a) \in Heaps
      BY <2>1, AddChildFields
    <2>3. CASE e[a] <= e[b]
      <3>1. m = [h |-> AddChild(h, a, b), root |-> a]
        BY <1>3, <2>3 DEF heap_meld
      <3> QED  BY <1>3, <2>2, <2>3, <3>1
    <2>4. CASE ~ (e[a] <= e[b])
      <3>1. m = [h |-> AddChild(h, b, a), root |-> b]
        BY <1>3, <2>4 DEF heap_meld
      <3>2. e[b] <= e[a]
        BY <2>1, <2>4
      <3> QED  BY <1>3, <2>2, <3>1, <3>2
    <2> QED  BY <2>3, <2>4
  <1> QED  BY <1>1, <1>2, <1>3

(* Two heaps become one.                                                    *)
LEMMA MeldTrees ==
    ASSUME NEW h \in Heaps, NEW e \in [Timers -> Int],
           NEW A, NEW a, NEW qa, TreeOf(h, e, A, a, qa), NEW B, NEW b, NEW qb, TreeOf(h, e, B, b, qb),
           A \cap B = {}, qa \notin B, qb \notin A, NEW m, m = heap_meld(h, e, a, b)
    PROVE  /\ m.h \in Heaps
           /\ Agree(m.h, h, Timers \ (A \cup B))
           /\ TreeOf(m.h, e, A \cup B, m.root, qa) \/ TreeOf(m.h, e, A \cup B, m.root, qb)
  <1>1. a \in Timers /\ b \in Timers /\ a # Nil /\ b # Nil /\ a \in NodeOrNil /\ b \in NodeOrNil
    BY DEF TreeOf, ListOf, NodeOrNil
  <1>2. CASE e[a] <= e[b] /\ m = [h |-> AddChild(h, a, b), root |-> a]
    <2>1. m.h = AddChild(h, a, b) /\ m.root = a
      BY <1>2
    <2>2. /\ m.h \in Heaps /\ TreeOf(m.h, e, A \cup B, a, qa)
          /\ Agree(m.h, h, Timers \ (A \cup B))
      BY <1>2, <2>1, AddChildTree
    <2> QED  BY <2>1, <2>2
  <1>3. CASE e[b] <= e[a] /\ m = [h |-> AddChild(h, b, a), root |-> b]
    <2>1. m.h = AddChild(h, b, a) /\ m.root = b
      BY <1>3
    <2>2. B \cap A = {} /\ B \cup A = A \cup B
      OBVIOUS
    <2>3. /\ m.h \in Heaps /\ TreeOf(m.h, e, B \cup A, b, qb)
          /\ Agree(m.h, h, Timers \ (B \cup A))
      BY <1>3, <2>1, <2>2, AddChildTree
    <2>4. /\ m.h \in Heaps /\ TreeOf(m.h, e, A \cup B, m.root, qb)
          /\ Agree(m.h, h, Timers \ (A \cup B))
      BY <2>1, <2>2, <2>3
    <2> QED  BY <2>4
  <1>4. \/ e[a] <= e[b] /\ m = [h |-> AddChild(h, a, b), root |-> a]
        \/ e[b] <= e[a] /\ m = [h |-> AddChild(h, b, a), root |-> b]
    <2>1. e[a] \in Int /\ e[b] \in Int
      BY <1>1
    <2>2. CASE e[a] <= e[b]
      BY <1>1, <2>2 DEF heap_meld
    <2>3. CASE ~ (e[a] <= e[b])
      BY <1>1, <2>1, <2>3 DEF heap_meld
    <2> QED  BY <2>2, <2>3
  <1> QED  BY <1>2, <1>3, <1>4

Results == [h : Heaps, root : NodeOrNil]
Mergers == [Heaps -> [NodeOrNil -> Results]]

(* What the two siblings that a call of two_pass_merge takes look like once *)
(* they are cut off.                                                        *)
Cut(h, a, b) ==
    [h EXCEPT !.sibling[a] = Nil, !.sibling[b] = Nil, !.parent[a] = Nil, !.parent[b] = Nil]

LEMMA CutFields ==
    ASSUME NEW h \in Heaps, NEW a \in Timers, NEW b \in Timers
    PROVE  LET g == Cut(h, a, b)
           IN  /\ g \in Heaps
               /\ \A t \in Timers :
                     /\ g.child[t] = h.child[t]
                     /\ g.sibling[t] = IF t \in {a, b} THEN Nil ELSE h.sibling[t]
                     /\ g.parent[t] = IF t \in {a, b} THEN Nil ELSE h.parent[t]
  <1>1. /\ h.child \in [Timers -> NodeOrNil] /\ h.sibling \in [Timers -> NodeOrNil]
        /\ h.parent \in [Timers -> NodeOrNil]
        /\ h = [child |-> h.child, sibling |-> h.sibling, parent |-> h.parent]
    BY HeapFields DEF Heaps
  <1> DEFINE h1 == [h EXCEPT !.sibling[a] = Nil]
             h2 == [h1 EXCEPT !.sibling[b] = Nil]
             h3 == [h2 EXCEPT !.parent[a] = Nil]
             h4 == [h3 EXCEPT !.parent[b] = Nil]
  <1>2. Cut(h, a, b) = h4
    BY DEF Cut
  <1>3. h1 = [child |-> h.child, sibling |-> [h.sibling EXCEPT ![a] = Nil], parent |-> h.parent]
    BY <1>1
  <1> HIDE DEF h1
  <1>4. h2 = [child |-> h.child, sibling |-> [[h.sibling EXCEPT ![a] = Nil] EXCEPT ![b] = Nil],
              parent |-> h.parent]
    BY <1>3
  <1> HIDE DEF h2
  <1>5. h3 = [child |-> h.child, sibling |-> [[h.sibling EXCEPT ![a] = Nil] EXCEPT ![b] = Nil],
              parent |-> [h.parent EXCEPT ![a] = Nil]]
    BY <1>4
  <1> HIDE DEF h3
  <1>6. h4 = [child |-> h.child, sibling |-> [[h.sibling EXCEPT ![a] = Nil] EXCEPT ![b] = Nil],
              parent |-> [[h.parent EXCEPT ![a] = Nil] EXCEPT ![b] = Nil]]
    BY <1>5
  <1> HIDE DEF h4
  <1>7. h4 \in Heaps
    BY <1>1, <1>6 DEF Heaps, Links, NodeOrNil
  <1> QED  BY <1>1, <1>2, <1>6, <1>7

(* A call's result, and what it consists of.                                *)
LEMMA StepCases ==
    ASSUME NEW F \in Mergers, NEW e \in [Timers -> Int], NEW h \in Heaps, NEW x \in NodeOrNil
    PROVE  LET m == MergeStep(F, e, h, x)
           IN  /\ m \in Results
               /\ x = Nil \/ h.sibling[x] = Nil => m = [h |-> h, root |-> x]
               /\ x # Nil /\ h.sibling[x] # Nil =>
                     /\ x \in Timers /\ h.sibling[x] \in Timers
                     /\ LET b    == h.sibling[x]
                            rest == h.sibling[b]
                            pair == heap_meld(Cut(h, x, b), e, x, b)
                            tail == F[pair.h][rest]
                        IN  /\ rest \in NodeOrNil /\ pair \in Results /\ tail \in Results
                            /\ m = heap_meld(tail.h, e, pair.root, tail.root)
  <1> DEFINE m == MergeStep(F, e, h, x)
  <1>1. CASE x = Nil \/ h.sibling[x] = Nil
    <2>1. m = [h |-> h, root |-> x]
      BY <1>1 DEF MergeStep
    <2> QED  BY <1>1, <2>1 DEF Results
  <1>2. CASE x # Nil /\ h.sibling[x] # Nil
    <2> DEFINE b    == h.sibling[x]
               rest == h.sibling[b]
               cut  == Cut(h, x, b)
               pair == heap_meld(cut, e, x, b)
               tail == F[pair.h][rest]
    <2>1. x \in Timers /\ b \in Timers
      BY <1>2, HeapFields DEF NodeOrNil
    <2>2. m = heap_meld(tail.h, e, pair.root, tail.root)
      BY <1>2 DEF MergeStep, Cut
    <2>3. b \in NodeOrNil /\ rest \in NodeOrNil /\ cut \in Heaps
      BY <2>1, HeapFields, CutFields DEF NodeOrNil
    <2> HIDE DEF cut
    <2>4. pair \in Results
      BY <2>3, MeldCases DEF Results
    <2> HIDE DEF pair, rest
    <2>5. tail \in Results
      <3>1. pair.h \in Heaps
        BY <2>4 DEF Results
      <3>2. F[pair.h] \in [NodeOrNil -> Results]
        BY <3>1 DEF Mergers
      <3> QED  BY <2>3, <3>2
    <2> HIDE DEF tail
    <2>6. m \in Results
      <3>1. tail.h \in Heaps /\ tail.root \in NodeOrNil /\ pair.root \in NodeOrNil
        BY <2>4, <2>5 DEF Results
      <3>2. heap_meld(tail.h, e, pair.root, tail.root) \in Results
        BY <3>1, MeldCases DEF Results
      <3> QED  BY <2>2, <3>2
    <2> HIDE DEF m
    <2> QED  BY <1>2, <2>1, <2>2, <2>3, <2>4, <2>5, <2>6 DEF b, rest, cut, pair, tail, m
  <1> QED  BY <1>1, <1>2

(* What two_pass_merge makes of the list x with the nodes S: one heap of    *)
(* them all, and nothing else changes.                                      *)
Merged(h, e, S, x, p, m) ==
    /\ m.h \in Heaps /\ Agree(m.h, h, Timers \ S)
    /\ x = Nil => m.root = Nil
    /\ x # Nil => \E q \in {p, Nil} : TreeOf(m.h, e, S, m.root, q)

(* F merges lists of up to k nodes.                                         *)
Merges(F, e, k) ==
    \A h \in Heaps : \A S \in SUBSET Timers : \A x, p \in NodeOrNil :
        ListOf(h, e, S, x, p) /\ Cardinality(S) <= k => Merged(h, e, S, x, p, F[h][x])

LEMMA StepMerges ==
    ASSUME NEW F \in Mergers, NEW e \in [Timers -> Int], NEW k \in Nat, Merges(F, e, k),
           NEW h \in Heaps, NEW S \in SUBSET Timers, NEW x \in NodeOrNil, NEW p \in NodeOrNil,
           ListOf(h, e, S, x, p), Cardinality(S) <= k + 1
    PROVE  Merged(h, e, S, x, p, MergeStep(F, e, h, x))
  <1> DEFINE m == MergeStep(F, e, h, x)
  <1>1. CASE x = Nil \/ h.sibling[x] = Nil
    <2>1. m = [h |-> h, root |-> x]
      BY <1>1, StepCases
    <2>2. m.h = h /\ m.root = x
      BY <2>1
    <2> HIDE DEF m
    <2>3. Agree(h, h, Timers \ S)
      BY DEF Agree
    <2>4. x # Nil => TreeOf(h, e, S, x, p)
      BY <1>1 DEF TreeOf
    <2> QED  BY <2>2, <2>3, <2>4 DEF Merged, m
  <1>2. CASE x # Nil /\ h.sibling[x] # Nil
    <2> DEFINE b    == h.sibling[x]
               rest == h.sibling[b]
               cut  == Cut(h, x, b)
               pair == heap_meld(cut, e, x, b)
               tail == F[pair.h][rest]
               Da   == HeapAt(h, S, x)
               R    == S \ Da
               Db   == HeapAt(h, R, b)
               T    == R \ Db
    <2>1. /\ x \in Timers /\ b \in Timers /\ rest \in NodeOrNil
          /\ pair \in Results /\ tail \in Results
          /\ m = heap_meld(tail.h, e, pair.root, tail.root)
      BY <1>2, StepCases, SMTT(60)
    <2>2. /\ cut \in Heaps
          /\ \A t \in Timers : /\ cut.child[t] = h.child[t]
                               /\ cut.sibling[t] = IF t \in {x, b} THEN Nil ELSE h.sibling[t]
                               /\ cut.parent[t] = IF t \in {x, b} THEN Nil ELSE h.parent[t]
      <3>1. x \in Timers /\ b \in Timers
        BY <2>1
      <3> HIDE DEF b
      <3> QED  BY <3>1, CutFields
    <2> HIDE DEF m, cut, tail
    <2>3. x \in S /\ x # Nil /\ b # Nil /\ x \in Da /\ Nil \notin S
      BY <1>2, NilIsNone DEF ListOf, HeapAt
    <2>4. ListOf(h, e, R, b, p)
      BY <2>3, HeadRest
    <2>5. b \in R /\ b \in Db
      BY <2>3, <2>4 DEF ListOf, HeapAt
    <2>6. ListOf(h, e, T, rest, p)
      BY <2>3, <2>4, HeadRest
    <2>7. /\ Below(h, S, x) \subseteq Da /\ Da \subseteq S /\ x \notin Below(h, S, x)
          /\ Below(h, R, b) \subseteq Db /\ Db \subseteq R /\ b \notin Below(h, R, b)
      BY <2>3, <2>4, <2>5, BelowFacts, NotBelowItself DEF HeapAt
    <2>8. /\ Da \cap Db = {} /\ b \notin Da /\ x \notin Db /\ x # b
          /\ T \subseteq S /\ x \notin T /\ b \notin T /\ S = (Da \cup Db) \cup T
          /\ (Da \cup Db) \cap T = {}
      BY <2>3, <2>5, <2>7
    <2> HIDE DEF b, rest, Da, Db, R, T
    <2>9. TreeOf(cut, e, Da, x, Nil)
      <3>1. Agree(cut, h, Below(h, S, x))
        BY <2>2, <2>7, <2>8 DEF Agree
      <3>2. cut.child[x] = h.child[x] /\ cut.sibling[x] = Nil /\ cut.parent[x] = Nil
        BY <2>1, <2>2
      <3>3. Nil \in (Timers \cup {Nil}) \ HeapAt(h, S, x)
        BY <2>3, <2>7 DEF Da
      <3> QED  BY <2>3, <3>1, <3>2, <3>3, HeadTree DEF Da
    <2>10. TreeOf(cut, e, Db, b, Nil)
      <3>1. Agree(cut, h, Below(h, R, b))
        <4>1. Below(h, R, b) \subseteq Timers
          BY <2>7, <2>8
        <4> QED  BY <2>2, <2>7, <2>8, <4>1 DEF Agree
      <3>2. cut.child[b] = h.child[b] /\ cut.sibling[b] = Nil /\ cut.parent[b] = Nil
        BY <2>1, <2>2
      <3>3. Nil \in (Timers \cup {Nil}) \ HeapAt(h, R, b)
        BY <2>3, <2>7, <2>8 DEF Db
      <3> QED  BY <2>3, <2>4, <3>1, <3>2, <3>3, HeadTree DEF Db
    <2>11. /\ pair.h \in Heaps
           /\ Agree(pair.h, cut, Timers \ (Da \cup Db))
           /\ TreeOf(pair.h, e, Da \cup Db, pair.root, Nil)
      <3>1. Nil \notin Da /\ Nil \notin Db
        BY <2>3, <2>7, <2>8
      <3>2. /\ pair.h \in Heaps
            /\ Agree(pair.h, cut, Timers \ (Da \cup Db))
            /\ TreeOf(pair.h, e, Da \cup Db, pair.root, Nil)
        <4>1. pair = heap_meld(cut, e, x, b)
          OBVIOUS
        <4> HIDE DEF pair
        <4>2. Da \cap Db = {} /\ cut \in Heaps
          BY <2>2, <2>8
        <4> QED  BY <2>9, <2>10, <3>1, <4>1, <4>2, MeldTrees
      <3> QED  BY <3>2
    <2> HIDE DEF pair
    <2>12. Agree(pair.h, h, T)
      BY <2>2, <2>8, <2>11 DEF Agree
    <2>13. ListOf(pair.h, e, T, rest, p)
      BY <2>6, <2>12, ListFrame
    <2>14. Cardinality(T) <= k
      <3>1. IsFiniteSet(S)
        BY TimerAssumption, FS_Subset
      <3>2. IsFiniteSet(S \ {x}) /\ Cardinality(S \ {x}) = Cardinality(S) - 1 /\ Cardinality(S) \in Nat
        BY <2>3, <3>1, FS_RemoveElement, FS_CardinalityType
      <3>3. T \subseteq S \ {x}
        BY <2>8
      <3>4. Cardinality(T) <= Cardinality(S \ {x}) /\ IsFiniteSet(T)
        BY <3>2, <3>3, FS_Subset
      <3>5. Cardinality(T) \in Nat
        BY <3>4, FS_CardinalityType
      <3> QED  BY <3>2, <3>4, <3>5
    <2>15. Merged(pair.h, e, T, rest, p, tail)
      <3>1. T \in SUBSET Timers
        BY <2>8
      <3> QED  BY <2>1, <2>11, <2>13, <2>14, <3>1 DEF Merges, tail
    <2>16. TreeOf(tail.h, e, Da \cup Db, pair.root, Nil)
      <3>1. Agree(tail.h, pair.h, Da \cup Db)
        BY <2>8, <2>15 DEF Merged, Agree
      <3>2. ListOf(pair.h, e, Da \cup Db, pair.root, Nil) /\ pair.root # Nil /\ pair.h.sibling[pair.root] = Nil
            /\ pair.root \in Da \cup Db
        BY <2>11 DEF TreeOf, ListOf
      <3>3. ListOf(tail.h, e, Da \cup Db, pair.root, Nil)
        BY <3>1, <3>2, ListFrame
      <3> QED  BY <3>1, <3>2, <3>3 DEF TreeOf, Agree
    <2>17. tail.h \in Heaps /\ pair.root \in NodeOrNil /\ tail.root \in NodeOrNil
      BY <2>1 DEF Results
    <2>18. Agree(tail.h, h, Timers \ S)
      BY <2>2, <2>3, <2>5, <2>8, <2>11, <2>15 DEF Merged, Agree
    <2>19. CASE rest = Nil
      <3>1. T = {} /\ tail.root = Nil
        BY <2>6, <2>15, <2>19, NilIsNone DEF ListOf, Merged
      <3>2. pair.root # Nil
        BY <2>16 DEF TreeOf
      <3>3. m = [h |-> tail.h, root |-> pair.root]
        BY <2>1, <3>1, <3>2 DEF heap_meld
      <3>4. m.h = tail.h /\ m.root = pair.root
        BY <3>3
      <3>5. S = Da \cup Db
        BY <2>8, <3>1
      <3>6. TreeOf(m.h, e, S, m.root, Nil)
        BY <2>16, <3>4, <3>5
      <3> QED  BY <2>3, <2>17, <2>18, <3>4, <3>6 DEF Merged, m
    <2>20. CASE rest # Nil
      <3>1. PICK q \in {p, Nil} : TreeOf(tail.h, e, T, tail.root, q)
        BY <2>15, <2>20 DEF Merged
      <3>2. Nil \notin T /\ q \notin Da \cup Db
        BY <2>3, <2>8 DEF ListOf
      <3>3. /\ m.h \in Heaps /\ Agree(m.h, tail.h, Timers \ ((Da \cup Db) \cup T))
            /\ \/ TreeOf(m.h, e, (Da \cup Db) \cup T, m.root, Nil)
               \/ TreeOf(m.h, e, (Da \cup Db) \cup T, m.root, q)
        <4>1. m = heap_meld(tail.h, e, pair.root, tail.root) /\ tail.h \in Heaps
          BY <2>1, <2>17
        <4>2. (Da \cup Db) \cap T = {}
          BY <2>8
        <4> DEFINE U == Da \cup Db
                   g == tail.h
                   a == pair.root
                   c == tail.root
        <4>3. /\ g \in Heaps /\ TreeOf(g, e, U, a, Nil) /\ TreeOf(g, e, T, c, q)
              /\ U \cap T = {} /\ Nil \notin T /\ q \notin U /\ m = heap_meld(g, e, a, c)
          BY <2>16, <3>1, <3>2, <4>1, <4>2
        <4> HIDE DEF U, g, a, c
        <4>4. /\ m.h \in Heaps /\ Agree(m.h, g, Timers \ (U \cup T))
              /\ TreeOf(m.h, e, U \cup T, m.root, Nil) \/ TreeOf(m.h, e, U \cup T, m.root, q)
          BY <4>3, MeldTrees
        <4> QED  BY <4>4 DEF U, g
      <3>4. \E r \in {p, Nil} : TreeOf(m.h, e, S, m.root, r)
        BY <2>8, <3>3
      <3>5. Agree(m.h, h, Timers \ S)
        BY <2>8, <2>18, <3>3 DEF Agree
      <3> QED  BY <2>3, <3>3, <3>4, <3>5 DEF Merged, m
    <2> QED  BY <2>19, <2>20
  <1> QED  BY <1>1, <1>2

(* The recursion of two_pass_merge has the solution its equation says.      *)
LEMMA MergeRecursion ==
    ASSUME NEW e \in [Timers -> Int]
    PROVE  \E G \in [0 .. Cardinality(Timers) -> Mergers] :
              /\ \A h \in Heaps : \A x \in NodeOrNil : G[0][h][x] = [h |-> h, root |-> x]
              /\ \A d \in 1 .. Cardinality(Timers) : \A h \in Heaps : \A x \in NodeOrNil :
                    G[d][h][x] = MergeStep(G[d - 1], e, h, x)
              /\ \A h \in Heaps : \A x \in NodeOrNil :
                    two_pass_merge(h, e, x) = G[Cardinality(Timers)][h][x]
  <1> DEFINE n == Cardinality(Timers)
             body(F, d) == [h \in Heaps |-> [x \in NodeOrNil |->
                              IF d = 0 THEN [h |-> h, root |-> x] ELSE MergeStep(F, e, h, x)]]
             Rec(f) == f = [d \in 0 .. n |-> body(f[d - 1], d)]
             F == CHOOSE f : Rec(f)
  <1>1. n \in Nat
    BY TimerAssumption, FS_CardinalityType
  <1>2. \A h \in Heaps : \A x \in NodeOrNil : two_pass_merge(h, e, x) = F[n][h][x]
    BY DEF two_pass_merge, NodeOrNil
  <1> HIDE DEF n
  <1> DEFINE first == [h \in Heaps |-> [x \in NodeOrNil |-> [h |-> h, root |-> x]]]
             step  == [d \in 1 .. n |-> [f \in Mergers |-> body(f, d)]]
  <1>3. first \in Mergers
    BY DEF Mergers, Results
  <1>4. ASSUME NEW d \in 1 .. n, NEW f \in Mergers
        PROVE  body(f, d) \in Mergers /\ body(f, d) = [h \in Heaps |-> [x \in NodeOrNil |-> MergeStep(f, e, h, x)]]
    <2>1. d # 0
      OBVIOUS
    <2>2. \A h \in Heaps : \A x \in NodeOrNil : MergeStep(f, e, h, x) \in Results
      BY StepCases
    <2>3. [h \in Heaps |-> [x \in NodeOrNil |-> MergeStep(f, e, h, x)]] \in Mergers
      BY <2>2 DEF Mergers
    <2>4. body(f, d) = [h \in Heaps |-> [x \in NodeOrNil |-> MergeStep(f, e, h, x)]]
      BY <2>1
    <2> QED  BY <2>3, <2>4
  <1>5. body(F[0 - 1], 0) = first /\ \A f : body(f, 0) = first
    OBVIOUS
  <1> HIDE DEF body, first
  <1>6. step \in [1 .. n -> [Mergers -> Mergers]]
    BY <1>4
  <1>7. \A d \in 1 .. n : \A f \in Mergers : step[d][f] = body(f, d)
    OBVIOUS
  <1> HIDE DEF step
  <1>8. PICK G : Solves(G, n, Mergers, first, step)
    BY <1>1, <1>3, <1>6, RecursionExists
  <1>9. /\ G \in [0 .. n -> Mergers] /\ G[0] = first
        /\ \A d \in 1 .. n : d - 1 \in 0 .. n /\ G[d] = body(G[d - 1], d)
    <2>1. /\ G \in [0 .. n -> Mergers] /\ G[0] = first
          /\ \A d \in 1 .. n : G[d] = step[d][G[d - 1]]
      BY <1>8 DEF Solves
    <2>2. \A d \in 1 .. n : d - 1 \in 0 .. n
      BY <1>1
    <2> QED  BY <1>7, <2>1, <2>2
  <1>10. Rec(G)
    <2> DEFINE H == [d \in 0 .. n |-> body(G[d - 1], d)]
    <2>1. \A d \in 0 .. n : d = 0 \/ d \in 1 .. n
      BY <1>1
    <2>2. \A d \in 0 .. n : G[d] = H[d]
      BY <1>5, <1>9, <2>1
    <2>3. G = H
      BY <1>9, <2>2
    <2> QED  BY <2>3
  <1>11. Rec(F)
    BY <1>10
  <1> HIDE DEF F
  <1>12. F[0] = first /\ \A d \in 1 .. n : F[d] = body(F[d - 1], d)
    <2>1. \A d \in 0 .. n : F[d] = body(F[d - 1], d)
      BY <1>11
    <2>2. 0 \in 0 .. n /\ \A d \in 1 .. n : d \in 0 .. n
      BY <1>1
    <2> QED  BY <1>5, <2>1, <2>2
  <1>13. \A d \in 0 .. n : F[d] = G[d]
    <2>1. SameSteps(F, G, n)
      BY <1>9, <1>12 DEF SameSteps
    <2> QED  BY <1>1, <2>1, RecursionUnique
  <1>14. \A h \in Heaps : \A x \in NodeOrNil : two_pass_merge(h, e, x) = G[n][h][x]
    BY <1>1, <1>2, <1>13
  <1>15. \A h \in Heaps : \A x \in NodeOrNil : G[0][h][x] = [h |-> h, root |-> x]
    BY <1>9 DEF first
  <1>16. ASSUME NEW d \in 1 .. n, NEW h \in Heaps, NEW x \in NodeOrNil
         PROVE  G[d][h][x] = MergeStep(G[d - 1], e, h, x)
    <2>1. G[d - 1] \in Mergers /\ G[d] = body(G[d - 1], d)
      BY <1>9
    <2>2. G[d] = [g \in Heaps |-> [y \in NodeOrNil |-> MergeStep(G[d - 1], e, g, y)]]
      BY <1>4, <2>1
    <2> QED  BY <2>2
  <1> QED  BY <1>9, <1>14, <1>15, <1>16 DEF n

(* two_pass_merge makes one heap of a list, whatever its length.            *)
LEMMA MergeFacts ==
    ASSUME NEW e \in [Timers -> Int], NEW h \in Heaps, NEW S \in SUBSET Timers,
           NEW x \in NodeOrNil, NEW p \in NodeOrNil, ListOf(h, e, S, x, p)
    PROVE  Merged(h, e, S, x, p, two_pass_merge(h, e, x))
  <1> DEFINE n == Cardinality(Timers)
  <1>1. n \in Nat
    BY TimerAssumption, FS_CardinalityType
  <1>2. PICK G \in [0 .. n -> Mergers] :
           /\ \A g \in Heaps : \A y \in NodeOrNil : G[0][g][y] = [h |-> g, root |-> y]
           /\ \A d \in 1 .. n : \A g \in Heaps : \A y \in NodeOrNil :
                 G[d][g][y] = MergeStep(G[d - 1], e, g, y)
           /\ \A g \in Heaps : \A y \in NodeOrNil : two_pass_merge(g, e, y) = G[n][g][y]
    BY MergeRecursion
  <1>3. Cardinality(S) <= n
    BY TimerAssumption, FS_Subset
  <1> HIDE DEF n
  <1> DEFINE Bad == { d \in 0 .. n : ~ Merges(G[d], e, d) }
  <1>4. Bad = {}
    <2>1. SUFFICES ASSUME Bad # {} PROVE FALSE
      OBVIOUS
    <2>2. PICK d \in Bad : \A c \in Bad : d <= c
      <3>1. Bad \subseteq Nat
        OBVIOUS
      <3> HIDE DEF Bad
      <3> QED  BY <2>1, <3>1, FirstPosition
    <2>3. d \in 0 .. n /\ ~ Merges(G[d], e, d)
      BY <2>2
    <2>4. d # 0
      <3>1. SUFFICES ASSUME NEW g \in Heaps, NEW T \in SUBSET Timers, NEW y \in NodeOrNil, NEW q \in NodeOrNil,
                            ListOf(g, e, T, y, q), Cardinality(T) <= 0
                     PROVE  Merged(g, e, T, y, q, G[0][g][y])
        BY <2>3 DEF Merges
      <3>2. T = {}
        <4>1. IsFiniteSet(T)
          BY TimerAssumption, FS_Subset
        <4>2. Cardinality(T) = 0
          BY <3>1, <4>1, FS_CardinalityType
        <4> QED  BY <4>1, <4>2, FS_EmptySet
      <3>3. y = Nil
        BY <3>1, <3>2 DEF ListOf
      <3>4. G[0][g][y].h = g /\ G[0][g][y].root = y
        <4>1. G[0][g][y] = [h |-> g, root |-> y]
          BY <1>2
        <4> QED  BY <4>1
      <3> QED  BY <3>3, <3>4 DEF Merged, Agree
    <2>5. d - 1 \in 0 .. n /\ d \in 1 .. n /\ d - 1 \in Nat /\ (d - 1) + 1 = d
      BY <1>1, <2>3, <2>4
    <2>6. Merges(G[d - 1], e, d - 1)
      BY <2>2, <2>5
    <2>7. ASSUME NEW g \in Heaps, NEW T \in SUBSET Timers, NEW y \in NodeOrNil, NEW q \in NodeOrNil,
                 ListOf(g, e, T, y, q), Cardinality(T) <= d
          PROVE  Merged(g, e, T, y, q, G[d][g][y])
      <3> DEFINE F == G[d - 1]
                 k == d - 1
      <3>1. F \in Mergers /\ k \in Nat /\ Merges(F, e, k) /\ Cardinality(T) <= k + 1
        BY <1>2, <2>5, <2>6, <2>7
      <3>2. G[d][g][y] = MergeStep(F, e, g, y)
        BY <1>2, <2>5
      <3> HIDE DEF F, k
      <3>3. Merged(g, e, T, y, q, MergeStep(F, e, g, y))
        BY <2>7, <3>1, StepMerges
      <3> QED  BY <3>2, <3>3
    <2>8. Merges(G[d], e, d)
      BY <2>7 DEF Merges
    <2> QED  BY <2>3, <2>8
  <1>5. Merges(G[n], e, n)
    BY <1>1, <1>4
  <1> QED  BY <1>2, <1>3, <1>5 DEF Merges

-----------------------------------------------------------------------------
(* The heap of the queue.                                                  *)

(* The timers of S are in the heap, and no other timer has a link.          *)
HeapOf(h, e, S, root) ==
    /\ h \in Heaps /\ S \subseteq Timers /\ root \in NodeOrNil
    /\ root = Nil => S = {}
    /\ root # Nil => TreeOf(h, e, S, root, Nil)
    /\ \A t \in Timers \ S : h.child[t] = Nil /\ h.sibling[t] = Nil /\ h.parent[t] = Nil

LEMMA ClearLinksFields ==
    ASSUME NEW h \in Heaps, NEW t \in Timers, NEW g, g = ClearLinks(h, t)
    PROVE  /\ g \in Heaps
           /\ g.child[t] = Nil /\ g.sibling[t] = Nil /\ g.parent[t] = Nil
           /\ Agree(g, h, Timers \ {t})
           /\ h.child[t] = Nil /\ h.sibling[t] = Nil /\ h.parent[t] = Nil => g = h
  <1>1. /\ h.child \in [Timers -> NodeOrNil] /\ h.sibling \in [Timers -> NodeOrNil]
        /\ h.parent \in [Timers -> NodeOrNil]
        /\ h = [child |-> h.child, sibling |-> h.sibling, parent |-> h.parent]
    BY HeapFields DEF Heaps
  <1> DEFINE h1 == [h EXCEPT !.child[t] = Nil]
             h2 == [h1 EXCEPT !.sibling[t] = Nil]
             h3 == [h2 EXCEPT !.parent[t] = Nil]
  <1>2. g = h3
    BY DEF ClearLinks
  <1>3. h1 = [child |-> [h.child EXCEPT ![t] = Nil], sibling |-> h.sibling, parent |-> h.parent]
    BY <1>1
  <1> HIDE DEF h1
  <1>4. h2 = [child |-> [h.child EXCEPT ![t] = Nil], sibling |-> [h.sibling EXCEPT ![t] = Nil],
              parent |-> h.parent]
    BY <1>3
  <1> HIDE DEF h2
  <1>5. g = [child |-> [h.child EXCEPT ![t] = Nil], sibling |-> [h.sibling EXCEPT ![t] = Nil],
             parent |-> [h.parent EXCEPT ![t] = Nil]]
    BY <1>2, <1>4
  <1> HIDE DEF h3
  <1>6. /\ g.child = [h.child EXCEPT ![t] = Nil] /\ g.sibling = [h.sibling EXCEPT ![t] = Nil]
        /\ g.parent = [h.parent EXCEPT ![t] = Nil]
    BY <1>5
  <1>7. g \in Heaps
    BY <1>1, <1>5 DEF Heaps, Links, NodeOrNil
  <1>8. Agree(g, h, Timers \ {t})
    BY <1>1, <1>6 DEF Agree
  <1>9. h.child[t] = Nil /\ h.sibling[t] = Nil /\ h.parent[t] = Nil => g = h
    <2>1. ASSUME NEW f \in [Timers -> NodeOrNil], f[t] = Nil PROVE [f EXCEPT ![t] = Nil] = f
      BY <2>1
    <2> QED  BY <1>1, <1>5, <2>1
  <1> QED  BY <1>1, <1>6, <1>7, <1>8, <1>9

(* A new parent for the root.                                               *)
LEMMA SetParentTree ==
    ASSUME NEW h \in Heaps, NEW e, NEW S, NEW x, NEW q, TreeOf(h, e, S, x, q),
           NEW g, g = SetParent(h, x, Nil)
    PROVE  g \in Heaps /\ TreeOf(g, e, S, x, Nil) /\ Agree(g, h, Timers \ S)
  <1>1. /\ ListOf(h, e, S, x, q) /\ x \in S /\ S \subseteq Timers /\ x # Nil /\ h.sibling[x] = Nil
        /\ Ordered(h, e, S, x, q) /\ Closed(h, S) /\ Least(h, S, x) /\ Single(h, S, x)
    BY DEF TreeOf, ListOf
  <1>2. /\ h.child \in [Timers -> NodeOrNil] /\ h.sibling \in [Timers -> NodeOrNil]
        /\ h.parent \in [Timers -> NodeOrNil]
        /\ h = [child |-> h.child, sibling |-> h.sibling, parent |-> h.parent]
    BY HeapFields DEF Heaps
  <1>3. g = [child |-> h.child, sibling |-> h.sibling, parent |-> [h.parent EXCEPT ![x] = Nil]]
    BY <1>1, <1>2 DEF SetParent
  <1>4. g.child = h.child /\ g.sibling = h.sibling /\ g.parent = [h.parent EXCEPT ![x] = Nil]
    BY <1>3
  <1>5. g \in Heaps
    BY <1>1, <1>2, <1>3 DEF Heaps, Links, NodeOrNil
  <1>6. g.parent[x] = Nil /\ \A t \in Timers : t # x => g.parent[t] = h.parent[t]
    BY <1>1, <1>2, <1>4
  <1>7. Closed(g, S) /\ Least(g, S, x) /\ Single(g, S, x)
    BY <1>1, <1>4 DEF Closed, Least, Single
  <1>8. Ordered(g, e, S, x, Nil)
    <2>1. \A t \in S : t # x => h.parent[t] \in S /\ e[h.parent[t]] <= e[t]
      BY OnlyRoot
    <2>2. \A t \in S : h.child[t] # x /\ h.sibling[t] # x
      BY <1>1, NoneToHead
    <2>3. \A t \in S : h.child[t] # Nil => h.child[t] \in Timers /\ h.parent[h.child[t]] = t
      BY <1>1 DEF Closed, Ordered
    <2>4. \A t \in S : h.sibling[t] # Nil => h.sibling[t] \in Timers /\ h.parent[h.sibling[t]] = h.parent[t] /\ t # x
      BY <1>1 DEF Closed, Ordered
    <2> QED  BY <1>1, <1>4, <1>6, <2>1, <2>2, <2>3, <2>4 DEF Ordered
  <1>9. Agree(g, h, Timers \ S)
    BY <1>1, <1>4, <1>6 DEF Agree
  <1>10. Nil \in (Timers \cup {Nil}) \ S
    BY <1>1, NilIsNone
  <1>11. TreeOf(g, e, S, x, Nil)
    BY <1>1, <1>4, <1>6, <1>7, <1>8, <1>10 DEF TreeOf, ListOf
  <1> QED  BY <1>5, <1>9, <1>11

(* A heap with links that agree on its timers.                              *)
LEMMA TreeFrame ==
    ASSUME NEW h, NEW e, NEW S, NEW x, NEW p, TreeOf(h, e, S, x, p),
           NEW g, Agree(g, h, S), NEW f, \A t \in S : f[t] = e[t]
    PROVE  TreeOf(g, f, S, x, p)
  <1>1. ListOf(h, e, S, x, p) /\ x # Nil /\ h.sibling[x] = Nil /\ x \in S
    BY DEF TreeOf, ListOf
  <1>2. ListOf(g, f, S, x, p)
    BY <1>1, ListFrame
  <1> QED  BY <1>1, <1>2 DEF TreeOf, Agree

(* A deadline outside does not matter.                                      *)
LEMMA HeapFrame ==
    ASSUME NEW h, NEW e, NEW S, NEW root, HeapOf(h, e, S, root),
           NEW f, \A t \in S : f[t] = e[t]
    PROVE  HeapOf(h, f, S, root)
  <1>1. root # Nil => TreeOf(h, f, S, root, Nil)
    <2>1. Agree(h, h, S)
      BY DEF Agree
    <2> QED  BY <2>1, TreeFrame DEF HeapOf
  <1> QED  BY <1>1 DEF HeapOf

(* A timer outside has no link to lose.                                     *)
LEMMA ClearedOutside ==
    ASSUME NEW h, NEW e, NEW S, NEW root, HeapOf(h, e, S, root), NEW t \in Timers \ S
    PROVE  ClearLinks(h, t) = h
  <1>1. PICK k : k = ClearLinks(h, t)
    OBVIOUS
  <1>2. h \in Heaps /\ t \in Timers /\ h.child[t] = Nil /\ h.sibling[t] = Nil /\ h.parent[t] = Nil
    BY DEF HeapOf
  <1>3. k = h
    BY <1>1, <1>2, ClearLinksFields
  <1> QED  BY <1>1, <1>3

(* post_delayed_work, with the lock.                                        *)
LEMMA ArmHeap ==
    ASSUME NEW h, NEW f \in [Timers -> Int], NEW S, NEW root, HeapOf(h, f, S, root),
           NEW t \in Timers \ S, NEW m, m = heap_meld(h, f, root, t)
    PROVE  HeapOf(SetParent(m.h, m.root, Nil), f, S \cup {t}, m.root)
  <1>1. /\ h \in Heaps /\ S \subseteq Timers /\ t \in Timers /\ t # Nil
        /\ h.child[t] = Nil /\ h.sibling[t] = Nil /\ h.parent[t] = Nil
    BY NilIsNone DEF HeapOf
  <1>3. TreeOf(h, f, {t}, t, Nil)
    <2>1. Least(h, {t}, t)
      BY <1>1 DEF Least
    <2>2. Closed(h, {t}) /\ Ordered(h, f, {t}, t, Nil) /\ Single(h, {t}, t)
      BY <1>1 DEF Closed, Ordered, Single
    <2>3. Nil \in (Timers \cup {Nil}) \ {t}
      BY <1>1
    <2> QED  BY <1>1, <2>1, <2>2, <2>3 DEF TreeOf, ListOf
  <1>4. /\ m.h \in Heaps /\ TreeOf(m.h, f, S \cup {t}, m.root, Nil)
        /\ Agree(m.h, h, Timers \ (S \cup {t}))
    <2>1. CASE root = Nil
      <3>1. m = [h |-> h, root |-> t]
        BY <2>1 DEF heap_meld
      <3>2. m.h = h /\ m.root = t /\ S \cup {t} = {t}
        BY <2>1, <3>1 DEF HeapOf
      <3> QED  BY <1>1, <1>3, <3>2 DEF Agree
    <2>2. CASE root # Nil
      <3>3. TreeOf(h, f, S, root, Nil)
        BY <2>2 DEF HeapOf
      <3>4. S \cap {t} = {} /\ Nil \notin {t} /\ Nil \notin S
        BY <1>1, NilIsNone
      <3>6. /\ m.h \in Heaps /\ Agree(m.h, h, Timers \ (S \cup {t}))
            /\ TreeOf(m.h, f, S \cup {t}, m.root, Nil)
        <4> DEFINE T == {t}
        <4>1. /\ h \in Heaps /\ f \in [Timers -> Int]
              /\ TreeOf(h, f, S, root, Nil) /\ TreeOf(h, f, T, t, Nil)
              /\ S \cap T = {} /\ Nil \notin S /\ Nil \notin T
              /\ m = heap_meld(h, f, root, t)
          BY <1>1, <1>3, <3>3, <3>4
        <4>2. S \cup T = S \cup {t}
          OBVIOUS
        <4> HIDE DEF T
        <4>3. /\ m.h \in Heaps /\ Agree(m.h, h, Timers \ (S \cup T))
              /\ TreeOf(m.h, f, S \cup T, m.root, Nil)
          BY <4>1, MeldTrees
        <4> QED  BY <4>2, <4>3
      <3> QED  BY <3>6
    <2> QED  BY <2>1, <2>2
  <1> DEFINE g == SetParent(m.h, m.root, Nil)
  <1>5. /\ g \in Heaps /\ TreeOf(g, f, S \cup {t}, m.root, Nil)
        /\ Agree(g, m.h, Timers \ (S \cup {t}))
    BY <1>4, SetParentTree
  <1> HIDE DEF g
  <1>6. m.root \in NodeOrNil /\ m.root # Nil
    BY <1>5 DEF TreeOf, ListOf, NodeOrNil
  <1>7. \A u \in Timers \ (S \cup {t}) : g.child[u] = Nil /\ g.sibling[u] = Nil /\ g.parent[u] = Nil
    BY <1>4, <1>5 DEF HeapOf, Agree
  <1>8. S \cup {t} \subseteq Timers
    BY <1>1
  <1>9. HeapOf(g, f, S \cup {t}, m.root)
    BY <1>5, <1>6, <1>7, <1>8 DEF HeapOf
  <1> QED  BY <1>9 DEF g

(* The heap of the nodes below one, taken out by two_pass_merge.            *)
LEMMA MergeBelow ==
    ASSUME NEW h \in Heaps, NEW e \in [Timers -> Int], NEW C, NEW x \in Timers, NEW n \in Timers,
           ListOf(h, e, C, x, n),
           NEW m, m = two_pass_merge(h, e, x), NEW g, g = SetParent(m.h, m.root, Nil)
    PROVE  g \in Heaps /\ Agree(g, h, Timers \ C) /\ TreeOf(g, e, C, m.root, Nil)
  <1>1. n \in NodeOrNil /\ x \in NodeOrNil /\ x # Nil /\ C \in SUBSET Timers
    BY NilIsNone DEF NodeOrNil, ListOf
  <1>2. Merged(h, e, C, x, n, m)
    BY <1>1, MergeFacts
  <1>3. PICK q : TreeOf(m.h, e, C, m.root, q)
    BY <1>1, <1>2 DEF Merged
  <1>4. g \in Heaps /\ TreeOf(g, e, C, m.root, Nil) /\ Agree(g, m.h, Timers \ C)
    BY <1>2, <1>3, SetParentTree DEF Merged
  <1>5. Agree(g, h, Timers \ C)
    BY <1>2, <1>4 DEF Merged, Agree
  <1> QED  BY <1>4, <1>5

LEMMA MergeNone ==
    ASSUME NEW h \in Heaps, NEW e \in [Timers -> Int], NEW p \in NodeOrNil,
           NEW C, ListOf(h, e, C, Nil, p), NEW m, m = two_pass_merge(h, e, Nil)
    PROVE  /\ C = {} /\ m.root = Nil
           /\ SetParent(m.h, m.root, Nil) \in Heaps
           /\ Agree(SetParent(m.h, m.root, Nil), h, Timers)
  <1>1. C = {} /\ C \in SUBSET Timers /\ Nil \in NodeOrNil
    BY NilIsNone DEF NodeOrNil, ListOf
  <1>2. Merged(h, e, C, Nil, p, m)
    BY <1>1, MergeFacts
  <1> QED  BY <1>1, <1>2 DEF Merged, SetParent

(* delete_min, with the links of the old root cleared.                      *)
LEMMA PopHeap ==
    ASSUME NEW h, NEW e \in [Timers -> Int], NEW S, NEW root, HeapOf(h, e, S, root), root # Nil,
           NEW m, m = delete_min(h, e, root)
    PROVE  HeapOf(ClearLinks(m.h, root), e, S \ {root}, m.root)
  <1>1. /\ h \in Heaps /\ S \subseteq Timers /\ TreeOf(h, e, S, root, Nil) /\ root \in S /\ root \in Timers
        /\ ListOf(h, e, S, root, Nil) /\ h.sibling[root] = Nil /\ h.child[root] \in NodeOrNil
    BY HeapFields DEF HeapOf, TreeOf, ListOf
  <1> DEFINE C == S \ {root}
             x == h.child[root]
             M == two_pass_merge(h, e, x)
             g == SetParent(M.h, M.root, Nil)
             k == ClearLinks(g, root)
  <1>2. ListOf(h, e, C, x, root)
    <2>1. ListOf(h, e, Below(h, S, root), x, root) /\ root \notin Below(h, S, root)
      BY <1>1, ChildList, NotBelowItself
    <2>2. ListOf(h, e, S \ HeapAt(h, S, root), Nil, Nil)
      BY <1>1, HeadRest
    <2>3. S \ HeapAt(h, S, root) = {}
      BY <2>2, NilIsNone DEF ListOf
    <2>4. Below(h, S, root) \subseteq S
      BY <1>1, BelowFacts
    <2>5. Below(h, S, root) = C
      BY <1>1, <2>1, <2>3, <2>4 DEF HeapAt
    <2> QED  BY <2>1, <2>5
  <1>3. m.h = g /\ m.root = M.root
    <2>1. M \in Results
      <3>1. PICK G \in [0 .. Cardinality(Timers) -> Mergers] :
               \A y \in NodeOrNil : two_pass_merge(h, e, y) = G[Cardinality(Timers)][h][y]
        BY <1>1, MergeRecursion
      <3>2. Cardinality(Timers) \in Nat
        BY TimerAssumption, FS_CardinalityType
      <3>3. G[Cardinality(Timers)] \in Mergers
        BY <3>2
      <3>4. G[Cardinality(Timers)][h][x] \in Results
        BY <1>1, <3>3 DEF Mergers
      <3> QED  BY <1>1, <3>1, <3>4
    <2>2. m = [M EXCEPT !.h = g]
      BY DEF delete_min
    <2> HIDE DEF M, g
    <2> QED  BY <2>1, <2>2 DEF Results
  <1>4. C \in SUBSET Timers
    BY <1>1
  <1>5. /\ g \in Heaps /\ Agree(g, h, Timers \ C)
        /\ x = Nil => M.root = Nil
        /\ x # Nil => TreeOf(g, e, C, M.root, Nil) /\ M.root \in Timers /\ M.root # Nil
    <2>1. M = two_pass_merge(h, e, x) /\ g = SetParent(M.h, M.root, Nil) /\ root \in NodeOrNil
      BY <1>1 DEF NodeOrNil
    <2> HIDE DEF C, x, M, g
    <2>2. CASE x = Nil
      <3>1. ListOf(h, e, C, Nil, root) /\ M = two_pass_merge(h, e, Nil)
        BY <1>2, <2>1, <2>2
      <3>2. C = {} /\ M.root = Nil /\ g \in Heaps /\ Agree(g, h, Timers)
        BY <1>1, <2>1, <3>1, MergeNone
      <3> QED  BY <2>2, <3>2 DEF Agree
    <2>3. CASE x # Nil
      <3>1. x \in Timers
        BY <1>2, <1>4, <2>3 DEF ListOf
      <3>2. g \in Heaps /\ Agree(g, h, Timers \ C) /\ TreeOf(g, e, C, M.root, Nil)
        BY <1>1, <1>2, <2>1, <3>1, MergeBelow
      <3> QED  BY <2>3, <3>2 DEF TreeOf, ListOf
    <2> QED  BY <2>2, <2>3
  <1>6. /\ k \in Heaps /\ k.child[root] = Nil /\ k.sibling[root] = Nil /\ k.parent[root] = Nil
        /\ Agree(k, g, Timers \ {root})
    BY <1>1, <1>5, ClearLinksFields
  <1>7. x = Nil => C = {}
    BY <1>2, NilIsNone DEF ListOf
  <1> HIDE DEF x, M, g, k
  <1>8. x # Nil => TreeOf(k, e, C, M.root, Nil)
    <2>1. Agree(k, g, C)
      BY <1>1, <1>6 DEF Agree
    <2> QED  BY <1>5, <2>1, TreeFrame
  <1>9. \A t \in Timers \ C : k.child[t] = Nil /\ k.sibling[t] = Nil /\ k.parent[t] = Nil
    <2>1. ASSUME NEW t \in Timers \ S
          PROVE  k.child[t] = Nil /\ k.sibling[t] = Nil /\ k.parent[t] = Nil
      <3>1. h.child[t] = Nil /\ h.sibling[t] = Nil /\ h.parent[t] = Nil
        BY DEF HeapOf
      <3> QED  BY <1>1, <1>5, <1>6, <3>1 DEF Agree
    <2> QED  BY <1>1, <1>6, <2>1
  <1> HIDE DEF C
  <1>10. HeapOf(k, e, C, M.root)
    BY <1>4, <1>5, <1>6, <1>7, <1>8, <1>9 DEF HeapOf, NodeOrNil
  <1> QED  BY <1>3, <1>10 DEF C, k

(* detach_from_parent: the one link to the node leads to its sibling now.   *)
LEMMA DetachFields ==
    ASSUME NEW h, NEW e, NEW S, NEW root, HeapOf(h, e, S, root), NEW n \in S, n # root,
           NEW g, g = DetachFromParent(h, n)
    PROVE  /\ g \in Heaps /\ Bypass(g, h, S, n) /\ Agree(g, h, Timers \ S)
  <1> DEFINE p == h.parent[n]
             y == h.sibling[n]
             previous == { t \in Timers : h.sibling[t] = n /\ h.parent[t] = p }
             s == [t \in Timers |-> IF t \in previous THEN y ELSE h.sibling[t]]
             a == [h EXCEPT !.child[p] = y]
             b == [h EXCEPT !.sibling = s]
  <1>0. g = CASE p = Nil -> h [] p # Nil /\ h.child[p] = n -> a [] OTHER -> b
    BY DEF DetachFromParent
  <1> HIDE DEF a, b
  <1>1. /\ h \in Heaps /\ S \subseteq Timers /\ TreeOf(h, e, S, root, Nil) /\ n \in Timers
        /\ Ordered(h, e, S, root, Nil) /\ Single(h, S, root) /\ n # Nil
        /\ y \in NodeOrNil
    BY HeapFields, NilIsNone DEF HeapOf, TreeOf, ListOf
  <1>2. /\ h.child \in [Timers -> NodeOrNil] /\ h.sibling \in [Timers -> NodeOrNil]
        /\ h.parent \in [Timers -> NodeOrNil]
        /\ h = [child |-> h.child, sibling |-> h.sibling, parent |-> h.parent]
    BY <1>1, HeapFields DEF Heaps
  <1>3. p \in S /\ p \in Timers /\ p # Nil
    BY <1>1, OnlyRoot, NilIsNone
  <1>4. \A t \in S : h.child[t] = n => t = p
    BY <1>1 DEF Ordered
  <1>5. \A t \in S : h.sibling[t] = n => h.parent[t] = p
    BY <1>1 DEF Ordered
  <1>6. \A t \in Timers \ S : h.child[t] # n /\ h.sibling[t] # n
    BY <1>1 DEF HeapOf
  <1>7. CASE h.child[p] = n
    <2>1. g = [h EXCEPT !.child[p] = y]
      <3>1. g = a
        BY <1>0, <1>3, <1>7
      <3> QED  BY <3>1 DEF a
    <2>2. g = [child |-> [h.child EXCEPT ![p] = y], sibling |-> h.sibling, parent |-> h.parent]
      BY <1>2, <2>1
    <2>3. g.child = [h.child EXCEPT ![p] = y] /\ g.sibling = h.sibling /\ g.parent = h.parent
      BY <2>2
    <2>4. g \in Heaps
      <3>1. [h.child EXCEPT ![p] = y] \in [Timers -> NodeOrNil]
        BY <1>1, <1>2
      <3> HIDE DEF p, y
      <3> QED  BY <1>2, <2>2, <3>1 DEF Heaps, Links, NodeOrNil
    <2>5. \A t \in S : h.sibling[t] # n
      BY <1>1, <1>3, <1>7 DEF Single
    <2>6. \A t \in Timers : g.child[t] = IF t = p THEN y ELSE h.child[t]
      BY <1>2, <2>3
    <2>7. Bypass(g, h, S, n)
      BY <1>1, <1>4, <1>7, <2>3, <2>5, <2>6 DEF Bypass
    <2>8. Agree(g, h, Timers \ S)
      BY <1>3, <2>3, <2>6 DEF Agree
    <2> QED  BY <2>4, <2>7, <2>8
  <1>8. CASE h.child[p] # n
    <2>1. g = [h EXCEPT !.sibling = s]
      <3>1. g = b
        BY <1>0, <1>3, <1>8
      <3> QED  BY <3>1 DEF b
    <2>2. g = [child |-> h.child, sibling |-> s, parent |-> h.parent]
      <3> HIDE DEF s
      <3> QED  BY <1>2, <2>1
    <2>3. g.child = h.child /\ g.sibling = s /\ g.parent = h.parent
      <3> HIDE DEF s
      <3> QED  BY <2>2
    <2>4. s \in [Timers -> NodeOrNil]
      BY <1>1, <1>2
    <2>5. g \in Heaps
      <3> HIDE DEF s
      <3> QED  BY <1>2, <2>2, <2>4 DEF Heaps, Links, NodeOrNil
    <2>6. \A t \in Timers : g.sibling[t] = IF h.sibling[t] = n /\ h.parent[t] = p THEN y ELSE h.sibling[t]
      BY <2>3
    <2>7. Bypass(g, h, S, n)
      BY <1>1, <1>4, <1>5, <1>8, <2>3, <2>6 DEF Bypass
    <2>8. Agree(g, h, Timers \ S)
      BY <1>6, <2>3, <2>6 DEF Agree
    <2> QED  BY <2>5, <2>7, <2>8
  <1> QED  BY <1>7, <1>8

(* What two_pass_merge returns has the fields of a result.                  *)
LEMMA MergeResult ==
    ASSUME NEW h \in Heaps, NEW e \in [Timers -> Int], NEW x \in NodeOrNil,
           NEW m, m = two_pass_merge(h, e, x)
    PROVE  m \in Results
  <1>1. PICK G \in [0 .. Cardinality(Timers) -> Mergers] :
           \A y \in NodeOrNil : two_pass_merge(h, e, y) = G[Cardinality(Timers)][h][y]
    BY MergeRecursion
  <1>2. Cardinality(Timers) \in Nat
    BY TimerAssumption, FS_CardinalityType
  <1>3. G[Cardinality(Timers)] \in Mergers
    BY <1>2
  <1>4. G[Cardinality(Timers)][h][x] \in Results
    BY <1>3 DEF Mergers
  <1> QED  BY <1>1, <1>4

(* The links of a timer that has left the heap are cleared.                 *)
LEMMA ClearedHeap ==
    ASSUME NEW h, NEW e, NEW S, NEW root, HeapOf(h, e, S, root), NEW t \in S,
           NEW g \in Heaps, Agree(g, h, Timers \ S), NEW r, TreeOf(g, e, S \ {t}, r, Nil),
           NEW k, k = ClearLinks(g, t)
    PROVE  HeapOf(k, e, S \ {t}, r)
  <1> DEFINE R == S \ {t}
  <1>1. t \in Timers /\ S \subseteq Timers
    BY DEF HeapOf
  <1>2. /\ k \in Heaps /\ k.child[t] = Nil /\ k.sibling[t] = Nil /\ k.parent[t] = Nil
        /\ Agree(k, g, Timers \ {t})
    BY <1>1, ClearLinksFields
  <1>3. R \subseteq Timers /\ t \notin R
    BY <1>1
  <1> HIDE DEF R
  <1>4. Agree(k, g, R)
    BY <1>2, <1>3 DEF Agree
  <1>5. TreeOf(g, e, R, r, Nil)
    BY DEF R
  <1>6. TreeOf(k, e, R, r, Nil)
    BY <1>4, <1>5, TreeFrame
  <1>7. r \in NodeOrNil /\ r # Nil
    BY <1>6 DEF TreeOf, ListOf, NodeOrNil
  <1>8. ASSUME NEW u \in Timers \ R
        PROVE  k.child[u] = Nil /\ k.sibling[u] = Nil /\ k.parent[u] = Nil
    <2>1. CASE u = t
      BY <1>2, <2>1
    <2>2. CASE u # t
      <3>1. u \in Timers \ S /\ u \in Timers \ {t}
        BY <2>2 DEF R
      <3>2. h.child[u] = Nil /\ h.sibling[u] = Nil /\ h.parent[u] = Nil
        BY <3>1 DEF HeapOf
      <3>3. g.child[u] = h.child[u] /\ g.sibling[u] = h.sibling[u] /\ g.parent[u] = h.parent[u]
        BY <3>1 DEF Agree
      <3> QED  BY <1>2, <3>1, <3>2, <3>3 DEF Agree
    <2> QED  BY <2>1, <2>2
  <1>9. HeapOf(k, e, R, r)
    BY <1>2, <1>3, <1>6, <1>7, <1>8 DEF HeapOf
  <1> QED  BY <1>9 DEF R

(* What a timer that is not the root leaves behind: the rest of the heap    *)
(* and the list of its children.                                            *)
LEMMA DetachHeap ==
    ASSUME NEW h, NEW e, NEW S, NEW root, HeapOf(h, e, S, root), NEW t \in S, t # root,
           NEW g, g = DetachFromParent(h, t), NEW R, R = S \ HeapAt(h, S, t),
           NEW C, C = Below(h, S, t), NEW x, x = g.child[t]
    PROVE  TreeOf(g, e, R, root, Nil) /\ ListOf(g, e, C, x, t)
  <1>1. /\ TreeOf(h, e, S, root, Nil) /\ ListOf(h, e, S, root, Nil) /\ root \in S
        /\ h.sibling[root] = Nil /\ t # Nil
    BY NilIsNone DEF HeapOf, TreeOf, ListOf
  <1>2. g \in Heaps /\ Bypass(g, h, S, t) /\ Agree(g, h, Timers \ S)
    BY DetachFields
  <1>3. ListOf(g, e, S \ HeapAt(h, S, t), root, Nil) /\ Agree(g, h, Below(h, S, t))
    BY <1>1, <1>2, Detached
  <1>4. g.sibling[root] = Nil /\ root # Nil
    BY <1>1, <1>2, NilIsNone DEF Bypass, TreeOf
  <1>5. TreeOf(g, e, S \ HeapAt(h, S, t), root, Nil)
    BY <1>3, <1>4 DEF TreeOf
  <1>6. g.child[t] = h.child[t]
    <2>1. t \notin Below(h, S, t)
      BY <1>1, NotBelowItself
    <2>2. h.child[t] \in Below(h, S, t) \/ h.child[t] = Nil
      BY <1>1, BelowFacts
    <2> QED  BY <1>1, <1>2, <2>1, <2>2 DEF Bypass
  <1>7. ListOf(h, e, Below(h, S, t), h.child[t], t)
    BY <1>1, ChildList
  <1>8. ListOf(g, e, Below(h, S, t), h.child[t], t)
    BY <1>3, <1>7, ListFrame
  <1> QED  BY <1>2, <1>5, <1>6, <1>8

(* heap_remove, with the links of the removed timer cleared.                *)
LEMMA RemoveHeap ==
    ASSUME NEW h, NEW e \in [Timers -> Int], NEW S, NEW root, HeapOf(h, e, S, root), NEW t \in S,
           NEW m, m = heap_remove(h, e, root, t)
    PROVE  HeapOf(ClearLinks(m.h, t), e, S \ {t}, m.root)
  <1>1. CASE t = root
    <2>1. m = delete_min(h, e, root) /\ root # Nil
      BY <1>1, NilIsNone DEF heap_remove, HeapOf
    <2> QED  BY <1>1, <2>1, PopHeap
  <1>2. CASE t # root
    <2> DEFINE g == DetachFromParent(h, t)
               x == g.child[t]
               C == Below(h, S, t)
               R == S \ HeapAt(h, S, t)
               M == two_pass_merge(g, e, x)
               j == SetParent(M.h, M.root, Nil)
               J == heap_meld(j, e, root, M.root)
               l == SetParent(J.h, J.root, Nil)
    <2>1. m = IF x = Nil THEN [h |-> g, root |-> root] ELSE [J EXCEPT !.h = l]
      BY <1>2 DEF heap_remove
    <2>2. S \subseteq Timers /\ t \in Timers /\ ListOf(h, e, S, root, Nil)
      BY DEF HeapOf, TreeOf
    <2>3. /\ g \in Heaps /\ Agree(g, h, Timers \ S) /\ TreeOf(g, e, R, root, Nil)
          /\ ListOf(g, e, C, x, t)
      <3>1. g = DetachFromParent(h, t)
        OBVIOUS
      <3>2. R = S \ HeapAt(h, S, t) /\ C = Below(h, S, t) /\ x = g.child[t]
        OBVIOUS
      <3> HIDE DEF g, x, C, R
      <3>3. g \in Heaps /\ Agree(g, h, Timers \ S)
        BY <1>2, <3>1, DetachFields
      <3>4. TreeOf(g, e, R, root, Nil) /\ ListOf(g, e, C, x, t)
        BY <1>2, <3>1, <3>2, DetachHeap
      <3> QED  BY <3>3, <3>4
    <2>4. t \notin C /\ C \subseteq S /\ R = S \ ({t} \cup C)
      BY <2>2, BelowFacts, NotBelowItself DEF HeapAt
    <2> HIDE DEF g, x, C, R
    <2>5. CASE x = Nil
      <3>1. m.h = g /\ m.root = root
        BY <2>1, <2>5
      <3>2. R = S \ {t}
        BY <2>3, <2>4, <2>5, NilIsNone DEF ListOf
      <3>3. TreeOf(m.h, e, S \ {t}, m.root, Nil) /\ m.h \in Heaps /\ Agree(m.h, h, Timers \ S)
        BY <2>3, <3>1, <3>2
      <3> QED  BY <3>3, ClearedHeap
    <2>6. CASE x # Nil
      <3>1. x \in Timers
        BY <2>3, <2>6 DEF ListOf
      <3>2. M = two_pass_merge(g, e, x) /\ j = SetParent(M.h, M.root, Nil)
        OBVIOUS
      <3>3. J = heap_meld(j, e, root, M.root) /\ l = SetParent(J.h, J.root, Nil)
        OBVIOUS
      <3>4. m.h = l /\ m.root = J.root
        <4>1. J = [h |-> J.h, root |-> J.root]
          BY DEF heap_meld
        <4> HIDE DEF J, l
        <4> QED  BY <2>1, <2>6, <4>1
      <3> HIDE DEF M, j, J, l
      <3>5. j \in Heaps /\ Agree(j, g, Timers \ C) /\ TreeOf(j, e, C, M.root, Nil)
        BY <2>2, <2>3, <3>1, <3>2, MergeBelow
      <3>6. TreeOf(j, e, R, root, Nil)
        <4>1. Agree(j, g, R)
          BY <2>2, <2>4, <3>5 DEF Agree
        <4> QED  BY <2>3, <4>1, TreeFrame
      <3>7. R \cap C = {} /\ R \cup C = S \ {t} /\ Nil \notin R /\ Nil \notin C
        BY <2>2, <2>4, NilIsNone
      <3>8. /\ J.h \in Heaps /\ Agree(J.h, j, Timers \ (R \cup C))
            /\ TreeOf(J.h, e, R \cup C, J.root, Nil)
        BY <3>3, <3>5, <3>6, <3>7, MeldTrees
      <3>9. l \in Heaps /\ TreeOf(l, e, R \cup C, J.root, Nil) /\ Agree(l, J.h, Timers \ (R \cup C))
        BY <3>3, <3>8, SetParentTree
      <3>10. Agree(l, h, Timers \ S)
        BY <2>3, <2>4, <3>5, <3>7, <3>8, <3>9 DEF Agree
      <3>11. TreeOf(m.h, e, S \ {t}, m.root, Nil) /\ m.h \in Heaps /\ Agree(m.h, h, Timers \ S)
        BY <3>4, <3>7, <3>9, <3>10
      <3> QED  BY <3>11, ClearedHeap
    <2> QED  BY <2>5, <2>6
  <1> QED  BY <1>1, <1>2

-----------------------------------------------------------------------------
(* HeapOf and the heap's part of HeapInv say the same.                      *)

LEMMA ReachedIsFrom ==
    ASSUME NEW h, NEW root
    PROVE  Reached(h, root) = From(h, Timers, root)
  BY DEF Reached, From

(* The heap that HeapOf describes is well formed, and holds what can be     *)
(* reached.                                                                 *)
LEMMA HeapOfWellFormed ==
    ASSUME NEW h, NEW e, NEW S, NEW root, HeapOf(h, e, S, root)
    PROVE  /\ WellFormed(h, e, root) /\ Reached(h, root) = S
           /\ \A t \in Timers \ S : ClearLinks(h, t) = h
  <1>1. h \in Heaps /\ S \subseteq Timers /\ Closed(h, S) /\ Least(h, S, root) /\ {root} \ {Nil} \subseteq S
    <2>1. CASE root = Nil
      <3>1. S = {} /\ Closed(h, S) /\ Least(h, S, root)
        BY <2>1 DEF HeapOf, Closed, Least
      <3> QED  BY <2>1, <3>1 DEF HeapOf
    <2>2. CASE root # Nil
      BY <2>2 DEF HeapOf, TreeOf, ListOf
    <2> QED  BY <2>1, <2>2
  <1>2. Reached(h, root) = S
    <2>1. ASSUME NEW t \in Reached(h, root) PROVE t \in S
      BY <1>1, <2>1 DEF Reached
    <2>2. ASSUME NEW t \in S, NEW X \in SUBSET Timers, {root} \ {Nil} \subseteq X, Closed(h, X)
          PROVE  t \in X
      <3> DEFINE Y == X \cap S
      <3>1. Y \in SUBSET S /\ {root} \ {Nil} \subseteq Y /\ Closed(h, Y)
        BY <1>1, <2>2 DEF Closed
      <3>2. S \subseteq Y
        BY <1>1, <3>1 DEF Least
      <3> QED  BY <3>2
    <2>3. S \subseteq Reached(h, root)
      BY <1>1, <2>2 DEF Reached
    <2> QED  BY <2>1, <2>3
  <1>3. WellFormed(h, e, root)
    <2>1. CASE root = Nil
      <3>1. S = {}
        BY <2>1 DEF HeapOf
      <3> QED  BY <1>2, <2>1, <3>1 DEF WellFormed
    <2>2. CASE root # Nil
      <3>1. /\ TreeOf(h, e, S, root, Nil) /\ Ordered(h, e, S, root, Nil) /\ Single(h, S, root)
            /\ h.parent[root] = Nil /\ h.sibling[root] = Nil
        BY <2>2 DEF HeapOf, TreeOf, ListOf, Ordered
      <3>2. \A t \in S \ {root} : h.parent[t] \in S /\ e[h.parent[t]] <= e[t]
        BY <3>1, OnlyRoot
      <3>3. \A t \in S : /\ h.child[t] # Nil => h.parent[h.child[t]] = t
                         /\ h.sibling[t] # Nil => h.parent[h.sibling[t]] = h.parent[t]
        BY <3>1 DEF Ordered
      <3>4. \A s, t \in S : /\ h.sibling[s] # Nil /\ h.sibling[s] = h.sibling[t] => s = t
                            /\ h.child[s] # Nil => h.child[s] # h.sibling[t]
        BY <3>1 DEF Single
      <3> QED  BY <1>2, <3>1, <3>2, <3>3, <3>4 DEF WellFormed
    <2> QED  BY <2>1, <2>2
  <1>4. ASSUME NEW t \in Timers \ S PROVE ClearLinks(h, t) = h
    BY <1>4, ClearedOutside
  <1> QED  BY <1>2, <1>3, <1>4

-----------------------------------------------------------------------------
(* The timer queue.                                                        *)

(* HeapInv, with the heap as HeapOf describes it, is inductive.             *)
TimersInv == TypeOK /\ FiredOnce /\ HeapOf(heap, expire, Linked, heap_root)

LEMMA TimersInvGives == TimersInv => HeapInv
  <1> SUFFICES ASSUME TimersInv PROVE HeapInv
    OBVIOUS
  <1>1. TypeOK /\ FiredOnce /\ HeapOf(heap, expire, Linked, heap_root)
    BY DEF TimersInv
  <1>2. /\ WellFormed(heap, expire, heap_root) /\ Reached(heap, heap_root) = Linked
        /\ \A t \in Timers \ Linked : ClearLinks(heap, t) = heap
    BY <1>1, HeapOfWellFormed
  <1> QED  BY <1>1, <1>2 DEF HeapInv

LEMMA TimersStart == Init => TimersInv
  <1> SUFFICES ASSUME Init PROVE TimersInv
    OBVIOUS
  <1>1. TypeOK
    <2>1. EmptyHeap \in Heaps
      BY DEF EmptyHeap, Heaps, Links, Unlinked
    <2>2. 0 \in 0 .. MaxTime
      BY TimerAssumption
    <2>3. queue \in Seq(Nodes)
      BY EmptySeq DEF Init
    <2>4. expire \in [Timers -> 0 .. MaxTime] /\ seen \in [Workers -> 0 .. MaxTime] /\ now \in 0 .. MaxTime
      BY <2>2 DEF Init
    <2>5. \A w \in Workers : (pc[w] = "loop" <=> lk = w) /\ seen[w] <= now
      BY TimerAssumption DEF Init
    <2> QED  BY <2>1, <2>3, <2>4, <2>5 DEF Init, TypeOK
  <1>2. FiredOnce
    BY DEF Init, FiredOnce, NoDuplicates
  <1>3. HeapOf(heap, expire, Linked, heap_root)
    <2>1. \A t \in Timers : heap.child[t] = Nil /\ heap.sibling[t] = Nil /\ heap.parent[t] = Nil
      BY DEF Init, EmptyHeap, Unlinked
    <2> QED  BY <1>1, <2>1 DEF Init, HeapOf, TypeOK, NodeOrNil, Linked
  <1> QED  BY <1>1, <1>2, <1>3 DEF TimersInv

(* The facts of TimersInv that every step uses.                             *)
LEMMA TimersFacts ==
    ASSUME TimersInv
    PROVE  /\ HeapOf(heap, expire, Linked, heap_root)
           /\ expire \in [Timers -> Int] /\ owner_queue \subseteq Timers
           /\ arming \subseteq owner_queue /\ Linked = owner_queue \ arming
           /\ \A t \in Timers : expire[t] \in 0 .. MaxTime
           /\ heap_root # Nil => heap_root \in Linked
           /\ queue \in Seq(Nodes) /\ NoDuplicates(queue)
           /\ \A t \in owner_queue : ~ OnList(queue, t)
           /\ Timers \subseteq Nodes /\ TimerNode \in Nodes
  <1>1. HeapOf(heap, expire, Linked, heap_root) /\ expire \in [Timers -> 0 .. MaxTime]
    BY DEF TimersInv, TypeOK
  <1>2. heap_root # Nil => heap_root \in Linked
    BY <1>1 DEF HeapOf, TreeOf, ListOf
  <1>3. expire \in [Timers -> Int] /\ \A t \in Timers : expire[t] \in 0 .. MaxTime
    BY <1>1
  <1> QED  BY <1>1, <1>2, <1>3, TimerAssumption DEF TimersInv, TypeOK, FiredOnce, Linked

(* What post_delayed_work leaves before it takes the lock ...               *)
LEMMA AskStep ==
    ASSUME TimersInv, NEW t \in Timers, NEW ms \in Delays, PostDelayedWork(t, ms)
    PROVE  TimersInv'
  <1>1. /\ t \notin owner_queue /\ ~ OnList(queue, t) /\ now + ms <= MaxTime
        /\ expire' = [expire EXCEPT ![t] = now + ms]
        /\ owner_queue' = owner_queue \cup {t} /\ arming' = arming \cup {t}
        /\ heap' = ClearLinks(heap, t)
        /\ UNCHANGED <<queue, lk, heap_root, now, tick, pc, seen>>
    BY DEF PostDelayedWork
  <1>2. now + ms \in Int /\ now + ms \in 0 .. MaxTime
    BY <1>1, TimerAssumption DEF TimersInv, TypeOK
  <1>3. Linked' = Linked /\ t \in Timers \ Linked /\ heap' = heap
    <2>1. HeapOf(heap, expire, Linked, heap_root) /\ t \in Timers \ Linked /\ Linked' = Linked
      BY <1>1, TimersFacts DEF Linked
    <2> QED  BY <1>1, <2>1, ClearedOutside
  <1>4. HeapOf(heap', expire', Linked', heap_root')
    <2>1. HeapOf(heap, expire, Linked, heap_root) /\ expire \in [Timers -> Int] /\ Linked \subseteq Timers
      BY TimersFacts
    <2>2. \A u \in Linked : expire'[u] = expire[u]
      BY <1>1, <1>3, <2>1
    <2> QED  BY <1>1, <1>3, <2>1, <2>2, HeapFrame
  <1>5. TypeOK'
    <2>1. expire' \in [Timers -> 0 .. MaxTime]
      BY <1>1, <1>2 DEF TimersInv, TypeOK
    <2>2. owner_queue' \subseteq Timers /\ arming' \subseteq owner_queue'
      BY <1>1 DEF TimersInv, TypeOK
    <2> QED  BY <1>1, <1>3, <2>1, <2>2 DEF TimersInv, TypeOK
  <1>6. FiredOnce'
    BY <1>1 DEF TimersInv, FiredOnce, NoDuplicates, OnList
  <1> QED  BY <1>4, <1>5, <1>6 DEF TimersInv

(* ... and with it.                                                         *)
LEMMA LinkStep ==
    ASSUME TimersInv, NEW t \in Timers, LinkDelayedWork(t)
    PROVE  TimersInv'
  <1> DEFINE m == heap_meld(heap, expire, heap_root, t)
  <1>1. /\ t \in arming /\ arming' = arming \ {t}
        /\ heap' = SetParent(m.h, m.root, Nil) /\ heap_root' = m.root
        /\ UNCHANGED <<queue, lk, expire, owner_queue, now, tick, pc, seen>>
    BY DEF LinkDelayedWork
  <1>2. Linked' = Linked \cup {t} /\ t \in Timers \ Linked
    BY <1>1, TimersFacts DEF Linked
  <1>3. HeapOf(heap', expire', Linked', heap_root')
    <2>1. expire \in [Timers -> Int] /\ HeapOf(heap, expire, Linked, heap_root)
      BY TimersFacts
    <2>2. m = heap_meld(heap, expire, heap_root, t)
      OBVIOUS
    <2> HIDE DEF m
    <2>3. HeapOf(SetParent(m.h, m.root, Nil), expire, Linked \cup {t}, m.root)
      BY <1>2, <2>1, <2>2, ArmHeap
    <2> QED  BY <1>1, <1>2, <2>3
  <1> HIDE DEF m
  <1>4. TypeOK'
    <2>1. heap' \in Heaps /\ heap_root' \in Timers \cup {Nil}
      BY <1>3 DEF HeapOf, NodeOrNil
    <2>2. arming' \subseteq owner_queue'
      BY <1>1, TimersFacts
    <2> QED  BY <1>1, <2>1, <2>2 DEF TimersInv, TypeOK
  <1>5. FiredOnce'
    BY <1>1 DEF TimersInv, FiredOnce, NoDuplicates, OnList
  <1> QED  BY <1>3, <1>4, <1>5 DEF TimersInv

(* What cancel leaves.                                                      *)
LEMMA CancelStep ==
    ASSUME ~ CancelArming, TimersInv, NEW t \in Timers, Cancel(t)
    PROVE  TimersInv'
  <1> DEFINE m == heap_remove(heap, expire, heap_root, t)
  <1>1. /\ t \in owner_queue /\ owner_queue' = owner_queue \ {t} /\ t \notin arming
        /\ heap' = ClearLinks(m.h, t) /\ heap_root' = m.root
        /\ UNCHANGED <<queue, lk, expire, arming, now, tick, pc, seen>>
    BY DEF Cancel
  <1>5. t \in Linked /\ Linked' = Linked \ {t}
    BY <1>1 DEF Linked
  <1>2. HeapOf(heap', expire', Linked', heap_root')
    <2>1. expire \in [Timers -> Int] /\ HeapOf(heap, expire, Linked, heap_root)
      BY TimersFacts
    <2>2. m = heap_remove(heap, expire, heap_root, t)
      OBVIOUS
    <2> HIDE DEF m
    <2>3. HeapOf(ClearLinks(m.h, t), expire, Linked \ {t}, m.root)
      BY <1>5, <2>1, <2>2, RemoveHeap
    <2> QED  BY <1>1, <1>5, <2>3
  <1> HIDE DEF m
  <1>3. TypeOK'
    <2>1. heap' \in Heaps /\ heap_root' \in Timers \cup {Nil}
      BY <1>2 DEF HeapOf, NodeOrNil
    <2>2. owner_queue' \subseteq Timers /\ arming' \subseteq owner_queue'
      BY <1>1, TimersFacts
    <2> QED  BY <1>1, <2>1, <2>2 DEF TimersInv, TypeOK
  <1>4. FiredOnce'
    BY <1>1 DEF TimersInv, FiredOnce, NoDuplicates, OnList
  <1> QED  BY <1>2, <1>3, <1>4 DEF TimersInv

(* What a turn of tim_chk_cb's loop leaves.                                 *)
LEMMA PopStep ==
    ASSUME TimersInv, NEW w \in Workers, ChkPop(w)
    PROVE  TimersInv'
  <1> DEFINE m == delete_min(heap, expire, heap_root)
  <1>1. /\ heap_root # Nil /\ owner_queue' = owner_queue \ {heap_root}
        /\ heap' = ClearLinks(m.h, heap_root) /\ heap_root' = m.root
        /\ queue' = MoveToTail(queue, heap_root)
        /\ UNCHANGED <<lk, expire, arming, now, tick, pc, seen>>
    BY DEF ChkPop, Due, QueuePost
  <1>6. heap_root \in Linked /\ Linked' = Linked \ {heap_root}
    <2>1. heap_root \in Linked
      BY <1>1, TimersFacts
    <2> QED  BY <1>1, <2>1 DEF Linked
  <1>2. HeapOf(heap', expire', Linked', heap_root')
    <2>1. expire \in [Timers -> Int] /\ HeapOf(heap, expire, Linked, heap_root)
      BY TimersFacts
    <2>2. m = delete_min(heap, expire, heap_root)
      OBVIOUS
    <2> HIDE DEF m
    <2>3. HeapOf(ClearLinks(m.h, heap_root), expire, Linked \ {heap_root}, m.root)
      BY <1>1, <2>1, <2>2, PopHeap
    <2> QED  BY <1>1, <1>6, <2>3
  <1> HIDE DEF m
  <1>3. /\ queue' \in Seq(Nodes) /\ NoDuplicates(queue')
        /\ \A n : OnList(queue', n) <=> OnList(queue, n) \/ n = heap_root
    <2>1. queue \in Seq(Nodes) /\ heap_root \in Nodes /\ NoDuplicates(queue)
      BY <1>6, TimersFacts DEF Linked
    <2> QED  BY <1>1, <2>1, MoveToTailFacts
  <1>4. TypeOK'
    <2>1. heap' \in Heaps /\ heap_root' \in Timers \cup {Nil}
      BY <1>2 DEF HeapOf, NodeOrNil
    <2>2. owner_queue' \subseteq Timers /\ arming' \subseteq owner_queue'
      BY <1>1, <1>6, TimersFacts
    <2> QED  BY <1>1, <1>3, <2>1, <2>2 DEF TimersInv, TypeOK
  <1>5. FiredOnce'
    <2>1. \A u \in owner_queue' : ~ OnList(queue', u)
      BY <1>1, <1>3, TimersFacts
    <2> QED  BY <1>3, <2>1 DEF FiredOnce, NoDuplicates, OnList
  <1> QED  BY <1>2, <1>4, <1>5 DEF TimersInv

(* A step that leaves the heap alone and keeps the types leaves the         *)
(* invariant, if what it does to the run queue keeps the timers apart.      *)
LEMMA QueueStep ==
    ASSUME TimersInv, TypeOK', NoDuplicates(queue'), UNCHANGED heapVars,
           \A t \in Timers : OnList(queue', t) => OnList(queue, t)
    PROVE  TimersInv'
  <1>1. HeapOf(heap', expire', Linked', heap_root')
    BY TimersFacts DEF heapVars, Linked
  <1>2. FiredOnce'
    <2>1. \A t \in owner_queue' : ~ OnList(queue', t)
      BY TimersFacts DEF heapVars
    <2> QED  BY <2>1 DEF FiredOnce, NoDuplicates, OnList
  <1> QED  BY <1>1, <1>2 DEF TimersInv

(* Taking the first node off the run queue.                                 *)
LEMMA TakeStep ==
    ASSUME TimersInv, QueueTake
    PROVE  /\ queue' \in Seq(Nodes) /\ NoDuplicates(queue') /\ Head(queue) \in Nodes
           /\ OnList(queue, Head(queue)) /\ ~ OnList(queue', Head(queue))
           /\ \A n : OnList(queue, n) <=> OnList(queue', n) \/ n = Head(queue)
  <1>1. queue \in Seq(Nodes) /\ NoDuplicates(queue) /\ queue # << >> /\ queue' = Tail(queue)
    BY TimersFacts DEF QueueTake
  <1> QED  BY <1>1, TailFacts

LEMMA TimersKept ==
    ASSUME ~ CancelArming
    PROVE  TimersInv /\ [Next]_vars => TimersInv'
  <1> SUFFICES ASSUME TimersInv, [Next]_vars PROVE TimersInv'
    OBVIOUS
  <1>0. TypeOK /\ NoDuplicates(queue)
    BY TimersFacts DEF TimersInv
  <1>1. CASE Clock
    <2>1. TypeOK'
      BY <1>0, <1>1, TimerAssumption DEF Clock, TypeOK, heapVars
    <2>2. UNCHANGED queue /\ UNCHANGED heapVars
      BY <1>1 DEF Clock, heapVars
    <2> QED  BY <1>0, <2>1, <2>2, QueueStep
  <1>2. ASSUME NEW t \in Timers, Cancel(t) PROVE TimersInv'
    BY <1>2, CancelStep
  <1>3. ASSUME NEW t \in Timers, NEW ms \in Delays, PostDelayedWork(t, ms) PROVE TimersInv'
    BY <1>3, AskStep
  <1>11. ASSUME NEW t \in Timers, LinkDelayedWork(t) PROVE TimersInv'
    BY <1>11, LinkStep
  <1>4. CASE TickRead
    <2>1. TypeOK'
      BY <1>0, <1>4 DEF TickRead, TypeOK, heapVars
    <2>2. UNCHANGED queue /\ UNCHANGED heapVars
      BY <1>4 DEF TickRead, heapVars
    <2> QED  BY <1>0, <2>1, <2>2, QueueStep
  <1>5. CASE TickPost
    <2>1. queue' = MoveToTail(queue, TimerNode) /\ UNCHANGED heapVars
      BY <1>5 DEF TickPost, QueuePost
    <2>2. /\ queue' \in Seq(Nodes) /\ NoDuplicates(queue')
          /\ \A n : OnList(queue', n) <=> OnList(queue, n) \/ n = TimerNode
      <3>1. queue \in Seq(Nodes) /\ TimerNode \in Nodes
        BY TimersFacts
      <3> QED  BY <1>0, <2>1, <3>1, MoveToTailFacts
    <2>3. TypeOK'
      BY <1>0, <1>5, <2>2 DEF TickPost, TypeOK, heapVars
    <2>4. \A t \in Timers : OnList(queue', t) => OnList(queue, t)
      BY <2>2, TimerAssumption
    <2> QED  BY <2>1, <2>2, <2>3, <2>4, QueueStep
  <1>6. ASSUME NEW w \in Workers, TakeTimer(w) PROVE TimersInv'
    <2>1. QueueTake /\ UNCHANGED heapVars
      BY <1>6 DEF TakeTimer
    <2>2. queue' \in Seq(Nodes) /\ NoDuplicates(queue')
      BY <2>1, TakeStep
    <2>3. \A t \in Timers : OnList(queue', t) => OnList(queue, t)
      BY <2>1, TakeStep
    <2>4. TypeOK'
      <3>1. pc' = [pc EXCEPT ![w] = "chk"] /\ seen' = [seen EXCEPT ![w] = now] /\ pc[w] = "idle"
        BY <1>6 DEF TakeTimer, Goto
      <3>2. UNCHANGED <<lk, heapVars, now, tick>>
        BY <1>6 DEF TakeTimer
      <3>3. \A v \in Workers : (pc'[v] = "loop" <=> lk' = v) /\ seen'[v] <= now'
        BY <1>0, <3>1, <3>2 DEF TypeOK
      <3> QED  BY <1>0, <2>2, <3>1, <3>2, <3>3 DEF TypeOK, heapVars
    <2> QED  BY <2>1, <2>2, <2>3, <2>4, QueueStep
  <1>7. ASSUME NEW w \in Workers, TakeDelay(w) PROVE TimersInv'
    <2>1. QueueTake /\ UNCHANGED heapVars
      BY <1>7 DEF TakeDelay
    <2>2. queue' \in Seq(Nodes) /\ NoDuplicates(queue')
      BY <2>1, TakeStep
    <2>3. \A t \in Timers : OnList(queue', t) => OnList(queue, t)
      BY <2>1, TakeStep
    <2>4. TypeOK'
      BY <1>0, <1>7, <2>2 DEF TakeDelay, TypeOK, heapVars
    <2> QED  BY <2>1, <2>2, <2>3, <2>4, QueueStep
  <1>8. ASSUME NEW w \in Workers, ChkLock(w) \/ ChkUnlock(w) PROVE TimersInv'
    <2>1. UNCHANGED queue /\ UNCHANGED heapVars
      BY <1>8 DEF ChkLock, ChkUnlock
    <2>2. TypeOK'
      <3>1. CASE ChkLock(w)
        <4>1. \A v \in Workers : (pc'[v] = "loop" <=> lk' = v) /\ seen'[v] <= now'
          BY <1>0, <3>1, TimerAssumption DEF ChkLock, Goto, TypeOK
        <4> QED  BY <1>0, <3>1, <4>1 DEF ChkLock, Goto, TypeOK, heapVars
      <3>2. CASE ChkUnlock(w)
        <4>1. \A v \in Workers : (pc'[v] = "loop" <=> lk' = v) /\ seen'[v] <= now'
          BY <1>0, <3>2, TimerAssumption DEF ChkUnlock, Goto, TypeOK
        <4> QED  BY <1>0, <3>2, <4>1 DEF ChkUnlock, Goto, TypeOK, heapVars
      <3> QED  BY <1>8, <3>1, <3>2
    <2> QED  BY <1>0, <2>1, <2>2, QueueStep
  <1>9. ASSUME NEW w \in Workers, ChkPop(w) PROVE TimersInv'
    BY <1>9, PopStep
  <1>10. CASE UNCHANGED vars
    <2>1. TypeOK' /\ UNCHANGED queue /\ UNCHANGED heapVars
      BY <1>0, <1>10 DEF vars, TypeOK, heapVars
    <2> QED  BY <1>0, <2>1, QueueStep
  <1> QED
    BY <1>1, <1>2, <1>3, <1>4, <1>5, <1>6, <1>7, <1>8, <1>9, <1>10, <1>11 DEF Next, WorkerStep

(* Whatever is armed, cancelled and fired, for any number of timers and     *)
(* workers: the links are a heap that holds exactly the timers that think   *)
(* they are in it and are not still to be linked, a timer outside has no    *)
(* link into it left, and a timer is armed or queued to run, never both; as *)
(* long as nobody cancels a timer that is still being armed.                *)
THEOREM TimersInHeap ==
    ASSUME ~ CancelArming
    PROVE  Spec => []HeapInv
  <1>1. TimersInv /\ [Next]_vars => TimersInv'
    BY TimersKept
  <1> QED  BY <1>1, TimersStart, TimersInvGives, PTL DEF Spec

-----------------------------------------------------------------------------
(* The set of deadlines.                                                   *)

(* The links lead to the timers of a heap, and to no others.                *)
LEMMA DeadlinesAre ==
    ASSUME NEW h, NEW e, NEW S, NEW root, HeapOf(h, e, S, root),
           NEW T, T = {root} \cup Range(h.child) \cup Range(h.sibling), NEW t \in Timers
    PROVE  t \in T <=> t \in S
  <1>1. /\ h \in Heaps /\ h.child \in [Timers -> NodeOrNil] /\ h.sibling \in [Timers -> NodeOrNil]
        /\ S \subseteq Timers /\ t # Nil
    BY HeapFields, NilIsNone DEF HeapOf
  <1>2. t \in T <=> t = root \/ \E s \in Timers : h.child[s] = t \/ h.sibling[s] = t
    BY <1>1 DEF Range
  <1>3. CASE root = Nil
    <2>1. S = {} /\ \A s \in Timers : h.child[s] = Nil /\ h.sibling[s] = Nil
      BY <1>3 DEF HeapOf
    <2> QED  BY <1>1, <1>2, <1>3, <2>1
  <1>4. CASE root # Nil
    <2>1. ListOf(h, e, S, root, Nil) /\ Closed(h, S) /\ root \in S
      BY <1>4 DEF HeapOf, TreeOf, ListOf
    <2>2. t \in S => t = root \/ \E s \in S : Leads(h, s, t)
      BY <2>1, HasPredecessor
    <2>3. ASSUME NEW s \in Timers, h.child[s] = t \/ h.sibling[s] = t PROVE t \in S
      <3>1. s \in S
        BY <1>1, <2>3 DEF HeapOf
      <3> QED  BY <1>1, <2>1, <2>3, <3>1, LinksInside
    <2> QED  BY <1>1, <1>2, <2>1, <2>2, <2>3 DEF Leads
  <1> QED  BY <1>3, <1>4

(* So Deadlines is what the armed timers expire at.                         *)
LEMMA DeadlinesNow ==
    ASSUME TimersInv
    PROVE  Deadlines = [t \in Timers |-> IF t \in Linked THEN expire[t] ELSE Nil]
  <1> DEFINE T == {heap_root} \cup Range(heap.child) \cup Range(heap.sibling)
  <1>1. Deadlines = [t \in Timers |-> IF t \in T THEN expire[t] ELSE Nil]
    BY DEF Deadlines
  <1>2. ASSUME NEW t \in Timers PROVE t \in T <=> t \in Linked
    <2>1. PICK X : X = T
      OBVIOUS
    <2>2. X = {heap_root} \cup Range(heap.child) \cup Range(heap.sibling)
      BY <2>1
    <2> HIDE DEF T
    <2>3. HeapOf(heap, expire, Linked, heap_root)
      BY TimersFacts
    <2>4. t \in X <=> t \in Linked
      BY <2>2, <2>3, DeadlinesAre
    <2> QED  BY <2>1, <2>4
  <1> HIDE DEF T
  <1> QED  BY <1>1, <1>2

(* The same of the next state.                                              *)
LEMMA DeadlinesNext ==
    ASSUME TimersInv'
    PROVE  Deadlines' = [t \in Timers |-> IF t \in Linked' THEN expire'[t] ELSE Nil]
  <1> DEFINE T == {heap_root'} \cup Range(heap'.child) \cup Range(heap'.sibling)
  <1>1. Deadlines' = [t \in Timers |-> IF t \in T THEN expire'[t] ELSE Nil]
    BY DEF Deadlines
  <1>2. ASSUME NEW t \in Timers PROVE t \in T <=> t \in Linked'
    <2>1. PICK X : X = T
      OBVIOUS
    <2>2. X = {heap_root'} \cup Range(heap'.child) \cup Range(heap'.sibling)
      BY <2>1
    <2> HIDE DEF T
    <2>3. HeapOf(heap', expire', Linked', heap_root')
      BY DEF TimersInv
    <2>4. t \in X <=> t \in Linked'
      BY <2>2, <2>3, DeadlinesAre
    <2> QED  BY <2>1, <2>4
  <1> HIDE DEF T
  <1> QED  BY <1>1, <1>2

(* A deadline of an armed timer is a time, and never Nil.                   *)
LEMMA ArmedHasTime ==
    ASSUME TimersInv, NEW t \in Timers
    PROVE  /\ Deadlines[t] = IF t \in Linked THEN expire[t] ELSE Nil
           /\ expire[t] \in Nat /\ expire[t] # Nil
           /\ Abstract!Armed(t) <=> t \in Linked
  <1>1. expire[t] \in 0 .. MaxTime /\ MaxTime \in Nat
    BY TimersFacts, TimerAssumption
  <1>2. expire[t] \in Nat /\ expire[t] # Nil
    BY <1>1, TimerAssumption
  <1>3. Deadlines[t] = IF t \in Linked THEN expire[t] ELSE Nil
    BY DeadlinesNow
  <1> QED  BY <1>2, <1>3 DEF Abstract!Armed

(* A step that leaves the set of deadlines alone.                           *)
LEMMA DeadlinesStay ==
    ASSUME UNCHANGED heapVars
    PROVE  Deadlines' = Deadlines
  BY DEF heapVars, Deadlines

(* The deadlines of the timers that are still to be linked.                 *)
Asked == [t \in Timers |-> IF t \in arming THEN expire[t] ELSE Nil]

LEMMA AskedStay ==
    ASSUME UNCHANGED heapVars
    PROVE  Asked' = Asked
  BY DEF heapVars, Asked

LEMMA AskRefines ==
    ASSUME TimersInv, TimersInv', NEW t \in Timers, NEW ms \in Delays, PostDelayedWork(t, ms)
    PROVE  Abstract!Ask(t)
  <1>1. /\ t \notin owner_queue /\ ~ OnList(queue, t) /\ now + ms <= MaxTime
        /\ expire' = [expire EXCEPT ![t] = now + ms]
        /\ owner_queue' = owner_queue \cup {t} /\ arming' = arming \cup {t}
        /\ queue' = queue /\ now' = now
    BY DEF PostDelayedWork
  <1>2. ms \in 0 .. MaxTime
    <2>1. now \in 0 .. MaxTime /\ MaxTime \in Nat /\ ms \in Nat
      BY TimerAssumption DEF TimersInv, TypeOK
    <2> QED  BY <1>1, <2>1
  <1>3. /\ expire \in [Timers -> Int] /\ owner_queue \subseteq Timers /\ arming \subseteq owner_queue
        /\ Linked = owner_queue \ arming
    BY TimersFacts
  <1>4. t \notin arming /\ t \notin Linked /\ Linked' = Linked
    BY <1>1, <1>3 DEF Linked
  <1>5. Deadlines' = Deadlines
    <2>1. Deadlines = [u \in Timers |-> IF u \in Linked THEN expire[u] ELSE Nil]
      BY DeadlinesNow
    <2>2. Deadlines' = [u \in Timers |-> IF u \in Linked' THEN expire'[u] ELSE Nil]
      BY DeadlinesNext
    <2>3. \A u \in Linked : expire'[u] = expire[u]
      BY <1>1, <1>3, <1>4
    <2> QED  BY <1>4, <2>1, <2>2, <2>3
  <1>6. Asked' = [Asked EXCEPT ![t] = now + ms] /\ Asked[t] = Nil
    <2>1. Asked' = [u \in Timers |-> IF u \in arming' THEN expire'[u] ELSE Nil]
      BY DEF Asked
    <2>2. Asked = [u \in Timers |-> IF u \in arming THEN expire[u] ELSE Nil]
      BY DEF Asked
    <2>3. \A u \in Timers : Asked'[u] = IF u = t THEN now + ms ELSE Asked[u]
      BY <1>1, <1>3, <1>4, <2>1, <2>2
    <2> QED  BY <1>4, <2>1, <2>2, <2>3
  <1>7. ~ Abstract!Armed(t)
    BY <1>4, ArmedHasTime
  <1>8. { u \in Timers : OnList(queue, u) }' = { u \in Timers : OnList(queue, u) }
    BY <1>1 DEF OnList
  <1>9. t \notin { u \in Timers : OnList(queue, u) }
    BY <1>1
  <1> QED  BY <1>1, <1>2, <1>5, <1>6, <1>7, <1>8, <1>9 DEF Abstract!Ask, Asked

LEMMA ArmRefines ==
    ASSUME TimersInv, TimersInv', NEW t \in Timers, LinkDelayedWork(t)
    PROVE  Abstract!Arm(t)
  <1>1. /\ t \in arming /\ arming' = arming \ {t}
        /\ expire' = expire /\ owner_queue' = owner_queue /\ queue' = queue /\ now' = now
    BY DEF LinkDelayedWork
  <1>2. /\ Linked' = Linked \cup {t} /\ t \notin Linked
        /\ expire[t] # Nil
    <2>1. arming \subseteq owner_queue /\ Linked = owner_queue \ arming
      BY TimersFacts
    <2> QED  BY <1>1, <2>1, ArmedHasTime DEF Linked
  <1>3. Asked[t] = expire[t] /\ Asked' = [Asked EXCEPT ![t] = Nil]
    <2>1. Asked' = [u \in Timers |-> IF u \in arming \ {t} THEN expire[u] ELSE Nil]
      BY <1>1 DEF Asked
    <2> QED  BY <1>1, <2>1 DEF Asked
  <1>4. Deadlines' = [Deadlines EXCEPT ![t] = Asked[t]]
    <2>1. Deadlines = [u \in Timers |-> IF u \in Linked THEN expire[u] ELSE Nil]
      BY DeadlinesNow
    <2>2. Deadlines' = [u \in Timers |-> IF u \in Linked \cup {t} THEN expire[u] ELSE Nil]
      BY <1>1, <1>2, DeadlinesNext
    <2> QED  BY <1>2, <1>3, <2>1, <2>2
  <1>5. ~ Abstract!Armed(t)
    BY <1>2, ArmedHasTime
  <1>6. { u \in Timers : OnList(queue, u) }' = { u \in Timers : OnList(queue, u) }
    BY <1>1 DEF OnList
  <1> QED  BY <1>1, <1>2, <1>3, <1>4, <1>5, <1>6 DEF Abstract!Arm, Asked

(* A timer that leaves the heap has no deadline, and the others keep theirs. *)
LEMMA LeavesHeap ==
    ASSUME TimersInv, TimersInv', NEW t \in Timers,
           t \in Linked, owner_queue' = owner_queue \ {t}, arming' = arming, expire' = expire
    PROVE  /\ Deadlines' = [Deadlines EXCEPT ![t] = Nil]
           /\ Asked' = Asked
           /\ Abstract!Armed(t)
  <1>0. Linked' = Linked \ {t}
    BY DEF Linked
  <1>1. Deadlines = [u \in Timers |-> IF u \in Linked THEN expire[u] ELSE Nil]
    BY DeadlinesNow
  <1>2. Deadlines' = [u \in Timers |-> IF u \in Linked' THEN expire'[u] ELSE Nil]
    BY DeadlinesNext
  <1>3. Deadlines'[t] = Nil /\ \A u \in Timers : u # t => Deadlines'[u] = Deadlines[u]
    BY <1>0, <1>1, <1>2
  <1>4. Deadlines' = [Deadlines EXCEPT ![t] = Nil]
    BY <1>1, <1>2, <1>3
  <1>5. Abstract!Armed(t)
    BY ArmedHasTime
  <1> QED  BY <1>4, <1>5 DEF Asked

LEMMA CancelRefines ==
    ASSUME ~ CancelArming, TimersInv, TimersInv', NEW t \in Timers, Cancel(t)
    PROVE  Abstract!Disarm(t)
  <1>1. /\ t \in Linked /\ owner_queue' = owner_queue \ {t} /\ arming' = arming
        /\ expire' = expire /\ queue' = queue /\ now' = now
    BY DEF Cancel, Linked
  <1>2. /\ Deadlines' = [Deadlines EXCEPT ![t] = Nil]
        /\ Asked' = Asked /\ Abstract!Armed(t)
    BY <1>1, LeavesHeap
  <1>3. { u \in Timers : OnList(queue, u) }' = { u \in Timers : OnList(queue, u) }
    BY <1>1 DEF OnList
  <1> QED  BY <1>1, <1>2, <1>3 DEF Abstract!Disarm, Asked

LEMMA PopRefines ==
    ASSUME TimersInv, TimersInv', NEW w \in Workers, ChkPop(w)
    PROVE  \E t \in Timers : Abstract!Fire(t)
  <1> DEFINE t == heap_root
  <1>1. /\ t # Nil /\ expire[t] <= seen[w] /\ owner_queue' = owner_queue \ {t}
        /\ arming' = arming /\ expire' = expire
        /\ queue' = MoveToTail(queue, t) /\ now' = now
    BY DEF ChkPop, Due, QueuePost
  <1>2. t \in Linked /\ t \in Timers /\ ~ OnList(queue, t)
    <2>1. t \in Linked /\ Linked \subseteq owner_queue
      BY <1>1, TimersFacts
    <2> QED  BY <2>1, TimersFacts
  <1>3. /\ Deadlines' = [Deadlines EXCEPT ![t] = Nil]
        /\ Asked' = Asked /\ Abstract!Armed(t)
    BY <1>1, <1>2, LeavesHeap
  <1>4. \A n : OnList(queue', n) <=> OnList(queue, n) \/ n = t
    <2>1. queue \in Seq(Nodes) /\ t \in Nodes
      BY <1>2, TimersFacts
    <2> QED  BY <1>1, <2>1, MoveToTailFacts
  <1>5. /\ t \notin { u \in Timers : OnList(queue, u) }
        /\ { u \in Timers : OnList(queue, u) }' = { u \in Timers : OnList(queue, u) } \cup {t}
    <2>1. { u \in Timers : OnList(queue, u) }' = { u \in Timers : OnList(queue', u) }
      BY DEF OnList
    <2> HIDE DEF t
    <2> QED  BY <1>2, <1>4, <2>1
  <1>6. Deadlines[t] = expire[t] /\ expire[t] \in Nat
    BY <1>2, ArmedHasTime
  <1>7. Deadlines[t] <= now
    <2>1. seen[w] \in 0 .. MaxTime /\ now \in 0 .. MaxTime /\ seen[w] <= now
      BY DEF TimersInv, TypeOK
    <2> QED  BY <1>1, <1>6, <2>1
  <1>8. ASSUME NEW u \in Timers, Abstract!Armed(u) PROVE Deadlines[t] <= Deadlines[u]
    <2>1. u \in Linked /\ Deadlines[u] = expire[u]
      BY <1>8, ArmedHasTime
    <2>2. TreeOf(heap, expire, Linked, heap_root, Nil) /\ expire \in [Timers -> Int]
      BY <1>1, TimersFacts DEF HeapOf
    <2>3. expire[heap_root] <= expire[u]
      BY <2>1, <2>2, RootIsFirst
    <2> QED  BY <1>6, <2>1, <2>3
  <1>9. Abstract!Fire(t)
    <2> HIDE DEF t
    <2> QED  BY <1>1, <1>3, <1>5, <1>7, <1>8 DEF Abstract!Fire, Asked
  <1> QED  BY <1>2, <1>9

LEMMA DelayRefines ==
    ASSUME TimersInv, NEW w \in Workers, TakeDelay(w)
    PROVE  \E t \in Timers : Abstract!Run(t)
  <1> DEFINE t == Head(queue)
  <1>1. t \in Timers /\ QueueTake /\ UNCHANGED heapVars /\ now' = now
    BY DEF TakeDelay
  <1>2. /\ OnList(queue, t) /\ ~ OnList(queue', t)
        /\ \A n : OnList(queue, n) <=> OnList(queue', n) \/ n = t
    BY <1>1, TakeStep
  <1> HIDE DEF t
  <1>3. /\ t \in { u \in Timers : OnList(queue, u) }
        /\ { u \in Timers : OnList(queue, u) }' = { u \in Timers : OnList(queue, u) } \ {t}
    <2>1. { u \in Timers : OnList(queue, u) }' = { u \in Timers : OnList(queue', u) }
      BY DEF OnList
    <2> QED  BY <1>1, <1>2, <2>1
  <1>4. Abstract!Run(t)
    BY <1>1, <1>3, DeadlinesStay, AskedStay DEF Abstract!Run, Asked
  <1> QED  BY <1>1, <1>4

(* Every step is a step of the set of deadlines, or changes nothing of it.  *)
LEMMA StepRefines ==
    ASSUME ~ CancelArming
    PROVE  TimersInv /\ TimersInv' /\ [Next]_vars
             => [Abstract!TimerNext]_<<[t \in Timers |-> IF t \in arming THEN expire[t] ELSE Nil],
                                       Deadlines, { t \in Timers : OnList(queue, t) }, now>>
  <1> DEFINE fired == { t \in Timers : OnList(queue, t) }
  <1> SUFFICES ASSUME TimersInv, TimersInv', [Next]_vars
               PROVE  Abstract!TimerNext \/ UNCHANGED <<Asked, Deadlines, fired, now>>
    BY DEF Asked
  <1>0. ASSUME UNCHANGED queue PROVE fired' = fired
    BY <1>0 DEF OnList
  <1>1. CASE Clock
    <2>1. now' = now + 1 /\ UNCHANGED queue /\ UNCHANGED heapVars
      BY <1>1 DEF Clock, heapVars
    <2>2. Abstract!Elapse
      BY <1>0, <2>1, DeadlinesStay, AskedStay DEF Abstract!Elapse, Asked
    <2> QED  BY <2>2 DEF Abstract!TimerNext
  <1>2. ASSUME NEW t \in Timers, Cancel(t) PROVE Abstract!TimerNext
    BY <1>2, CancelRefines DEF Abstract!TimerNext
  <1>3. ASSUME NEW t \in Timers, NEW ms \in Delays, PostDelayedWork(t, ms) PROVE Abstract!TimerNext
    BY <1>3, AskRefines DEF Abstract!TimerNext
  <1>12. ASSUME NEW t \in Timers, LinkDelayedWork(t) PROVE Abstract!TimerNext
    BY <1>12, ArmRefines DEF Abstract!TimerNext
  <1>4. CASE TickRead
    <2>1. UNCHANGED queue /\ UNCHANGED heapVars /\ now' = now
      BY <1>4 DEF TickRead, heapVars
    <2> QED  BY <1>0, <2>1, DeadlinesStay, AskedStay
  <1>5. ASSUME UNCHANGED heapVars, now' = now,
               \A t \in Timers : OnList(queue', t) <=> OnList(queue, t)
        PROVE  UNCHANGED <<Asked, Deadlines, fired, now>>
    <2>1. fired' = { t \in Timers : OnList(queue', t) }
      BY DEF OnList
    <2>2. fired' = fired
      BY <1>5, <2>1
    <2> QED  BY <1>5, <2>2, DeadlinesStay, AskedStay
  <1>6. CASE TickPost
    <2>1. queue' = MoveToTail(queue, TimerNode) /\ UNCHANGED heapVars /\ now' = now
      BY <1>6 DEF TickPost, QueuePost
    <2>2. \A n : OnList(queue', n) <=> OnList(queue, n) \/ n = TimerNode
      <3>1. queue \in Seq(Nodes) /\ TimerNode \in Nodes
        BY TimersFacts
      <3> QED  BY <2>1, <3>1, MoveToTailFacts
    <2>3. \A t \in Timers : OnList(queue', t) <=> OnList(queue, t)
      BY <2>2, TimerAssumption
    <2> QED  BY <1>5, <2>1, <2>3
  <1>7. ASSUME NEW w \in Workers, TakeTimer(w) PROVE UNCHANGED <<Asked, Deadlines, fired, now>>
    <2>1. QueueTake /\ Head(queue) = TimerNode /\ UNCHANGED heapVars /\ now' = now
      BY <1>7 DEF TakeTimer
    <2>2. \A n : OnList(queue, n) <=> OnList(queue', n) \/ n = TimerNode
      BY <2>1, TakeStep
    <2>3. \A t \in Timers : OnList(queue', t) <=> OnList(queue, t)
      BY <2>2, TimerAssumption
    <2> QED  BY <1>5, <2>1, <2>3
  <1>8. ASSUME NEW w \in Workers, TakeDelay(w) PROVE Abstract!TimerNext
    BY <1>8, DelayRefines DEF Abstract!TimerNext
  <1>9. ASSUME NEW w \in Workers, ChkLock(w) \/ ChkUnlock(w) PROVE UNCHANGED <<Asked, Deadlines, fired, now>>
    <2>1. UNCHANGED queue /\ UNCHANGED heapVars /\ now' = now
      BY <1>9 DEF ChkLock, ChkUnlock, heapVars
    <2> QED  BY <1>0, <2>1, DeadlinesStay, AskedStay
  <1>10. ASSUME NEW w \in Workers, ChkPop(w) PROVE Abstract!TimerNext
    BY <1>10, PopRefines DEF Abstract!TimerNext
  <1>11. CASE UNCHANGED vars
    <2>1. UNCHANGED queue /\ UNCHANGED heapVars /\ now' = now
      BY <1>11 DEF vars, heapVars
    <2> QED  BY <1>0, <2>1, DeadlinesStay, AskedStay
  <1> QED
    BY <1>1, <1>2, <1>3, <1>4, <1>6, <1>7, <1>8, <1>9, <1>10, <1>11, <1>12 DEF Next, WorkerStep

LEMMA StartRefines == Init => Abstract!TimerInit
  <1> SUFFICES ASSUME Init PROVE Abstract!TimerInit
    OBVIOUS
  <1>1. Deadlines = [t \in Timers |-> IF t \in Linked THEN expire[t] ELSE Nil]
    BY TimersStart, DeadlinesNow
  <1>2. Deadlines = [t \in Timers |-> Nil]
    BY <1>1 DEF Init, Linked
  <1>3. { t \in Timers : OnList(queue, t) } = {}
    BY DEF Init, OnList
  <1> QED  BY <1>2, <1>3 DEF Init, Abstract!TimerInit

(* The heap with its melds, pops and cancellations, the flag of every timer *)
(* and the run queue behind them are a set of deadlines, for any number of  *)
(* timers and workers, if nobody cancels a timer that is still being armed: *)
(* a deadline counts from the request, however late the timer is linked; a  *)
(* timer fires when it is due and none that is armed is due earlier; and    *)
(* what happens to one timer loses or moves no other.                       *)
THEOREM HeapIsTimerSet ==
    ASSUME ~ CancelArming
    PROVE  Spec => ImplementsTimerSet
  <1>1. TimersInv /\ [Next]_vars => TimersInv'
    BY TimersKept
  <1>2. Spec => []TimersInv
    BY <1>1, TimersStart, PTL DEF Spec
  <1>3. TimersInv /\ TimersInv' /\ [Next]_vars
          => [Abstract!TimerNext]_<<[t \in Timers |-> IF t \in arming THEN expire[t] ELSE Nil],
                                    Deadlines, { t \in Timers : OnList(queue, t) }, now>>
    BY StepRefines
  <1> QED
    BY <1>2, <1>3, StartRefines, PTL DEF Spec, ImplementsTimerSet, Abstract!TimerSpec
=============================================================================
