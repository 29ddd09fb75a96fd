--------------------------- MODULE WorkQueueProofs ---------------------------
(* Facts about the list operators of WorkQueue, cited by the other proofs.  *)
EXTENDS WorkQueue, SequenceTheorems, WellFoundedInduction, TLAPS

(* Removing one position of a sequence shifts the rest down by one          *)
(* (list_del relinks the neighbours).                                       *)
LEMMA RemoveAtShifts ==
    ASSUME NEW S, NEW q \in Seq(S), NEW k \in 1 .. Len(q)
    PROVE  /\ RemoveAt(q, k) \in Seq(S)
           /\ Len(RemoveAt(q, k)) = Len(q) - 1
           /\ \A i \in 1 .. Len(q) - 1 :
                 RemoveAt(q, k)[i] = IF i < k THEN q[i] ELSE q[i + 1]
  <1> DEFINE a == SubSeq(q, 1, k - 1)
             b == SubSeq(q, k + 1, Len(q))
  <1>1. /\ a \in Seq(S) /\ Len(a) = k - 1
        /\ \A i \in 1 .. k - 1 : a[i] = q[i]
    <2>1. \A i \in 1 .. k - 1 : q[i] \in S
      BY ElementOfSeq, LenProperties
    <2> QED  BY <2>1, LenProperties, SubSeqProperties
  <1>2. /\ b \in Seq(S) /\ Len(b) = Len(q) - k
        /\ \A i \in 1 .. Len(q) - k : b[i] = q[k + i]
    <2>1. \A i \in k + 1 .. Len(q) : q[i] \in S
      BY ElementOfSeq, LenProperties
    <2> QED  BY <2>1, LenProperties, SubSeqProperties
  <1>3. RemoveAt(q, k) = a \o b
    BY DEF RemoveAt
  <1> HIDE DEF a, b
  <1>4. /\ a \o b \in Seq(S)
        /\ Len(a \o b) = Len(q) - 1
        /\ \A i \in 1 .. Len(q) - 1 :
              (a \o b)[i] = IF i < k THEN a[i] ELSE b[i - (k - 1)]
    <2>1. /\ a \o b \in Seq(S)
          /\ Len(a \o b) = Len(a) + Len(b)
          /\ \A i \in 1 .. Len(a) + Len(b) :
                (a \o b)[i] = IF i <= Len(a) THEN a[i] ELSE b[i - Len(a)]
      BY <1>1, <1>2, ConcatProperties
    <2>2. Len(a) + Len(b) = Len(q) - 1 /\ \A i \in Int : i <= Len(a) <=> i < k
      BY <1>1, <1>2, LenProperties
    <2> QED  BY <1>1, <2>1, <2>2
  <1> QED  BY <1>1, <1>2, <1>3, <1>4, LenProperties

(* list_del of a node keeps a list of nodes a list of nodes and takes away  *)
(* exactly that node, if nodes are on the list at most once.                *)
LEMMA ListDelFacts ==
    ASSUME NEW S, NEW q \in Seq(S), NEW n
    PROVE  /\ list_del(q, n) \in Seq(S)
           /\ \A m : OnList(list_del(q, n), m) => OnList(q, m)
           /\ \A m : m # n /\ OnList(q, m) => OnList(list_del(q, n), m)
           /\ NoDuplicates(q) => NoDuplicates(list_del(q, n))
           /\ NoDuplicates(q) => ~ OnList(list_del(q, n), n)
  <1>1. CASE ~ OnList(q, n)
    BY <1>1 DEF list_del
  <1>2. CASE OnList(q, n)
    <2> DEFINE k == CHOOSE i \in DOMAIN q : q[i] = n
               r == RemoveAt(q, k)
    <2>1. k \in 1 .. Len(q) /\ q[k] = n
      BY <1>2, LenProperties DEF OnList
    <2>2. list_del(q, n) = r
      BY <1>2 DEF list_del
    <2> HIDE DEF k
    <2>3. /\ r \in Seq(S) /\ Len(r) = Len(q) - 1
          /\ \A i \in 1 .. Len(q) - 1 : r[i] = IF i < k THEN q[i] ELSE q[i + 1]
      BY <2>1, RemoveAtShifts
    <2> HIDE DEF r
    <2>4. DOMAIN q = 1 .. Len(q) /\ DOMAIN r = 1 .. Len(q) - 1 /\ Len(q) \in Nat
      BY <2>3, LenProperties
    <2>5. ASSUME NEW m, OnList(r, m)
          PROVE  OnList(q, m)
      <3>1. PICK i \in 1 .. Len(q) - 1 : r[i] = m
        BY <2>4, <2>5 DEF OnList
      <3>2. i \in 1 .. Len(q) /\ i + 1 \in 1 .. Len(q) /\ (q[i] = m \/ q[i + 1] = m)
        BY <2>3, <2>4, <3>1
      <3> QED  BY <2>4, <3>2 DEF OnList
    <2>6. ASSUME NEW m, m # n, OnList(q, m)
          PROVE  OnList(r, m)
      <3>1. PICK j \in 1 .. Len(q) : q[j] = m
        BY <2>4, <2>6 DEF OnList
      <3>2. j # k
        BY <2>1, <2>6, <3>1
      <3>3. CASE j < k
        BY <2>1, <2>3, <2>4, <3>1, <3>3 DEF OnList
      <3>4. CASE j > k
        <4>1. j - 1 \in 1 .. Len(q) - 1 /\ r[j - 1] = q[j]
          BY <2>1, <2>3, <2>4, <3>1, <3>4
        <4> QED  BY <2>4, <3>1, <4>1 DEF OnList
      <3> QED  BY <2>1, <3>1, <3>2, <3>3, <3>4
    <2>7. ASSUME NoDuplicates(q)
          PROVE  NoDuplicates(r) /\ ~ OnList(r, n)
      <3> DEFINE src(i) == IF i < k THEN i ELSE i + 1
      <3>1. \A i \in 1 .. Len(q) - 1 : src(i) \in DOMAIN q \ {k} /\ r[i] = q[src(i)]
        BY <2>1, <2>3, <2>4
      <3>2. ASSUME NEW i \in 1 .. Len(q) - 1, NEW j \in 1 .. Len(q) - 1, r[i] = r[j]
            PROVE  i = j
        <4>1. src(i) = src(j)
          BY <2>7, <3>1, <3>2 DEF NoDuplicates
        <4> QED  BY <2>1, <2>4, <4>1
      <3>3. NoDuplicates(r)
        BY <2>4, <3>2 DEF NoDuplicates
      <3>4. ~ OnList(r, n)
        <4>1. \A i \in DOMAIN q : q[i] = n => i = k
          BY <2>1, <2>4, <2>7 DEF NoDuplicates
        <4> QED  BY <2>4, <3>1, <4>1 DEF OnList
      <3> QED  BY <3>3, <3>4
    <2> QED  BY <2>2, <2>3, <2>5, <2>6, <2>7
  <1> QED  BY <1>1, <1>2

(* Appending a node adds exactly that node.                                 *)
LEMMA AppendFacts ==
    ASSUME NEW S, NEW q \in Seq(S), NEW n \in S
    PROVE  /\ Append(q, n) \in Seq(S)
           /\ Append(q, n) # << >>
           /\ \A m : OnList(Append(q, n), m) <=> OnList(q, m) \/ m = n
           /\ NoDuplicates(q) /\ ~ OnList(q, n) => NoDuplicates(Append(q, n))
  <1> DEFINE r == Append(q, n)
  <1>1. /\ r \in Seq(S) /\ Len(r) = Len(q) + 1 /\ r[Len(q) + 1] = n
        /\ \A i \in 1 .. Len(q) : r[i] = q[i]
    BY AppendProperties
  <1>2. DOMAIN q = 1 .. Len(q) /\ DOMAIN r = 1 .. Len(q) + 1 /\ Len(q) \in Nat
    BY <1>1, LenProperties
  <1> HIDE DEF r
  <1>3. r # << >>
    BY <1>1, <1>2, EmptySeq, LenProperties
  <1>4. ASSUME NEW m
        PROVE  OnList(r, m) <=> OnList(q, m) \/ m = n
    <2>1. OnList(r, m) => OnList(q, m) \/ m = n
      BY <1>1, <1>2 DEF OnList
    <2>2. OnList(q, m) => OnList(r, m)
      BY <1>1, <1>2 DEF OnList
    <2>3. m = n => OnList(r, m)
      BY <1>1, <1>2 DEF OnList
    <2> QED  BY <2>1, <2>2, <2>3
  <1>5. NoDuplicates(q) /\ ~ OnList(q, n) => NoDuplicates(r)
    BY <1>1, <1>2 DEF NoDuplicates, OnList
  <1> QED  BY <1>1, <1>3, <1>4, <1>5 DEF r

(* Taking the head leaves the others.                                       *)
LEMMA TailFacts ==
    ASSUME NEW S, NEW q \in Seq(S), q # << >>
    PROVE  /\ Head(q) \in S
           /\ OnList(q, Head(q))
           /\ Tail(q) \in Seq(S)
           /\ \A m : OnList(q, m) <=> OnList(Tail(q), m) \/ m = Head(q)
           /\ NoDuplicates(q) => NoDuplicates(Tail(q))
           /\ NoDuplicates(q) => ~ OnList(Tail(q), Head(q))
  <1> DEFINE r == Tail(q)
  <1>1. /\ Head(q) \in S /\ Head(q) = q[1] /\ r \in Seq(S) /\ Len(r) = Len(q) - 1
        /\ \A i \in 1 .. Len(q) - 1 : r[i] = q[i + 1]
    BY HeadTailProperties
  <1>2. /\ DOMAIN q = 1 .. Len(q) /\ DOMAIN r = 1 .. Len(q) - 1 /\ Len(q) \in Nat
        /\ Len(q) >= 1
    BY <1>1, LenProperties, EmptySeq
  <1> HIDE DEF r
  <1>3. OnList(q, Head(q))
    BY <1>1, <1>2 DEF OnList
  <1>4. ASSUME NEW m
        PROVE  OnList(q, m) <=> OnList(r, m) \/ m = Head(q)
    <2>1. ASSUME OnList(q, m), m # Head(q)
          PROVE  OnList(r, m)
      <3>1. PICK i \in 1 .. Len(q) : q[i] = m
        BY <1>2, <2>1 DEF OnList
      <3>2. i - 1 \in 1 .. Len(q) - 1 /\ r[i - 1] = m
        BY <1>1, <1>2, <2>1, <3>1
      <3> QED  BY <1>2, <3>2 DEF OnList
    <2>2. OnList(r, m) => OnList(q, m)
      BY <1>1, <1>2 DEF OnList
    <2> QED  BY <1>3, <2>1, <2>2
  <1>5. ASSUME NoDuplicates(q)
        PROVE  NoDuplicates(r)
    <2>1. ASSUME NEW i \in 1 .. Len(q) - 1, NEW j \in 1 .. Len(q) - 1, r[i] = r[j]
          PROVE  i = j
      <3>1. i + 1 \in DOMAIN q /\ j + 1 \in DOMAIN q /\ q[i + 1] = q[j + 1]
        BY <1>1, <1>2, <2>1
      <3>2. i + 1 = j + 1
        BY <1>5, <3>1 DEF NoDuplicates
      <3> QED  BY <1>2, <3>2
    <2> QED  BY <1>2, <2>1 DEF NoDuplicates
  <1>6. NoDuplicates(q) => ~ OnList(r, Head(q))
    BY <1>1, <1>2 DEF NoDuplicates, OnList
  <1> QED  BY <1>1, <1>3, <1>4, <1>5, <1>6 DEF r

(* post and add_new_nolock: the node is on the queue once, at the tail,     *)
(* whether or not it was queued before, and the others stay.                *)
LEMMA MoveToTailFacts ==
    ASSUME NEW S, NEW q \in Seq(S), NEW n \in S
    PROVE  /\ MoveToTail(q, n) \in Seq(S)
           /\ MoveToTail(q, n) # << >>
           /\ \A m : OnList(MoveToTail(q, n), m) <=> OnList(q, m) \/ m = n
           /\ NoDuplicates(q) => NoDuplicates(MoveToTail(q, n))
  <1> DEFINE d == list_del(q, n)
  <1>1. MoveToTail(q, n) = Append(d, n)
    BY DEF MoveToTail, list_add_tail
  <1>2. /\ d \in Seq(S)
        /\ \A m : OnList(d, m) => OnList(q, m)
        /\ \A m : m # n /\ OnList(q, m) => OnList(d, m)
        /\ NoDuplicates(q) => NoDuplicates(d) /\ ~ OnList(d, n)
    BY ListDelFacts
  <1> HIDE DEF d
  <1>3. /\ Append(d, n) \in Seq(S)
        /\ Append(d, n) # << >>
        /\ \A m : OnList(Append(d, n), m) <=> OnList(d, m) \/ m = n
        /\ NoDuplicates(d) /\ ~ OnList(d, n) => NoDuplicates(Append(d, n))
    BY <1>2, AppendFacts
  <1> QED  BY <1>1, <1>2, <1>3

(* Putting one list behind another, nothing being on both: what ~Semaphore  *)
(* and the batch post do.                                                   *)
LEMMA ConcatFacts ==
    ASSUME NEW S, NEW q \in Seq(S), NEW b \in Seq(S)
    PROVE  /\ q \o b \in Seq(S)
           /\ \A m : OnList(q \o b, m) <=> OnList(q, m) \/ OnList(b, m)
           /\ NoDuplicates(q) /\ NoDuplicates(b) /\ (\A m : ~ (OnList(q, m) /\ OnList(b, m)))
                 => NoDuplicates(q \o b)
  <1> DEFINE r == q \o b
             k == Len(q)
  <1>1. /\ r \in Seq(S) /\ Len(r) = k + Len(b)
        /\ \A i \in 1 .. k + Len(b) : r[i] = IF i <= k THEN q[i] ELSE b[i - k]
    BY ConcatProperties
  <1>2. /\ DOMAIN r = 1 .. k + Len(b) /\ DOMAIN q = 1 .. k
        /\ DOMAIN b = 1 .. Len(b) /\ k \in Nat /\ Len(b) \in Nat
    BY <1>1, LenProperties
  <1> HIDE DEF r, k
  <1>3. ASSUME NEW m
        PROVE  OnList(r, m) <=> OnList(q, m) \/ OnList(b, m)
    <2>1. OnList(r, m) => OnList(q, m) \/ OnList(b, m)
      BY <1>1, <1>2 DEF OnList
    <2>2. OnList(q, m) => OnList(r, m)
      BY <1>1, <1>2 DEF OnList
    <2>3. ASSUME OnList(b, m) PROVE OnList(r, m)
      <3>1. PICK i \in 1 .. Len(b) : b[i] = m
        BY <1>2, <2>3 DEF OnList
      <3>2. i + k \in DOMAIN r /\ r[i + k] = m
        BY <1>1, <1>2, <3>1
      <3> QED  BY <3>2 DEF OnList
    <2> QED  BY <2>1, <2>2, <2>3
  <1>4. ASSUME NoDuplicates(q), NoDuplicates(b),
               \A m : ~ (OnList(q, m) /\ OnList(b, m))
        PROVE  NoDuplicates(r)
    <2>1. ASSUME NEW i \in DOMAIN r, NEW j \in DOMAIN r, r[i] = r[j]
          PROVE  i = j
      <3>1. CASE i <= k /\ j <= k
        BY <1>1, <1>2, <1>4, <2>1, <3>1 DEF NoDuplicates
      <3>2. CASE i <= k /\ j > k
        <4>1. q[i] = b[j - k] /\ i \in DOMAIN q /\ j - k \in DOMAIN b
          BY <1>1, <1>2, <2>1, <3>2
        <4> QED  BY <1>4, <4>1 DEF OnList
      <3>3. CASE i > k /\ j <= k
        <4>1. q[j] = b[i - k] /\ j \in DOMAIN q /\ i - k \in DOMAIN b
          BY <1>1, <1>2, <2>1, <3>3
        <4> QED  BY <1>4, <4>1 DEF OnList
      <3>4. CASE i > k /\ j > k
        <4>1. b[i - k] = b[j - k] /\ i - k \in DOMAIN b /\ j - k \in DOMAIN b
          BY <1>1, <1>2, <2>1, <3>4
        <4>2. i - k = j - k
          BY <1>4, <4>1 DEF NoDuplicates
        <4> QED  BY <1>2, <4>2
      <3> QED  BY <1>2, <3>1, <3>2, <3>3, <3>4
    <2> QED  BY <2>1 DEF NoDuplicates
  <1> QED  BY <1>1, <1>3, <1>4 DEF r

(* Adding at the tail of the second of two lists adds at the tail of both.  *)
LEMMA ConcatAppend ==
    ASSUME NEW S, NEW q \in Seq(S), NEW b \in Seq(S), NEW n \in S
    PROVE  q \o Append(b, n) = Append(q \o b, n)
  <1>1. <<n>> \in Seq(S)
    BY AppendProperties, EmptySeq
  <1>2. Append(b, n) = b \o <<n>> /\ q \o b \in Seq(S)
    BY AppendIsConcat, ConcatProperties
  <1>3. Append(q \o b, n) = (q \o b) \o <<n>>
    BY <1>2, AppendIsConcat
  <1> QED  BY <1>1, <1>2, <1>3, ConcatAssociative

(* Taking the head of the first of two lists takes the head of both.        *)
LEMMA ConcatTail ==
    ASSUME NEW S, NEW q \in Seq(S), NEW b \in Seq(S), q # << >>
    PROVE  q \o b # << >> /\ Head(q \o b) = Head(q) /\ Tail(q \o b) = Tail(q) \o b
  <1> DEFINE r == q \o b
  <1>1. /\ r \in Seq(S) /\ Len(r) = Len(q) + Len(b)
        /\ \A i \in 1 .. Len(q) + Len(b) : r[i] = IF i <= Len(q) THEN q[i] ELSE b[i - Len(q)]
    BY ConcatProperties
  <1>2. Len(q) \in Nat \ {0} /\ Len(b) \in Nat
    BY LenProperties, EmptySeq
  <1> HIDE DEF r
  <1>3. r # << >>
    BY <1>1, <1>2, EmptySeq
  <1>4. /\ Tail(q) \in Seq(S) /\ Len(Tail(q)) = Len(q) - 1
        /\ \A i \in 1 .. Len(q) - 1 : Tail(q)[i] = q[i + 1]
    BY HeadTailProperties
  <1>5. /\ Tail(r) \in Seq(S) /\ Len(Tail(r)) = Len(q) + Len(b) - 1
        /\ \A i \in 1 .. Len(q) + Len(b) - 1 : Tail(r)[i] = r[i + 1]
    BY <1>1, <1>2, <1>3, HeadTailProperties
  <1>6. /\ Tail(q) \o b \in Seq(S) /\ Len(Tail(q) \o b) = Len(q) + Len(b) - 1
        /\ \A i \in 1 .. Len(q) + Len(b) - 1 :
              (Tail(q) \o b)[i] = IF i <= Len(q) - 1 THEN Tail(q)[i] ELSE b[i - (Len(q) - 1)]
    <2>1. /\ Tail(q) \o b \in Seq(S) /\ Len(Tail(q) \o b) = Len(Tail(q)) + Len(b)
          /\ \A i \in 1 .. Len(Tail(q)) + Len(b) :
                (Tail(q) \o b)[i] = IF i <= Len(Tail(q)) THEN Tail(q)[i] ELSE b[i - Len(Tail(q))]
      BY <1>4, ConcatProperties
    <2>2. Len(Tail(q)) + Len(b) = Len(q) + Len(b) - 1
      BY <1>2, <1>4
    <2> QED  BY <1>4, <2>1, <2>2
  <1>7. ASSUME NEW i \in 1 .. Len(q) + Len(b) - 1
        PROVE  Tail(r)[i] = (Tail(q) \o b)[i]
    <2>1. i + 1 \in 1 .. Len(q) + Len(b) /\ Tail(r)[i] = r[i + 1]
      BY <1>2, <1>5
    <2>2. CASE i <= Len(q) - 1
      BY <1>1, <1>2, <1>4, <1>6, <2>1, <2>2
    <2>3. CASE i > Len(q) - 1
      <3>1. r[i + 1] = b[i + 1 - Len(q)] /\ (Tail(q) \o b)[i] = b[i - (Len(q) - 1)]
        BY <1>1, <1>2, <1>6, <2>1, <2>3
      <3>2. i + 1 - Len(q) = i - (Len(q) - 1)
        BY <1>2
      <3> QED  BY <2>1, <3>1, <3>2
    <2>4. i <= Len(q) - 1 \/ i > Len(q) - 1
      BY <1>2
    <2> QED  BY <2>2, <2>3, <2>4
  <1>8. Tail(r) = Tail(q) \o b
    BY <1>5, <1>6, <1>7, SeqEqual
  <1>9. Head(r) = Head(q)
    BY <1>1, <1>2, <1>3
  <1> QED  BY <1>3, <1>8, <1>9 DEF r

-----------------------------------------------------------------------------
(* Positions.                                                              *)

(* A set of positions that is not empty has a first one.                    *)
LEMMA FirstPosition ==
    ASSUME NEW T, T \subseteq Nat, T # {}
    PROVE  \E i \in T : \A j \in T : i <= j
  <1> DEFINE R == OpToRel(<, Nat)
  <1>1. IsWellFoundedOn(R, Nat)
    BY NatLessThanWellFounded
  <1>2. \A i, j \in Nat : j < i => <<j, i>> \in R
    BY DEF OpToRel
  <1> HIDE DEF R
  <1>3. PICK i \in T : \A j \in T : ~ (<<j, i>> \in R)
    BY <1>1, WFMin
  <1>4. \A j \in T : ~ (j < i)
    BY <1>2, <1>3
  <1> QED  BY <1>4
-----------------------------------------------------------------------------
(* Recursive definitions over positions.                                   *)

(* f begins with b and goes on by the steps, up to n.                       *)
Solves(f, n, V, b, step) ==
    /\ f \in [0 .. n -> V] /\ f[0] = b
    /\ \A i \in 1 .. n : f[i] = step[i][f[i - 1]]

(* A value and a step for every index define a function.                    *)
LEMMA RecursionExists ==
    ASSUME NEW n \in Nat, NEW V, NEW b \in V, NEW step \in [1 .. n -> [V -> V]]
    PROVE  \E f : Solves(f, n, V, b, step)
  <1> USE DEF Solves
  <1> DEFINE Sol(f, k) == Solves(f, k, V, b, step)
             Bad == { k \in 0 .. n : ~ \E f : Sol(f, k) }
  <1>1. SUFFICES Bad = {}
    <2>1. \E f : Sol(f, n)
      BY <1>1
    <2> QED  BY <2>1
  <1>2. SUFFICES ASSUME Bad # {} PROVE FALSE
    OBVIOUS
  <1>3. PICK k \in Bad : \A j \in Bad : k <= j
    <2>1. Bad \subseteq Nat
      OBVIOUS
    <2> HIDE DEF Bad
    <2> QED  BY <1>2, <2>1, FirstPosition
  <1>4. CASE k = 0
    <2>1. Sol([i \in 0 .. 0 |-> b], 0)
      OBVIOUS
    <2> QED  BY <1>3, <1>4, <2>1
  <1>5. CASE k # 0
    <2>1. k \in 1 .. n /\ k - 1 \in 0 .. n /\ k - 1 \notin Bad
      BY <1>3, <1>5
    <2>2. PICK f : Sol(f, k - 1)
      BY <2>1
    <2> DEFINE g == [i \in 0 .. k |-> IF i = k THEN step[k][f[k - 1]] ELSE f[i]]
    <2>3. f[k - 1] \in V /\ step[k][f[k - 1]] \in V
      BY <2>1, <2>2
    <2>4. \A i \in 0 .. k - 1 : g[i] = f[i] /\ f[i] \in V
      BY <2>1, <2>2
    <2>5. g \in [0 .. k -> V] /\ g[0] = b
      BY <2>1, <2>2, <2>3, <2>4
    <2>6. ASSUME NEW i \in 1 .. k PROVE g[i] = step[i][g[i - 1]]
      <3>1. g[i - 1] = f[i - 1]
        BY <2>1, <2>4
      <3>2. CASE i = k
        BY <2>1, <3>1, <3>2
      <3>3. CASE i # k
        BY <2>1, <2>2, <2>4, <3>1, <3>3
      <3> QED  BY <3>2, <3>3
    <2>7. Sol(g, k)
      BY <2>5, <2>6
    <2> QED  BY <1>3, <2>7
  <1> QED  BY <1>4, <1>5

(* f and g have the same first value and the same steps.                    *)
SameSteps(f, g, n) ==
    f[0] = g[0] /\ \A i \in 1 .. n : f[i - 1] = g[i - 1] => f[i] = g[i]

(* Then they are the same.                                                  *)
LEMMA RecursionUnique ==
    ASSUME NEW n \in Nat, NEW f, NEW g, SameSteps(f, g, n)
    PROVE  \A i \in 0 .. n : f[i] = g[i]
  <1> USE DEF SameSteps
  <1> DEFINE Bad == { k \in 0 .. n : f[k] # g[k] }
  <1>1. SUFFICES ASSUME Bad # {} PROVE FALSE
    OBVIOUS
  <1>2. PICK k \in Bad : \A j \in Bad : k <= j
    <2>1. Bad \subseteq Nat
      OBVIOUS
    <2> HIDE DEF Bad
    <2> QED  BY <1>1, <2>1, FirstPosition
  <1>3. k \in 1 .. n
    BY <1>2
  <1>4. k - 1 \in 0 .. n /\ k - 1 \notin Bad
    BY <1>2, <1>3
  <1> QED  BY <1>2, <1>3, <1>4

(* A function on 1 .. n is a sequence of length n.                          *)
LEMMA FunctionIsSeq ==
    ASSUME NEW S, NEW n \in Nat, NEW f \in [1 .. n -> S]
    PROVE  f \in Seq(S) /\ Len(f) = n
  <1>1. f \in Seq(S)
    BY SeqDef
  <1>2. DOMAIN f = 1 .. Len(f) /\ Len(f) \in Nat
    BY <1>1, LenProperties
  <1>3. 1 .. Len(f) = 1 .. n
    BY <1>2
  <1> QED  BY <1>1, <1>2, <1>3

-----------------------------------------------------------------------------
(* Concatenations: FlattenSeq of a sequence of parts.                      *)

(* f are the concatenations of the first i parts of q.                      *)
Joins(f, q, i) == f[i] = f[i - 1] \o q[i]

Concats(f, q, S) ==
    /\ f \in [0 .. Len(q) -> Seq(S)] /\ f[0] = << >>
    /\ \A i \in 1 .. Len(q) : Joins(f, q, i)

(* One of them, and the one before.                                         *)
LEMMA ConcatsAt ==
    ASSUME NEW S, NEW q, NEW f, Concats(f, q, S), Len(q) \in Nat, NEW i \in 1 .. Len(q)
    PROVE  Joins(f, q, i) /\ f[i] \in Seq(S) /\ f[i - 1] \in Seq(S)
  <1>1. Joins(f, q, i)
    BY DEF Concats
  <1>2. i \in 0 .. Len(q) /\ i - 1 \in 0 .. Len(q)
    OBVIOUS
  <1>3. f \in [0 .. Len(q) -> Seq(S)]
    BY DEF Concats
  <1>4. f[i] \in Seq(S) /\ f[i - 1] \in Seq(S)
    BY <1>2, <1>3
  <1> QED  BY <1>1, <1>4

(* They exist.                                                              *)
LEMMA ConcatsExist ==
    ASSUME NEW S, NEW q \in Seq(Seq(S))
    PROVE  \E f : Concats(f, q, S)
  <1> DEFINE n == Len(q)
             step == [i \in 1 .. n |-> [a \in Seq(S) |-> a \o q[i]]]
  <1>1. n \in Nat /\ \A i \in 1 .. n : q[i] \in Seq(S)
    BY LenProperties, ElementOfSeq
  <1>2. << >> \in Seq(S)
    BY EmptySeq
  <1>3. step \in [1 .. n -> [Seq(S) -> Seq(S)]]
    BY <1>1, ConcatProperties
  <1>4. \A i \in 1 .. n : \A a \in Seq(S) : step[i][a] = a \o q[i]
    OBVIOUS
  <1> HIDE DEF step, n
  <1>5. PICK g : Solves(g, n, Seq(S), << >>, step)
    BY <1>1, <1>2, <1>3, RecursionExists
  <1>6. g \in [0 .. n -> Seq(S)] /\ g[0] = << >> /\ \A i \in 1 .. n : g[i] = step[i][g[i - 1]]
    BY <1>5 DEF Solves
  <1>7. \A i \in 1 .. n : g[i - 1] \in Seq(S)
    BY <1>1, <1>6
  <1>8. \A i \in 1 .. n : g[i] = g[i - 1] \o q[i]
    BY <1>4, <1>6, <1>7
  <1> QED  BY <1>6, <1>8 DEF Concats, Joins, n

(* FlattenSeq is the last of them.                                          *)
LEMMA FlattenIsConcat ==
    ASSUME NEW S, NEW q \in Seq(Seq(S)), NEW f, Concats(f, q, S)
    PROVE  FlattenSeq(q) = f[Len(q)] /\ FlattenSeq(q) \in Seq(S)
  <1> DEFINE n == Len(q)
             Rec(h) == h = [i \in 1 .. n |-> IF i = 1 THEN q[i] ELSE h[i - 1] \o q[i]]
             F == CHOOSE h : Rec(h)
  <1>1. n \in Nat /\ \A i \in 1 .. n : q[i] \in Seq(S)
    BY LenProperties, ElementOfSeq
  <1>2. f \in [0 .. n -> Seq(S)] /\ f[0] = << >> /\ \A i \in 1 .. n : f[i] = f[i - 1] \o q[i]
    BY DEF Concats, Joins
  <1>3. n = 0 => q = << >>
    BY EmptySeq
  <1>4. FlattenSeq(q) = IF n = 0 THEN q ELSE F[n]
    BY DEF FlattenSeq
  <1> HIDE DEF n
  <1>5. n \in 0 .. n /\ f[n] \in Seq(S)
    BY <1>1, <1>2
  <1>6. CASE n = 0
    BY <1>2, <1>3, <1>4, <1>5, <1>6 DEF n
  <1>7. CASE n # 0
    <2> DEFINE g == [i \in 1 .. n |-> f[i]]
               h == [i \in 1 .. n |-> IF i = 1 THEN q[i] ELSE g[i - 1] \o q[i]]
    <2>1. f[1] = q[1]
      <3>1. 1 \in 1 .. n /\ 1 - 1 = 0
        BY <1>1, <1>7
      <3>2. f[1] = f[1 - 1] \o q[1]
        BY <1>2, <3>1
      <3>3. f[1] = << >> \o q[1] /\ q[1] \in Seq(S)
        BY <1>1, <1>2, <3>1, <3>2
      <3> QED  BY <3>3, ConcatEmptySeq
    <2>2. ASSUME NEW i \in 1 .. n PROVE g[i] = h[i]
      <3>1. CASE i = 1
        BY <2>1, <3>1
      <3>2. CASE i # 1
        <4>1. i - 1 \in 1 .. n
          BY <1>1, <3>2
        <4> QED  BY <1>2, <3>2, <4>1
      <3> QED  BY <3>1, <3>2
    <2>3. Rec(g)
      <3>1. g = h
        BY <2>2
      <3> QED  BY <3>1
    <2>4. Rec(F)
      BY <2>3
    <2> HIDE DEF F, g, h
    <2>5. \A i \in 1 .. n : F[i] = IF i = 1 THEN q[i] ELSE F[i - 1] \o q[i]
      BY <2>4
    <2> DEFINE G == [i \in 0 .. n |-> IF i = 0 THEN << >> ELSE F[i]]
    <2>6. G[0] = f[0]
      BY <1>1, <1>2
    <2>7. ASSUME NEW i \in 1 .. n, G[i - 1] = f[i - 1] PROVE G[i] = f[i]
      <3>1. CASE i = 1
        BY <1>1, <2>1, <2>5, <3>1
      <3>2. CASE i # 1
        <4>1. i \in 0 .. n /\ i - 1 \in 0 .. n /\ i # 0 /\ i - 1 # 0
          BY <1>1, <3>2
        <4>2. G[i] = F[i] /\ F[i - 1] = f[i - 1]
          BY <2>7, <4>1
        <4> QED  BY <1>2, <2>5, <3>2, <4>2
      <3> QED  BY <3>1, <3>2
    <2>8. SameSteps(G, f, n)
      BY <2>6, <2>7 DEF SameSteps
    <2> HIDE DEF G
    <2>9. G[n] = f[n]
      BY <1>1, <1>5, <2>8, RecursionUnique
    <2>10. G[n] = F[n]
      BY <1>5, <1>7 DEF G
    <2> QED  BY <1>4, <1>5, <1>7, <2>9, <2>10 DEF n
  <1> QED  BY <1>6, <1>7

(* q and r have n parts, and those are the same.                            *)
SameParts(q, r, n) ==
    /\ Len(q) \in Nat /\ Len(r) \in Nat /\ n <= Len(q) /\ n <= Len(r)
    /\ \A i \in 1 .. n : q[i] = r[i]

(* Sequences of parts with the same beginning have the same concatenations. *)
LEMMA SameBeginning ==
    ASSUME NEW S, NEW q, NEW r, NEW f, NEW g, Concats(f, q, S), Concats(g, r, S),
           NEW n \in Nat, SameParts(q, r, n)
    PROVE  f[n] = g[n]
  <1>1. f[0] = g[0]
    BY DEF Concats
  <1>2. ASSUME NEW i \in 1 .. n, f[i - 1] = g[i - 1] PROVE f[i] = g[i]
    <2>1. i \in 1 .. Len(q) /\ i \in 1 .. Len(r) /\ q[i] = r[i] /\ Len(q) \in Nat /\ Len(r) \in Nat
      BY DEF SameParts
    <2>2. Joins(f, q, i) /\ Joins(g, r, i)
      BY <2>1, ConcatsAt
    <2> QED  BY <1>2, <2>1, <2>2 DEF Joins
  <1>3. SameSteps(f, g, n) /\ n \in 0 .. n
    BY <1>1, <1>2 DEF SameSteps
  <1> QED  BY <1>3, RecursionUnique

Associates(a, b, c) == (a \o b) \o c = a \o (b \o c)

(* ConcatAssociative, in a form that can be instantiated with expressions.  *)
LEMMA ConcatAssociates ==
    ASSUME NEW S, NEW a \in Seq(S), NEW b \in Seq(S), NEW c \in Seq(S)
    PROVE  Associates(a, b, c)
  BY ConcatAssociative DEF Associates

(* The last part grows by x: so does the whole.                             *)
LEMMA FlattenGrows ==
    ASSUME NEW S, NEW q \in Seq(Seq(S)), NEW r \in Seq(Seq(S)), NEW x \in Seq(S),
           q # << >>, Len(r) = Len(q), \A i \in 1 .. Len(q) - 1 : r[i] = q[i],
           r[Len(q)] = q[Len(q)] \o x
    PROVE  FlattenSeq(r) = FlattenSeq(q) \o x /\ FlattenSeq(q) \in Seq(S)
  <1> DEFINE n == Len(q)
  <1>1. n \in Nat \ {0} /\ n \in 1 .. n /\ q[n] \in Seq(S) /\ Len(r) = n
    BY EmptySeq, ElementOfSeq
  <1>2. PICK f : Concats(f, q, S)
    BY ConcatsExist
  <1>3. PICK g : Concats(g, r, S)
    BY ConcatsExist
  <1>4. f[n - 1] \in Seq(S) /\ f[n] = f[n - 1] \o q[n] /\ g[n] = g[n - 1] \o r[n]
    <2>1. n \in 1 .. Len(q) /\ Len(q) \in Nat /\ n \in 1 .. Len(r) /\ Len(r) \in Nat
      BY <1>1
    <2> HIDE DEF n
    <2>2. f[n - 1] \in Seq(S) /\ Joins(f, q, n) /\ Joins(g, r, n)
      BY <1>2, <1>3, <2>1, ConcatsAt
    <2> QED  BY <2>2 DEF Joins
  <1>5. f[n - 1] = g[n - 1]
    <2>1. n - 1 \in Nat /\ SameParts(q, r, n - 1)
      BY <1>1 DEF SameParts
    <2> QED  BY <1>2, <1>3, <2>1, SameBeginning
  <1>6. g[n] = f[n] \o x
    <2>1. g[n] = f[n - 1] \o (q[n] \o x)
      <3>1. r[n] = q[n] \o x
        OBVIOUS
      <3> HIDE DEF n
      <3> QED  BY <1>4, <1>5, <3>1
    <2> HIDE DEF n
    <2>2. (f[n - 1] \o q[n]) \o x = f[n - 1] \o (q[n] \o x)
      <3>1. f[n - 1] \in Seq(S) /\ q[n] \in Seq(S)
        BY <1>1, <1>4
      <3>2. Associates(f[n - 1], q[n], x)
        BY <3>1, ConcatAssociates
      <3> QED  BY <3>2 DEF Associates
    <2> QED  BY <1>4, <2>1, <2>2
  <1>7. FlattenSeq(q) = f[n] /\ FlattenSeq(q) \in Seq(S)
    BY <1>2, FlattenIsConcat
  <1>8. FlattenSeq(r) = g[n]
    BY <1>3, FlattenIsConcat
  <1> QED  BY <1>6, <1>7, <1>8

(* Another part x: the whole grows by it.                                   *)
LEMMA FlattenAppend ==
    ASSUME NEW S, NEW q \in Seq(Seq(S)), NEW r \in Seq(Seq(S)), NEW x \in Seq(S),
           Len(r) = Len(q) + 1, \A i \in 1 .. Len(q) : r[i] = q[i], r[Len(r)] = x
    PROVE  FlattenSeq(r) = FlattenSeq(q) \o x /\ FlattenSeq(q) \in Seq(S)
  <1> DEFINE n == Len(q)
  <1>1. n \in Nat /\ Len(r) = n + 1 /\ n = Len(q) /\ r[n + 1] = x
    BY LenProperties
  <1>2. \A i \in 1 .. n : r[i] = q[i]
    OBVIOUS
  <1> HIDE DEF n
  <1>3. PICK f : Concats(f, q, S)
    BY ConcatsExist
  <1>4. PICK g : Concats(g, r, S)
    BY ConcatsExist
  <1>5. g[n + 1] = g[n] \o x
    <2>1. n + 1 \in 1 .. Len(r) /\ Len(r) \in Nat /\ (n + 1) - 1 = n
      BY <1>1
    <2>2. Joins(g, r, n + 1)
      BY <1>4, <2>1, ConcatsAt
    <2> QED  BY <1>1, <2>1, <2>2 DEF Joins
  <1>6. f[n] = g[n]
    <2>1. n <= Len(q) /\ n <= Len(r) /\ Len(q) \in Nat /\ Len(r) \in Nat
      BY <1>1
    <2>2. SameParts(q, r, n)
      BY <1>2, <2>1, Zenon DEF SameParts
    <2> QED  BY <1>1, <1>3, <1>4, <2>2, SameBeginning
  <1>7. FlattenSeq(q) = f[n] /\ FlattenSeq(q) \in Seq(S)
    BY <1>1, <1>3, FlattenIsConcat
  <1>8. FlattenSeq(r) = g[n + 1]
    BY <1>1, <1>4, FlattenIsConcat
  <1> QED  BY <1>5, <1>6, <1>7, <1>8

(* An empty part at the end changes nothing.                                *)
LEMMA FlattenEmptyPart ==
    ASSUME NEW S, NEW q \in Seq(Seq(S)), NEW r \in Seq(Seq(S)),
           Len(r) = Len(q) + 1, \A i \in 1 .. Len(q) : r[i] = q[i], r[Len(r)] = << >>
    PROVE  FlattenSeq(r) = FlattenSeq(q)
  <1>1. << >> \in Seq(S)
    BY EmptySeq
  <1>2. FlattenSeq(r) = FlattenSeq(q) \o << >> /\ FlattenSeq(q) \in Seq(S)
    BY <1>1, FlattenAppend
  <1> QED  BY <1>2, ConcatEmptySeq

(* Empty parts make an empty whole.                                         *)
LEMMA FlattenEmptyParts ==
    ASSUME NEW S, NEW q \in Seq(Seq(S)), \A i \in 1 .. Len(q) : q[i] = << >>
    PROVE  FlattenSeq(q) = << >>
  <1> DEFINE f == [i \in 0 .. Len(q) |-> << >>]
  <1>1. << >> \in Seq(S) /\ << >> \o << >> = << >> /\ Len(q) \in Nat
    BY EmptySeq, ConcatEmptySeq, LenProperties
  <1>2. f \in [0 .. Len(q) -> Seq(S)] /\ f[0] = << >> /\ f[Len(q)] = << >>
    BY <1>1
  <1>3. ASSUME NEW i \in 1 .. Len(q) PROVE Joins(f, q, i)
    <2>1. i \in 0 .. Len(q) /\ i - 1 \in 0 .. Len(q)
      BY <1>1
    <2>2. f[i] = << >> /\ f[i - 1] = << >> /\ q[i] = << >>
      BY <2>1
    <2> HIDE DEF f
    <2> QED  BY <1>1, <2>2 DEF Joins
  <1> HIDE DEF f
  <1>4. Concats(f, q, S)
    BY <1>2, <1>3 DEF Concats
  <1> QED  BY <1>2, <1>4, FlattenIsConcat
=============================================================================
