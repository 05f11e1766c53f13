---------------------------- MODULE BuddyProofs ----------------------------
(***************************************************************************)
(* The kernel heap, for every size and all requests.  The invariant,       *)
(* TreeInv, ties the tree to the blocks in use.  It rests on how the tree  *)
(* lies over the heap (two nodes that share a byte are on one path) and on *)
(* what the two loops compute: the descent keeps to nodes under which a    *)
(* free block of the size is left, and the way back changes nothing off    *)
(* its path and leaves every node on it as its halves demand.  Recursive   *)
(* functions are shown to exist, and what they compute is shown by         *)
(* induction, with sets in the place of predicates.                        *)
(***************************************************************************)
EXTENDS Buddy, FiniteSetTheorems, WellFoundedInduction, TLAPS

-----------------------------------------------------------------------------
(* Induction and recursion. *)

(* A nonempty set of naturals has a least member. *)
LEMMA LeastMember ==
  ASSUME NEW S, S \subseteq Nat, S # {}
  PROVE  \E x \in S : \A y \in S : x <= y
<1> DEFINE Less == {p \in Nat \X Nat : p[1] < p[2]}
<1>1. IsWellFoundedOn(Less, Nat)
  BY NatLessThanWellFounded DEF OpToRel
<1> HIDE DEF Less
<1>2. PICK x \in S : \A y \in S : ~(<<y, x>> \in Less)
  BY <1>1, WFMin
<1>3. ASSUME NEW y \in S PROVE x <= y
  <2> SUFFICES ASSUME ~(x <= y) PROVE FALSE
    OBVIOUS
  <2>1. x \in Nat /\ y \in Nat /\ y < x
    OBVIOUS
  <2>2. <<y, x>> \in Less
    BY <2>1 DEF Less
  <2> QED
    BY <1>2, <2>2
<1> QED
  BY <1>3

(* Induction over the natural numbers, from all smaller ones. *)
LEMMA StrongInduction ==
  ASSUME NEW P, \A n \in Nat : (\A m \in Nat : m < n => m \in P) => n \in P
  PROVE  \A n \in Nat : n \in P
<1> SUFFICES ASSUME Nat \ P # {} PROVE FALSE
  OBVIOUS
<1>1. PICK x \in Nat \ P : \A y \in Nat \ P : x <= y
  BY LeastMember
<1>2. \A m \in Nat : m < x => m \in P
  BY <1>1
<1> QED
  BY <1>1, <1>2

(* A function that is given on B and elsewhere by its value at a point of  *)
(* lower rank.                                                             *)
Recursive(f, D, B, b, d, h) ==
    \A x \in D : f[x] = IF x \in B THEN b[x] ELSE h[<<x, f[d[x]]>>]

(* There is such a function. *)
LEMMA RecursionExists ==
  ASSUME NEW D, NEW S, NEW B, NEW b \in [D -> S], NEW d \in [D -> D],
         NEW h \in [D \X S -> S], NEW rank \in [D -> Nat],
         \A x \in D \ B : rank[d[x]] < rank[x]
  PROVE  \E f \in [D -> S] : Recursive(f, D, B, b, d, h)
<1> DEFINE Low(n) == {x \in D : rank[x] <= n}
           Upto(n, f) == /\ f \in [Low(n) -> S]
                         /\ \A x \in Low(n) :
                              f[x] = IF x \in B THEN b[x] ELSE h[<<x, f[d[x]]>>]
           P == {n \in Nat : \E f : Upto(n, f)}
<1>1. ASSUME NEW n \in Nat, NEW m \in Nat, NEW f, NEW g,
             Upto(n, f), Upto(m, g)
      PROVE  \A x \in D : rank[x] <= n /\ rank[x] <= m => f[x] = g[x]
  <2> DEFINE Q == {k \in Nat : \A x \in D :
                     rank[x] = k /\ k <= n /\ k <= m => f[x] = g[x]}
  <2>1. ASSUME NEW k \in Nat, \A j \in Nat : j < k => j \in Q
        PROVE  k \in Q
    <3> SUFFICES ASSUME NEW x \in D, rank[x] = k, k <= n, k <= m
                 PROVE  f[x] = g[x]
      OBVIOUS
    <3>1. x \in Low(n) /\ x \in Low(m)
      OBVIOUS
    <3>2. CASE x \in B
      BY <1>1, <3>1, <3>2
    <3>3. CASE x \notin B
      <4>1. d[x] \in D /\ rank[d[x]] \in Nat /\ rank[d[x]] < k
        BY <3>3
      <4>2. f[d[x]] = g[d[x]]
        BY <2>1, <4>1
      <4>3. f[x] = h[<<x, f[d[x]]>>] /\ g[x] = h[<<x, g[d[x]]>>]
        BY <1>1, <3>1, <3>3
      <4> QED
        BY <4>2, <4>3
    <3> QED
      BY <3>2, <3>3
  <2>2. \A k \in Nat : k \in Q
    <3> HIDE DEF Q
    <3> QED
      BY <2>1, StrongInduction
  <2> QED
    BY <2>2
<1>2. ASSUME NEW n \in Nat, \A m \in Nat : m < n => m \in P
      PROVE  n \in P
  <2> DEFINE H(m) == CHOOSE g : Upto(m, g)
             Lower(y) == H(rank[y])[y]
             f == [x \in Low(n) |->
                     IF x \in B THEN b[x] ELSE h[<<x, Lower(d[x])>>]]
  <2>1. ASSUME NEW m \in Nat, m < n PROVE Upto(m, H(m))
    <3>1. \E g : Upto(m, g)
      BY <1>2, <2>1
    <3> HIDE DEF Upto
    <3> QED
      BY <3>1, Zenon
  <2> HIDE DEF H
  <2>2. ASSUME NEW y \in D, rank[y] < n PROVE Lower(y) \in S
    <3>1. rank[y] \in Nat /\ y \in Low(rank[y])
      OBVIOUS
    <3>2. Upto(rank[y], H(rank[y]))
      <4> HIDE DEF Upto, Low
      <4> QED
        BY <2>1, <2>2, <3>1
    <3> QED
      BY <3>1, <3>2
  <2>3. ASSUME NEW x \in Low(n), x \notin B
        PROVE  d[x] \in D /\ rank[d[x]] < n /\ d[x] \in Low(n)
    BY <2>3
  <2>4. f \in [Low(n) -> S]
    <3>1. ASSUME NEW x \in Low(n)
          PROVE  (IF x \in B THEN b[x] ELSE h[<<x, Lower(d[x])>>]) \in S
      <4>1. CASE x \in B
        BY <4>1
      <4>2. CASE x \notin B
        <5>1. Lower(d[x]) \in S
          BY <2>2, <2>3, <4>2
        <5> HIDE DEF Lower
        <5> QED
          BY <4>2, <5>1
      <4> QED
        BY <4>1, <4>2
    <3> HIDE DEF Low, Lower
    <3> QED
      BY <3>1
  <2>5. ASSUME NEW y \in D, rank[y] < n PROVE f[y] = Lower(y)
    <3>1. rank[y] \in Nat /\ Upto(rank[y], H(rank[y]))
      BY <2>1, <2>5
    <3>2. y \in Low(rank[y]) /\ y \in Low(n)
      BY <2>5, <3>1
    <3>3. CASE y \in B
      BY <3>1, <3>2, <3>3
    <3>4. CASE y \notin B
      <4>1. d[y] \in D /\ rank[d[y]] \in Nat /\ rank[d[y]] < rank[y]
        BY <3>4
      <4>2. Upto(rank[d[y]], H(rank[d[y]]))
        <5>1. rank[d[y]] < n
          BY <2>5, <3>1, <4>1
        <5> HIDE DEF Upto, Low
        <5> QED
          BY <2>1, <4>1, <5>1
      <4>3. H(rank[y])[d[y]] = H(rank[d[y]])[d[y]]
        <5>1. rank[d[y]] <= rank[d[y]] /\ rank[d[y]] <= rank[y]
          BY <3>1, <4>1
        <5> HIDE DEF Upto
        <5> QED
          BY <1>1, <3>1, <4>1, <4>2, <5>1
      <4>4. H(rank[y])[y] = h[<<y, H(rank[y])[d[y]]>>]
        BY <3>1, <3>2, <3>4
      <4>5. f[y] = h[<<y, Lower(d[y])>>]
        BY <3>2, <3>4
      <4> QED
        BY <4>3, <4>4, <4>5
    <3> QED
      BY <3>3, <3>4
  <2>6. \A x \in Low(n) : f[x] = IF x \in B THEN b[x] ELSE h[<<x, f[d[x]]>>]
    <3> SUFFICES ASSUME NEW x \in Low(n)
                 PROVE  f[x] = IF x \in B THEN b[x] ELSE h[<<x, f[d[x]]>>]
      OBVIOUS
    <3>1. x \notin B => f[d[x]] = Lower(d[x])
      <4> HIDE DEF f, Lower, Low
      <4> QED
        BY <2>3, <2>5
    <3>2. f[x] = IF x \in B THEN b[x] ELSE h[<<x, Lower(d[x])>>]
      <4> HIDE DEF Lower, Low
      <4> QED
        OBVIOUS
    <3> HIDE DEF f, Lower
    <3> QED
      BY <3>1, <3>2
  <2>7. Upto(n, f)
    <3> HIDE DEF f, Low
    <3> QED
      BY <2>4, <2>6
  <2> HIDE DEF f, Upto
  <2> QED
    BY <2>7
<1>3. \A n \in Nat : n \in P
  <2> HIDE DEF P
  <2> QED
    BY <1>2, StrongInduction
<1> DEFINE G(m) == CHOOSE g : Upto(m, g)
           F == [x \in D |-> G(rank[x])[x]]
<1>4. ASSUME NEW m \in Nat PROVE Upto(m, G(m))
  <2>1. \E g : Upto(m, g)
    BY <1>3
  <2> HIDE DEF Upto
  <2> QED
    BY <2>1, Zenon
<1> HIDE DEF G
<1>5. F \in [D -> S]
  <2>1. ASSUME NEW x \in D PROVE G(rank[x])[x] \in S
    <3>1. rank[x] \in Nat /\ x \in Low(rank[x])
      OBVIOUS
    <3>2. Upto(rank[x], G(rank[x]))
      <4> HIDE DEF Upto, Low
      <4> QED
        BY <1>4, <3>1
    <3> QED
      BY <3>1, <3>2
  <2> QED
    BY <2>1
<1>6. ASSUME NEW x \in D
      PROVE  F[x] = IF x \in B THEN b[x] ELSE h[<<x, F[d[x]]>>]
  <2>0. rank[x] \in Nat /\ x \in Low(rank[x])
    OBVIOUS
  <2>1. rank[x] \in Nat /\ x \in Low(rank[x]) /\ Upto(rank[x], G(rank[x]))
    <3> HIDE DEF Upto, Low
    <3> QED
      BY <1>4, <2>0
  <2>2. CASE x \in B
    BY <2>1, <2>2
  <2>3. CASE x \notin B
    <3>1. d[x] \in D /\ rank[d[x]] \in Nat /\ rank[d[x]] < rank[x]
      BY <2>3
    <3>2. G(rank[x])[d[x]] = G(rank[d[x]])[d[x]]
      <4>1. Upto(rank[d[x]], G(rank[d[x]]))
        BY <1>4, <3>1
      <4>2. rank[d[x]] <= rank[d[x]] /\ rank[d[x]] <= rank[x]
        BY <2>1, <3>1
      <4> HIDE DEF Upto
      <4> QED
        BY <1>1, <2>1, <3>1, <4>1, <4>2
    <3>3. G(rank[x])[x] = h[<<x, G(rank[x])[d[x]]>>]
      BY <2>1, <2>3
    <3> QED
      BY <2>3, <3>1, <3>2, <3>3
  <2> QED
    BY <2>2, <2>3
<1> HIDE DEF F
<1> QED
  BY <1>5, <1>6 DEF Recursive

-----------------------------------------------------------------------------
(* Powers and logarithms. *)

LEMMA Pow2Def ==
  /\ pow2 \in [0..MAX_LOG -> Nat]
  /\ \A b \in 0..MAX_LOG : pow2[b] = IF b = 0 THEN 1 ELSE 2 * pow2[b - 1]
<1> DEFINE D == 0..MAX_LOG
           Is(f) == f = [b \in D |-> IF b = 0 THEN 1 ELSE 2 * f[b - 1]]
           one == [b \in D |-> 1]
           d == [b \in D |-> IF b = 0 THEN 0 ELSE b - 1]
           h == [p \in D \X Nat |-> 2 * p[2]]
           rank == [b \in D |-> b]
<1>1. MAX_LOG = 29
  BY DEF MAX_LOG
<1>2. one \in [D -> Nat] /\ d \in [D -> D] /\ h \in [D \X Nat -> Nat]
      /\ rank \in [D -> Nat]
  BY <1>1
<1>3. \A x \in D \ {0} : rank[d[x]] < rank[x]
  BY <1>1
<1>4. PICK f \in [D -> Nat] : Recursive(f, D, {0}, one, d, h)
  <2> HIDE DEF D, one, d, h, rank
  <2> QED
    BY <1>2, <1>3, RecursionExists
<1>5. \A x \in D : f[x] = IF x = 0 THEN 1 ELSE 2 * f[x - 1]
  <2>1. \A x \in D : x # 0 => x - 1 \in D
    BY <1>1
  <2> QED
    BY <1>4, <2>1 DEF Recursive
<1>6. Is(f)
  BY <1>4, <1>5
<1>7. pow2 = CHOOSE g : Is(g)
  BY Zenon DEF pow2
<1>8. Is(pow2)
  <2> HIDE DEF Is
  <2> QED
    BY <1>6, <1>7, Zenon
<1> DEFINE Q == {k \in Nat : k \in D => pow2[k] \in Nat}
<1>9. \A b \in D : pow2[b] = IF b = 0 THEN 1 ELSE 2 * pow2[b - 1]
  BY <1>8
<1>10. ASSUME NEW k \in Nat, \A m \in Nat : m < k => m \in Q PROVE k \in Q
  <2> SUFFICES ASSUME k \in D PROVE pow2[k] \in Nat
    OBVIOUS
  <2>1. CASE k = 0
    BY <1>9, <2>1
  <2>2. CASE k # 0
    <3>1. k - 1 \in Nat /\ k - 1 < k /\ k - 1 \in D
      BY <1>1, <2>2
    <3>2. pow2[k - 1] \in Nat
      BY <1>10, <3>1
    <3> QED
      BY <1>9, <2>2, <3>2
  <2> QED
    BY <2>1, <2>2
<1>11. \A k \in Nat : k \in Q
  <2> HIDE DEF Q
  <2> QED
    BY <1>10, StrongInduction
<1>12. \A k \in D : pow2[k] \in Nat
  BY <1>1, <1>11
<1>13. pow2 \in [D -> Nat]
  <2>1. pow2 = [b \in D |-> pow2[b]]
    BY <1>8
  <2> HIDE DEF D, Is
  <2> QED
    BY <1>12, <2>1
<1> QED
  BY <1>9, <1>13

LEMMA Pow2Step ==
  /\ pow2[0] = 1
  /\ \A k \in 0..MAX_LOG : k # MAX_LOG => pow2[k + 1] = 2 * pow2[k]
<1>1. MAX_LOG = 29
  BY DEF MAX_LOG
<1>2. ASSUME NEW k \in 0..MAX_LOG, k # MAX_LOG
      PROVE  pow2[k + 1] = 2 * pow2[k]
  <2>1. k + 1 \in 0..MAX_LOG /\ k + 1 # 0 /\ (k + 1) - 1 = k
    BY <1>1, <1>2
  <2> QED
    BY <2>1, Pow2Def
<1> QED
  BY <1>1, <1>2, Pow2Def

LEMMA Pow2Grows ==
  ASSUME NEW j \in 0..MAX_LOG, NEW k \in 0..MAX_LOG
  PROVE  /\ pow2[k] \in Nat /\ pow2[k] >= 1
         /\ j < k => 2 * pow2[j] <= pow2[k]
<1>1. MAX_LOG = 29
  BY DEF MAX_LOG
<1> DEFINE Q == {n \in Nat : n \in 0..MAX_LOG =>
                   pow2[n] >= 1 /\ (j < n => 2 * pow2[j] <= pow2[n])}
<1>2. ASSUME NEW n \in Nat, \A m \in Nat : m < n => m \in Q PROVE n \in Q
  <2> SUFFICES ASSUME n \in 0..MAX_LOG
               PROVE  pow2[n] >= 1 /\ (j < n => 2 * pow2[j] <= pow2[n])
    OBVIOUS
  <2>1. CASE n = 0
    BY <2>1, Pow2Step
  <2>2. CASE n # 0
    <3>1. n - 1 \in Nat /\ n - 1 < n /\ n - 1 \in 0..MAX_LOG /\ n - 1 # MAX_LOG
      BY <1>1, <2>2
    <3>2. pow2[n] = 2 * pow2[n - 1]
      BY <2>2, Pow2Def
    <3>3. /\ pow2[n - 1] >= 1 /\ (j < n - 1 => 2 * pow2[j] <= pow2[n - 1])
      BY <1>2, <3>1
    <3>4. pow2[j] \in Nat /\ pow2[n - 1] \in Nat
      BY <3>1, Pow2Def
    <3>5. j < n => j < n - 1 \/ j = n - 1
      BY <1>1, <3>1
    <3> QED
      BY <3>2, <3>3, <3>4, <3>5
  <2> QED
    BY <2>1, <2>2
<1>3. \A n \in Nat : n \in Q
  <2> HIDE DEF Q
  <2> QED
    BY <1>2, StrongInduction
<1>4. k \in Nat /\ pow2[k] \in Nat
  BY <1>1, Pow2Def
<1> QED
  BY <1>3, <1>4

(* The logarithms determine the powers and are determined by them. *)
LEMMA Pow2Order ==
  ASSUME NEW j \in 0..MAX_LOG, NEW k \in 0..MAX_LOG
  PROVE  /\ pow2[j] <= pow2[k] <=> j <= k
         /\ pow2[j] = pow2[k] <=> j = k
<1>1. j \in Nat /\ k \in Nat
  BY DEF MAX_LOG
<1>2. pow2[j] \in Nat /\ pow2[k] \in Nat /\ pow2[j] >= 1 /\ pow2[k] >= 1
  BY Pow2Grows
<1>3. (j < k => 2 * pow2[j] <= pow2[k]) /\ (k < j => 2 * pow2[k] <= pow2[j])
  BY Pow2Grows
<1> QED
  BY <1>1, <1>2, <1>3

LEMMA Log2Is ==
  ASSUME NEW k \in 0..MAX_LOG
  PROVE  log2(pow2[k]) = k
<1> DEFINE C(j) == pow2[k] < 2 * pow2[j] /\ pow2[j] <= pow2[k]
<1>1. C(k)
  BY Pow2Grows
<1>2. ASSUME NEW j \in 0..MAX_LOG, C(j) PROVE j = k
  <2>1. j <= k
    BY <1>2, Pow2Order
  <2>2. ~(j < k)
    <3>1. pow2[j] \in Nat /\ pow2[k] \in Nat
      BY Pow2Grows
    <3>2. j < k => 2 * pow2[j] <= pow2[k]
      BY Pow2Grows
    <3> QED
      BY <1>2, <3>1, <3>2
  <2> QED
    BY <2>1, <2>2 DEF MAX_LOG
<1>3. log2(pow2[k]) = CHOOSE j \in 0..MAX_LOG : C(j)
  BY DEF log2
<1> HIDE DEF C
<1>4. log2(pow2[k]) \in 0..MAX_LOG /\ C(log2(pow2[k]))
  BY <1>1, <1>3
<1> QED
  BY <1>2, <1>4

K == log2(Size)

LEMMA SizeIs ==
  /\ K \in 7..MAX_LOG /\ Size = pow2[K] /\ Size \in Nat
  /\ Size = 4 * pow2[K - 2] /\ Size = 8 * pow2[K - 3] /\ Size = 16 * pow2[K - 4]
  /\ pow2[K - 2] = 2 * pow2[K - 3] /\ pow2[K - 3] = 2 * pow2[K - 4]
  /\ pow2[K - 4] \in Nat /\ pow2[K - 4] >= 1
<1>0. MAX_LOG = 29
  BY DEF MAX_LOG
<1>1. PICK k \in 7..MAX_LOG : Size = pow2[k]
  BY BuddyAssumption
<1>2. k \in 0..MAX_LOG
  BY <1>0
<1>3. K = k
  BY <1>1, <1>2, Log2Is DEF K
<1>4. /\ k - 4 \in 0..MAX_LOG /\ k - 4 # MAX_LOG /\ (k - 4) + 1 = k - 3
      /\ k - 3 \in 0..MAX_LOG /\ k - 3 # MAX_LOG /\ (k - 3) + 1 = k - 2
      /\ k - 2 \in 0..MAX_LOG /\ k - 2 # MAX_LOG /\ (k - 2) + 1 = k - 1
      /\ k - 1 \in 0..MAX_LOG /\ k - 1 # MAX_LOG /\ (k - 1) + 1 = k
  BY <1>0
<1>5. /\ pow2[k - 3] = 2 * pow2[k - 4] /\ pow2[k - 2] = 2 * pow2[k - 3]
      /\ pow2[k - 1] = 2 * pow2[k - 2] /\ pow2[k] = 2 * pow2[k - 1]
  BY <1>4, Pow2Step
<1>6. pow2[k - 4] \in Nat /\ pow2[k - 4] >= 1
  BY <1>4, Pow2Grows
<1> QED
  BY <1>1, <1>3, <1>5, <1>6

-----------------------------------------------------------------------------
(* The tree. *)

LEMMA NodesAre ==
  /\ Nodes = 0..(pow2[K - 2] - 2) /\ 0 \in Nodes
  /\ \A i : in_bitmap(i) <=> i >= pow2[K - 4] - 1
<1> DEFINE m == pow2[K - 4]
<1>1. m \in Nat /\ m >= 1 /\ Size = 16 * m /\ pow2[K - 2] = 4 * m
  BY SizeIs
<1> HIDE DEF m
<1>2. Size \div 4 = 4 * m /\ Size \div 16 = m
  BY <1>1
<1> QED
  BY <1>1, <1>2 DEF Nodes, in_bitmap, m

LEMMA ParentOf ==
  ASSUME NEW i \in Nodes, i # 0
  PROVE  /\ PARENT(i) \in Nodes /\ PARENT(i) < i
         /\ i = LEFT_LEAF(PARENT(i)) \/ i = RIGHT_LEAF(PARENT(i))
         /\ i \in Nat /\ PARENT(i) \in Nat
<1>1. pow2[K - 2] \in Nat
  BY SizeIs
<1>2. i \in Nat /\ i <= pow2[K - 2] - 2
  BY <1>1, NodesAre
<1>3. (i + 1) \div 2 \in Nat /\ (i + 1 = 2 * ((i + 1) \div 2) \/ i + 1 = 2 * ((i + 1) \div 2) + 1)
  BY <1>2
<1> QED
  BY <1>1, <1>2, <1>3, NodesAre DEF PARENT, LEFT_LEAF, RIGHT_LEAF

LEMMA ParentOfChild ==
  ASSUME NEW i \in Nat
  PROVE  /\ PARENT(LEFT_LEAF(i)) = i /\ PARENT(RIGHT_LEAF(i)) = i
         /\ LEFT_LEAF(i) # RIGHT_LEAF(i)
         /\ LEFT_LEAF(i) \in Nat \ {0} /\ RIGHT_LEAF(i) \in Nat \ {0}
         /\ i < LEFT_LEAF(i) /\ i < RIGHT_LEAF(i)
BY DEF PARENT, LEFT_LEAF, RIGHT_LEAF

LEMMA Size2Def ==
  \A i \in Nodes :
     get_size2[i] = IF i = 0 THEN Size ELSE get_size2[PARENT(i)] \div 2
<1> DEFINE Is(f) == f = [index \in Nodes |->
                          IF index = 0 THEN Size ELSE f[PARENT(index)] \div 2]
           b == [i \in Nodes |-> Size]
           d == [i \in Nodes |-> IF i = 0 THEN 0 ELSE PARENT(i)]
           h == [p \in Nodes \X Nat |-> p[2] \div 2]
           rank == [i \in Nodes |-> i]
<1>1. b \in [Nodes -> Nat] /\ h \in [Nodes \X Nat -> Nat]
  BY SizeIs
<1>2. Nodes \subseteq Nat /\ 0 \in Nodes
  BY NodesAre, SizeIs
<1>3. d \in [Nodes -> Nodes] /\ rank \in [Nodes -> Nat]
  BY <1>2, ParentOf
<1>4. \A x \in Nodes \ {0} : rank[d[x]] < rank[x]
  BY <1>2, ParentOf
<1>5. PICK f \in [Nodes -> Nat] : Recursive(f, Nodes, {0}, b, d, h)
  <2> HIDE DEF b, d, h, rank
  <2> QED
    BY <1>1, <1>3, <1>4, RecursionExists
<1>6. \A i \in Nodes : f[i] = IF i = 0 THEN Size ELSE f[PARENT(i)] \div 2
  BY <1>5, ParentOf DEF Recursive
<1>7. Is(f)
  BY <1>5, <1>6
<1>8. get_size2 = CHOOSE g : Is(g)
  BY Zenon DEF get_size2
<1>9. Is(get_size2)
  <2> HIDE DEF Is
  <2> QED
    BY <1>7, <1>8, Zenon
<1> QED
  BY <1>9

LEMMA PathDef ==
  /\ Path \in [Nodes -> SUBSET Nodes]
  /\ \A i \in Nodes :
       Path[i] = {i} \cup (IF i = 0 THEN {} ELSE Path[PARENT(i)])
<1> DEFINE Is(f) == f = [index \in Nodes |->
                     {index} \cup (IF index = 0 THEN {} ELSE f[PARENT(index)])]
           T == SUBSET Nodes
           b == [i \in Nodes |-> {i}]
           d == [i \in Nodes |-> IF i = 0 THEN 0 ELSE PARENT(i)]
           h == [p \in Nodes \X T |-> {p[1]} \cup p[2]]
           rank == [i \in Nodes |-> i]
<1>1. b \in [Nodes -> T] /\ h \in [Nodes \X T -> T]
  OBVIOUS
<1>2. Nodes \subseteq Nat /\ 0 \in Nodes
  BY NodesAre, SizeIs
<1>3. d \in [Nodes -> Nodes] /\ rank \in [Nodes -> Nat]
  BY <1>2, ParentOf
<1>4. \A x \in Nodes \ {0} : rank[d[x]] < rank[x]
  BY <1>2, ParentOf
<1>5. PICK f \in [Nodes -> T] : Recursive(f, Nodes, {0}, b, d, h)
  <2> HIDE DEF b, d, h, rank, T
  <2> QED
    BY <1>1, <1>3, <1>4, RecursionExists
<1>6. ASSUME NEW i \in Nodes
      PROVE  f[i] = {i} \cup (IF i = 0 THEN {} ELSE f[PARENT(i)])
  <2>1. CASE i = 0
    BY <1>5, <2>1 DEF Recursive
  <2>2. CASE i # 0
    <3>1. PARENT(i) \in Nodes /\ d[i] = PARENT(i) /\ f[PARENT(i)] \in T
      BY <1>5, <2>2, ParentOf
    <3>2. f[i] = h[<<i, f[PARENT(i)]>>]
      BY <1>5, <2>2, <3>1 DEF Recursive
    <3> QED
      BY <2>2, <3>1, <3>2
  <2> QED
    BY <2>1, <2>2
<1>7. Is(f)
  BY <1>5, <1>6
<1>8. Path = CHOOSE g : Is(g)
  BY Zenon DEF Path
<1>9. Is(Path)
  <2> HIDE DEF Is
  <2> QED
    BY <1>7, <1>8, Zenon
<1>10. \A i \in Nodes :
         Path[i] = {i} \cup (IF i = 0 THEN {} ELSE Path[PARENT(i)])
  BY <1>9
<1> DEFINE Q == {n \in Nat : n \in Nodes => Path[n] \in SUBSET Nodes}
<1>11. ASSUME NEW n \in Nat, \A m \in Nat : m < n => m \in Q PROVE n \in Q
  <2> SUFFICES ASSUME n \in Nodes PROVE Path[n] \in SUBSET Nodes
    OBVIOUS
  <2>1. CASE n = 0
    BY <1>2, <1>10, <2>1
  <2>2. CASE n # 0
    <3>1. Path[PARENT(n)] \in SUBSET Nodes
      BY <1>11, <2>2, ParentOf
    <3> QED
      BY <1>10, <2>2, <3>1
  <2> QED
    BY <2>1, <2>2
<1>12. \A n \in Nat : n \in Q
  <2> HIDE DEF Q
  <2> QED
    BY <1>11, StrongInduction
<1>13. \A i \in Nodes : Path[i] \in SUBSET Nodes
  BY <1>2, <1>12
<1>14. Path = [i \in Nodes |-> Path[i]]
  BY <1>9
<1>15. Path \in [Nodes -> SUBSET Nodes]
  <2> HIDE DEF Is
  <2> QED
    BY <1>13, <1>14
<1> QED
  BY <1>10, <1>15

(* A node n layers below the root stands for pow2[K - n] bytes. *)
LEMMA Layers ==
  \A i \in Nodes : \E n \in 0..(K - 3) :
     /\ pow2[n] <= i + 1 /\ i + 1 < 2 * pow2[n]
     /\ get_size2[i] = pow2[K - n] /\ Whole[i] = K - n
     /\ i # 0 => n # 0 /\ Whole[PARENT(i)] = K - n + 1
<1>0. K \in 7..29 /\ MAX_LOG = 29
  BY SizeIs DEF MAX_LOG
<1>1. Nodes \subseteq Nat
  BY NodesAre, SizeIs
<1> DEFINE At(i, n) == /\ n \in 0..(K - 3)
                       /\ pow2[n] <= i + 1 /\ i + 1 < 2 * pow2[n]
                       /\ get_size2[i] = pow2[K - n] /\ Whole[i] = K - n
           Q == {i \in Nat : i \in Nodes => \E n :
                   At(i, n) /\ (i # 0 => n # 0 /\ Whole[PARENT(i)] = K - n + 1)}
<1>2. ASSUME NEW i \in Nodes, NEW n \in 0..(K - 3), get_size2[i] = pow2[K - n]
      PROVE  Whole[i] = K - n
  <2>1. K - n \in 0..MAX_LOG
    BY <1>0
  <2> QED
    BY <1>2, <2>1, Log2Is DEF Whole
<1>3. ASSUME NEW i \in Nat, \A m \in Nat : m < i => m \in Q PROVE i \in Q
  <2> SUFFICES ASSUME i \in Nodes
               PROVE  \E n : At(i, n) /\ (i # 0 => n # 0 /\ Whole[PARENT(i)] = K - n + 1)
    OBVIOUS
  <2>1. CASE i = 0
    <3>0. K - 0 = K /\ 0 \in 0..(K - 3)
      BY <1>0
    <3>1. get_size2[0] = pow2[K - 0] /\ 0 \in 0..(K - 3)
      BY <2>1, <3>0, Size2Def, SizeIs
    <3>2. Whole[0] = K - 0
      BY <1>2, <2>1, <3>1
    <3>3. pow2[0] = 1
      BY Pow2Step
    <3>4. At(0, 0)
      BY <3>1, <3>2, <3>3
    <3> HIDE DEF At
    <3> QED
      BY <2>1, <3>4
  <2>2. CASE i # 0
    <3> DEFINE p == PARENT(i)
    <3>1. p \in Nodes /\ p < i /\ (i = 2 * p + 1 \/ i = 2 * p + 2) /\ p \in Nat
      BY <2>2, ParentOf DEF LEFT_LEAF, RIGHT_LEAF
    <3>2. get_size2[i] = get_size2[p] \div 2
      BY <2>2, Size2Def
    <3> HIDE DEF p
    <3>3. PICK n : At(p, n)
      BY <1>3, <3>1
    <3>4. n \in 0..MAX_LOG /\ n # MAX_LOG /\ n + 1 \in 0..MAX_LOG
      BY <1>0, <3>3
    <3>5. pow2[n + 1] = 2 * pow2[n] /\ pow2[n] \in Nat
      BY <3>4, Pow2Step, Pow2Grows
    <3>6. pow2[n + 1] <= i + 1 /\ i + 1 < 2 * pow2[n + 1]
      BY <3>1, <3>3, <3>5
    <3>7. n # K - 3
      <4> SUFFICES ASSUME n = K - 3 PROVE FALSE
        OBVIOUS
      <4>1. pow2[n + 1] = pow2[K - 2]
        BY <3>5, SizeIs
      <4>2. i <= pow2[K - 2] - 2 /\ pow2[K - 2] \in Nat
        BY NodesAre, SizeIs
      <4> QED
        BY <3>6, <4>1, <4>2
    <3>8. n + 1 \in 0..(K - 3)
      BY <1>0, <3>3, <3>7
    <3>9. pow2[K - n] = 2 * pow2[K - (n + 1)] /\ pow2[K - (n + 1)] \in Nat
      <4>1. K - (n + 1) \in 0..MAX_LOG /\ K - (n + 1) # MAX_LOG
            /\ (K - (n + 1)) + 1 = K - n
        <5>1. n \in Int /\ n >= 0 /\ n + 1 <= K - 3
          BY <1>0, <3>3, <3>8
        <5> QED
          BY <1>0, <5>1
      <4> QED
        BY <4>1, Pow2Step, Pow2Grows
    <3>10. get_size2[i] = pow2[K - (n + 1)]
      BY <3>2, <3>3, <3>9
    <3>11. At(i, n + 1)
      BY <1>2, <3>6, <3>8, <3>10
    <3>12. n + 1 # 0 /\ Whole[p] = K - (n + 1) + 1
      BY <1>0, <3>3
    <3> HIDE DEF At
    <3> QED
      BY <3>11, <3>12 DEF p
  <2> QED
    BY <2>1, <2>2
<1>4. \A n \in Nat : n \in Q
  <2> HIDE DEF Q
  <2> QED
    BY <1>3, StrongInduction
<1> QED
  BY <1>1, <1>4

(* What the layers mean for a node. *)
LEMMA NodeFacts ==
  ASSUME NEW i \in Nodes
  PROVE  /\ i \in Nat /\ Whole[i] \in 3..K /\ Whole[i] \in 0..MAX_LOG
         /\ get_size2[i] = pow2[Whole[i]]
         /\ i # 0 => Whole[PARENT(i)] = Whole[i] + 1
         /\ in_bitmap(i) <=> Whole[i] <= 4
         /\ Whole[i] = 3 <=> i >= pow2[K - 3] - 1
         /\ Whole[i] = 3 => LEFT_LEAF(i) \notin Nodes /\ RIGHT_LEAF(i) \notin Nodes
         /\ Whole[i] # 3 => LEFT_LEAF(i) \in Nodes /\ RIGHT_LEAF(i) \in Nodes
<1>0. K \in 7..29 /\ MAX_LOG = 29
  BY SizeIs DEF MAX_LOG
<1>1. PICK n \in 0..(K - 3) :
         /\ pow2[n] <= i + 1 /\ i + 1 < 2 * pow2[n]
         /\ get_size2[i] = pow2[K - n] /\ Whole[i] = K - n
         /\ i # 0 => n # 0 /\ Whole[PARENT(i)] = K - n + 1
  BY Layers
<1>2. i \in Nat
  BY NodesAre, SizeIs
<1>3. n \in 0..MAX_LOG /\ K - 4 \in 0..MAX_LOG /\ K - 3 \in 0..MAX_LOG
      /\ pow2[n] \in Nat
  BY <1>0, Pow2Grows
<1> DEFINE m == pow2[K - 4]
<1>4. m \in Nat /\ m >= 1 /\ pow2[K - 3] = 2 * m /\ pow2[K - 2] = 4 * m
  BY SizeIs
<1>5. /\ n < K - 4 => 2 * pow2[n] <= m
      /\ K - 4 < n => 2 * m <= pow2[n]
      /\ n = K - 4 => pow2[n] = m
  BY <1>3, Pow2Grows
<1>6. /\ n < K - 3 => 2 * pow2[n] <= 2 * m
      /\ n = K - 3 => pow2[n] = 2 * m
  BY <1>3, <1>4, Pow2Grows
<1>7. i <= 4 * m - 2
  BY <1>4, NodesAre
<1> HIDE DEF m
<1>8. in_bitmap(i) <=> n >= K - 4
  <2>1. in_bitmap(i) <=> i >= m - 1
    BY NodesAre DEF m
  <2> QED
    BY <1>0, <1>1, <1>2, <1>3, <1>4, <1>5, <2>1
<1>9. n = K - 3 <=> i >= 2 * m - 1
  BY <1>0, <1>1, <1>2, <1>3, <1>4, <1>6
<1>10. \A j : j \in Nodes <=> j \in 0..(4 * m - 2)
  BY <1>4, NodesAre
<1>11. n = K - 3 => LEFT_LEAF(i) \notin Nodes /\ RIGHT_LEAF(i) \notin Nodes
  BY <1>2, <1>4, <1>9, <1>10 DEF LEFT_LEAF, RIGHT_LEAF
<1>12. n # K - 3 => LEFT_LEAF(i) \in Nodes /\ RIGHT_LEAF(i) \in Nodes
  BY <1>2, <1>4, <1>9, <1>10 DEF LEFT_LEAF, RIGHT_LEAF
<1>13. Whole[i] \in 3..K /\ Whole[i] \in 0..MAX_LOG /\ (Whole[i] = 3 <=> n = K - 3)
       /\ (Whole[i] <= 4 <=> n >= K - 4)
  BY <1>0, <1>1
<1> QED
  BY <1>0, <1>1, <1>2, <1>4, <1>8, <1>9, <1>11, <1>12, <1>13

LEMMA RootFacts == 0 \in Nodes /\ Whole[0] = K /\ get_size2[0] = Size
<1>1. 0 \in Nodes /\ get_size2[0] = Size
  BY NodesAre, Size2Def
<1>2. K \in 0..MAX_LOG
  BY SizeIs DEF MAX_LOG
<1> QED
  BY <1>1, <1>2, SizeIs, Log2Is DEF Whole

LEMMA ChildFacts ==
  ASSUME NEW i \in Nodes, Whole[i] # 3, NEW c \in {LEFT_LEAF(i), RIGHT_LEAF(i)}
  PROVE  /\ c \in Nodes /\ c # 0 /\ PARENT(c) = i /\ Whole[c] = Whole[i] - 1
         /\ get_size2[i] = 2 * get_size2[c] /\ get_size2[c] \in Nat
<1>1. c \in Nodes /\ c # 0 /\ PARENT(c) = i
  BY NodeFacts, ParentOfChild
<1>2. Whole[c] = Whole[i] - 1
  BY <1>1, NodeFacts
<1>3. Whole[c] \in 0..MAX_LOG /\ Whole[i] \in 0..MAX_LOG /\ Whole[c] + 1 = Whole[i]
      /\ Whole[c] # MAX_LOG
  BY <1>1, <1>2, NodeFacts DEF MAX_LOG
<1>4. pow2[Whole[i]] = 2 * pow2[Whole[c]] /\ pow2[Whole[c]] \in Nat
  BY <1>3, Pow2Step, Pow2Grows
<1> QED
  BY <1>1, <1>2, <1>4, NodeFacts

-----------------------------------------------------------------------------
(* The bytes a node stands for. *)
First(i) == (i + 1) * get_size2[i] - Size
Span(i) == First(i)..(First(i) + get_size2[i] - 1)

LEMMA SpanIs ==
  ASSUME NEW i \in Nodes
  PROVE  /\ Bytes(Block(i)) = Span(i) /\ Block(i).offset = First(i)
         /\ Block(i).size = get_size2[i]
         /\ First(i) \in Int /\ get_size2[i] \in Nat /\ get_size2[i] >= 1
         /\ First(i) \in Span(i)
<1>1. Whole[i] \in 0..MAX_LOG /\ get_size2[i] = pow2[Whole[i]] /\ i \in Nat
  BY NodeFacts
<1>2. get_size2[i] \in Nat /\ get_size2[i] >= 1
  BY <1>1, Pow2Grows
<1>3. (i + 1) * get_size2[i] \in Int
  BY <1>1, <1>2
<1>4. First(i) \in Int
  BY <1>3, SizeIs DEF First
<1>5. Block(i).offset = First(i) /\ Block(i).size = get_size2[i]
  BY DEF Block, First
<1> QED
  BY <1>2, <1>4, <1>5 DEF Bytes, Span

LEMMA Doubling ==
  ASSUME NEW i \in Nat, NEW h \in Nat
  PROVE  /\ (2 * i + 1 + 1) * h = (i + 1) * (2 * h)
         /\ (2 * i + 2 + 1) * h = (i + 1) * (2 * h) + h
<1>1. i * h \in Nat
  OBVIOUS
<1>2. (2 * i + 1 + 1) * h = 2 * (i * h) + 2 * h
  OBVIOUS
<1>3. (2 * i + 2 + 1) * h = 2 * (i * h) + 3 * h
  OBVIOUS
<1>4. (i + 1) * (2 * h) = 2 * (i * h) + 2 * h
  OBVIOUS
<1> QED
  BY <1>1, <1>2, <1>3, <1>4

LEMMA Halves ==
  ASSUME NEW i \in Nodes, Whole[i] # 3
  PROVE  /\ Span(i) = Span(LEFT_LEAF(i)) \cup Span(RIGHT_LEAF(i))
         /\ Span(LEFT_LEAF(i)) \cap Span(RIGHT_LEAF(i)) = {}
         /\ First(LEFT_LEAF(i)) = First(i)
         /\ First(RIGHT_LEAF(i)) = First(i) + get_size2[LEFT_LEAF(i)]
         /\ get_size2[RIGHT_LEAF(i)] = get_size2[LEFT_LEAF(i)]
<1> DEFINE l == LEFT_LEAF(i)
           r == RIGHT_LEAF(i)
           h == get_size2[l]
<1>1. l \in Nodes /\ get_size2[i] = 2 * h /\ h \in Nat
  BY ChildFacts
<1>2. r \in Nodes /\ get_size2[i] = 2 * get_size2[r] /\ get_size2[r] \in Nat
  BY ChildFacts
<1>3. get_size2[r] = h
  BY <1>1, <1>2
<1>4. i \in Nat
  BY NodeFacts
<1>5. h >= 1 /\ First(i) \in Int
  BY <1>1, SpanIs
<1>6. (l + 1) * h = (i + 1) * get_size2[i] /\ (r + 1) * h = (i + 1) * get_size2[i] + h
  BY <1>1, <1>4, Doubling DEF LEFT_LEAF, RIGHT_LEAF
<1>7. (i + 1) * get_size2[i] \in Int /\ Size \in Int
  BY <1>1, <1>4, SizeIs
<1>8. First(l) = First(i) /\ First(r) = First(i) + h
  BY <1>1, <1>3, <1>6, <1>7 DEF First
<1> HIDE DEF l, r, h
<1>9. Span(i) = First(i)..(First(i) + 2 * h - 1) /\ Span(l) = First(i)..(First(i) + h - 1)
      /\ Span(r) = (First(i) + h)..(First(i) + h + h - 1)
  BY <1>1, <1>3, <1>8 DEF Span, h
<1>10. Span(i) = Span(l) \cup Span(r) /\ Span(l) \cap Span(r) = {}
  BY <1>1, <1>5, <1>9
<1> QED
  BY <1>3, <1>8, <1>10 DEF l, r, h

LEMMA SpanOfParent ==
  ASSUME NEW i \in Nodes, i # 0
  PROVE  /\ Whole[PARENT(i)] # 3 /\ PARENT(i) \in Nodes
         /\ i \in {LEFT_LEAF(PARENT(i)), RIGHT_LEAF(PARENT(i))}
         /\ Span(i) \subseteq Span(PARENT(i))
         /\ First(PARENT(i)) <= First(i)
         /\ First(i) + get_size2[i] <= First(PARENT(i)) + get_size2[PARENT(i)]
         /\ get_size2[PARENT(i)] = 2 * get_size2[i]
<1> DEFINE p == PARENT(i)
<1>1. p \in Nodes /\ (i = LEFT_LEAF(p) \/ i = RIGHT_LEAF(p))
  BY ParentOf
<1>2. Whole[p] # 3
  BY <1>1, NodeFacts
<1> HIDE DEF p
<1>3. Span(i) \subseteq Span(p)
  BY <1>1, <1>2, Halves
<1>4. get_size2[p] = 2 * get_size2[i] /\ get_size2[i] \in Nat
  BY <1>1, <1>2, ChildFacts
<1>5. (First(i) = First(p) \/ First(i) = First(p) + get_size2[i]) /\ First(p) \in Int
  BY <1>1, <1>2, Halves, SpanIs
<1>6. First(p) <= First(i) /\ First(i) + get_size2[i] <= First(p) + get_size2[p]
  BY <1>4, <1>5
<1> QED
  BY <1>1, <1>2, <1>3, <1>4, <1>6 DEF p

(* Every node's bytes are bytes of the heap. *)
LEMMA SpanInHeap ==
  \A i \in Nodes : First(i) >= 0 /\ First(i) + get_size2[i] <= Size
<1> DEFINE Q == {i \in Nat : i \in Nodes =>
                   First(i) >= 0 /\ First(i) + get_size2[i] <= Size}
<1>1. ASSUME NEW i \in Nat, \A m \in Nat : m < i => m \in Q PROVE i \in Q
  <2> SUFFICES ASSUME i \in Nodes
               PROVE  First(i) >= 0 /\ First(i) + get_size2[i] <= Size
    OBVIOUS
  <2>1. CASE i = 0
    <3>1. get_size2[0] = Size /\ Size \in Nat
      BY RootFacts, SizeIs
    <3>2. First(0) = 0
      BY <3>1 DEF First
    <3> QED
      BY <2>1, <3>1, <3>2
  <2>2. CASE i # 0
    <3> DEFINE p == PARENT(i)
    <3>1. p \in Nodes /\ p \in Nat /\ p < i
      BY <2>2, ParentOf
    <3>2. First(p) >= 0 /\ First(p) + get_size2[p] <= Size
      BY <1>1, <3>1
    <3>3. First(p) <= First(i) /\ First(i) + get_size2[i] <= First(p) + get_size2[p]
      BY <2>2, SpanOfParent
    <3>4. First(i) \in Int /\ First(p) \in Int /\ get_size2[i] \in Int
          /\ get_size2[p] \in Int /\ Size \in Int
      BY <3>1, SpanIs, SizeIs
    <3> HIDE DEF p
    <3> QED
      BY <3>2, <3>3, <3>4
  <2> QED
    BY <2>1, <2>2
<1>2. \A n \in Nat : n \in Q
  <2> HIDE DEF Q
  <2> QED
    BY <1>1, StrongInduction
<1> QED
  BY <1>2, NodeFacts

(* The way to the root: what lies on it is above, as large, and around. *)
LEMMA PathUp ==
  \A i \in Nodes : \A n \in Path[i] :
    /\ n \in Nodes /\ n <= i /\ Span(i) \subseteq Span(n) /\ Path[n] \subseteq Path[i]
    /\ n # i => Whole[i] < Whole[n] /\ get_size2[i] < get_size2[n]
<1> DEFINE Up(i, n) ==
             /\ n \in Nodes /\ n <= i /\ Span(i) \subseteq Span(n) /\ Path[n] \subseteq Path[i]
             /\ n # i => Whole[i] < Whole[n] /\ get_size2[i] < get_size2[n]
           Q == {i \in Nat : i \in Nodes => \A n \in Path[i] : Up(i, n)}
<1>1. ASSUME NEW i \in Nat, \A m \in Nat : m < i => m \in Q PROVE i \in Q
  <2> SUFFICES ASSUME i \in Nodes, NEW n \in Path[i] PROVE Up(i, n)
    OBVIOUS
  <2>1. CASE n = i
    BY <2>1
  <2>2. CASE n # i
    <3> DEFINE p == PARENT(i)
    <3>1. i # 0 /\ n \in Path[p] /\ Path[i] = {i} \cup Path[p]
      BY <2>2, PathDef
    <3>2. p \in Nodes /\ p \in Nat /\ p < i
      BY <3>1, ParentOf
    <3>3. Span(i) \subseteq Span(p) /\ get_size2[p] = 2 * get_size2[i]
      BY <3>1, SpanOfParent
    <3>4. Whole[p] = Whole[i] + 1 /\ Whole[i] \in 3..K
      BY <3>1, NodeFacts
    <3>5. get_size2[i] \in Nat /\ get_size2[i] >= 1
      BY SpanIs
    <3> HIDE DEF p
    <3>6. Up(p, n)
      BY <1>1, <3>1, <3>2
    <3>7. n \in Nodes /\ Whole[n] \in 3..K /\ n \in Nat /\ get_size2[n] \in Nat
      BY <3>6, NodeFacts, SpanIs
    <3>8. K \in Int
      BY SizeIs
    <3>9. n <= i /\ Span(i) \subseteq Span(n) /\ Path[n] \subseteq Path[i]
      BY <3>1, <3>2, <3>3, <3>6, <3>7
    <3>10. Whole[i] < Whole[n] /\ get_size2[i] < get_size2[n]
      BY <3>3, <3>4, <3>5, <3>6, <3>7, <3>8
    <3> QED
      BY <3>7, <3>9, <3>10
  <2> QED
    BY <2>1, <2>2
<1>2. \A n \in Nat : n \in Q
  <2> HIDE DEF Q
  <2> QED
    BY <1>1, StrongInduction
<1> QED
  BY <1>2, NodeFacts

LEMMA PathStart ==
  ASSUME NEW i \in Nodes
  PROVE  i \in Path[i] /\ (i # 0 => Path[i] = {i} \cup Path[PARENT(i)])
         /\ Path[0] = {0}
BY PathDef, RootFacts

LEMMA RootOnPath == \A i \in Nodes : 0 \in Path[i]
<1> DEFINE Q == {i \in Nat : i \in Nodes => 0 \in Path[i]}
<1>1. ASSUME NEW i \in Nat, \A m \in Nat : m < i => m \in Q PROVE i \in Q
  BY <1>1, PathStart, ParentOf
<1>2. \A n \in Nat : n \in Q
  <2> HIDE DEF Q
  <2> QED
    BY <1>1, StrongInduction
<1> QED
  BY <1>2, NodeFacts

(* A path that passes through a node comes from one of its halves. *)
LEMMA PathThroughHalf ==
  \A i \in Nodes : \A p \in Path[i] \ {i} :
     Whole[p] # 3 /\ (LEFT_LEAF(p) \in Path[i] \/ RIGHT_LEAF(p) \in Path[i])
<1> DEFINE T(i, p) == Whole[p] # 3 /\ (LEFT_LEAF(p) \in Path[i] \/ RIGHT_LEAF(p) \in Path[i])
           Q == {i \in Nat : i \in Nodes => \A p \in Path[i] \ {i} : T(i, p)}
<1>1. ASSUME NEW i \in Nat, \A m \in Nat : m < i => m \in Q PROVE i \in Q
  <2> SUFFICES ASSUME i \in Nodes, NEW p \in Path[i] \ {i} PROVE T(i, p)
    OBVIOUS
  <2>1. i # 0
    BY PathStart
  <2> DEFINE q == PARENT(i)
  <2>2. q \in Nodes /\ q < i /\ q \in Nat /\ p \in Path[q] /\ Path[i] = {i} \cup Path[q]
    BY <2>1, PathStart, ParentOf
  <2>3. CASE p = q
    BY <2>1, <2>3, PathStart, SpanOfParent
  <2>4. CASE p # q
    <3> HIDE DEF q
    <3>1. T(q, p)
      BY <1>1, <2>2, <2>4
    <3> QED
      BY <2>2, <3>1
  <2> QED
    BY <2>3, <2>4
<1>2. \A n \in Nat : n \in Q
  <2> HIDE DEF Q
  <2> QED
    BY <1>1, StrongInduction
<1> QED
  BY <1>2, NodeFacts

(* Two nodes that share a byte are on one path. *)
LEMMA SharedByte ==
  \A i \in Nodes : \A n \in Nodes :
     Span(i) \cap Span(n) # {} => n \in Path[i] \/ i \in Path[n]
<1> DEFINE Q == {i \in Nat : i \in Nodes => \A n \in Nodes :
                   Span(i) \cap Span(n) # {} => n \in Path[i] \/ i \in Path[n]}
<1>1. ASSUME NEW i \in Nat, \A m \in Nat : m < i => m \in Q PROVE i \in Q
  <2> SUFFICES ASSUME i \in Nodes, NEW n \in Nodes, Span(i) \cap Span(n) # {}
               PROVE  n \in Path[i] \/ i \in Path[n]
    OBVIOUS
  <2>1. CASE i = 0
    BY <2>1, RootOnPath
  <2>2. CASE i # 0
    <3> DEFINE p == PARENT(i)
    <3>1. p \in Nodes /\ p < i /\ p \in Nat /\ Path[i] = {i} \cup Path[p]
      BY <2>2, PathStart, ParentOf
    <3>2. Span(i) \subseteq Span(p) /\ Whole[p] # 3 /\ i \in {LEFT_LEAF(p), RIGHT_LEAF(p)}
      BY <2>2, SpanOfParent
    <3> HIDE DEF p
    <3>3. Span(p) \cap Span(n) # {}
      BY <3>2
    <3>4. n \in Path[p] \/ p \in Path[n]
      BY <1>1, <3>1, <3>3
    <3>5. p \in Path[p]
      BY <3>1, PathStart
    <3>6. CASE p \in Path[n] /\ n # p
      <4>1. LEFT_LEAF(p) \in Path[n] \/ RIGHT_LEAF(p) \in Path[n]
        BY <3>6, PathThroughHalf
      <4>2. Span(LEFT_LEAF(p)) \cap Span(RIGHT_LEAF(p)) = {}
        BY <3>1, <3>2, Halves
      <4>3. \A c \in Path[n] : Span(n) \subseteq Span(c)
        BY PathUp
      <4>4. \A c \in Path[n] : Span(i) \cap Span(c) # {}
        BY <4>3
      <4> QED
        BY <3>2, <4>1, <4>2, <4>4
    <3> QED
      BY <3>1, <3>4, <3>5, <3>6
  <2> QED
    BY <2>1, <2>2
<1>2. \A n \in Nat : n \in Q
  <2> HIDE DEF Q
  <2> QED
    BY <1>1, StrongInduction
<1> QED
  BY <1>2, NodeFacts

(* A node within another is on its side of the tree. *)
LEMMA Within ==
  ASSUME NEW i \in Nodes, NEW n \in Nodes, Span(i) \subseteq Span(n)
  PROVE  n \in Path[i]
<1>1. Span(i) \cap Span(n) # {}
  BY SpanIs
<1>2. n \in Path[i] \/ i \in Path[n]
  BY <1>1, SharedByte
<1>3. CASE i \in Path[n] /\ i # n
  <2>1. get_size2[n] < get_size2[i]
    BY <1>3, PathUp
  <2>2. /\ First(i) \in Int /\ First(n) \in Int
        /\ get_size2[i] \in Nat /\ get_size2[n] \in Nat
        /\ get_size2[i] >= 1 /\ get_size2[n] >= 1
    BY SpanIs
  <2>3. First(i) \in Span(n) /\ First(i) + get_size2[i] - 1 \in Span(n)
    BY <2>2 DEF Span
  <2>4. First(i) >= First(n) /\ First(i) + get_size2[i] - 1 <= First(n) + get_size2[n] - 1
    BY <2>2, <2>3 DEF Span
  <2> QED
    BY <2>1, <2>2, <2>4
<1> QED
  BY <1>2, <1>3, PathStart

LEMMA SameSpan ==
  ASSUME NEW i \in Nodes, NEW n \in Nodes, Span(i) = Span(n)
  PROVE  i = n
<1>1. n \in Path[i] /\ i \in Path[n]
  BY Within
<1>2. n <= i /\ i <= n
  BY <1>1, PathUp
<1> QED
  BY <1>2, NodeFacts

-----------------------------------------------------------------------------
(* Sums. *)

Some(s) == CHOOSE x \in s : TRUE

(* it sums g over the subsets of S. *)
Sums(it, S, g) ==
    it = [s \in SUBSET S |-> IF s = {} THEN 0 ELSE g[Some(s)] + it[s \ {Some(s)}]]

LEMMA SumsExist ==
  ASSUME NEW S, IsFiniteSet(S), NEW g \in [S -> Nat]
  PROVE  \E it : Sums(it, S, g)
<1> DEFINE D == SUBSET S
           b == [s \in D |-> 0]
           d == [s \in D |-> s \ {Some(s)}]
           h == [p \in D \X Nat |-> IF p[1] = {} THEN 0 ELSE g[Some(p[1])] + p[2]]
           rank == [s \in D |-> Cardinality(s)]
<1>1. \A s \in D : s # {} => Some(s) \in s
  BY DEF Some
<1>2. b \in [D -> Nat] /\ d \in [D -> D]
  OBVIOUS
<1>3. h \in [D \X Nat -> Nat]
  <2>1. \A p \in D \X Nat : (IF p[1] = {} THEN 0 ELSE g[Some(p[1])] + p[2]) \in Nat
    <3> SUFFICES ASSUME NEW p \in D \X Nat, p[1] # {}
                 PROVE  g[Some(p[1])] + p[2] \in Nat
      OBVIOUS
    <3>1. Some(p[1]) \in S
      BY <1>1
    <3>2. g[Some(p[1])] \in Nat /\ p[2] \in Nat
      BY <3>1
    <3> QED
      BY <3>2
  <2> QED
    BY <2>1
<1>4. rank \in [D -> Nat]
  <2>1. \A s \in D : Cardinality(s) \in Nat
    BY FS_Subset, FS_CardinalityType
  <2> QED
    BY <2>1
<1>5. \A s \in D \ {{}} : rank[d[s]] < rank[s]
  <2> SUFFICES ASSUME NEW s \in D, s # {} PROVE rank[d[s]] < rank[s]
    OBVIOUS
  <2>1. Some(s) \in s /\ IsFiniteSet(s)
    BY <1>1, FS_Subset
  <2>2. Cardinality(s) \in Nat /\ Cardinality(s \ {Some(s)}) = Cardinality(s) - 1
    BY <2>1, FS_CardinalityType, FS_RemoveElement
  <2>3. rank[s] = Cardinality(s) /\ rank[d[s]] = Cardinality(s \ {Some(s)})
    BY <1>2
  <2> QED
    BY <2>2, <2>3
<1>6. PICK f \in [D -> Nat] : Recursive(f, D, {{}}, b, d, h)
  <2> HIDE DEF b, d, h, rank, D
  <2> QED
    BY <1>2, <1>3, <1>4, <1>5, RecursionExists
<1>7. ASSUME NEW s \in D
      PROVE  f[s] = IF s = {} THEN 0 ELSE g[Some(s)] + f[s \ {Some(s)}]
  <2>1. CASE s = {}
    BY <1>6, <2>1 DEF Recursive
  <2>2. CASE s # {}
    <3>1. d[s] = s \ {Some(s)} /\ f[d[s]] \in Nat /\ d[s] \in D
      BY <1>2, <1>6
    <3>2. f[s] = h[<<s, f[d[s]]>>]
      BY <1>6, <2>2 DEF Recursive
    <3>3. h[<<s, f[d[s]]>>] = g[Some(s)] + f[d[s]]
      BY <2>2, <3>1
    <3> QED
      BY <2>2, <3>1, <3>2, <3>3
  <2> QED
    BY <2>1, <2>2
<1>8. Sums(f, S, g)
  BY <1>6, <1>7 DEF Sums
<1> QED
  BY <1>8

(* The sizes of disjoint sets add up to the size of their union. *)
LEMMA DisjointSum ==
  ASSUME NEW S, IsFiniteSet(S), NEW g \in [S -> Nat], NEW sp, NEW it,
         \A x \in S : IsFiniteSet(sp[x]) /\ Cardinality(sp[x]) = g[x],
         \A x, y \in S : x # y => sp[x] \cap sp[y] = {},
         Sums(it, S, g)
  PROVE  it[S] = Cardinality(UNION {sp[x] : x \in S})
<1> DEFINE Un(s) == UNION {sp[x] : x \in s}
           Q == {n \in Nat : \A s \in SUBSET S : Cardinality(s) = n =>
                   IsFiniteSet(Un(s)) /\ it[s] = Cardinality(Un(s))}
<1>1. ASSUME NEW n \in Nat, \A m \in Nat : m < n => m \in Q PROVE n \in Q
  <2> SUFFICES ASSUME NEW s \in SUBSET S, Cardinality(s) = n
               PROVE  IsFiniteSet(Un(s)) /\ it[s] = Cardinality(Un(s))
    OBVIOUS
  <2>0. IsFiniteSet(s)
    BY FS_Subset
  <2>1. CASE s = {}
    <3>1. Un(s) = {} /\ it[s] = 0
      BY <2>1 DEF Sums
    <3> QED
      BY <3>1, FS_EmptySet
  <2>2. CASE s # {}
    <3> DEFINE x == Some(s)
               r == s \ {x}
    <3>1. x \in s
      BY <2>2 DEF Some
    <3> HIDE DEF x
    <3>2. it[s] = g[x] + it[r]
      BY <2>2 DEF Sums, x
    <3>3. Cardinality(r) \in Nat /\ Cardinality(r) < n
      <4>1. Cardinality(r) = Cardinality(s) - 1 /\ IsFiniteSet(r)
        BY <2>0, <3>1, FS_RemoveElement
      <4>2. Cardinality(r) \in Nat
        BY <4>1, FS_CardinalityType
      <4> HIDE DEF r
      <4> QED
        BY <4>1, <4>2
    <3>4. IsFiniteSet(Un(r)) /\ it[r] = Cardinality(Un(r))
      BY <1>1, <3>3
    <3>5. Un(s) = sp[x] \cup Un(r) /\ sp[x] \cap Un(r) = {}
      BY <3>1
    <3>6. IsFiniteSet(sp[x]) /\ Cardinality(sp[x]) = g[x] /\ g[x] \in Nat
      BY <3>1
    <3>7. Cardinality(Un(r)) \in Nat /\ Cardinality({}) = 0
      BY <3>4, FS_CardinalityType, FS_EmptySet
    <3> HIDE DEF Un, r
    <3>8. /\ IsFiniteSet(sp[x] \cup Un(r))
          /\ Cardinality(sp[x] \cup Un(r)) =
               Cardinality(sp[x]) + Cardinality(Un(r)) - Cardinality(sp[x] \cap Un(r))
      BY <3>4, <3>6, FS_Union
    <3>9. Cardinality(sp[x] \cap Un(r)) = 0
      BY <3>5, <3>7
    <3>10. Cardinality(sp[x] \cup Un(r)) = g[x] + it[r]
      BY <3>4, <3>6, <3>7, <3>8, <3>9
    <3>11. Cardinality(Un(s)) = g[x] + it[r] /\ IsFiniteSet(Un(s))
      BY <3>5, <3>8, <3>10, Zenon
    <3> QED
      BY <3>2, <3>11, Zenon
  <2> QED
    BY <2>1, <2>2
<1>2. \A n \in Nat : n \in Q
  <2> HIDE DEF Q
  <2> QED
    BY <1>1, StrongInduction
<1>3. Cardinality(S) \in Nat
  BY FS_CardinalityType
<1> QED
  BY <1>2, <1>3

LEMMA NodesFinite == IsFiniteSet(Nodes)
<1>1. 0 \in Int /\ pow2[K - 2] - 2 \in Int
  BY SizeIs
<1>2. IsFiniteSet(0..(pow2[K - 2] - 2))
  BY <1>1, FS_Interval
<1> QED
  BY <1>2, NodesAre

LEMMA SpanCount ==
  ASSUME NEW i \in Nodes
  PROVE  IsFiniteSet(Span(i)) /\ Cardinality(Span(i)) = get_size2[i]
<1>1. First(i) \in Int /\ get_size2[i] \in Nat /\ get_size2[i] >= 1
  BY SpanIs
<1> DEFINE a == First(i)
           z == First(i) + get_size2[i] - 1
<1>2. a \in Int /\ z \in Int /\ ~(a > z) /\ z - a + 1 = get_size2[i]
  BY <1>1
<1> HIDE DEF a, z
<1>3. IsFiniteSet(a..z) /\ Cardinality(a..z) = IF a > z THEN 0 ELSE z - a + 1
  BY <1>2, FS_Interval
<1> QED
  BY <1>2, <1>3 DEF Span, a, z

LEMMA SumOfNodes ==
  ASSUME NEW S \in SUBSET Nodes,
         \A i, j \in S : i # j => Span(i) \cap Span(j) = {}
  PROVE  MapThenSumSet(LAMBDA i : get_size2[i], S)
           = Cardinality(UNION {Span(i) : i \in S})
<1> DEFINE g == [i \in S |-> get_size2[i]]
           sp == [i \in S |-> Span(i)]
           P(f) == f = [s \in SUBSET S |-> IF s = {} THEN 0
                          ELSE get_size2[CHOOSE x \in s : TRUE] + f[s \ {CHOOSE x \in s : TRUE}]]
           it == CHOOSE f : P(f)
<1>1. IsFiniteSet(S)
  BY NodesFinite, FS_Subset
<1>2. g \in [S -> Nat]
  BY SpanIs
<1>3. PICK f : Sums(f, S, g)
  <2> HIDE DEF g
  <2> QED
    BY <1>1, <1>2, SumsExist
<1>4. ASSUME NEW e PROVE Sums(e, S, g) <=> P(e)
  <2>1. \A s \in SUBSET S : s # {} => Some(s) \in S
    BY DEF Some
  <2>2. \A s \in SUBSET S : s # {} => g[Some(s)] = get_size2[Some(s)]
    BY <2>1
  <2> HIDE DEF g
  <2> QED
    BY <2>2 DEF Sums, Some
<1>5. P(it)
  <2>1. P(f)
    BY <1>3, <1>4
  <2> HIDE DEF P
  <2> QED
    BY <2>1, Zenon
<1>6. MapThenSumSet(LAMBDA i : get_size2[i], S) = it[S]
  BY Zenon DEF MapThenSumSet, MapThenFoldSet
<1>7. Sums(it, S, g)
  <2> HIDE DEF it, g, P
  <2> QED
    BY <1>4, <1>5
<1>8. \A x \in S : IsFiniteSet(sp[x]) /\ Cardinality(sp[x]) = g[x]
  BY SpanCount
<1>9. \A x, y \in S : x # y => sp[x] \cap sp[y] = {}
  OBVIOUS
<1>10. it[S] = Cardinality(UNION {sp[x] : x \in S})
  <2> HIDE DEF it, g, sp, P
  <2> QED
    BY <1>1, <1>2, <1>7, <1>8, <1>9, DisjointSum
<1>11. {sp[x] : x \in S} = {Span(i) : i \in S}
  OBVIOUS
<1> HIDE DEF it, sp
<1> QED
  BY <1>6, <1>10, <1>11

LEMMA SumOfBlocks ==
  ASSUME NEW B, IsFiniteSet(B), \A b \in B : \E n \in Nodes : b = Block(n),
         \A b, c \in B : b # c => Bytes(b) \cap Bytes(c) = {}
  PROVE  MapThenSumSet(LAMBDA b : b.size, B) = Cardinality(UNION {Bytes(b) : b \in B})
<1> DEFINE g == [b \in B |-> b.size]
           sp == [b \in B |-> Bytes(b)]
           P(f) == f = [s \in SUBSET B |-> IF s = {} THEN 0
                          ELSE (CHOOSE x \in s : TRUE).size + f[s \ {CHOOSE x \in s : TRUE}]]
           it == CHOOSE f : P(f)
<1>1. \A b \in B : b.size \in Nat /\ IsFiniteSet(Bytes(b)) /\ Cardinality(Bytes(b)) = b.size
  BY SpanIs, SpanCount
<1>2. g \in [B -> Nat]
  BY <1>1
<1>3. PICK f : Sums(f, B, g)
  <2> HIDE DEF g
  <2> QED
    BY <1>2, SumsExist
<1>4. ASSUME NEW e PROVE Sums(e, B, g) <=> P(e)
  <2>1. \A s \in SUBSET B : s # {} => Some(s) \in B
    BY DEF Some
  <2>2. \A s \in SUBSET B : s # {} => g[Some(s)] = Some(s).size
    BY <2>1
  <2> HIDE DEF g
  <2> QED
    BY <2>2 DEF Sums, Some
<1>5. P(it)
  <2>1. P(f)
    BY <1>3, <1>4
  <2> HIDE DEF P
  <2> QED
    BY <2>1, Zenon
<1>6. MapThenSumSet(LAMBDA b : b.size, B) = it[B]
  BY Zenon DEF MapThenSumSet, MapThenFoldSet
<1>7. Sums(it, B, g)
  <2> HIDE DEF it, g, P
  <2> QED
    BY <1>4, <1>5
<1>8. \A x \in B : IsFiniteSet(sp[x]) /\ Cardinality(sp[x]) = g[x]
  BY <1>1
<1>9. \A x, y \in B : x # y => sp[x] \cap sp[y] = {}
  OBVIOUS
<1>10. it[B] = Cardinality(UNION {sp[x] : x \in B})
  <2> HIDE DEF it, g, sp, P
  <2> QED
    BY <1>2, <1>7, <1>8, <1>9, DisjointSum
<1>11. {sp[x] : x \in B} = {Bytes(b) : b \in B}
  OBVIOUS
<1> HIDE DEF it, sp
<1> QED
  BY <1>6, <1>10, <1>11

-----------------------------------------------------------------------------
(* Trees. *)

Bits == {n \in Nodes : in_bitmap(n)}
Words == {n \in Nodes : ~in_bitmap(n)}
Trees == {t \in [bbt : [Words -> 0..MAX_LOG], bitmap : SUBSET Bits] :
             \A i \in Words : t.bbt[i] <= Whole[i]}

LEMMA TreeFacts ==
  ASSUME NEW t \in Trees
  PROVE  /\ t.bbt \in [Words -> 0..MAX_LOG] /\ t.bitmap \in SUBSET Bits
         /\ t = [bbt |-> t.bbt, bitmap |-> t.bitmap]
         /\ \A i \in Words : t.bbt[i] <= Whole[i]
BY DEF Trees

LEMMA NodeKinds ==
  ASSUME NEW i \in Nodes
  PROVE  /\ i \in Words <=> Whole[i] > 4
         /\ i \in Bits <=> Whole[i] = 3 \/ Whole[i] = 4
         /\ i \in Bits <=> i \notin Words
         /\ i \in Bits => (in_bitmap(PARENT(i)) <=> Whole[i] = 3)
         /\ Whole[i] \in Nat /\ Whole[i] >= 3 /\ Whole[i] <= MAX_LOG
         /\ 0 \in Words
<1>0. K \in 7..29 /\ MAX_LOG = 29
  BY SizeIs DEF MAX_LOG
<1>1. Whole[i] \in 3..K /\ (in_bitmap(i) <=> Whole[i] <= 4)
  BY NodeFacts
<1>2. Whole[0] = K /\ 0 \in Nodes
  BY RootFacts
<1>3. in_bitmap(0) <=> K <= 4
  BY <1>2, NodeFacts
<1>4. ASSUME i \in Bits PROVE in_bitmap(PARENT(i)) <=> Whole[i] = 3
  <2>1. in_bitmap(i)
    BY <1>4 DEF Bits
  <2>2. i # 0
    BY <1>0, <1>3, <2>1
  <2>3. PARENT(i) \in Nodes /\ Whole[PARENT(i)] = Whole[i] + 1
    BY <2>2, ParentOf, NodeFacts
  <2>4. in_bitmap(PARENT(i)) <=> Whole[i] + 1 <= 4
    BY <2>3, NodeFacts
  <2> QED
    BY <1>0, <1>1, <2>4
<1>5. Whole[i] \in Nat /\ Whole[i] >= 3 /\ Whole[i] <= MAX_LOG
  BY <1>0, <1>1
<1>6. (Whole[i] <= 4 <=> Whole[i] = 3 \/ Whole[i] = 4) /\ (Whole[i] <= 4 <=> ~(Whole[i] > 4))
  BY <1>5
<1> QED
  BY <1>0, <1>1, <1>2, <1>3, <1>4, <1>5, <1>6 DEF Bits, Words

(* get_size by the kind of the node. *)
LEMMA GetSizeIs ==
  ASSUME NEW t \in Trees, NEW i \in Nodes
  PROVE  /\ Whole[i] = 3 => get_size(t, i) = IF i \in t.bitmap THEN 3 ELSE 0
         /\ Whole[i] = 4 => get_size(t, i) =
              IF i \notin t.bitmap THEN 0
              ELSE IF LEFT_LEAF(i) \in t.bitmap /\ RIGHT_LEAF(i) \in t.bitmap THEN 4
              ELSE IF LEFT_LEAF(i) \in t.bitmap \/ RIGHT_LEAF(i) \in t.bitmap THEN 3
              ELSE 0
         /\ i \in Words => get_size(t, i) = t.bbt[i]
         /\ get_size(t, i) \in 0..MAX_LOG /\ get_size(t, i) \in Nat
         /\ get_size(t, i) <= Whole[i]
<1>1. /\ i \in Words <=> Whole[i] > 4
      /\ i \in Bits <=> Whole[i] = 3 \/ Whole[i] = 4
      /\ i \in Bits => (in_bitmap(PARENT(i)) <=> Whole[i] = 3)
      /\ i \in Bits <=> i \notin Words
  BY NodeKinds
<1>2. CASE i \in Words
  <2>1. get_size(t, i) = t.bbt[i]
    BY <1>2 DEF get_size, Words
  <2>2. t.bbt[i] \in 0..MAX_LOG /\ t.bbt[i] <= Whole[i]
    BY <1>2, TreeFacts
  <2>3. MAX_LOG = 29
    BY DEF MAX_LOG
  <2>4. t.bbt[i] \in Nat
    BY <2>2, <2>3
  <2>5. Whole[i] # 3 /\ Whole[i] # 4
    BY <1>1, <1>2
  <2> QED
    BY <2>1, <2>2, <2>4, <2>5
<1>3. CASE i \in Bits
  <2>1. in_bitmap(i) /\ i \notin Words
    BY <1>1, <1>3 DEF Bits
  <2>2. Whole[i] = 3 => get_size(t, i) = IF i \in t.bitmap THEN 3 ELSE 0
    BY <1>1, <1>3, <2>1 DEF get_size
  <2>3. Whole[i] = 4 => get_size(t, i) =
              IF i \notin t.bitmap THEN 0
              ELSE IF LEFT_LEAF(i) \in t.bitmap /\ RIGHT_LEAF(i) \in t.bitmap THEN 4
              ELSE IF LEFT_LEAF(i) \in t.bitmap \/ RIGHT_LEAF(i) \in t.bitmap THEN 3
              ELSE 0
    BY <1>1, <1>3, <2>1 DEF get_size
  <2>4. MAX_LOG = 29
    BY DEF MAX_LOG
  <2>5. get_size(t, i) \in {0, 3, 4} /\ get_size(t, i) <= Whole[i]
    BY <1>1, <1>3, <2>2, <2>3
  <2> QED
    BY <2>1, <2>2, <2>3, <2>4, <2>5
<1> QED
  BY <1>1, <1>2, <1>3

(* Two trees hold the same at a node. *)
Same(t, u, j) == /\ j \in Words => t.bbt[j] = u.bbt[j]
                 /\ j \in t.bitmap <=> j \in u.bitmap

Near(j) == {j, LEFT_LEAF(j), RIGHT_LEAF(j)} \cap Nodes

LEMMA GetSizeLocal ==
  ASSUME NEW t \in Trees, NEW u \in Trees, NEW j \in Nodes,
         \A c \in Near(j) : Same(t, u, c)
  PROVE  get_size(t, j) = get_size(u, j)
<1>1. Same(t, u, j)
  BY DEF Near
<1>2. CASE j \in Words
  BY <1>1, <1>2, GetSizeIs DEF Same
<1>3. CASE Whole[j] = 3
  BY <1>1, <1>3, GetSizeIs DEF Same
<1>4. CASE Whole[j] = 4
  <2>1. LEFT_LEAF(j) \in Nodes /\ RIGHT_LEAF(j) \in Nodes
    BY <1>4, NodeFacts
  <2>2. Same(t, u, LEFT_LEAF(j)) /\ Same(t, u, RIGHT_LEAF(j))
    BY <2>1 DEF Near
  <2> QED
    BY <1>1, <1>4, <2>2, GetSizeIs DEF Same
<1> QED
  BY <1>2, <1>3, <1>4, NodeKinds

LEMMA NearBelow ==
  ASSUME NEW j \in Nodes, NEW c \in Near(j)
  PROVE  c \in Nodes /\ c >= j /\ c \in Nat /\ j \in Nat
BY NodeFacts, ParentOfChild DEF Near

LEMMA SetNodeIs ==
  ASSUME NEW t \in Trees, NEW i \in Nodes, NEW value, NEW bit \in BOOLEAN,
         i \in Words => value \in Nat /\ value <= Whole[i]
  PROVE  LET u == SetNode(t, i, value, bit)
         IN /\ u \in Trees
            /\ \A j \in Nodes : j # i => Same(t, u, j)
            /\ i \in Words => u.bbt[i] = value
            /\ i \in Bits => (i \in u.bitmap <=> bit)
<1> DEFINE u == SetNode(t, i, value, bit)
<1>1. CASE i \in Words
  <2>1. ~in_bitmap(i)
    BY <1>1 DEF Words
  <2>2. u = [t EXCEPT !.bbt[i] = value]
    BY <2>1 DEF SetNode
  <2>3. Whole[i] \in Nat /\ Whole[i] <= MAX_LOG /\ MAX_LOG \in Nat
    BY NodeKinds DEF MAX_LOG
  <2>4. value \in 0..MAX_LOG
    BY <1>1, <2>3
  <2>5. u.bbt = [t.bbt EXCEPT ![i] = value] /\ u.bitmap = t.bitmap
        /\ u = [bbt |-> u.bbt, bitmap |-> u.bitmap]
    BY <2>2, TreeFacts
  <2>6. u.bbt \in [Words -> 0..MAX_LOG] /\ u.bitmap \in SUBSET Bits
    BY <2>4, <2>5, TreeFacts
  <2>7. \A j \in Words : u.bbt[j] = IF j = i THEN value ELSE t.bbt[j]
    BY <2>5, TreeFacts
  <2>8. \A j \in Words : u.bbt[j] <= Whole[j]
    BY <1>1, <2>7, TreeFacts
  <2> HIDE DEF u
  <2>9. u \in Trees
    BY <2>5, <2>6, <2>8 DEF Trees
  <2>10. i \notin Bits
    BY <1>1, NodeKinds
  <2> QED
    BY <1>1, <2>5, <2>7, <2>9, <2>10 DEF Same, u
<1>2. CASE i \in Bits
  <2>1. in_bitmap(i) /\ i \notin Words
    BY <1>2, NodeKinds DEF Bits
  <2>2. u = [t EXCEPT !.bitmap = IF bit THEN @ \cup {i} ELSE @ \ {i}]
    BY <2>1 DEF SetNode
  <2>3. u.bbt = t.bbt /\ u.bitmap = (IF bit THEN t.bitmap \cup {i} ELSE t.bitmap \ {i})
        /\ u = [bbt |-> u.bbt, bitmap |-> u.bitmap]
    BY <2>2, TreeFacts
  <2> HIDE DEF u
  <2>4. u.bbt \in [Words -> 0..MAX_LOG] /\ u.bitmap \in SUBSET Bits
    BY <1>2, <2>3, TreeFacts
  <2>5. \A j \in Words : u.bbt[j] <= Whole[j]
    BY <2>3, TreeFacts
  <2>6. u \in Trees
    BY <2>3, <2>4, <2>5 DEF Trees
  <2> QED
    BY <2>1, <2>3, <2>6 DEF Same, u
<1> QED
  BY <1>1, <1>2, NodeKinds

-----------------------------------------------------------------------------
(* The way back. *)

Up(freeing, t, p) == IF freeing THEN FreeUp(t, p) ELSE AllocUp(t, p)

(* A node holds what the way back makes of its halves. *)
Settled(freeing, u, p) ==
    /\ p \in Words => u.bbt[p] = IF freeing /\ Merges(u, p) THEN Whole[p]
                                 ELSE Larger(u, p)
    /\ p \in Bits => (p \in u.bitmap <=>
         freeing \/ {LEFT_LEAF(p), RIGHT_LEAF(p)} \cap u.bitmap # {})

LEMMA LargerIs ==
  ASSUME NEW t \in Trees, NEW p \in Nodes, Whole[p] # 3
  PROVE  /\ Larger(t, p) \in Nat /\ Larger(t, p) < Whole[p]
         /\ Larger(t, p) >= get_size(t, LEFT_LEAF(p))
         /\ Larger(t, p) >= get_size(t, RIGHT_LEAF(p))
         /\ Larger(t, p) = get_size(t, LEFT_LEAF(p)) \/ Larger(t, p) = get_size(t, RIGHT_LEAF(p))
<1> DEFINE l == LEFT_LEAF(p)
           r == RIGHT_LEAF(p)
<1>1. l \in Nodes /\ Whole[l] = Whole[p] - 1
  BY ChildFacts
<1>2. r \in Nodes /\ Whole[r] = Whole[p] - 1
  BY ChildFacts
<1> HIDE DEF l, r
<1>3. get_size(t, l) \in Nat /\ get_size(t, l) <= Whole[l]
      /\ get_size(t, r) \in Nat /\ get_size(t, r) <= Whole[r]
  BY <1>1, <1>2, GetSizeIs
<1>4. Whole[p] \in Nat
  BY NodeKinds
<1>5. Larger(t, p) = IF get_size(t, l) > get_size(t, r) THEN get_size(t, l) ELSE get_size(t, r)
  BY DEF Larger, l, r
<1>6. /\ Larger(t, p) \in Nat /\ Larger(t, p) < Whole[p]
      /\ Larger(t, p) >= get_size(t, l)
      /\ Larger(t, p) >= get_size(t, r)
      /\ Larger(t, p) = get_size(t, l) \/ Larger(t, p) = get_size(t, r)
  BY <1>1, <1>2, <1>3, <1>4, <1>5
<1> QED
  BY <1>6 DEF l, r

(* What is settled stays so while nothing changes from the node on. *)
LEMMA SettledLocal ==
  ASSUME NEW t \in Trees, NEW u \in Trees, NEW p \in Nodes, Whole[p] # 3,
         \A j \in Nodes : j > p => Same(t, u, j)
  PROVE  /\ Larger(t, p) = Larger(u, p) /\ (Merges(t, p) <=> Merges(u, p))
         /\ {LEFT_LEAF(p), RIGHT_LEAF(p)} \cap t.bitmap =
            {LEFT_LEAF(p), RIGHT_LEAF(p)} \cap u.bitmap
<1>1. ASSUME NEW c \in {LEFT_LEAF(p), RIGHT_LEAF(p)}
      PROVE  get_size(t, c) = get_size(u, c) /\ (c \in t.bitmap <=> c \in u.bitmap)
  <2>1. c \in Nodes /\ c > p /\ c \in Nat /\ p \in Nat
    BY ChildFacts, ParentOfChild, NodeFacts
  <2>2. \A j \in Near(c) : j \in Nodes /\ j > p
    BY <2>1, NearBelow
  <2>3. \A j \in Near(c) : Same(t, u, j)
    BY <2>2
  <2>4. get_size(t, c) = get_size(u, c)
    BY <2>1, <2>3, GetSizeLocal
  <2>5. Same(t, u, c)
    BY <2>1
  <2> QED
    BY <2>4, <2>5 DEF Same
<1>2. /\ get_size(t, LEFT_LEAF(p)) = get_size(u, LEFT_LEAF(p))
      /\ get_size(t, RIGHT_LEAF(p)) = get_size(u, RIGHT_LEAF(p))
  BY <1>1
<1>3. {LEFT_LEAF(p), RIGHT_LEAF(p)} \cap t.bitmap = {LEFT_LEAF(p), RIGHT_LEAF(p)} \cap u.bitmap
  BY <1>1
<1> QED
  BY <1>2, <1>3 DEF Larger, Merges

LEMMA UpSettles ==
  ASSUME NEW freeing \in BOOLEAN, NEW t \in Trees, NEW p \in Nodes, Whole[p] # 3
  PROVE  /\ Up(freeing, t, p) \in Trees
         /\ Settled(freeing, Up(freeing, t, p), p)
         /\ \A j \in Nodes : j # p => Same(t, Up(freeing, t, p), j)
<1> DEFINE value == IF freeing /\ Merges(t, p) THEN Whole[p] ELSE Larger(t, p)
           bit == freeing \/ {LEFT_LEAF(p), RIGHT_LEAF(p)} \cap t.bitmap # {}
           u == SetNode(t, p, value, bit)
<1>1. Up(freeing, t, p) = u
  <2>1. CASE freeing
    BY <2>1 DEF Up, FreeUp
  <2>2. CASE ~freeing
    BY <2>2 DEF Up, AllocUp
  <2> QED
    BY <2>1, <2>2
<1>2. value \in Nat /\ value <= Whole[p]
  BY LargerIs, NodeKinds
<1>3. bit \in BOOLEAN
  OBVIOUS
<1>4. /\ u \in Trees
      /\ \A j \in Nodes : j # p => Same(t, u, j)
      /\ p \in Words => u.bbt[p] = value
      /\ p \in Bits => (p \in u.bitmap <=> bit)
  <2> HIDE DEF value, bit
  <2> QED
    BY <1>2, <1>3, SetNodeIs
<1> HIDE DEF u
<1>5. \A j \in Nodes : j > p => Same(t, u, j)
  BY <1>4, NodeFacts
<1>6. /\ Larger(t, p) = Larger(u, p) /\ (Merges(t, p) <=> Merges(u, p))
      /\ {LEFT_LEAF(p), RIGHT_LEAF(p)} \cap t.bitmap =
            {LEFT_LEAF(p), RIGHT_LEAF(p)} \cap u.bitmap
  BY <1>4, <1>5, SettledLocal
<1>7. Settled(freeing, u, p)
  BY <1>4, <1>6 DEF Settled
<1> QED
  BY <1>1, <1>4, <1>7

LEMMA SettledStays ==
  ASSUME NEW freeing \in BOOLEAN, NEW t \in Trees, NEW u \in Trees,
         NEW q \in Nodes, Whole[q] # 3, Settled(freeing, t, q),
         \A j \in Nodes : j >= q => Same(t, u, j)
  PROVE  Settled(freeing, u, q)
<1>1. \A j \in Nodes : j > q => Same(t, u, j)
  BY NodeFacts
<1>2. /\ Larger(t, q) = Larger(u, q) /\ (Merges(t, q) <=> Merges(u, q))
      /\ {LEFT_LEAF(q), RIGHT_LEAF(q)} \cap t.bitmap =
            {LEFT_LEAF(q), RIGHT_LEAF(q)} \cap u.bitmap
  BY <1>1, SettledLocal
<1>3. Same(t, u, q)
  BY NodeFacts
<1> QED
  BY <1>2, <1>3 DEF Settled, Same

(* The nodes of a path are its starting point and what comes before it. *)
LEMMA PathOrder ==
  ASSUME NEW i \in Nodes, NEW a \in Path[i], a # 0, NEW q \in Path[i], q < a
  PROVE  q <= PARENT(a)
<1>1. a \in Nodes /\ q \in Nodes /\ Span(i) \subseteq Span(a) /\ Span(i) \subseteq Span(q)
  BY PathUp
<1>2. First(i) \in Span(i)
  BY SpanIs
<1>3. a \in Path[q] \/ q \in Path[a]
  BY <1>1, <1>2, SharedByte
<1>4. a \in Nat /\ q \in Nat
  BY <1>1, NodeFacts
<1>5. a \notin Path[q]
  BY <1>1, <1>4, PathUp
<1>6. q \in Path[PARENT(a)] /\ PARENT(a) \in Nodes
  BY <1>1, <1>3, <1>4, <1>5, PathStart, ParentOf
<1> QED
  BY <1>6, PathUp

(* How far the way back has come, and what it has done. *)
Stage(freeing, t, index, n, s) ==
    /\ s.tree \in Trees /\ s.at \in Path[index]
    /\ s.at = 0 \/ Whole[s.at] = Whole[index] + n
    /\ \A j \in Nodes : j \notin Path[index] \ {index} => Same(t, s.tree, j)
    /\ \A q \in Path[index] \ {index} : q >= s.at => Settled(freeing, s.tree, q)

Climb(freeing, s) ==
    IF s.at = 0 THEN s
    ELSE [tree |-> Up(freeing, s.tree, PARENT(s.at)), at |-> PARENT(s.at)]

LEMMA ClimbAdvances ==
  ASSUME NEW freeing \in BOOLEAN, NEW t \in Trees, NEW index \in Nodes,
         NEW n \in Nat, NEW s, Stage(freeing, t, index, n, s)
  PROVE  Stage(freeing, t, index, n + 1, Climb(freeing, s))
<1>1. CASE s.at = 0
  BY <1>1 DEF Stage, Climb
<1>2. CASE s.at # 0
  <2> DEFINE a == s.at
             p == PARENT(a)
             v == s.tree
             u == Up(freeing, v, p)
             s2 == Climb(freeing, s)
  <2>1. s2.tree = u /\ s2.at = p
    BY <1>2 DEF Climb
  <2>2. v \in Trees /\ a \in Path[index] /\ a \in Nodes /\ a \in Nat /\ a <= index /\ index \in Nat
    BY PathUp, NodeFacts DEF Stage
  <2>3. p \in Nodes /\ p < a /\ p \in Nat /\ Path[a] = {a} \cup Path[p] /\ p \in Path[p]
    BY <1>2, <2>2, PathStart, ParentOf
  <2>4. p \in Path[index] /\ p # index
    BY <2>2, <2>3, PathUp
  <2>5. Whole[p] # 3 /\ Whole[p] = Whole[a] + 1
    BY <1>2, <2>2, SpanOfParent, NodeFacts
  <2> HIDE DEF p, a, v, s2
  <2>6. u \in Trees /\ Settled(freeing, u, p) /\ \A j \in Nodes : j # p => Same(v, u, j)
    BY <2>2, <2>3, <2>5, UpSettles
  <2> HIDE DEF u
  <2>7. \A j \in Nodes : j \notin Path[index] \ {index} => Same(t, v, j)
    BY DEF Stage, v
  <2>8. \A j \in Nodes : j \notin Path[index] \ {index} => Same(t, u, j)
    BY <2>4, <2>6, <2>7 DEF Same
  <2>9. ASSUME NEW q \in Path[index] \ {index}, q >= p PROVE Settled(freeing, u, q)
    <3>1. CASE q = p
      BY <2>6, <3>1
    <3>2. CASE q # p
      <4>1. q \in Nodes /\ q \in Nat /\ Whole[q] # 3
        BY PathUp, NodeFacts, PathThroughHalf
      <4>2. q >= a
        <5> SUFFICES ASSUME q < a PROVE FALSE
          BY <2>2, <4>1
        <5>1. q <= p
          BY <1>2, <2>2, PathOrder DEF p, a
        <5> QED
          BY <2>3, <2>9, <3>2, <4>1, <5>1
      <4>3. Settled(freeing, v, q)
        BY <4>2 DEF Stage, a, v
      <4>4. \A j \in Nodes : j >= q => Same(v, u, j)
        <5> SUFFICES ASSUME NEW j \in Nodes, j >= q PROVE j # p
          BY <2>6
        <5> QED
          BY <2>2, <2>3, <4>1, <4>2
      <4> QED
        BY <2>2, <2>6, <4>1, <4>3, <4>4, SettledStays
    <3> QED
      BY <3>1, <3>2
  <2>10. Whole[p] = Whole[index] + (n + 1)
    <3>1. Whole[a] = Whole[index] + n /\ Whole[index] \in Nat
      BY <1>2, NodeKinds DEF Stage, a
    <3> QED
      BY <2>5, <3>1
  <2> QED
    BY <2>1, <2>4, <2>6, <2>8, <2>9, <2>10 DEF Stage, s2
<1> QED
  BY <1>1, <1>2

(* The way back leaves what is off the path, and settles what is on it. *)
LEMMA WayBackIs ==
  ASSUME NEW freeing \in BOOLEAN, NEW t \in Trees, NEW index \in Nodes
  PROVE  LET u == WayBack(freeing, t, index)
         IN /\ u \in Trees
            /\ \A j \in Nodes : j \notin Path[index] \ {index} => Same(t, u, j)
            /\ \A q \in Path[index] \ {index} : Settled(freeing, u, q)
<1> DEFINE D == 0..MAX_LOG
           S == [tree : Trees, at : Nodes]
           start == [tree |-> t, at |-> index]
           Is(f) == f = [n \in 0..MAX_LOG |->
               IF n = 0 THEN [tree |-> t, at |-> index]
               ELSE IF f[n - 1].at = 0 THEN f[n - 1]
                    ELSE [tree |-> IF freeing THEN FreeUp(f[n - 1].tree, PARENT(f[n - 1].at))
                                   ELSE AllocUp(f[n - 1].tree, PARENT(f[n - 1].at)),
                          at |-> PARENT(f[n - 1].at)]]
           turn == CHOOSE f : Is(f)
           b == [n \in D |-> start]
           d == [n \in D |-> IF n = 0 THEN 0 ELSE n - 1]
           h == [x \in D \X S |-> Climb(freeing, x[2])]
           rank == [n \in D |-> n]
<1>0. MAX_LOG = 29 /\ K \in 7..29
  BY SizeIs DEF MAX_LOG
<1>1. WayBack(freeing, t, index) = turn[K].tree
  BY Zenon DEF WayBack, K
<1>2. b \in [D -> S] /\ d \in [D -> D] /\ rank \in [D -> Nat]
  BY <1>0
<1>3. \A x \in D \ {0} : rank[d[x]] < rank[x]
  BY <1>0
<1>4. h \in [D \X S -> S]
  <2>1. ASSUME NEW s \in S PROVE Climb(freeing, s) \in S
    <3>1. CASE s.at = 0
      BY <3>1 DEF Climb
    <3>2. CASE s.at # 0
      <4>1. s.at \in Nodes /\ s.tree \in Trees
        OBVIOUS
      <4>2. PARENT(s.at) \in Nodes /\ Whole[PARENT(s.at)] # 3
        BY <3>2, <4>1, SpanOfParent
      <4>3. Up(freeing, s.tree, PARENT(s.at)) \in Trees
        BY <4>1, <4>2, UpSettles
      <4> QED
        BY <3>2, <4>2, <4>3 DEF Climb
    <3> QED
      BY <3>1, <3>2
  <2> HIDE DEF S
  <2> QED
    BY <2>1
<1>5. PICK f \in [D -> S] : Recursive(f, D, {0}, b, d, h)
  <2> HIDE DEF D, S, b, d, h, rank
  <2> QED
    BY <1>2, <1>3, <1>4, RecursionExists
<1>6. ASSUME NEW g PROVE Is(g) <=> g = [n \in D |-> IF n = 0 THEN start ELSE Climb(freeing, g[n - 1])]
  BY DEF Climb, Up
<1>7. Is(f)
  <2>1. ASSUME NEW n \in D PROVE f[n] = IF n = 0 THEN start ELSE Climb(freeing, f[n - 1])
    <3>1. CASE n = 0
      BY <1>5, <3>1 DEF Recursive
    <3>2. CASE n # 0
      <4>1. d[n] = n - 1 /\ n - 1 \in D
        BY <1>0, <3>2
      <4>2. f[n] = h[<<n, f[n - 1]>>]
        BY <1>5, <3>2, <4>1 DEF Recursive
      <4>3. f[n - 1] \in S
        BY <1>5, <4>1
      <4> HIDE DEF S, D
      <4> QED
        BY <3>2, <4>2, <4>3
    <3> QED
      BY <3>1, <3>2
  <2> HIDE DEF D, S, start
  <2>2. f = [n \in D |-> IF n = 0 THEN start ELSE Climb(freeing, f[n - 1])]
    BY <1>5, <2>1
  <2> HIDE DEF Is
  <2> QED
    BY <1>6, <2>2
<1>8. Is(turn)
  <2> HIDE DEF Is
  <2> QED
    BY <1>7, Zenon
<1>9. \A n \in D : turn[n] = IF n = 0 THEN start ELSE Climb(freeing, turn[n - 1])
  <2>1. turn = [n \in D |-> IF n = 0 THEN start ELSE Climb(freeing, turn[n - 1])]
    <3> HIDE DEF turn, Is
    <3> QED
      BY <1>6, <1>8
  <2> HIDE DEF turn, start, D
  <2> QED
    BY <2>1
<1> HIDE DEF turn, Is
<1> DEFINE Q == {n \in Nat : n \in D => Stage(freeing, t, index, n, turn[n])}
<1>10. ASSUME NEW n \in Nat, \A m \in Nat : m < n => m \in Q PROVE n \in Q
  <2> SUFFICES ASSUME n \in D PROVE Stage(freeing, t, index, n, turn[n])
    OBVIOUS
  <2>1. CASE n = 0
    <3>1. turn[n] = start /\ start.tree = t /\ start.at = index
      BY <1>9, <2>1
    <3>2. index \in Path[index] /\ Whole[index] = Whole[index] + 0
      BY PathStart, NodeKinds
    <3>3. \A q \in Path[index] \ {index} : ~(q >= index)
      BY PathUp, NodeFacts
    <3> HIDE DEF start
    <3> QED
      BY <2>1, <3>1, <3>2, <3>3 DEF Stage, Same
  <2>2. CASE n # 0
    <3>1. n - 1 \in Nat /\ n - 1 < n /\ n - 1 \in D /\ (n - 1) + 1 = n
      BY <1>0, <2>2
    <3>2. Stage(freeing, t, index, n - 1, turn[n - 1])
      BY <1>10, <3>1
    <3>3. turn[n] = Climb(freeing, turn[n - 1])
      BY <1>9, <2>2
    <3>4. Stage(freeing, t, index, (n - 1) + 1, Climb(freeing, turn[n - 1]))
      BY <3>1, <3>2, ClimbAdvances
    <3> QED
      BY <3>1, <3>3, <3>4
  <2> QED
    BY <2>1, <2>2
<1>11. \A n \in Nat : n \in Q
  <2> HIDE DEF Q
  <2> QED
    BY <1>10, StrongInduction
<1>12. Stage(freeing, t, index, K, turn[K])
  BY <1>0, <1>11
<1>13. turn[K].at = 0
  <2> SUFFICES ASSUME turn[K].at # 0 PROVE FALSE
    OBVIOUS
  <2>1. turn[K].at \in Nodes /\ Whole[turn[K].at] = Whole[index] + K
    BY <1>12, PathUp DEF Stage
  <2>2. Whole[turn[K].at] \in 3..K /\ Whole[index] \in 3..K
    BY <2>1, NodeFacts
  <2> QED
    BY <1>0, <2>1, <2>2
<1>14. \A q \in Path[index] : q >= 0
  BY PathUp, NodeFacts
<1> QED
  BY <1>1, <1>12, <1>13, <1>14 DEF Stage

-----------------------------------------------------------------------------
(* The invariant of a tree t with the blocks B in use. *)

(* No block in use is cut from the node or from one above it. *)
Clear(B, i) == \A n \in Path[i] : Block(n) \notin B

(* No byte of the node is in use. *)
Free(B, i) == \A b \in B : Bytes(b) \cap Span(i) = {}

(* Every byte of the node is in use, in blocks within the node. *)
Filled(B, i) == \A x \in Span(i) : \E b \in B : x \in Bytes(b) /\ Bytes(b) \subseteq Span(i)

(* Blocks are cut from nodes, which hold zero. *)
Cut(t, B) == \A b \in B : \E n \in Nodes : b = Block(n) /\ get_size(t, n) = 0
Apart(B) == \A b, c \in B : b # c => Bytes(b) \cap Bytes(c) = {}
ZeroFilled(t, B) == \A i \in Nodes : get_size(t, i) = 0 => Filled(B, i)

(* A node promises no more than one of its halves, unless it is whole. *)
Kept(t) == \A i \in Words : t.bbt[i] = Whole[i] \/ t.bbt[i] <= Larger(t, i)
WholeFree(t, B) == \A i \in Words : t.bbt[i] = Whole[i] /\ Clear(B, i) => Free(B, i)

TreeInv(t, B) ==
    /\ t \in Trees
    /\ Cut(t, B) /\ Apart(B) /\ ZeroFilled(t, B)
    /\ Kept(t) /\ WholeFree(t, B)

LEMMA SameBlock ==
  ASSUME NEW n \in Nodes, NEW m \in Nodes, Block(n) = Block(m)
  PROVE  n = m
BY SpanIs, SameSpan

(* A block in use is its node's bytes, and its node holds zero. *)
LEMMA BlockNode ==
  ASSUME NEW t, NEW B, Cut(t, B), NEW n \in Nodes, Block(n) \in B
  PROVE  get_size(t, n) = 0
<1>1. PICK m \in Nodes : Block(n) = Block(m) /\ get_size(t, m) = 0
  BY DEF Cut
<1> QED
  BY <1>1, SameBlock

LEMMA FreeFacts ==
  ASSUME NEW B, NEW i \in Nodes, Free(B, i)
  PROVE  /\ Clear(B, i)
         /\ \A c \in Nodes : Span(c) \subseteq Span(i) => Free(B, c)
<1>1. ASSUME NEW n \in Path[i], Block(n) \in B PROVE FALSE
  <2>1. n \in Nodes /\ Span(i) \subseteq Span(n) /\ Bytes(Block(n)) = Span(n)
    BY PathUp, SpanIs
  <2>2. First(i) \in Span(i)
    BY SpanIs
  <2> QED
    BY <1>1, <2>1, <2>2 DEF Free
<1> QED
  BY <1>1 DEF Clear, Free

-----------------------------------------------------------------------------
(* The descent. *)

(* A node under which the descent will find a free block of the size. *)
Good(t, B, i, size) ==
    Free(B, i) \/ (Clear(B, i) /\ pow2[get_size(t, i)] >= size)

LEMMA GoodHalf ==
  ASSUME NEW t, NEW B, TreeInv(t, B), NEW k \in 3..K,
         NEW i \in Nodes, Whole[i] > k, Good(t, B, i, pow2[k])
  PROVE  Good(t, B, IF GoesLeft(t, i, pow2[k]) THEN LEFT_LEAF(i) ELSE RIGHT_LEAF(i), pow2[k])
<1> DEFINE l == LEFT_LEAF(i)
           r == RIGHT_LEAF(i)
           size == pow2[k]
           c == IF GoesLeft(t, i, size) THEN l ELSE r
<1>0. MAX_LOG = 29 /\ K \in 7..29
  BY SizeIs DEF MAX_LOG
<1>1. k \in 0..MAX_LOG /\ k \in Nat /\ 0 \in 0..MAX_LOG /\ 0 < k
  BY <1>0
<1>2. size \in Nat /\ 2 * pow2[0] <= size /\ pow2[0] = 1
  BY <1>1, Pow2Grows, Pow2Step
<1>3. Whole[i] # 3 /\ Whole[i] \in Nat
  BY <1>1, NodeKinds
<1>4. t \in Trees /\ Cut(t, B)
  BY DEF TreeInv
<1>5. l \in Nodes /\ l # 0 /\ PARENT(l) = i /\ Whole[l] = Whole[i] - 1
  BY <1>3, ChildFacts
<1>6. r \in Nodes /\ r # 0 /\ PARENT(r) = i /\ Whole[r] = Whole[i] - 1
  BY <1>3, ChildFacts
<1>7. c \in {l, r} /\ c \in Nodes /\ c # 0 /\ PARENT(c) = i
  BY <1>5, <1>6
<1>8. Span(c) \subseteq Span(i)
  BY <1>3, <1>7, Halves
<1>9. CASE Free(B, i)
  <2>1. Free(B, c)
    BY <1>7, <1>8, <1>9, FreeFacts
  <2> QED
    BY <2>1 DEF Good
<1>10. CASE ~Free(B, i)
  <2>1. Clear(B, i) /\ pow2[get_size(t, i)] >= size
    BY <1>10 DEF Good
  <2>2. get_size(t, i) # 0
    BY <1>2, <2>1
  <2> HIDE DEF l, r, size, c
  <2>3. get_size(t, l) \in 0..MAX_LOG /\ get_size(t, r) \in 0..MAX_LOG
        /\ get_size(t, i) \in 0..MAX_LOG
    BY <1>4, <1>5, <1>6, GetSizeIs
  <2>4. pow2[get_size(t, l)] \in Nat /\ pow2[get_size(t, r)] \in Nat
        /\ pow2[get_size(t, i)] \in Nat
    BY <2>3, Pow2Grows
  <2>5. pow2[get_size(t, l)] >= size \/ pow2[get_size(t, r)] >= size
    <3>1. CASE i \in Words
      <4>1. get_size(t, i) = t.bbt[i]
        BY <1>4, <3>1, GetSizeIs
      <4>2. t.bbt[i] # Whole[i]
        BY <1>10, <2>1, <3>1 DEF TreeInv, WholeFree
      <4>3. get_size(t, i) <= Larger(t, i)
        BY <3>1, <4>1, <4>2 DEF TreeInv, Kept
      <4>4. Larger(t, i) = get_size(t, l) \/ Larger(t, i) = get_size(t, r)
        BY <1>3, <1>4, LargerIs DEF l, r
      <4>5. pow2[get_size(t, i)] <= pow2[Larger(t, i)]
        BY <2>3, <4>3, <4>4, Pow2Order
      <4> QED
        BY <1>2, <2>1, <2>4, <4>4, <4>5
    <3>2. CASE i \notin Words
      <4>1. Whole[i] = 4 /\ k = 3
        BY <1>1, <1>3, <3>2, NodeKinds
      <4>2. l \in t.bitmap \/ r \in t.bitmap
        BY <1>4, <2>2, <4>1, GetSizeIs DEF l, r
      <4>3. get_size(t, l) = 3 \/ get_size(t, r) = 3
        BY <1>4, <1>5, <1>6, <4>1, <4>2, GetSizeIs
      <4> QED
        BY <1>2, <4>1, <4>3 DEF size
    <3> QED
      BY <3>1, <3>2
  <2>6. pow2[get_size(t, c)] >= size
    BY <1>2, <2>4, <2>5 DEF c, GoesLeft, l
  <2>7. get_size(t, c) # 0
    BY <1>2, <2>6
  <2>8. Block(c) \notin B
    BY <1>4, <1>7, <2>7, BlockNode
  <2>9. Path[c] = {c} \cup Path[i]
    BY <1>7, PathStart
  <2>10. Clear(B, c)
    BY <2>1, <2>8, <2>9 DEF Clear
  <2>11. Good(t, B, c, size)
    BY <2>6, <2>10 DEF Good
  <2> QED
    BY <2>11 DEF c, size, l, r
<1> QED
  BY <1>9, <1>10

LEMMA GoodAtSize ==
  ASSUME NEW t, NEW B, TreeInv(t, B), NEW i \in Nodes,
         Good(t, B, i, pow2[Whole[i]])
  PROVE  Free(B, i)
<1> SUFFICES ASSUME ~Free(B, i) PROVE FALSE
  OBVIOUS
<1>1. Clear(B, i) /\ pow2[get_size(t, i)] >= pow2[Whole[i]]
  BY DEF Good
<1>2. t \in Trees /\ Cut(t, B)
  BY DEF TreeInv
<1>3. /\ get_size(t, i) \in 0..MAX_LOG /\ get_size(t, i) <= Whole[i]
      /\ get_size(t, i) \in Nat /\ Whole[i] \in Nat /\ Whole[i] \in 0..MAX_LOG
  BY <1>2, GetSizeIs, NodeFacts, NodeKinds
<1>4. pow2[Whole[i]] <= pow2[get_size(t, i)]
  BY <1>1, <1>3, Pow2Grows
<1>5. get_size(t, i) = Whole[i]
  BY <1>3, <1>4, Pow2Order
<1>6. CASE i \in Words
  BY <1>1, <1>2, <1>5, <1>6, GetSizeIs DEF TreeInv, WholeFree
<1>7. CASE i \notin Words
  <2>1. Whole[i] = 3 \/ Whole[i] = 4
    BY <1>7, NodeKinds
  <2>2. PICK b \in B : Bytes(b) \cap Span(i) # {}
    BY DEF Free
  <2>3. PICK n \in Nodes : b = Block(n) /\ get_size(t, n) = 0
    BY <1>2 DEF Cut
  <2>4. Span(i) \cap Span(n) # {}
    BY <2>2, <2>3, SpanIs
  <2>5. n \notin Path[i]
    BY <1>1, <2>3 DEF Clear
  <2>6. i \in Path[n] /\ i # n
    BY <2>4, <2>5, SharedByte, PathStart
  <2>7. Whole[n] < Whole[i] /\ Whole[n] \in Nat /\ Whole[n] >= 3
    BY <2>6, PathUp, NodeKinds
  <2>8. Whole[i] = 4 /\ Whole[n] = 3
    BY <2>1, <2>7
  <2>9. PICK c \in {LEFT_LEAF(i), RIGHT_LEAF(i)} : c \in Path[n]
    BY <2>6, PathThroughHalf
  <2>10. c \in Nodes /\ Whole[c] = 3
    BY <2>8, <2>9, ChildFacts
  <2>11. c = n
    BY <2>8, <2>9, <2>10, PathUp
  <2>12. c \in t.bitmap
    BY <1>2, <1>5, <2>8, <2>9, GetSizeIs
  <2>13. get_size(t, c) = 3
    BY <1>2, <2>10, <2>12, GetSizeIs
  <2> QED
    BY <2>3, <2>11, <2>13
<1> QED
  BY <1>6, <1>7

(* The descent ends at a free node of the wanted size. *)
LEMMA FoundIsFree ==
  ASSUME NEW t, NEW B, TreeInv(t, B), NEW k \in 3..K, t.bbt[0] \in 0..MAX_LOG,
         pow2[t.bbt[0]] >= pow2[k]
  PROVE  /\ Found(t, pow2[k]) \in Nodes /\ Whole[Found(t, pow2[k])] = k
         /\ Free(B, Found(t, pow2[k]))
<1> DEFINE D == 0..MAX_LOG
           size == pow2[k]
           Half(i) == IF GoesLeft(t, i, size) THEN LEFT_LEAF(i) ELSE RIGHT_LEAF(i)
           Is(f) == f = [n \in 0..MAX_LOG |-> IF n = 0 THEN 0 ELSE
                IF GoesLeft(t, f[n - 1], size) THEN LEFT_LEAF(f[n - 1]) ELSE RIGHT_LEAF(f[n - 1])]
           at == CHOOSE f : Is(f)
           b == [n \in D |-> 0]
           d == [n \in D |-> IF n = 0 THEN 0 ELSE n - 1]
           h == [x \in D \X Nat |-> Half(x[2])]
           rank == [n \in D |-> n]
<1>0. MAX_LOG = 29 /\ K \in 7..29
  BY SizeIs DEF MAX_LOG
<1>1. log2(Size) = K /\ log2(size) = k
  BY <1>0, Log2Is DEF K
<1>2. Found(t, size) = at[log2(Size) - log2(size)]
  BY Zenon DEF Found
<1>3. Found(t, size) = at[K - k] /\ K - k \in D /\ k \in Nat
  <2> HIDE DEF at, size
  <2> QED
    BY <1>0, <1>1, <1>2
<1>4. b \in [D -> Nat] /\ d \in [D -> D] /\ rank \in [D -> Nat]
  BY <1>0
<1>5. \A x \in D \ {0} : rank[d[x]] < rank[x]
  BY <1>0
<1>6. h \in [D \X Nat -> Nat]
  <2>1. \A i \in Nat : Half(i) \in Nat
    BY ParentOfChild
  <2> HIDE DEF Half
  <2> QED
    BY <2>1
<1>7. PICK f \in [D -> Nat] : Recursive(f, D, {0}, b, d, h)
  <2> HIDE DEF D, b, d, h, rank
  <2> QED
    BY <1>4, <1>5, <1>6, RecursionExists
<1>8. ASSUME NEW g PROVE Is(g) <=> g = [n \in D |-> IF n = 0 THEN 0 ELSE Half(g[n - 1])]
  OBVIOUS
<1>9. Is(f)
  <2>1. ASSUME NEW n \in D PROVE f[n] = IF n = 0 THEN 0 ELSE Half(f[n - 1])
    <3>1. CASE n = 0
      BY <1>7, <3>1 DEF Recursive
    <3>2. CASE n # 0
      <4>1. d[n] = n - 1 /\ n - 1 \in D
        BY <1>0, <3>2
      <4>2. f[n] = h[<<n, f[n - 1]>>]
        BY <1>7, <3>2, <4>1 DEF Recursive
      <4>3. f[n - 1] \in Nat
        BY <1>7, <4>1
      <4> HIDE DEF Half, D
      <4> QED
        BY <3>2, <4>2, <4>3
    <3> QED
      BY <3>1, <3>2
  <2> HIDE DEF D, Half
  <2>2. f = [n \in D |-> IF n = 0 THEN 0 ELSE Half(f[n - 1])]
    BY <1>7, <2>1
  <2> HIDE DEF Is
  <2> QED
    BY <1>8, <2>2
<1>10. Is(at)
  <2> HIDE DEF Is
  <2> QED
    BY <1>9, Zenon
<1>11. \A n \in D : at[n] = IF n = 0 THEN 0 ELSE Half(at[n - 1])
  <2>1. at = [n \in D |-> IF n = 0 THEN 0 ELSE Half(at[n - 1])]
    <3> HIDE DEF at, Is, Half
    <3> QED
      BY <1>8, <1>10
  <2> HIDE DEF at, D, Half
  <2> QED
    BY <2>1
<1> HIDE DEF at, Is
<1> DEFINE Q == {n \in Nat : n <= K - k =>
             at[n] \in Nodes /\ Whole[at[n]] = K - n /\ Good(t, B, at[n], size)}
<1>12. ASSUME NEW n \in Nat, \A m \in Nat : m < n => m \in Q PROVE n \in Q
  <2> SUFFICES ASSUME n <= K - k
               PROVE  at[n] \in Nodes /\ Whole[at[n]] = K - n /\ Good(t, B, at[n], size)
    OBVIOUS
  <2>0. n \in D
    BY <1>0, <1>3
  <2>1. CASE n = 0
    <3>1. at[n] = 0 /\ 0 \in Nodes /\ Whole[0] = K /\ K - n = K /\ 0 \in Words
      BY <1>0, <1>11, <2>0, <2>1, RootFacts, NodeKinds
    <3>2. t \in Trees /\ Cut(t, B)
      BY DEF TreeInv
    <3>3. get_size(t, 0) = t.bbt[0]
      BY <3>1, <3>2, GetSizeIs
    <3>4. pow2[0] = 1 /\ size \in Nat /\ 2 * pow2[0] <= size
      <4>1. k \in 0..MAX_LOG /\ 0 \in 0..MAX_LOG /\ 0 < k
        BY <1>0
      <4> QED
        BY <4>1, Pow2Grows, Pow2Step
    <3>5. get_size(t, 0) # 0
      BY <3>3, <3>4
    <3>6. Block(0) \notin B
      BY <3>1, <3>2, <3>5, BlockNode
    <3>7. Clear(B, 0)
      BY <3>1, <3>6, PathStart DEF Clear
    <3> QED
      BY <3>1, <3>3, <3>7 DEF Good
  <2>2. CASE n # 0
    <3>1. n - 1 \in Nat /\ n - 1 < n /\ n - 1 <= K - k
      BY <1>0, <1>3, <2>2
    <3> DEFINE i == at[n - 1]
    <3>2. i \in Nodes /\ Whole[i] = K - (n - 1) /\ Good(t, B, i, size)
      BY <1>12, <3>1
    <3>3. at[n] = Half(i)
      BY <1>11, <2>0, <2>2
    <3> HIDE DEF i
    <3>4. Whole[i] > k /\ Whole[i] # 3 /\ K - n = Whole[i] - 1
      BY <1>0, <1>3, <3>2
    <3>5. Good(t, B, Half(i), size)
      BY <3>2, <3>4, GoodHalf
    <3>6. Half(i) \in {LEFT_LEAF(i), RIGHT_LEAF(i)}
      OBVIOUS
    <3> HIDE DEF Half
    <3>7. Half(i) \in Nodes /\ Whole[Half(i)] = Whole[i] - 1
      BY <3>2, <3>4, <3>6, ChildFacts
    <3> QED
      BY <3>3, <3>4, <3>5, <3>7
  <2> QED
    BY <2>1, <2>2
<1>13. \A n \in Nat : n \in Q
  <2> HIDE DEF Q
  <2> QED
    BY <1>12, StrongInduction
<1>14. K - k \in Nat /\ K - k <= K - k /\ K - (K - k) = k
  BY <1>0, <1>3
<1>15. at[K - k] \in Nodes /\ Whole[at[K - k]] = k /\ Good(t, B, at[K - k], size)
  BY <1>13, <1>14
<1>16. Free(B, at[K - k])
  BY <1>15, GoodAtSize
<1> QED
  BY <1>3, <1>15, <1>16

-----------------------------------------------------------------------------
(* Setting a node and going back to the root. *)

LEMMA OffPath ==
  ASSUME NEW freeing \in BOOLEAN, NEW t \in Trees, NEW i \in Nodes,
         NEW value, NEW bit \in BOOLEAN, i \in Words => value \in Nat /\ value <= Whole[i],
         NEW u, u = WayBack(freeing, SetNode(t, i, value, bit), i)
  PROVE  /\ u \in Trees
         /\ \A j \in Nodes \ Path[i] :
              /\ get_size(u, j) = get_size(t, j)
              /\ j \in Words => u.bbt[j] = t.bbt[j] /\ Larger(u, j) = Larger(t, j)
         /\ i \in Words => u.bbt[i] = value
         /\ i \in Bits => (i \in u.bitmap <=> bit)
         /\ \A q \in Path[i] \ {i} : Whole[q] # 3 /\ q \in Nodes /\ Settled(freeing, u, q)
<1> DEFINE s == SetNode(t, i, value, bit)
<1>1. /\ s \in Trees
      /\ \A j \in Nodes : j # i => Same(t, s, j)
      /\ i \in Words => s.bbt[i] = value
      /\ i \in Bits => (i \in s.bitmap <=> bit)
  BY SetNodeIs
<1> HIDE DEF s
<1>2. /\ u \in Trees
      /\ \A j \in Nodes : j \notin Path[i] \ {i} => Same(s, u, j)
      /\ \A q \in Path[i] \ {i} : Settled(freeing, u, q)
  BY <1>1, WayBackIs DEF s
<1>3. i \in Path[i]
  BY PathStart
<1>4. \A j \in Nodes \ Path[i] : Same(t, u, j)
  BY <1>1, <1>2, <1>3 DEF Same
<1>5. ASSUME NEW j \in Nodes \ Path[i], NEW c \in Nodes, c \in {LEFT_LEAF(j), RIGHT_LEAF(j)}
      PROVE  c \in Nodes \ Path[i]
  <2>1. c # 0 /\ PARENT(c) = j
    BY <1>5, NodeFacts, ParentOfChild
  <2>2. j \in Path[c]
    BY <2>1, PathStart
  <2> QED
    BY <2>2, PathUp
<1>6. ASSUME NEW j \in Nodes \ Path[i] PROVE get_size(u, j) = get_size(t, j)
  <2>1. \A c \in Near(j) : c \in Nodes \ Path[i]
    BY <1>5 DEF Near
  <2>2. \A c \in Near(j) : Same(u, t, c)
    BY <1>4, <2>1 DEF Same
  <2> QED
    BY <1>2, <2>2, GetSizeLocal
<1>7. ASSUME NEW j \in Nodes \ Path[i], j \in Words
      PROVE  u.bbt[j] = t.bbt[j] /\ Larger(u, j) = Larger(t, j)
  <2>1. Whole[j] # 3
    BY <1>7, NodeKinds
  <2>2. LEFT_LEAF(j) \in Nodes /\ RIGHT_LEAF(j) \in Nodes
    BY <2>1, NodeFacts
  <2>3. LEFT_LEAF(j) \in Nodes \ Path[i] /\ RIGHT_LEAF(j) \in Nodes \ Path[i]
    BY <1>5, <2>2
  <2>4. get_size(u, LEFT_LEAF(j)) = get_size(t, LEFT_LEAF(j))
        /\ get_size(u, RIGHT_LEAF(j)) = get_size(t, RIGHT_LEAF(j))
    BY <1>6, <2>3
  <2> QED
    BY <1>4, <1>7, <2>4 DEF Same, Larger
<1>8. Same(s, u, i)
  BY <1>2
<1>9. \A q \in Path[i] \ {i} : Whole[q] # 3 /\ q \in Nodes
  BY PathThroughHalf, PathUp
<1> QED
  BY <1>1, <1>2, <1>6, <1>7, <1>8, <1>9 DEF Same

(* A settled node holds zero only if both its halves do. *)
LEMMA SettledZero ==
  ASSUME NEW freeing \in BOOLEAN, NEW u \in Trees, NEW q \in Nodes, Whole[q] # 3,
         Settled(freeing, u, q), get_size(u, q) = 0
  PROVE  get_size(u, LEFT_LEAF(q)) = 0 /\ get_size(u, RIGHT_LEAF(q)) = 0
<1>1. LEFT_LEAF(q) \in Nodes /\ Whole[LEFT_LEAF(q)] = Whole[q] - 1
  BY ChildFacts
<1>2. RIGHT_LEAF(q) \in Nodes /\ Whole[RIGHT_LEAF(q)] = Whole[q] - 1
  BY ChildFacts
<1>3. get_size(u, LEFT_LEAF(q)) \in Nat /\ get_size(u, RIGHT_LEAF(q)) \in Nat
  BY <1>1, <1>2, GetSizeIs
<1>4. CASE q \in Words
  <2>1. u.bbt[q] = 0 /\ Whole[q] \in Nat /\ Whole[q] >= 3
    BY <1>4, GetSizeIs, NodeKinds
  <2>2. Larger(u, q) = 0
    BY <1>4, <2>1 DEF Settled
  <2> QED
    BY <1>3, <2>2, LargerIs
<1>5. CASE q \notin Words
  <2>1. Whole[q] = 4 /\ q \in Bits
    BY <1>5, NodeKinds
  <2>2. q \notin u.bitmap \/ (LEFT_LEAF(q) \notin u.bitmap /\ RIGHT_LEAF(q) \notin u.bitmap)
    BY <2>1, GetSizeIs
  <2>3. LEFT_LEAF(q) \notin u.bitmap /\ RIGHT_LEAF(q) \notin u.bitmap
    BY <2>1, <2>2 DEF Settled
  <2>4. Whole[LEFT_LEAF(q)] = 3 /\ Whole[RIGHT_LEAF(q)] = 3
    BY <1>1, <1>2, <2>1
  <2> QED
    BY <1>1, <1>2, <2>3, <2>4, GetSizeIs
<1> QED
  BY <1>4, <1>5

LEMMA FilledHalves ==
  ASSUME NEW B, NEW q \in Nodes, Whole[q] # 3,
         Filled(B, LEFT_LEAF(q)), Filled(B, RIGHT_LEAF(q))
  PROVE  Filled(B, q)
<1>1. Span(q) = Span(LEFT_LEAF(q)) \cup Span(RIGHT_LEAF(q))
  BY Halves
<1> QED
  BY <1>1 DEF Filled

LEMMA FilledUp ==
  ASSUME NEW freeing \in BOOLEAN, NEW u \in Trees, NEW i \in Nodes, NEW B,
         \A j \in Nodes \ Path[i] : get_size(u, j) = 0 => Filled(B, j),
         get_size(u, i) = 0 => Filled(B, i),
         \A q \in Path[i] \ {i} : Whole[q] # 3 /\ q \in Nodes /\ Settled(freeing, u, q)
  PROVE  ZeroFilled(u, B)
<1> DEFINE Q == {n \in Nat : \A j \in Nodes :
                   Whole[j] = n /\ get_size(u, j) = 0 => Filled(B, j)}
<1>1. ASSUME NEW n \in Nat, \A m \in Nat : m < n => m \in Q PROVE n \in Q
  <2> SUFFICES ASSUME NEW j \in Nodes, Whole[j] = n, get_size(u, j) = 0
               PROVE  Filled(B, j)
    OBVIOUS
  <2>1. CASE j \notin Path[i] \ {i}
    BY <2>1
  <2>2. CASE j \in Path[i] \ {i}
    <3>1. Whole[j] # 3 /\ Settled(freeing, u, j)
      BY <2>2
    <3>2. get_size(u, LEFT_LEAF(j)) = 0 /\ get_size(u, RIGHT_LEAF(j)) = 0
      BY <3>1, SettledZero
    <3>3. LEFT_LEAF(j) \in Nodes /\ Whole[LEFT_LEAF(j)] = n - 1
      BY <3>1, ChildFacts
    <3>4. RIGHT_LEAF(j) \in Nodes /\ Whole[RIGHT_LEAF(j)] = n - 1
      BY <3>1, ChildFacts
    <3>5. n - 1 \in Nat /\ n - 1 < n
      BY NodeKinds
    <3>6. Filled(B, LEFT_LEAF(j)) /\ Filled(B, RIGHT_LEAF(j))
      BY <1>1, <3>2, <3>3, <3>4, <3>5
    <3> QED
      BY <3>1, <3>6, FilledHalves
  <2> QED
    BY <2>1, <2>2
<1>2. \A n \in Nat : n \in Q
  <2> HIDE DEF Q
  <2> QED
    BY <1>1, StrongInduction
<1> QED
  BY <1>2, NodeKinds DEF ZeroFilled

(* Kept, from what holds off the path, at its start and on the rest of it. *)
LEMMA KeptUp ==
  ASSUME NEW freeing \in BOOLEAN, NEW t \in Trees, NEW u \in Trees, NEW i \in Nodes, Kept(t),
         \A j \in Nodes \ Path[i] :
            j \in Words => u.bbt[j] = t.bbt[j] /\ Larger(u, j) = Larger(t, j),
         i \in Words => u.bbt[i] = Whole[i] \/ u.bbt[i] = 0,
         \A q \in Path[i] \ {i} : Whole[q] # 3 /\ q \in Nodes /\ Settled(freeing, u, q)
  PROVE  Kept(u)
<1> SUFFICES ASSUME NEW j \in Words PROVE u.bbt[j] = Whole[j] \/ u.bbt[j] <= Larger(u, j)
  BY DEF Kept
<1>1. j \in Nodes /\ Whole[j] # 3
  BY NodeKinds DEF Words
<1>2. CASE j \notin Path[i]
  BY <1>1, <1>2 DEF Kept
<1>3. CASE j = i
  <2>1. Larger(u, j) \in Nat
    BY <1>1, LargerIs
  <2> QED
    BY <1>3, <2>1
<1>4. CASE j \in Path[i] \ {i}
  <2>1. u.bbt[j] = Whole[j] \/ u.bbt[j] = Larger(u, j)
    BY <1>4 DEF Settled
  <2>2. Larger(u, j) \in Nat
    BY <1>1, LargerIs
  <2> QED
    BY <2>1, <2>2
<1> QED
  BY <1>2, <1>3, <1>4

LEMMA AfterAllocInv ==
  ASSUME NEW t, NEW B, TreeInv(t, B), NEW i \in Nodes, Free(B, i)
  PROVE  TreeInv(AfterAlloc(t, i), B \cup {Block(i)})
<1> DEFINE u == AfterAlloc(t, i)
           C == B \cup {Block(i)}
           no == FALSE
<1>1. t \in Trees /\ Cut(t, B) /\ Apart(B) /\ ZeroFilled(t, B) /\ Kept(t) /\ WholeFree(t, B)
  BY DEF TreeInv
<1>2. u = WayBack(no, SetNode(t, i, 0, no), i) /\ no \in BOOLEAN /\ ~no
  BY DEF AfterAlloc
<1>3. i \in Words => 0 \in Nat /\ 0 <= Whole[i]
  BY NodeKinds
<1> HIDE DEF u, no
<1>4. /\ u \in Trees
      /\ \A j \in Nodes \ Path[i] :
           /\ get_size(u, j) = get_size(t, j)
           /\ j \in Words => u.bbt[j] = t.bbt[j] /\ Larger(u, j) = Larger(t, j)
      /\ i \in Words => u.bbt[i] = 0
      /\ i \in Bits => (i \in u.bitmap <=> no)
      /\ \A q \in Path[i] \ {i} : Whole[q] # 3 /\ q \in Nodes /\ Settled(no, u, q)
  BY <1>1, <1>2, <1>3, OffPath
<1>5. get_size(u, i) = 0
  BY <1>2, <1>4, GetSizeIs, NodeKinds
<1>6. Bytes(Block(i)) = Span(i) /\ Clear(B, i) /\ i \in Path[i]
  BY SpanIs, FreeFacts, PathStart
<1>7. Cut(u, C)
  <2> SUFFICES ASSUME NEW b \in C PROVE \E n \in Nodes : b = Block(n) /\ get_size(u, n) = 0
    BY DEF Cut
  <2>1. CASE b = Block(i)
    BY <1>5, <2>1
  <2>2. CASE b \in B
    <3>1. PICK n \in Nodes : b = Block(n) /\ get_size(t, n) = 0
      BY <1>1, <2>2 DEF Cut
    <3>2. n \notin Path[i]
      BY <1>6, <2>2, <3>1 DEF Clear
    <3> QED
      BY <1>4, <3>1, <3>2
  <2> QED
    BY <2>1, <2>2
<1>8. Apart(C)
  BY <1>1, <1>6 DEF Apart, Free
<1>9. ZeroFilled(u, C)
  <2>1. \A j \in Nodes \ Path[i] : get_size(u, j) = 0 => Filled(C, j)
    BY <1>1, <1>4 DEF ZeroFilled, Filled
  <2>2. Filled(C, i)
    BY <1>6 DEF Filled
  <2> HIDE DEF C
  <2> QED
    BY <1>2, <1>4, <2>1, <2>2, FilledUp
<1>10. Kept(u)
  BY <1>1, <1>2, <1>4, KeptUp
<1>11. WholeFree(u, C)
  <2> SUFFICES ASSUME NEW j \in Words, u.bbt[j] = Whole[j], Clear(C, j)
               PROVE  Free(C, j)
    BY DEF WholeFree
  <2>1. j \in Nodes /\ Whole[j] # 3 /\ Whole[j] \in Nat
    BY NodeKinds DEF Words
  <2>2. j \notin Path[i]
    <3>1. j # i
      BY <1>6 DEF Clear
    <3>2. CASE j \in Path[i] \ {i}
      <4>1. u.bbt[j] = Larger(u, j)
        BY <1>2, <1>4, <3>2 DEF Settled
      <4>2. Larger(u, j) < Whole[j] /\ Larger(u, j) \in Nat
        BY <1>4, <2>1, LargerIs
      <4> QED
        BY <2>1, <4>1, <4>2
    <3> QED
      BY <3>1, <3>2
  <2>3. t.bbt[j] = Whole[j] /\ Clear(B, j)
    BY <1>4, <2>1, <2>2 DEF Clear
  <2>4. Free(B, j)
    BY <1>1, <2>3 DEF WholeFree
  <2>5. i \notin Path[j]
    BY DEF Clear
  <2>6. Span(i) \cap Span(j) = {}
    BY <2>1, <2>2, <2>5, SharedByte
  <2> QED
    BY <1>6, <2>4, <2>6 DEF Free
<1> QED
  BY <1>4, <1>7, <1>8, <1>9, <1>10, <1>11 DEF TreeInv, u

(* Below the node of a block in use nothing holds zero. *)
LEMMA NoZeroBelow ==
  ASSUME NEW t, NEW B, TreeInv(t, B), NEW i \in Nodes, Block(i) \in B,
         NEW c \in Nodes, i \in Path[c], c # i
  PROVE  get_size(t, c) # 0
<1> SUFFICES ASSUME get_size(t, c) = 0 PROVE FALSE
  OBVIOUS
<1>1. Filled(B, c)
  BY DEF TreeInv, ZeroFilled
<1>2. First(c) \in Span(c) /\ Bytes(Block(i)) = Span(i) /\ Span(c) \subseteq Span(i)
  BY SpanIs, PathUp
<1>3. PICK b \in B : First(c) \in Bytes(b) /\ Bytes(b) \subseteq Span(c)
  BY <1>1, <1>2 DEF Filled
<1>4. b = Block(i)
  BY <1>2, <1>3 DEF TreeInv, Apart
<1>5. Span(c) = Span(i)
  BY <1>2, <1>3, <1>4
<1> QED
  BY <1>5, SameSpan

LEMMA AfterFreeInv ==
  ASSUME NEW t, NEW B, TreeInv(t, B), NEW i \in Nodes, Block(i) \in B,
         ~Overstates(AfterFree(t, i), B \ {Block(i)})
  PROVE  TreeInv(AfterFree(t, i), B \ {Block(i)})
<1> DEFINE u == AfterFree(t, i)
           C == B \ {Block(i)}
<1>1. t \in Trees /\ Cut(t, B) /\ Apart(B) /\ ZeroFilled(t, B) /\ Kept(t) /\ WholeFree(t, B)
  BY DEF TreeInv
<1>2. PICK yes \in BOOLEAN : yes
  OBVIOUS
<1>3. u = WayBack(yes, SetNode(t, i, Whole[i], yes), i)
  <2>1. yes = TRUE
    BY <1>2
  <2> QED
    BY <1>2, <2>1 DEF AfterFree
<1>4. i \in Words => Whole[i] \in Nat /\ Whole[i] <= Whole[i]
  BY NodeKinds
<1>5. ~Overstates(u, C)
  OBVIOUS
<1> HIDE DEF u
<1>6. /\ u \in Trees
      /\ \A j \in Nodes \ Path[i] :
           /\ get_size(u, j) = get_size(t, j)
           /\ j \in Words => u.bbt[j] = t.bbt[j] /\ Larger(u, j) = Larger(t, j)
      /\ i \in Words => u.bbt[i] = Whole[i]
      /\ i \in Bits => (i \in u.bitmap <=> yes)
      /\ \A q \in Path[i] \ {i} : Whole[q] # 3 /\ q \in Nodes /\ Settled(yes, u, q)
  BY <1>1, <1>3, <1>4, OffPath
<1>7. Bytes(Block(i)) = Span(i) /\ First(i) \in Span(i) /\ i \in Path[i]
  BY SpanIs, PathStart
<1>8. i \in Bits => i \in u.bitmap
  BY <1>2, <1>6, Zenon
<1>9. get_size(u, i) # 0
  <2>1. CASE i \in Words
    BY <1>6, <2>1, GetSizeIs, NodeKinds
  <2>2. CASE Whole[i] = 3
    BY <1>6, <1>8, <2>2, GetSizeIs, NodeKinds
  <2>3. CASE Whole[i] = 4
    <3> DEFINE l == LEFT_LEAF(i)
    <3>1. l \in Nodes /\ l # 0 /\ PARENT(l) = i /\ Whole[l] = 3
      BY <2>3, ChildFacts
    <3> HIDE DEF l
    <3>2. i \in Path[l] /\ l # i
      BY <2>3, <3>1, PathStart
    <3>3. l \notin Path[i]
      BY <3>1, <3>2, PathUp, NodeFacts
    <3>4. get_size(u, l) # 0
      BY <1>6, <3>1, <3>2, <3>3, NoZeroBelow
    <3>5. l \in u.bitmap
      BY <1>6, <3>1, <3>4, GetSizeIs
    <3> QED
      BY <1>6, <1>8, <2>3, <3>5, GetSizeIs, NodeKinds DEF l
  <2> QED
    BY <2>1, <2>2, <2>3, NodeKinds
<1>10. Cut(u, C)
  <2> SUFFICES ASSUME NEW b \in C PROVE \E n \in Nodes : b = Block(n) /\ get_size(u, n) = 0
    BY DEF Cut
  <2>1. PICK n \in Nodes : b = Block(n) /\ get_size(t, n) = 0
    BY <1>1 DEF Cut
  <2>2. Bytes(b) \cap Span(i) = {}
    BY <1>1, <1>7 DEF Apart
  <2>3. n \notin Path[i]
    BY <1>7, <2>1, <2>2, PathUp, SpanIs
  <2> QED
    BY <1>6, <2>1, <2>3
<1>11. Apart(C)
  BY <1>1 DEF Apart
<1>12. ZeroFilled(u, C)
  <2>1. ASSUME NEW j \in Nodes \ Path[i], get_size(u, j) = 0 PROVE Filled(C, j)
    <3>1. Filled(B, j)
      BY <1>1, <1>6, <2>1 DEF ZeroFilled
    <3>2. ~(Span(i) \subseteq Span(j))
      BY Within
    <3> QED
      BY <1>7, <3>1, <3>2 DEF Filled
  <2> HIDE DEF C
  <2> QED
    BY <1>6, <1>9, <2>1, FilledUp
<1>13. Kept(u)
  BY <1>1, <1>6, KeptUp
<1>14. WholeFree(u, C)
  <2> SUFFICES ASSUME NEW j \in Words, u.bbt[j] = Whole[j], Clear(C, j), ~Free(C, j)
               PROVE  FALSE
    BY DEF WholeFree
  <2>1. j \in Nodes /\ ~in_bitmap(j)
    BY DEF Words
  <2>2. Bytes(Block(j)) = Span(j) /\ First(j) \in Span(j)
    BY <2>1, SpanIs
  <2>3. \E b \in C : Bytes(b) \cap Bytes(Block(j)) # {}
    BY <2>2 DEF Free
  <2> HIDE DEF C
  <2>4. PICK b \in C : Bytes(Block(j)) \subseteq Bytes(b)
    BY <1>5, <2>1, <2>3 DEF Overstates
  <2>5. PICK n \in Nodes : b = Block(n)
    BY <1>10 DEF Cut
  <2>6. n \in Path[j]
    BY <2>1, <2>2, <2>4, <2>5, SpanIs, Within
  <2> QED
    BY <2>4, <2>5, <2>6 DEF Clear
<1> QED
  BY <1>6, <1>10, <1>11, <1>12, <1>13, <1>14 DEF TreeInv, u

-----------------------------------------------------------------------------
(* The climb from an address. *)

LEMMA LeafIs ==
  ASSUME NEW n \in Nodes
  PROVE  /\ Leaf(First(n)) \in Nodes /\ Whole[Leaf(First(n))] = 3
         /\ First(n) \in Span(Leaf(First(n)))
<1> DEFINE m == pow2[K - 3]
           x == First(n) + Size
           q == x \div 8
           i == Leaf(First(n))
<1>1. m \in Nat /\ m >= 1 /\ Size = 8 * m /\ pow2[K - 2] = 2 * m
  BY SizeIs
<1>2. First(n) \in Int /\ First(n) >= 0 /\ First(n) + get_size2[n] <= Size
      /\ get_size2[n] \in Nat /\ get_size2[n] >= 1
  BY SpanIs, SpanInHeap
<1> HIDE DEF m
<1>3. x \in Nat /\ x >= 8 * m /\ x < 16 * m
  BY <1>1, <1>2
<1> HIDE DEF x
<1>4. q \in Nat /\ 8 * q <= x /\ x < 8 * q + 8
  BY <1>3
<1> HIDE DEF q
<1>5. q >= m /\ q <= 2 * m - 1
  BY <1>1, <1>3, <1>4
<1>6. i = q - 1
  BY DEF Leaf, MIN_ALLOC, q, x
<1> HIDE DEF i
<1>7. i \in Nodes /\ i >= m - 1 /\ i + 1 = q
  BY <1>1, <1>4, <1>5, <1>6, NodesAre
<1>8. Whole[i] = 3
  BY <1>7, NodeFacts DEF m
<1>9. get_size2[i] = 8
  <2>1. /\ 0 \in 0..MAX_LOG /\ 0 # MAX_LOG /\ 0 + 1 = 1
        /\ 1 \in 0..MAX_LOG /\ 1 # MAX_LOG /\ 1 + 1 = 2
        /\ 2 \in 0..MAX_LOG /\ 2 # MAX_LOG /\ 2 + 1 = 3
    BY DEF MAX_LOG
  <2>2. pow2[0] = 1 /\ pow2[1] = 2 * pow2[0] /\ pow2[2] = 2 * pow2[1] /\ pow2[3] = 2 * pow2[2]
    BY <2>1, Pow2Step
  <2>3. get_size2[i] = pow2[3]
    BY <1>7, <1>8, NodeFacts
  <2> QED
    BY <2>2, <2>3
<1>10. First(i) = 8 * q - Size
  BY <1>1, <1>4, <1>7, <1>9 DEF First
<1>11. First(n) = x - Size
  BY <1>1, <1>2 DEF x
<1>12. First(n) \in Span(i)
  BY <1>1, <1>2, <1>3, <1>4, <1>9, <1>10, <1>11 DEF Span
<1> QED
  BY <1>7, <1>8, <1>12 DEF i

(* It stops at the node the block was cut from. *)
LEMMA NodeAtIs ==
  ASSUME NEW t, NEW B, TreeInv(t, B), NEW n \in Nodes, Block(n) \in B
  PROVE  NodeAt(t, Block(n).offset) = n /\ n # -1
<1> DEFINE x == First(n)
           f == Leaf(x)
           empty == {i \in Path[f] : get_size(t, i) = 0}
<1>1. f \in Nodes /\ Whole[f] = 3 /\ x \in Span(f)
  BY LeafIs
<1>2. Block(n).offset = x /\ x \in Span(n) /\ n \in Nat
  BY SpanIs, NodeFacts
<1>3. get_size(t, n) = 0
  BY BlockNode DEF TreeInv
<1> HIDE DEF x, f
<1>4. n \in Path[f]
  <2>1. n \in Path[f] \/ f \in Path[n]
    BY <1>1, <1>2, SharedByte
  <2>2. CASE f \in Path[n] /\ f # n
    <3>1. Whole[n] < 3 /\ Whole[n] \in Nat /\ Whole[n] >= 3
      BY <1>1, <2>2, PathUp, NodeKinds
    <3> QED
      BY <3>1
  <2> QED
    BY <1>1, <2>1, <2>2, PathStart
<1>5. n \in empty
  BY <1>3, <1>4
<1>6. ASSUME NEW i \in empty PROVE i <= n /\ i \in Nat
  <2>1. i \in Nodes /\ i \in Nat /\ Span(f) \subseteq Span(i)
    BY <1>1, PathUp, NodeFacts
  <2>2. n \in Path[i] \/ i \in Path[n]
    BY <1>1, <1>2, <2>1, SharedByte
  <2>3. ~(n \in Path[i] /\ i # n)
    BY <2>1, NoZeroBelow
  <2>4. i = n \/ i \in Path[n]
    BY <2>2, <2>3
  <2> QED
    BY <1>2, <2>1, <2>4, PathUp
<1> HIDE DEF empty
<1>7. Max(empty) = CHOOSE i \in empty : \A j \in empty : i >= j
  BY Zenon DEF Max
<1>8. \A j \in empty : n >= j
  BY <1>2, <1>6
<1>9. Max(empty) \in empty /\ \A j \in empty : Max(empty) >= j
  BY <1>5, <1>7, <1>8
<1>10. Max(empty) = n
  <2>1. Max(empty) <= n /\ Max(empty) \in Nat
    BY <1>6, <1>9
  <2>2. Max(empty) >= n
    BY <1>5, <1>9
  <2> QED
    BY <1>2, <2>1, <2>2
<1>11. NodeAt(t, x) = IF empty = {} THEN -1 ELSE Max(empty)
  BY Zenon DEF NodeAt, empty, f
<1> QED
  BY <1>2, <1>5, <1>10, <1>11

-----------------------------------------------------------------------------
(* What is in use. *)

LEMMA BlocksFinite ==
  ASSUME NEW t, NEW B, Cut(t, B)
  PROVE  IsFiniteSet(B)
<1> DEFINE f == [n \in Nodes |-> Block(n)]
           T == {f[n] : n \in Nodes}
<1>1. IsFiniteSet(T)
  <2>1. f \in Surjection(Nodes, T)
    BY DEF Surjection
  <2> QED
    BY <2>1, NodesFinite, FS_Surjection
<1>2. B \in SUBSET T
  BY DEF Cut
<1> HIDE DEF T
<1> QED
  BY <1>1, <1>2, FS_Subset

LEMMA InUseIs ==
  ASSUME TreeInv(Tree, live)
  PROVE  InUse = MapThenSumSet(LAMBDA b : b.size, live)
<1> DEFINE firsts == {i \in Nodes : {j \in Path[i] : get_size(Tree, j) = 0} = {i}}
<1>1. InUse = MapThenSumSet(LAMBDA i : get_size2[i], firsts)
  BY Zenon DEF InUse
<1>2. Cut(Tree, live) /\ Apart(live) /\ ZeroFilled(Tree, live)
  BY DEF TreeInv
<1>3. \A i \in firsts : i \in Nodes /\ get_size(Tree, i) = 0
  OBVIOUS
<1>4. \A i, j \in firsts : i # j => Span(i) \cap Span(j) = {}
  <2> SUFFICES ASSUME NEW i \in firsts, NEW j \in firsts, Span(i) \cap Span(j) # {}
               PROVE  i = j
    OBVIOUS
  <2>1. i \in Path[j] \/ j \in Path[i]
    BY SharedByte
  <2> QED
    BY <2>1
<1>5. MapThenSumSet(LAMBDA i : get_size2[i], firsts) = Cardinality(UNION {Span(i) : i \in firsts})
  <2>1. firsts \in SUBSET Nodes
    OBVIOUS
  <2> HIDE DEF firsts
  <2> QED
    BY <1>4, <2>1, SumOfNodes
<1>6. MapThenSumSet(LAMBDA b : b.size, live) = Cardinality(UNION {Bytes(b) : b \in live})
  <2>1. IsFiniteSet(live)
    BY <1>2, BlocksFinite
  <2>2. \A b \in live : \E n \in Nodes : b = Block(n)
    BY <1>2 DEF Cut
  <2>3. \A b, c \in live : b # c => Bytes(b) \cap Bytes(c) = {}
    BY <1>2 DEF Apart
  <2> QED
    BY <2>1, <2>2, <2>3, SumOfBlocks
<1>7. ASSUME NEW i \in firsts, NEW x \in Span(i)
      PROVE  \E b \in live : x \in Bytes(b)
  BY <1>2, <1>3 DEF ZeroFilled, Filled
<1>8. ASSUME NEW b \in live, NEW x \in Bytes(b)
      PROVE  \E i \in firsts : x \in Span(i)
  <2>1. PICK n \in Nodes : b = Block(n) /\ get_size(Tree, n) = 0
    BY <1>2 DEF Cut
  <2> DEFINE zero == {j \in Path[n] : get_size(Tree, j) = 0}
  <2>2. zero \subseteq Nat /\ n \in zero
    BY <2>1, PathUp, PathStart, NodeFacts
  <2>3. PICK i \in zero : \A j \in zero : i <= j
    <3> HIDE DEF zero
    <3> QED
      BY <2>2, LeastMember
  <2>4. i \in Nodes /\ i \in Nat /\ Path[i] \subseteq Path[n] /\ Span(n) \subseteq Span(i)
    BY <2>3, PathUp, NodeFacts
  <2>5. ASSUME NEW j \in Path[i], get_size(Tree, j) = 0 PROVE j = i
    <3>1. j \in zero /\ j <= i /\ j \in Nat
      BY <2>4, <2>5, PathUp, NodeFacts
    <3> QED
      BY <2>3, <2>4, <3>1
  <2>6. i \in firsts
    BY <2>4, <2>5, PathStart
  <2>7. x \in Span(i)
    BY <2>1, <2>4, SpanIs
  <2> QED
    BY <2>6, <2>7
<1>9. UNION {Span(i) : i \in firsts} = UNION {Bytes(b) : b \in live}
  <2> HIDE DEF firsts
  <2> QED
    BY <1>7, <1>8
<1> QED
  BY <1>1, <1>5, <1>6, <1>9

-----------------------------------------------------------------------------
(* The invariant. *)

HeapInv ==
    /\ misled \in BOOLEAN /\ failed \in BOOLEAN
    /\ locked => failed \/ misled
    /\ panicked => failed \/ misled
    /\ ~misled => TreeInv(Tree, live)

LEMMA FittingIs ==
  ASSUME NEW r \in Requests
  PROVE  \E k \in 3..K : Fitting(r) = pow2[k]
<1> DEFINE P(s) == s >= r /\ \A q \in Sizes : q >= r => s <= q
           fits == {s \in Sizes : s >= r}
<1>0. MAX_LOG = 29 /\ K \in 7..29 /\ Size = pow2[K] /\ Size \in Nat
  BY SizeIs DEF MAX_LOG
<1>1. r \in 0..Size
  BY BuddyAssumption
<1>2. \A s \in Sizes : s \in Nat /\ \E k \in 3..K : s = pow2[k]
  <2> SUFFICES ASSUME NEW s \in Sizes PROVE s \in Nat /\ \E k \in 3..K : s = pow2[k]
    OBVIOUS
  <2>1. PICK k \in 3..MAX_LOG : s = pow2[k] /\ s <= Size
    BY DEF Sizes
  <2>2. k \in 0..MAX_LOG /\ K \in 0..MAX_LOG
    BY <1>0
  <2>3. k <= K
    BY <1>0, <2>1, <2>2, Pow2Order
  <2>4. k \in 3..K
    BY <1>0, <2>3
  <2> QED
    BY <2>1, <2>2, <2>4, Pow2Grows
<1>3. Size \in Sizes
  BY <1>0 DEF Sizes
<1>4. fits \subseteq Nat /\ fits # {}
  <2>1. Size >= r
    BY <1>0, <1>1
  <2>2. Size \in fits
    BY <1>3, <2>1
  <2>3. \A s \in fits : s \in Nat
    BY <1>2
  <2> HIDE DEF fits
  <2> QED
    BY <2>2, <2>3
<1>5. PICK s \in fits : \A q \in fits : s <= q
  <2> HIDE DEF fits
  <2> QED
    BY <1>4, LeastMember
<1>6. s \in Sizes /\ P(s)
  BY <1>5
<1>7. Fitting(r) = CHOOSE z \in Sizes : P(z)
  BY DEF Fitting
<1> HIDE DEF P
<1>8. Fitting(r) \in Sizes
  BY <1>6, <1>7
<1> QED
  BY <1>2, <1>8

LEMMA HeapInit == Init => HeapInv
<1> SUFFICES ASSUME Init PROVE HeapInv
  OBVIOUS
<1>1. bbt = [i \in Words |-> Whole[i]] /\ bitmap = Bits
  BY DEF Init, Words, Bits
<1>2. Tree.bbt = bbt /\ Tree.bitmap = bitmap /\ Tree \in [bbt : {bbt}, bitmap : {bitmap}]
  BY DEF Tree
<1>3. \A i \in Words : Whole[i] \in 0..MAX_LOG /\ Whole[i] <= Whole[i]
  <2> SUFFICES ASSUME NEW i \in Words PROVE Whole[i] \in 0..MAX_LOG /\ Whole[i] <= Whole[i]
    OBVIOUS
  <2>1. i \in Nodes
    BY DEF Words
  <2> QED
    BY <2>1, NodeFacts, NodeKinds
<1>4. Tree \in Trees
  BY <1>1, <1>2, <1>3 DEF Trees
<1>5. ASSUME NEW i \in Nodes PROVE get_size(Tree, i) # 0
  <2>1. CASE i \in Words
    <3>1. get_size(Tree, i) = Whole[i] /\ Whole[i] >= 3 /\ Whole[i] \in Nat
      BY <1>1, <1>2, <1>4, <2>1, GetSizeIs, NodeKinds
    <3> QED
      BY <3>1
  <2>2. CASE Whole[i] = 3
    BY <1>1, <1>2, <1>4, <2>2, GetSizeIs, NodeKinds
  <2>3. CASE Whole[i] = 4
    <3>1. LEFT_LEAF(i) \in Nodes /\ Whole[LEFT_LEAF(i)] = 3
      BY <2>3, ChildFacts
    <3>2. LEFT_LEAF(i) \in Bits /\ i \in Bits
      BY <2>3, <3>1, NodeKinds
    <3> QED
      BY <1>1, <1>2, <1>4, <2>3, <3>2, GetSizeIs
  <2> QED
    BY <2>1, <2>2, <2>3, NodeKinds
<1>6. live = {} /\ locked = FALSE /\ misled = FALSE /\ failed = FALSE /\ panicked = FALSE
  BY DEF Init
<1>7. Kept(Tree)
  BY <1>1, <1>2 DEF Kept
<1>8. TreeInv(Tree, live)
  BY <1>4, <1>5, <1>6, <1>7 DEF TreeInv, Cut, Apart, ZeroFilled, WholeFree, Free
<1> QED
  BY <1>6, <1>8 DEF HeapInv

LEMMA HeapAlloc ==
  ASSUME HeapInv, NEW r \in Requests, buddy_alloc(r)
  PROVE  HeapInv'
<1> DEFINE size == Fitting(r)
           i == Found(Tree, size)
           u == AfterAlloc(Tree, i)
<1>1. /\ pow2[bbt[0]] >= size
      /\ bbt' = u.bbt /\ bitmap' = u.bitmap
      /\ live' = live \cup {[offset |-> (i + 1) * size - Size, size |-> size]}
      /\ UNCHANGED <<locked, misled, failed, panicked>>
  BY DEF buddy_alloc
<1>2. ASSUME ~misled PROVE TreeInv(Tree, live)'
  <2>1. TreeInv(Tree, live) /\ Tree.bbt = bbt
    BY <1>2 DEF HeapInv, Tree
  <2>2. PICK k \in 3..K : size = pow2[k]
    BY FittingIs
  <2>3. Tree \in Trees /\ Tree.bbt[0] \in 0..MAX_LOG
    <3>1. Tree \in Trees /\ 0 \in Words
      BY <2>1, RootFacts, NodeKinds DEF TreeInv
    <3> QED
      BY <3>1, TreeFacts
  <2>4. i \in Nodes /\ Whole[i] = k /\ Free(live, i)
    BY <1>1, <2>1, <2>2, <2>3, FoundIsFree
  <2>5. get_size2[i] = size
    BY <2>2, <2>4, NodeFacts
  <2> HIDE DEF i, size
  <2>6. [offset |-> (i + 1) * size - Size, size |-> size] = Block(i)
    BY <2>5 DEF Block
  <2>7. TreeInv(u, live \cup {Block(i)})
    BY <2>1, <2>4, AfterAllocInv
  <2> HIDE DEF u
  <2>8. u \in Trees /\ live' = live \cup {Block(i)}
    BY <1>1, <2>6, <2>7 DEF TreeInv
  <2>9. Tree' = u
    BY <1>1, <2>8, TreeFacts DEF Tree
  <2>10. TreeInv(Tree', live')
    BY <2>7, <2>8, <2>9
  <2> QED
    BY <2>10 DEF TreeInv, Cut, Apart, ZeroFilled, Filled, Kept, WholeFree, Clear, Free
<1> HIDE DEF u, i, size
<1> QED
  BY <1>1, <1>2 DEF HeapInv

LEMMA HeapFree ==
  ASSUME HeapInv, NEW b \in live, buddy_free(b)
  PROVE  HeapInv'
<1> DEFINE i == NodeAt(Tree, b.offset)
           u == AfterFree(Tree, i)
<1>1. CASE misled
  <2>1. misled' = TRUE /\ failed' = failed
    <3>1. misled' = misled \/ misled' = (misled \/ Overstates(u, live \ {b}))
      BY DEF buddy_free
    <3>2. failed' = failed
      BY DEF buddy_free
    <3> QED
      BY <1>1, <3>1, <3>2 DEF HeapInv
  <2> QED
    BY <2>1 DEF HeapInv
<1>2. CASE ~misled
  <2>1. TreeInv(Tree, live)
    BY <1>2 DEF HeapInv
  <2>2. PICK n \in Nodes : b = Block(n)
    BY <2>1 DEF TreeInv, Cut
  <2>3. i = n /\ i # -1
    BY <2>1, <2>2, NodeAtIs
  <2>4. /\ bbt' = u.bbt /\ bitmap' = u.bitmap /\ live' = live \ {b}
        /\ locked' = FALSE /\ misled' = (misled \/ Overstates(u, live \ {b}))
        /\ panicked' = panicked /\ failed' = failed
    BY <2>3 DEF buddy_free, Unlocks
  <2>5. ASSUME ~misled' PROVE TreeInv(Tree, live)'
    <3>1. ~Overstates(u, live \ {b})
      BY <2>4, <2>5
    <3>2. TreeInv(u, live \ {b})
      BY <2>1, <2>2, <2>3, <3>1, AfterFreeInv
    <3> HIDE DEF u
    <3>3. Tree' = u
      BY <2>4, <3>2, TreeFacts DEF Tree, TreeInv
    <3>4. TreeInv(Tree', live')
      BY <2>4, <3>2, <3>3
    <3> QED
      BY <3>4 DEF TreeInv, Cut, Apart, ZeroFilled, Filled, Kept, WholeFree, Clear, Free
  <2>6. misled' \in BOOLEAN
    BY <2>4
  <2>7. panicked' => failed' \/ misled'
    BY <1>2, <2>4 DEF HeapInv
  <2> HIDE DEF u, i
  <2> QED
    BY <2>4, <2>5, <2>6, <2>7 DEF HeapInv
<1> QED
  BY <1>1, <1>2

LEMMA HeapStep == HeapInv /\ [Next]_vars => HeapInv'
<1> SUFFICES ASSUME HeapInv, [Next]_vars PROVE HeapInv'
  OBVIOUS
<1>1. ASSUME UNCHANGED <<bbt, bitmap, live, misled>> PROVE (~misled => TreeInv(Tree, live))'
  <2>1. Tree' = Tree /\ live' = live /\ misled' = misled
    BY <1>1 DEF Tree
  <2>2. ~misled' => TreeInv(Tree', live')
    BY <2>1 DEF HeapInv
  <2> QED
    BY <2>2 DEF TreeInv, Cut, Apart, ZeroFilled, Filled, Kept, WholeFree, Clear, Free
<1>2. CASE DeadLock
  BY <1>1, <1>2 DEF DeadLock, HeapInv
<1>3. ASSUME NEW r \in Requests, NoSpace(r) PROVE HeapInv'
  BY <1>1, <1>3 DEF NoSpace, HeapInv
<1>4. ASSUME NEW r \in Requests, buddy_alloc(r) PROVE HeapInv'
  BY <1>4, HeapAlloc
<1>5. ASSUME NEW b \in live, buddy_free(b) PROVE HeapInv'
  BY <1>5, HeapFree
<1>6. CASE UNCHANGED vars
  BY <1>1, <1>6 DEF vars, HeapInv
<1> QED
  BY <1>2, <1>3, <1>4, <1>5, <1>6 DEF Next

(* Whatever is allocated and freed in whatever order, until buddy_free has *)
(* misled itself: the blocks in use are cut from nodes that hold zero, a   *)
(* node that holds zero is full, one that holds its whole size is free,    *)
(* and a panic or a kept lock follows a failed allocation.                 *)
THEOREM HeapInvariant == Spec => []HeapInv
BY HeapInit, HeapStep, PTL DEF Spec

(* For a heap of any size and any requests: buddy_alloc never gives two    *)
(* callers the same byte unless buddy_free has marked a node whole whose   *)
(* halves were not both free.                                              *)
THEOREM BlocksStayDisjoint == Spec => []BlocksDisjoint
<1>1. HeapInv => BlocksDisjoint
  <2> SUFFICES ASSUME HeapInv, ~misled, NEW b \in live
               PROVE  /\ b.offset >= 0 /\ b.offset + b.size <= Size
                      /\ \A c \in live \ {b} : Bytes(b) \cap Bytes(c) = {}
    BY DEF BlocksDisjoint
  <2>1. TreeInv(Tree, live)
    BY DEF HeapInv
  <2>2. PICK n \in Nodes : b = Block(n)
    BY <2>1 DEF TreeInv, Cut
  <2>3. b.offset >= 0 /\ b.offset + b.size <= Size
    BY <2>2, SpanIs, SpanInHeap
  <2> QED
    BY <2>1, <2>3 DEF TreeInv, Apart
<1> QED
  BY <1>1, HeapInvariant, PTL

(* The climb of buddy_free and buddy_size from a pointer stops at the node *)
(* the block was cut from, and buddy_remain_size counts the bytes in use.  *)
THEOREM BlocksAreFoundAgain == Spec => []BlocksFoundAgain
<1>1. HeapInv => BlocksFoundAgain
  <2> SUFFICES ASSUME HeapInv, ~misled
               PROVE  /\ \A b \in live : buddy_size(b.offset) = b.size
                      /\ InUse = MapThenSumSet(LAMBDA b : b.size, live)
    BY Zenon DEF BlocksFoundAgain
  <2>1. TreeInv(Tree, live)
    BY DEF HeapInv
  <2>2. ASSUME NEW b \in live PROVE buddy_size(b.offset) = b.size
    <3>1. PICK n \in Nodes : b = Block(n)
      BY <2>1 DEF TreeInv, Cut
    <3>2. NodeAt(Tree, b.offset) = n /\ n # -1
      BY <2>1, <3>1, NodeAtIs
    <3> QED
      BY <3>1, <3>2, SpanIs DEF buddy_size
  <2>3. InUse = MapThenSumSet(LAMBDA b : b.size, live)
    BY <2>1, InUseIs
  <2> QED
    BY <2>2, <2>3
<1> QED
  BY <1>1, HeapInvariant, PTL

(* Neither acquire nor buddy_free panics before an allocation has failed   *)
(* or a free has misled the heap.                                          *)
THEOREM PanicsOnlyAfterFailure == Spec => []PanicsAfterFailure
<1>1. HeapInv => PanicsAfterFailure
  BY DEF HeapInv, PanicsAfterFailure
<1> QED
  BY <1>1, HeapInvariant, PTL
=============================================================================
