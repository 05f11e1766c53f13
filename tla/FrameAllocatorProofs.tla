------------------------ MODULE FrameAllocatorProofs ------------------------
(***************************************************************************)
(* The array heap and the loops of the page allocator, for every range of  *)
(* frames.  The loops are functions of the number of turns, and what they  *)
(* compute is shown by induction: a set of states that a turn does not     *)
(* leave is the loop's invariant, and a measure that each turn lowers      *)
(* shows that the bound on the turns is enough.  From what heap_insert and *)
(* heap_removeMax do to the set of recycled frames follows that the        *)
(* allocator implements FramePool.                                         *)
(***************************************************************************)
EXTENDS FrameAllocator, FiniteSetTheorems, WellFoundedInduction, TLAPS

-----------------------------------------------------------------------------
(* Induction, with a set in the place of the predicate. *)

LEMMA Smallest ==
  ASSUME NEW S, S \subseteq Nat, S # {}
  PROVE  \E x \in S : \A y \in S : x <= y
<1> DEFINE Less == {p \in Nat \X Nat : p[1] < p[2]}
<1>1. IsWellFoundedOn(Less, Nat)
  BY NatLessThanWellFounded DEF OpToRel
<1> HIDE DEF Less
<1>2. PICK x \in S : \A y \in S : ~(<<y, x>> \in Less)
  BY <1>1, WFMin
<1>3. ASSUME NEW y \in S, ~(x <= y) PROVE FALSE
  <2>1. x \in Nat /\ y \in Nat /\ y < x
    BY <1>3
  <2>2. <<y, x>> \in Less
    BY <2>1 DEF Less
  <2> QED
    BY <1>2, <2>2
<1> QED
  BY <1>3

LEMMA Induction ==
  ASSUME NEW P, 0 \in P, \A k \in Nat : k \in P => k + 1 \in P
  PROVE  \A k \in Nat : k \in P
<1> SUFFICES ASSUME Nat \ P # {} PROVE FALSE
  OBVIOUS
<1>1. PICK x \in Nat \ P : \A y \in Nat \ P : x <= y
  BY Smallest
<1>2. x - 1 \in Nat
  BY <1>1
<1>3. x - 1 \in P
  BY <1>1, <1>2
<1>4. (x - 1) + 1 \in P
  BY <1>2, <1>3
<1> QED
  BY <1>1, <1>4

(* The histories of a function iterated from s0, of which there is one. *)
Histories(S, s0, g) ==
    {f \in [Nat -> S] : f[0] = s0 /\ \A k \in Nat : f[k + 1] = g[f[k]]}

LEMMA HistoryExists ==
  ASSUME NEW S, NEW s0 \in S, NEW g \in [S -> S]
  PROVE  Histories(S, s0, g) # {}
<1> DEFINE Upto(n, h) == /\ h \in [0..n -> S] /\ h[0] = s0
                         /\ \A k \in 0..n : k # n => h[k + 1] = g[h[k]]
           P == {n \in Nat : \E h : Upto(n, h)}
<1>1. \A n \in Nat : n \in P
  <2>1. 0 \in P
    <3> DEFINE h == [i \in 0..0 |-> s0]
    <3>1. Upto(0, h)
      OBVIOUS
    <3> QED
      BY <3>1
  <2>2. ASSUME NEW n \in Nat, n \in P PROVE n + 1 \in P
    <3>1. PICK h : Upto(n, h)
      BY <2>2
    <3> DEFINE e == [i \in 0..(n + 1) |-> IF i = n + 1 THEN g[h[n]] ELSE h[i]]
    <3>2. e \in [0..(n + 1) -> S]
      BY <3>1
    <3>3. ASSUME NEW k \in 0..(n + 1), k # n + 1 PROVE e[k + 1] = g[e[k]]
      <4>1. CASE k = n
        BY <3>3, <4>1
      <4>2. CASE k # n
        <5>1. k \in 0..n /\ k + 1 \in 0..(n + 1) /\ k + 1 # n + 1
          BY <3>3, <4>2
        <5>2. h[k + 1] = g[h[k]]
          BY <3>1, <4>2, <5>1
        <5>3. e[k + 1] = h[k + 1] /\ e[k] = h[k]
          BY <3>3, <5>1
        <5> QED
          BY <5>2, <5>3
      <4> QED
        BY <4>1, <4>2
    <3>4. e[0] = s0
      BY <3>1
    <3>5. Upto(n + 1, e)
      <4> HIDE DEF e
      <4> QED
        BY <3>2, <3>3, <3>4
    <3> QED
      BY <3>5
  <2> HIDE DEF P
  <2> QED
    BY <2>1, <2>2, Induction
<1>2. ASSUME NEW n \in Nat, NEW h, NEW m \in Nat, NEW e, n <= m,
             Upto(n, h), Upto(m, e)
      PROVE  \A k \in 0..n : h[k] = e[k]
  <2> DEFINE Q == {k \in Nat : k \in 0..n => h[k] = e[k]}
  <2>1. 0 \in Q
    BY <1>2
  <2>2. ASSUME NEW k \in Nat, k \in Q PROVE k + 1 \in Q
    <3> SUFFICES ASSUME k + 1 \in 0..n PROVE h[k + 1] = e[k + 1]
      OBVIOUS
    <3>1. k \in 0..n /\ k # n /\ k \in 0..m /\ k # m
      BY <1>2
    <3> QED
      BY <1>2, <2>2, <3>1
  <2>3. \A k \in Nat : k \in Q
    <3> HIDE DEF Q
    <3> QED
      BY <2>1, <2>2, Induction
  <2> QED
    BY <2>3
<1> DEFINE H(n) == CHOOSE h : Upto(n, h)
           f == [n \in Nat |-> H(n)[n]]
<1>3. \A n \in Nat : Upto(n, H(n))
  <2> TAKE n \in Nat
  <2>1. \E h : Upto(n, h)
    BY <1>1
  <2> HIDE DEF Upto
  <2> QED
    BY <2>1, Zenon
<1> HIDE DEF H
<1>4. f \in [Nat -> S] /\ f[0] = s0
  BY <1>3
<1>5. ASSUME NEW k \in Nat PROVE f[k + 1] = g[f[k]]
  <2>1. H(k)[k] = H(k + 1)[k]
    <3>1. Upto(k, H(k)) /\ Upto(k + 1, H(k + 1)) /\ k + 1 \in Nat /\ k <= k + 1
      BY <1>3
    <3> HIDE DEF Upto
    <3> QED
      BY <1>2, <3>1
  <2>2. H(k + 1)[k + 1] = g[H(k + 1)[k]]
    BY <1>3
  <2> QED
    BY <2>1, <2>2
<1> HIDE DEF f
<1> QED
  BY <1>4, <1>5 DEF Histories

(* A history whose measure goes down until it stands still has come to     *)
(* rest after as many steps as the measure was at first.                   *)
LEMMA Settles ==
  ASSUME NEW S, NEW g \in [S -> S], NEW m \in [S -> Nat], NEW f \in [Nat -> S],
         \A k \in Nat : f[k + 1] = g[f[k]],
         \A s \in S : g[s] = s \/ m[g[s]] < m[s],
         NEW n \in Nat, m[f[0]] <= n
  PROVE  g[f[n]] = f[n]
<1> DEFINE P == {k \in Nat : g[f[k]] = f[k] \/ m[f[k]] + k <= n}
<1>1. 0 \in P
  OBVIOUS
<1>2. ASSUME NEW k \in Nat, k \in P PROVE k + 1 \in P
  <2>1. f[k] \in S /\ f[k + 1] \in S /\ f[k + 1] = g[f[k]] /\ k + 1 \in Nat
    OBVIOUS
  <2>2. CASE g[f[k]] = f[k]
    BY <2>1, <2>2
  <2>3. CASE m[f[k]] + k <= n /\ m[g[f[k]]] < m[f[k]]
    <3>1. m[f[k]] \in Nat /\ m[f[k + 1]] \in Nat
      BY <2>1
    <3> QED
      BY <2>1, <2>3, <3>1
  <2> QED
    BY <1>2, <2>1, <2>2, <2>3
<1>3. n \in P
  <2> HIDE DEF P
  <2> QED
    BY <1>1, <1>2, Induction
<1>4. CASE m[f[n]] + n <= n
  <2>1. f[n] \in S /\ m[f[n]] \in Nat
    OBVIOUS
  <2>2. m[f[n]] = 0
    BY <1>4, <2>1
  <2>3. m[g[f[n]]] \in Nat
    BY <2>1
  <2> QED
    BY <2>1, <2>2, <2>3
<1> QED
  BY <1>3, <1>4

-----------------------------------------------------------------------------
(* The three loops.  S is what a turn does not leave, m what it lowers. *)

LEMMA SiftUpLoop ==
  ASSUME NEW S, NEW s0 \in S, NEW m \in [S -> Nat], NEW n \in Nat, m[s0] <= n,
         \A s \in S : /\ SiftUpStep(s) \in S
                      /\ SiftUpStep(s) = s \/ m[SiftUpStep(s)] < m[s]
  PROVE  LET last == Loop(SiftUpStep, s0, n)
         IN last \in S /\ SiftUpStep(last) = last
<1> DEFINE g == [s \in S |-> SiftUpStep(s)]
           History(f) == f = [k \in Nat |-> IF k = 0 THEN s0
                                            ELSE SiftUpStep(f[k - 1])]
           h == CHOOSE f : History(f)
<1>1. g \in [S -> S] /\ \A s \in S : g[s] = SiftUpStep(s)
  OBVIOUS
<1> HIDE DEF g
<1>2. \E f : History(f)
  <2>1. PICK f \in [Nat -> S] : f[0] = s0 /\ \A k \in Nat : f[k + 1] = g[f[k]]
    <3>1. Histories(S, s0, g) # {}
      BY <1>1, HistoryExists
    <3> QED
      BY <3>1 DEF Histories
  <2>2. ASSUME NEW k \in Nat, k # 0 PROVE f[k] = SiftUpStep(f[k - 1])
    <3>1. k - 1 \in Nat /\ (k - 1) + 1 = k
      BY <2>2
    <3>2. f[(k - 1) + 1] = g[f[k - 1]] /\ f[k - 1] \in S
      BY <2>1, <3>1
    <3> QED
      BY <1>1, <3>1, <3>2
  <2>3. History(f)
    BY <2>1, <2>2
  <2> QED
    BY <2>3
<1>3. History(h)
  <2> HIDE DEF History
  <2> QED
    BY <1>2, Zenon
<1>4. Loop(SiftUpStep, s0, n) = h[n]
  BY Zenon DEF Loop
<1> HIDE DEF h
<1>5. h[0] = s0 /\ \A k \in Nat : h[k + 1] = SiftUpStep(h[k])
  <2>1. ASSUME NEW k \in Nat PROVE h[k + 1] = SiftUpStep(h[k])
    <3>1. k + 1 \in Nat /\ k + 1 # 0 /\ (k + 1) - 1 = k
      OBVIOUS
    <3> QED
      BY <1>3, <3>1
  <2> QED
    BY <1>3, <2>1
<1>6. \A k \in Nat : h[k] \in S
  <2> DEFINE P == {k \in Nat : h[k] \in S}
  <2>1. 0 \in P
    BY <1>5
  <2>2. \A k \in Nat : k \in P => k + 1 \in P
    BY <1>5
  <2>3. \A k \in Nat : k \in P
    <3> HIDE DEF P
    <3> QED
      BY <2>1, <2>2, Induction
  <2> QED
    BY <2>3
<1>7. h \in [Nat -> S]
  <2>1. h = [k \in Nat |-> h[k]]
    BY <1>3
  <2> QED
    BY <1>6, <2>1
<1>8. g[h[n]] = h[n]
  <2>1. \A k \in Nat : h[k + 1] = g[h[k]]
    BY <1>1, <1>5, <1>6
  <2>2. \A s \in S : g[s] = s \/ m[g[s]] < m[s]
    BY <1>1
  <2> QED
    BY <1>1, <1>5, <1>7, <2>1, <2>2, Settles
<1> QED
  BY <1>1, <1>4, <1>6, <1>8

LEMMA SiftDownLoop ==
  ASSUME NEW S, NEW s0 \in S, NEW m \in [S -> Nat], NEW n \in Nat, m[s0] <= n,
         \A s \in S : /\ SiftDownStep(s) \in S
                      /\ SiftDownStep(s) = s \/ m[SiftDownStep(s)] < m[s]
  PROVE  LET last == Loop(SiftDownStep, s0, n)
         IN last \in S /\ SiftDownStep(last) = last
<1> DEFINE g == [s \in S |-> SiftDownStep(s)]
           History(f) == f = [k \in Nat |-> IF k = 0 THEN s0
                                            ELSE SiftDownStep(f[k - 1])]
           h == CHOOSE f : History(f)
<1>1. g \in [S -> S] /\ \A s \in S : g[s] = SiftDownStep(s)
  OBVIOUS
<1> HIDE DEF g
<1>2. \E f : History(f)
  <2>1. PICK f \in [Nat -> S] : f[0] = s0 /\ \A k \in Nat : f[k + 1] = g[f[k]]
    <3>1. Histories(S, s0, g) # {}
      BY <1>1, HistoryExists
    <3> QED
      BY <3>1 DEF Histories
  <2>2. ASSUME NEW k \in Nat, k # 0 PROVE f[k] = SiftDownStep(f[k - 1])
    <3>1. k - 1 \in Nat /\ (k - 1) + 1 = k
      BY <2>2
    <3>2. f[(k - 1) + 1] = g[f[k - 1]] /\ f[k - 1] \in S
      BY <2>1, <3>1
    <3> QED
      BY <1>1, <3>1, <3>2
  <2>3. History(f)
    BY <2>1, <2>2
  <2> QED
    BY <2>3
<1>3. History(h)
  <2> HIDE DEF History
  <2> QED
    BY <1>2, Zenon
<1>4. Loop(SiftDownStep, s0, n) = h[n]
  BY Zenon DEF Loop
<1> HIDE DEF h
<1>5. h[0] = s0 /\ \A k \in Nat : h[k + 1] = SiftDownStep(h[k])
  <2>1. ASSUME NEW k \in Nat PROVE h[k + 1] = SiftDownStep(h[k])
    <3>1. k + 1 \in Nat /\ k + 1 # 0 /\ (k + 1) - 1 = k
      OBVIOUS
    <3> QED
      BY <1>3, <3>1
  <2> QED
    BY <1>3, <2>1
<1>6. \A k \in Nat : h[k] \in S
  <2> DEFINE P == {k \in Nat : h[k] \in S}
  <2>1. 0 \in P
    BY <1>5
  <2>2. \A k \in Nat : k \in P => k + 1 \in P
    BY <1>5
  <2>3. \A k \in Nat : k \in P
    <3> HIDE DEF P
    <3> QED
      BY <2>1, <2>2, Induction
  <2> QED
    BY <2>3
<1>7. h \in [Nat -> S]
  <2>1. h = [k \in Nat |-> h[k]]
    BY <1>3
  <2> QED
    BY <1>6, <2>1
<1>8. g[h[n]] = h[n]
  <2>1. \A k \in Nat : h[k + 1] = g[h[k]]
    BY <1>1, <1>5, <1>6
  <2>2. \A s \in S : g[s] = s \/ m[g[s]] < m[s]
    BY <1>1
  <2> QED
    BY <1>1, <1>5, <1>7, <2>1, <2>2, Settles
<1> QED
  BY <1>1, <1>4, <1>6, <1>8

LEMMA TrimLoop ==
  ASSUME NEW S, NEW s0 \in S, NEW m \in [S -> Nat], NEW n \in Nat, m[s0] <= n,
         \A s \in S : /\ TrimStep(s) \in S
                      /\ TrimStep(s) = s \/ m[TrimStep(s)] < m[s]
  PROVE  LET last == Loop(TrimStep, s0, n)
         IN last \in S /\ TrimStep(last) = last
<1> DEFINE g == [s \in S |-> TrimStep(s)]
           History(f) == f = [k \in Nat |-> IF k = 0 THEN s0
                                            ELSE TrimStep(f[k - 1])]
           h == CHOOSE f : History(f)
<1>1. g \in [S -> S] /\ \A s \in S : g[s] = TrimStep(s)
  OBVIOUS
<1> HIDE DEF g
<1>2. \E f : History(f)
  <2>1. PICK f \in [Nat -> S] : f[0] = s0 /\ \A k \in Nat : f[k + 1] = g[f[k]]
    <3>1. Histories(S, s0, g) # {}
      BY <1>1, HistoryExists
    <3> QED
      BY <3>1 DEF Histories
  <2>2. ASSUME NEW k \in Nat, k # 0 PROVE f[k] = TrimStep(f[k - 1])
    <3>1. k - 1 \in Nat /\ (k - 1) + 1 = k
      BY <2>2
    <3>2. f[(k - 1) + 1] = g[f[k - 1]] /\ f[k - 1] \in S
      BY <2>1, <3>1
    <3> QED
      BY <1>1, <3>1, <3>2
  <2>3. History(f)
    BY <2>1, <2>2
  <2> QED
    BY <2>3
<1>3. History(h)
  <2> HIDE DEF History
  <2> QED
    BY <1>2, Zenon
<1>4. Loop(TrimStep, s0, n) = h[n]
  BY Zenon DEF Loop
<1> HIDE DEF h
<1>5. h[0] = s0 /\ \A k \in Nat : h[k + 1] = TrimStep(h[k])
  <2>1. ASSUME NEW k \in Nat PROVE h[k + 1] = TrimStep(h[k])
    <3>1. k + 1 \in Nat /\ k + 1 # 0 /\ (k + 1) - 1 = k
      OBVIOUS
    <3> QED
      BY <1>3, <3>1
  <2> QED
    BY <1>3, <2>1
<1>6. \A k \in Nat : h[k] \in S
  <2> DEFINE P == {k \in Nat : h[k] \in S}
  <2>1. 0 \in P
    BY <1>5
  <2>2. \A k \in Nat : k \in P => k + 1 \in P
    BY <1>5
  <2>3. \A k \in Nat : k \in P
    <3> HIDE DEF P
    <3> QED
      BY <2>1, <2>2, Induction
  <2> QED
    BY <2>3
<1>7. h \in [Nat -> S]
  <2>1. h = [k \in Nat |-> h[k]]
    BY <1>3
  <2> QED
    BY <1>6, <2>1
<1>8. g[h[n]] = h[n]
  <2>1. \A k \in Nat : h[k + 1] = g[h[k]]
    BY <1>1, <1>5, <1>6
  <2>2. \A s \in S : g[s] = s \/ m[g[s]] < m[s]
    BY <1>1
  <2> QED
    BY <1>1, <1>5, <1>7, <2>1, <2>2, Settles
<1> QED
  BY <1>1, <1>4, <1>6, <1>8

-----------------------------------------------------------------------------
(* Arrays, of which the first n cells count. *)
Arrays == [Cells -> Frames \cup {0}]
Members(arr, n) == {arr[i] : i \in 0 .. n - 1}
Distinct(arr, n) == \A i, j \in 0 .. n - 1 : arr[i] = arr[j] => i = j
Ordered(arr, n) == \A i \in 1 .. n - 1 : arr[i] < arr[heap_parent(i)]

LEMMA Ranges ==
  /\ start \in Nat /\ end \in Nat /\ MaxSize \in Nat \ {0}
  /\ \A i : i \in Cells <=> i \in Nat /\ i < MaxSize
  /\ \A x : x \in Frames <=> x \in Nat /\ start <= x /\ x < end
BY PageRangeAssumption DEF MaxSize, Cells, Frames

LEMMA CellType ==
  ASSUME NEW arr \in Arrays, NEW i \in Cells
  PROVE  arr[i] \in Nat
BY Ranges DEF Arrays

LEMMA Parent ==
  /\ \A p \in Nat : p > 0 =>
        /\ heap_parent(p) \in Nat /\ heap_parent(p) < p
        /\ p = 2 * heap_parent(p) + 1 \/ p = 2 * heap_parent(p) + 2
  /\ \A i \in Nat : heap_parent(2 * i + 1) = i /\ heap_parent(2 * i + 2) = i
BY DEF heap_parent

Swap(arr, a, b) == [i \in Cells |-> IF i = a THEN arr[b]
                                    ELSE IF i = b THEN arr[a] ELSE arr[i]]

LEMMA SwapKeeps ==
  ASSUME NEW arr \in Arrays, NEW n \in 0 .. MaxSize, NEW a \in 0 .. n - 1,
         NEW b \in 0 .. n - 1
  PROVE  /\ Swap(arr, a, b) \in Arrays
         /\ Members(Swap(arr, a, b), n) = Members(arr, n)
         /\ Distinct(arr, n) => Distinct(Swap(arr, a, b), n)
<1>1. /\ a \in Cells /\ b \in Cells /\ n \in Nat
      /\ \A i \in 0 .. n - 1 : i \in Cells
  BY Ranges
<1>2. Swap(arr, a, b) \in Arrays
  BY <1>1 DEF Swap, Arrays
<1>3. ASSUME NEW i \in 0 .. n - 1
      PROVE  /\ Swap(arr, a, b)[i] \in Members(arr, n)
             /\ arr[i] \in Members(Swap(arr, a, b), n)
  <2>1. Swap(arr, a, b)[a] = arr[b] /\ Swap(arr, a, b)[b] = arr[a]
    BY <1>1 DEF Swap
  <2>2. i # a /\ i # b => Swap(arr, a, b)[i] = arr[i]
    BY <1>1 DEF Swap
  <2> QED
    BY <2>1, <2>2 DEF Members
<1>4. Members(Swap(arr, a, b), n) = Members(arr, n)
  BY <1>3 DEF Members
<1>5. Distinct(arr, n) => Distinct(Swap(arr, a, b), n)
  BY <1>1 DEF Distinct, Swap
<1> QED
  BY <1>2, <1>4, <1>5

(* The array the end of a sift leaves: temp in its place. *)
Put(arr, pos, temp) == [arr EXCEPT ![pos] = temp]

LEMMA PutIs ==
  ASSUME NEW arr \in Arrays, NEW p \in Cells, NEW x \in Frames
  PROVE  /\ Put(arr, p, x) \in Arrays /\ Put(arr, p, x)[p] = x
         /\ \A i \in Cells : i # p => Put(arr, p, x)[i] = arr[i]
BY DEF Put, Arrays

(* A turn of a sift, seen on the array it would leave, is a swap. *)
LEMMA TurnSwaps ==
  ASSUME NEW arr \in Arrays, NEW p \in Cells, NEW q \in Cells, p # q,
         NEW x \in Frames
  PROVE  Put([arr EXCEPT ![p] = arr[q]], q, x) = Swap(Put(arr, p, x), p, q)
<1>1. \A i \in Cells :
        Put([arr EXCEPT ![p] = arr[q]], q, x)[i] = Swap(Put(arr, p, x), p, q)[i]
  BY DEF Put, Swap, Arrays
<1>2. /\ [arr EXCEPT ![p] = arr[q]] \in [Cells -> Frames \cup {0}]
      /\ Put([arr EXCEPT ![p] = arr[q]], q, x) \in [Cells -> Frames \cup {0}]
  BY DEF Arrays, Put
<1>3. Swap(Put(arr, p, x), p, q) =
        [i \in Cells |-> Swap(Put(arr, p, x), p, q)[i]]
  BY DEF Swap
<1> QED
  BY <1>1, <1>2, <1>3

-----------------------------------------------------------------------------
(* heap_SiftUp: the heap order holds but between temp's place and the cell *)
(* above it, and what is below temp is below that cell too.                *)
UpOrder(arr, n, p) ==
    /\ \A i \in 1 .. n - 1 : i # p => arr[i] < arr[heap_parent(i)]
    /\ \A i \in 1 .. n - 1 :
          p > 0 /\ heap_parent(i) = p => arr[i] < arr[heap_parent(p)]

UpStates(n, M) ==
    {s \in [arr : Arrays, temppos : 0 .. n - 1, temp : Frames] :
        LET filled == Put(s.arr, s.temppos, s.temp)
        IN /\ Distinct(filled, n) /\ Members(filled, n) = M
           /\ UpOrder(filled, n, s.temppos)}

LEMMA UpSwap ==
  ASSUME NEW n \in 0 .. MaxSize, NEW arr \in Arrays, NEW p \in 1 .. n - 1,
         UpOrder(arr, n, p), arr[heap_parent(p)] < arr[p]
  PROVE  UpOrder(Swap(arr, p, heap_parent(p)), n, heap_parent(p))
<1> DEFINE u == heap_parent(p)
           e == Swap(arr, p, u)
<1>1. /\ p \in Nat /\ n \in Nat /\ u \in Nat /\ u < p
      /\ \A i \in 0 .. n - 1 : i \in Cells /\ arr[i] \in Nat
  <2>1. p \in Nat /\ n \in Nat /\ p > 0
    BY Ranges
  <2>2. u \in Nat /\ u < p
    BY <2>1, Parent
  <2>3. \A i \in 0 .. n - 1 : i \in Cells
    BY Ranges
  <2> QED
    BY <2>1, <2>2, <2>3, CellType
<1>2. /\ e[p] = arr[u] /\ e[u] = arr[p]
      /\ \A i \in 0 .. n - 1 : i # p /\ i # u => e[i] = arr[i]
  BY <1>1 DEF Swap
<1>3. \A i \in 1 .. n - 1 : heap_parent(i) \in 0 .. n - 1 /\ heap_parent(i) < i
  BY Parent
<1> HIDE DEF e
<1>4. ASSUME NEW i \in 1 .. n - 1, i # u PROVE e[i] < e[heap_parent(i)]
  <2>1. CASE i = p
    BY <1>2, <2>1
  <2>2. CASE i # p /\ heap_parent(i) = p
    BY <1>2, <1>3, <1>4, <2>2 DEF UpOrder
  <2>3. CASE i # p /\ heap_parent(i) = u
    <3>1. arr[i] < arr[u] /\ arr[u] < arr[p]
      BY <2>3 DEF UpOrder
    <3> QED
      BY <1>1, <1>2, <1>4, <2>3, <3>1
  <2>4. CASE i # p /\ heap_parent(i) # p /\ heap_parent(i) # u
    BY <1>2, <1>3, <1>4, <2>4 DEF UpOrder
  <2> QED
    BY <2>1, <2>2, <2>3, <2>4
<1>5. ASSUME NEW i \in 1 .. n - 1, u > 0, heap_parent(i) = u
      PROVE  e[i] < e[heap_parent(u)]
  <2>1. u \in 1 .. n - 1 /\ u # p /\ i # u
    BY <1>1, <1>3, <1>5
  <2>2. /\ heap_parent(u) \in 0 .. n - 1 /\ heap_parent(u) # p
        /\ heap_parent(u) # u
    BY <1>1, <1>3, <2>1
  <2>3. arr[u] < arr[heap_parent(u)] /\ e[heap_parent(u)] = arr[heap_parent(u)]
    BY <1>2, <2>1, <2>2 DEF UpOrder
  <2>4. CASE i = p
    BY <1>2, <2>3, <2>4
  <2>5. CASE i # p
    <3>1. arr[i] < arr[u] /\ e[i] = arr[i]
      BY <1>2, <1>5, <2>1, <2>5 DEF UpOrder
    <3> QED
      BY <1>1, <2>1, <2>2, <2>3, <3>1
  <2> QED
    BY <2>4, <2>5
<1> QED
  BY <1>4, <1>5 DEF UpOrder, e

LEMMA SiftUpTurn ==
  ASSUME NEW n \in 1 .. MaxSize, NEW M, NEW s \in UpStates(n, M)
  PROVE  /\ SiftUpStep(s) \in UpStates(n, M)
         /\ SiftUpStep(s) = s \/ SiftUpStep(s).temppos < s.temppos
<1> DEFINE p == s.temppos
           u == heap_parent(p)
           t == SiftUpStep(s)
<1>1. /\ s.arr \in Arrays /\ p \in 0 .. n - 1 /\ p \in Cells /\ s.temp \in Frames
      /\ n \in Nat /\ n \in 0 .. MaxSize
  BY Ranges DEF UpStates
<1>2. CASE p > 0 /\ s.arr[u] < s.temp
  <2>1. u \in 0 .. n - 1 /\ u \in Cells /\ u < p /\ p \in 1 .. n - 1
    BY <1>1, <1>2, Parent, Ranges, SMTT(60)
  <2>2. t = [arr |-> [s.arr EXCEPT ![p] = s.arr[u]], temppos |-> u,
             temp |-> s.temp]
    BY <1>2, ZenonT(60) DEF SiftUpStep
  <2>3. /\ t.arr = [s.arr EXCEPT ![p] = s.arr[u]] /\ t.temppos = u
        /\ t.temp = s.temp
        /\ t \in [arr : Arrays, temppos : 0 .. n - 1, temp : Frames]
    BY <1>1, <2>1, <2>2 DEF Arrays
  <2> DEFINE A == Put(s.arr, p, s.temp)
             B == Put(t.arr, t.temppos, t.temp)
  <2>4. A \in Arrays /\ A[p] = s.temp /\ A[u] = s.arr[u]
    BY <1>1, <2>1, PutIs
  <2>5. B = Swap(A, p, u)
    BY <1>1, <2>1, <2>3, TurnSwaps
  <2>6. Distinct(A, n) /\ Members(A, n) = M /\ UpOrder(A, n, p)
    BY DEF UpStates
  <2> HIDE DEF t, A, B
  <2>7. Distinct(B, n) /\ Members(B, n) = M
    BY <1>1, <2>1, <2>4, <2>5, <2>6, SwapKeeps
  <2>8. UpOrder(B, n, u)
    BY <1>1, <1>2, <2>1, <2>4, <2>5, <2>6, UpSwap
  <2> QED
    BY <2>1, <2>3, <2>7, <2>8 DEF UpStates, t, B
<1>3. CASE ~(p > 0 /\ s.arr[u] < s.temp)
  BY <1>3 DEF SiftUpStep
<1> QED
  BY <1>2, <1>3

(* What heap_SiftUp makes of a heap with one more cell at its end. *)
LEMMA SiftUpSorts ==
  ASSUME NEW n \in 1 .. MaxSize, NEW arr \in Arrays, arr[n - 1] \in Frames,
         Distinct(arr, n), Ordered(arr, n - 1)
  PROVE  /\ heap_SiftUp(arr, n - 1) \in Arrays
         /\ Members(heap_SiftUp(arr, n - 1), n) = Members(arr, n)
         /\ Distinct(heap_SiftUp(arr, n - 1), n)
         /\ Ordered(heap_SiftUp(arr, n - 1), n)
<1> DEFINE M == Members(arr, n)
           S == UpStates(n, M)
           k == n - 1
           s0 == [arr |-> arr, temppos |-> k, temp |-> arr[k]]
           m == [s \in S |-> s.temppos]
           z == Loop(SiftUpStep, s0, MaxSize)
           A == Put(z.arr, z.temppos, z.temp)
<1>1. n \in Nat /\ k \in 0 .. n - 1 /\ k \in Cells /\ MaxSize \in Nat
      /\ n \in 0 .. MaxSize
  BY Ranges
<1>2. Put(arr, k, arr[k]) = arr
  BY <1>1 DEF Put, Arrays
<1>3. UpOrder(arr, n, k)
  <2>1. \A i \in 1 .. n - 1 : heap_parent(i) < i /\ heap_parent(i) \in Nat
    BY Parent
  <2>2. \A i \in 1 .. n - 1 : heap_parent(i) # k
    BY <1>1, <2>1
  <2>3. \A i \in 1 .. n - 1 : i # k => i \in 1 .. (n - 1) - 1
    BY <1>1
  <2> QED
    BY <2>2, <2>3 DEF UpOrder, Ordered
<1>4. s0 \in S
  BY <1>1, <1>2, <1>3 DEF UpStates
<1>5. m \in [S -> Nat] /\ m[s0] <= MaxSize
  <2>1. \A s \in S : s.temppos \in Nat
    BY DEF UpStates
  <2> QED
    BY <1>1, <1>4, <2>1
<1>6. ASSUME NEW s \in S
      PROVE  /\ SiftUpStep(s) \in S
             /\ SiftUpStep(s) = s \/ m[SiftUpStep(s)] < m[s]
  <2>1. /\ SiftUpStep(s) \in S
        /\ SiftUpStep(s) = s \/ SiftUpStep(s).temppos < s.temppos
    BY <1>6, SiftUpTurn
  <2> HIDE DEF S
  <2> QED
    BY <2>1
<1> HIDE DEF m, s0, S
<1>7. z \in S /\ SiftUpStep(z) = z
  BY <1>1, <1>4, <1>5, <1>6, SiftUpLoop
<1>8. heap_SiftUp(arr, k) = A
  BY DEF heap_SiftUp, Put, s0
<1> HIDE DEF z
<1>9. /\ z.arr \in Arrays /\ z.temppos \in 0 .. n - 1 /\ z.temp \in Frames
      /\ Distinct(A, n) /\ Members(A, n) = M /\ UpOrder(A, n, z.temppos)
  BY <1>7 DEF S, UpStates
<1>10. z.temppos \in Cells
  BY <1>9, Ranges
<1>11. /\ A \in Arrays /\ A[z.temppos] = z.temp
       /\ \A i \in Cells : i # z.temppos => A[i] = z.arr[i]
  BY <1>9, <1>10, PutIs
<1> HIDE DEF A
<1>12. ASSUME z.temppos > 0 PROVE A[z.temppos] < A[heap_parent(z.temppos)]
  <2> DEFINE u == heap_parent(z.temppos)
  <2>1. u \in 0 .. n - 1 /\ u < z.temppos /\ u \in Nat /\ u \in Cells
    <3>1. z.temppos \in Nat /\ z.temppos < n
      BY <1>1, <1>9
    <3>2. u \in Nat /\ u < z.temppos
      BY <1>12, <3>1, Parent
    <3> HIDE DEF u
    <3> QED
      BY <1>1, <3>1, <3>2, Ranges
  <2>2. ~(z.arr[u] < z.temp)
    <3> SUFFICES ASSUME z.arr[u] < z.temp PROVE FALSE
      OBVIOUS
    <3>1. SiftUpStep(z) = [arr |-> [z.arr EXCEPT ![z.temppos] = z.arr[u]],
                           temppos |-> u, temp |-> z.temp]
      BY <1>12 DEF SiftUpStep
    <3>2. z.temppos = u
      BY <1>7, <3>1
    <3> QED
      BY <1>9, <2>1, <3>2
  <2>3. A[u] = z.arr[u] /\ A[u] # A[z.temppos]
    BY <1>9, <1>11, <2>1 DEF Distinct
  <2>4. A[u] \in Nat /\ A[z.temppos] \in Nat
    BY <1>10, <1>11, <2>1, CellType
  <2> QED
    BY <1>11, <2>2, <2>3, <2>4
<1>13. Ordered(A, n)
  BY <1>9, <1>12 DEF UpOrder, Ordered
<1> QED
  BY <1>8, <1>9, <1>11, <1>13

-----------------------------------------------------------------------------
(* heap_SiftDown: the heap order holds but between temp's place and the    *)
(* cells below it, and what is below temp is below the cell above it too.  *)
DownOrder(arr, n, q) ==
    /\ \A i \in 1 .. n - 1 : heap_parent(i) # q => arr[i] < arr[heap_parent(i)]
    /\ \A i \in 1 .. n - 1 :
          q > 0 /\ heap_parent(i) = q => arr[i] < arr[heap_parent(q)]

DownStates(n, M) ==
    {s \in [arr : Arrays, size : {n}, i : 0 .. n - 1, temp : Frames] :
        LET filled == Put(s.arr, s.i, s.temp)
        IN /\ Distinct(filled, n) /\ Members(filled, n) = M
           /\ DownOrder(filled, n, s.i)}

(* The larger child is a child, and no child is larger. *)
LEMMA LargerChildIs ==
  ASSUME NEW n \in 0 .. MaxSize, NEW arr \in Arrays, NEW q \in 0 .. n - 1
  PROVE  LET j == LargerChild(arr, n, q)
         IN /\ j \in Nat /\ heap_parent(j) = q /\ q < j
            /\ \A c \in 1 .. n - 1 :
                  heap_parent(c) = q => j < n /\ arr[c] <= arr[j]
<1> DEFINE j == LargerChild(arr, n, q)
           l == 2 * q + 1
           r == 2 * q + 2
<1>1. /\ q \in Nat /\ n \in Nat /\ l \in Nat /\ r \in Nat /\ r = l + 1
      /\ q < l /\ q < r
      /\ \A i \in 0 .. n - 1 : i \in Cells
  BY Ranges
<1>2. heap_parent(l) = q /\ heap_parent(r) = q
  BY <1>1, Parent
<1>3. j = IF l < n - 1 /\ arr[l] < arr[r] THEN r ELSE l
  BY DEF LargerChild
<1>4. ASSUME NEW c \in 1 .. n - 1, heap_parent(c) = q PROVE c = l \/ c = r
  <2>1. c \in Nat /\ c > 0
    BY <1>1
  <2>2. c = 2 * heap_parent(c) + 1 \/ c = 2 * heap_parent(c) + 2
    BY <2>1, Parent
  <2> QED
    BY <1>4, <2>2
<1> HIDE DEF j, l, r
<1>5. ASSUME NEW c \in 1 .. n - 1, heap_parent(c) = q
      PROVE  j < n /\ arr[c] <= arr[j]
  <2>1. c = l \/ c = r
    BY <1>4, <1>5
  <2>2. l \in 0 .. n - 1 /\ (r < n => r \in 0 .. n - 1)
    BY <1>1, <2>1
  <2>3. arr[l] \in Nat /\ (r < n => arr[r] \in Nat)
    BY <1>1, <2>2, CellType
  <2>4. CASE l < n - 1 /\ arr[l] < arr[r]
    BY <1>1, <1>3, <2>1, <2>2, <2>3, <2>4
  <2>5. CASE ~(l < n - 1 /\ arr[l] < arr[r])
    BY <1>1, <1>3, <2>1, <2>2, <2>3, <2>5
  <2> QED
    BY <2>4, <2>5
<1> QED
  BY <1>1, <1>2, <1>3, <1>5 DEF j

LEMMA DownSwap ==
  ASSUME NEW n \in 0 .. MaxSize, NEW arr \in Arrays, NEW q \in 0 .. n - 1,
         NEW j \in 1 .. n - 1, heap_parent(j) = q, q < j,
         \A c \in 1 .. n - 1 : heap_parent(c) = q => arr[c] <= arr[j],
         Distinct(arr, n), DownOrder(arr, n, q), arr[q] < arr[j]
  PROVE  DownOrder(Swap(arr, q, j), n, j)
<1> DEFINE e == Swap(arr, q, j)
<1>1. /\ q \in Nat /\ n \in Nat /\ j \in Nat
      /\ \A i \in 0 .. n - 1 : i \in Cells /\ arr[i] \in Nat
  <2>1. q \in Nat /\ n \in Nat /\ j \in Nat /\ \A i \in 0 .. n - 1 : i \in Cells
    BY Ranges
  <2> QED
    BY <2>1, CellType
<1>2. /\ e[q] = arr[j] /\ e[j] = arr[q]
      /\ \A i \in 0 .. n - 1 : i # q /\ i # j => e[i] = arr[i]
  BY <1>1 DEF Swap
<1>3. \A i \in 1 .. n - 1 : heap_parent(i) \in 0 .. n - 1 /\ heap_parent(i) < i
  BY Parent
<1> HIDE DEF e
<1>4. ASSUME NEW i \in 1 .. n - 1, heap_parent(i) # j
      PROVE  e[i] < e[heap_parent(i)]
  <2>1. CASE i = j
    BY <1>2, <2>1
  <2>2. CASE i # j /\ heap_parent(i) = q
    <3>1. arr[i] <= arr[j] /\ arr[i] # arr[j] /\ i # q
      BY <1>1, <1>3, <2>2 DEF Distinct
    <3>2. arr[i] \in Nat /\ arr[j] \in Nat /\ e[i] = arr[i]
      BY <1>1, <1>2, <2>2, <3>1
    <3> QED
      BY <1>2, <2>2, <3>1, <3>2
  <2>3. CASE i = q
    <3>1. /\ heap_parent(q) \in 0 .. n - 1 /\ heap_parent(q) # q
          /\ heap_parent(q) # j
      BY <1>1, <1>3, <2>3
    <3>2. arr[j] < arr[heap_parent(q)]
      BY <1>1, <2>3 DEF DownOrder
    <3> QED
      BY <1>2, <2>3, <3>1, <3>2
  <2>4. CASE i # j /\ i # q /\ heap_parent(i) # q
    <3>1. arr[i] < arr[heap_parent(i)] /\ e[i] = arr[i]
      BY <1>2, <2>4 DEF DownOrder
    <3>2. e[heap_parent(i)] = arr[heap_parent(i)]
      BY <1>2, <1>3, <1>4, <2>4
    <3> QED
      BY <3>1, <3>2
  <2> QED
    BY <2>1, <2>2, <2>3, <2>4
<1>5. ASSUME NEW i \in 1 .. n - 1, heap_parent(i) = j
      PROVE  e[i] < e[heap_parent(j)]
  <2>1. i # j /\ i # q
    BY <1>1, <1>3, <1>5
  <2>2. arr[i] < arr[j] /\ e[i] = arr[i]
    BY <1>1, <1>2, <1>5, <2>1 DEF DownOrder
  <2> QED
    BY <1>2, <2>2
<1> QED
  BY <1>4, <1>5 DEF DownOrder, e

LEMMA SiftDownTurn ==
  ASSUME NEW n \in 1 .. MaxSize, NEW M, NEW s \in DownStates(n, M)
  PROVE  /\ SiftDownStep(s) \in DownStates(n, M)
         /\ SiftDownStep(s) = s \/ SiftDownStep(s).i > s.i
<1> DEFINE q == s.i
           j == LargerChild(s.arr, s.size, q)
           t == SiftDownStep(s)
<1>1. /\ s.arr \in Arrays /\ q \in 0 .. n - 1 /\ q \in Cells /\ s.temp \in Frames
      /\ s.size = n /\ n \in Nat /\ n \in 0 .. MaxSize
  BY Ranges DEF DownStates
<1>2. j \in Nat /\ heap_parent(j) = q /\ q < j
      /\ \A c \in 1 .. n - 1 : heap_parent(c) = q => s.arr[c] <= s.arr[j]
  BY <1>1, LargerChildIs
<1>3. CASE j < s.size /\ s.temp < s.arr[j]
  <2>1. j \in 1 .. n - 1 /\ j \in 0 .. n - 1 /\ j \in Cells
    BY <1>1, <1>2, <1>3, Ranges
  <2>2. t = [arr |-> [s.arr EXCEPT ![q] = s.arr[j]], size |-> s.size, i |-> j,
             temp |-> s.temp]
    BY <1>3, Zenon DEF SiftDownStep
  <2> HIDE DEF j
  <2>3. /\ t.arr = [s.arr EXCEPT ![q] = s.arr[j]] /\ t.i = j
        /\ t.temp = s.temp /\ t.size = n
        /\ t \in [arr : Arrays, size : {n}, i : 0 .. n - 1, temp : Frames]
    BY <1>1, <2>1, <2>2 DEF Arrays
  <2> DEFINE A == Put(s.arr, q, s.temp)
             B == Put(t.arr, t.i, t.temp)
  <2>4. /\ A \in Arrays /\ A[q] = s.temp
        /\ \A c \in Cells : c # q => A[c] = s.arr[c]
    BY <1>1, PutIs
  <2>5. B = Swap(A, q, j)
    BY <1>1, <1>2, <2>1, <2>3, TurnSwaps
  <2>6. Distinct(A, n) /\ Members(A, n) = M /\ DownOrder(A, n, q)
    BY DEF DownStates
  <2> HIDE DEF t, A, B
  <2>7. Distinct(B, n) /\ Members(B, n) = M
    BY <1>1, <2>1, <2>4, <2>5, <2>6, SwapKeeps
  <2>8. \A c \in 1 .. n - 1 : heap_parent(c) = q => A[c] <= A[j]
    <3>1. A[j] = s.arr[j]
      BY <1>1, <1>2, <2>1, <2>4
    <3>2. ASSUME NEW c \in 1 .. n - 1, heap_parent(c) = q
          PROVE  c \in Cells /\ c # q
      <4>1. c \in Nat /\ c > 0 /\ c < MaxSize
        BY <1>1, Ranges
      <4>2. heap_parent(c) < c
        BY <4>1, Parent
      <4> QED
        BY <1>1, <3>2, <4>1, <4>2, Ranges
    <3> QED
      BY <1>2, <2>4, <3>1, <3>2
  <2>9. A[q] < A[j]
    BY <1>1, <1>2, <1>3, <2>1, <2>4
  <2>10. DownOrder(B, n, j)
    BY <1>1, <1>2, <2>1, <2>4, <2>5, <2>6, <2>8, <2>9, DownSwap
  <2> QED
    BY <1>1, <1>2, <2>1, <2>3, <2>7, <2>10 DEF DownStates, t, B
<1>4. CASE ~(j < s.size /\ s.temp < s.arr[j])
  BY <1>4 DEF SiftDownStep
<1> QED
  BY <1>3, <1>4

(* What heap_SiftDown makes of a heap whose root alone may be misplaced. *)
LEMMA SiftDownSorts ==
  ASSUME NEW n \in 1 .. MaxSize, NEW arr \in Arrays, arr[0] \in Frames,
         Distinct(arr, n), DownOrder(arr, n, 0)
  PROVE  /\ heap_SiftDown(arr, n) \in Arrays
         /\ Members(heap_SiftDown(arr, n), n) = Members(arr, n)
         /\ Distinct(heap_SiftDown(arr, n), n)
         /\ Ordered(heap_SiftDown(arr, n), n)
<1> DEFINE M == Members(arr, n)
           S == DownStates(n, M)
           s0 == [arr |-> arr, size |-> n, i |-> 0, temp |-> arr[0]]
           m == [s \in S |-> MaxSize - s.i]
           z == Loop(SiftDownStep, s0, MaxSize)
           A == Put(z.arr, z.i, z.temp)
<1>1. n \in Nat /\ 0 \in 0 .. n - 1 /\ 0 \in Cells /\ MaxSize \in Nat
      /\ n \in 0 .. MaxSize
  BY Ranges
<1>2. Put(arr, 0, arr[0]) = arr
  BY <1>1 DEF Put, Arrays
<1>3. s0 \in S
  BY <1>1, <1>2 DEF DownStates
<1>4. \A s \in S : s.i \in Nat /\ s.i < MaxSize
  BY <1>1 DEF DownStates
<1>5. m \in [S -> Nat] /\ m[s0] <= MaxSize
  BY <1>1, <1>3, <1>4
<1>6. ASSUME NEW s \in S
      PROVE  /\ SiftDownStep(s) \in S
             /\ SiftDownStep(s) = s \/ m[SiftDownStep(s)] < m[s]
  <2>1. /\ SiftDownStep(s) \in S
        /\ SiftDownStep(s) = s \/ SiftDownStep(s).i > s.i
    BY <1>6, SiftDownTurn
  <2> HIDE DEF S
  <2> QED
    BY <1>1, <1>4, <2>1
<1> HIDE DEF m, s0, S
<1>7. z \in S /\ SiftDownStep(z) = z
  BY <1>1, <1>3, <1>5, <1>6, SiftDownLoop
<1>8. heap_SiftDown(arr, n) = A
  BY DEF heap_SiftDown, Put, s0
<1> HIDE DEF z
<1>9. /\ z.arr \in Arrays /\ z.i \in 0 .. n - 1 /\ z.temp \in Frames /\ z.size = n
      /\ Distinct(A, n) /\ Members(A, n) = M /\ DownOrder(A, n, z.i)
  BY <1>7 DEF S, DownStates
<1>10. z.i \in Cells
  BY <1>9, Ranges
<1>11. /\ A \in Arrays /\ A[z.i] = z.temp
       /\ \A i \in Cells : i # z.i => A[i] = z.arr[i]
  BY <1>9, <1>10, PutIs
<1> HIDE DEF A
<1>12. ASSUME NEW c \in 1 .. n - 1, heap_parent(c) = z.i PROVE A[c] < A[z.i]
  <2> DEFINE j == LargerChild(z.arr, z.size, z.i)
  <2>1. j \in Nat /\ z.i < j /\ j < n /\ z.arr[c] <= z.arr[j]
    BY <1>1, <1>9, <1>12, LargerChildIs
  <2>2. ~(z.temp < z.arr[j])
    <3> SUFFICES ASSUME z.temp < z.arr[j] PROVE FALSE
      OBVIOUS
    <3>1. SiftDownStep(z) = [arr |-> [z.arr EXCEPT ![z.i] = z.arr[j]],
                             size |-> z.size, i |-> j, temp |-> z.temp]
      BY <1>9, <2>1 DEF SiftDownStep
    <3> HIDE DEF j
    <3>2. z.i = j
      BY <1>7, <3>1
    <3> QED
      BY <1>9, <2>1, <3>2
  <2> HIDE DEF j
  <2>3. c \in Nat /\ c > 0 /\ c \in Cells /\ j \in Cells /\ c \in 0 .. n - 1
    BY <1>1, <2>1, Ranges
  <2>4. c # z.i
    <3>1. heap_parent(c) < c
      BY <2>3, Parent
    <3> QED
      BY <1>12, <2>3, <3>1
  <2>5. A[c] = z.arr[c] /\ A[c] # A[z.i]
    BY <1>9, <1>11, <2>3, <2>4 DEF Distinct
  <2>6. z.arr[c] \in Nat /\ z.arr[j] \in Nat /\ z.temp \in Nat
    BY <1>9, <2>3, CellType, Ranges
  <2> QED
    BY <1>11, <2>1, <2>2, <2>5, <2>6
<1>13. Ordered(A, n)
  BY <1>9, <1>12 DEF DownOrder, Ordered
<1> QED
  BY <1>8, <1>9, <1>11, <1>13

-----------------------------------------------------------------------------
(* A heap of frames. *)
IsHeap(h) ==
    /\ h \in [arr : Arrays, size : 0 .. MaxSize]
    /\ Distinct(h.arr, h.size) /\ Ordered(h.arr, h.size)
    /\ Recycled(h) \subseteq Frames

(* heap_insert adds a frame. *)
LEMMA InsertAdds ==
  ASSUME NEW h, IsHeap(h), h.size < MaxSize, NEW x \in Frames,
         x \notin Recycled(h)
  PROVE  /\ IsHeap(heap_insert(h, x))
         /\ heap_insert(h, x).size = h.size + 1
         /\ Recycled(heap_insert(h, x)) = Recycled(h) \cup {x}
<1> DEFINE k == h.size
           n == k + 1
           arr == [h.arr EXCEPT ![k] = x]
           up == heap_SiftUp(arr, k)
<1>1. /\ h.arr \in Arrays /\ k \in Nat /\ k \in Cells /\ n \in 1 .. MaxSize
      /\ n - 1 = k /\ Distinct(h.arr, k) /\ Ordered(h.arr, k)
      /\ Members(h.arr, k) \subseteq Frames /\ x \notin Members(h.arr, k)
      /\ \A i \in 0 .. n - 1 : i \in Cells
  BY Ranges DEF IsHeap, Recycled, Members
<1>2. /\ arr \in Arrays /\ arr[k] = x
      /\ \A i \in 0 .. k - 1 : arr[i] = h.arr[i]
  BY <1>1 DEF Arrays
<1>3. heap_insert(h, x) = [arr |-> up, size |-> n]
  BY DEF heap_insert
<1> HIDE DEF arr
<1>4. Distinct(arr, n)
  <2> SUFFICES ASSUME NEW i \in 0 .. n - 1, NEW j \in 0 .. n - 1,
                      arr[i] = arr[j], i # j
               PROVE  FALSE
    BY DEF Distinct
  <2>1. \A c \in 0 .. n - 1 : c # k => c \in 0 .. k - 1
    BY <1>1
  <2>2. \A c \in 0 .. k - 1 : arr[c] # x
    BY <1>1, <1>2 DEF Members
  <2> QED
    BY <1>1, <1>2, <2>1, <2>2 DEF Distinct
<1>5. Ordered(arr, n - 1)
  <2> SUFFICES ASSUME NEW i \in 1 .. k - 1 PROVE arr[i] < arr[heap_parent(i)]
    BY <1>1 DEF Ordered
  <2>1. i \in Nat /\ i > 0 /\ i \in 0 .. k - 1
    BY <1>1
  <2>2. heap_parent(i) \in Nat /\ heap_parent(i) < i
    BY <2>1, Parent
  <2>3. heap_parent(i) \in 0 .. k - 1
    BY <1>1, <2>1, <2>2
  <2> QED
    BY <1>1, <1>2, <2>1, <2>3 DEF Ordered
<1>6. Members(arr, n) = Members(h.arr, k) \cup {x}
  <2>1. 0 .. n - 1 = (0 .. k - 1) \cup {k}
    BY <1>1
  <2>2. Members(arr, n) = {arr[i] : i \in (0 .. k - 1) \cup {k}}
    BY <2>1, Zenon DEF Members
  <2>3. Members(h.arr, k) = {arr[i] : i \in 0 .. k - 1}
    BY <1>2 DEF Members
  <2> HIDE DEF n, k
  <2> QED
    BY <1>2, <2>2, <2>3
<1>7. /\ up \in Arrays /\ Members(up, n) = Members(arr, n)
      /\ Distinct(up, n) /\ Ordered(up, n)
  BY <1>1, <1>2, <1>4, <1>5, SiftUpSorts
<1> HIDE DEF up
<1>8. heap_insert(h, x).arr = up /\ heap_insert(h, x).size = n
  BY <1>3
<1>9. /\ Recycled(heap_insert(h, x)) = Members(up, n)
      /\ Recycled(h) = Members(h.arr, k)
  BY <1>8 DEF Recycled, Members
<1>10. heap_insert(h, x) \in [arr : Arrays, size : 0 .. MaxSize]
  BY <1>1, <1>3, <1>7
<1> QED
  BY <1>1, <1>6, <1>7, <1>8, <1>9, <1>10 DEF IsHeap

(* heap_removeMax takes the root off; a heap that it empties keeps it in   *)
(* the first cell.                                                         *)
LEMMA RemoveTakesRoot ==
  ASSUME NEW h, IsHeap(h), h.size # 0
  PROVE  /\ IsHeap(heap_removeMax(h))
         /\ heap_removeMax(h).size = h.size - 1
         /\ Recycled(heap_removeMax(h)) = Recycled(h) \ {h.arr[0]}
         /\ h.size = 1 => heap_removeMax(h).arr[0] = h.arr[0]
<1> DEFINE k == h.size
           n == k - 1
           arr == [h.arr EXCEPT ![0] = h.arr[n], ![n] = h.arr[0]]
           down == IF n > 1 THEN heap_SiftDown(arr, n) ELSE arr
<1>1. /\ h.arr \in Arrays /\ k \in Nat /\ k \in 0 .. MaxSize /\ n \in Nat
      /\ n \in 0 .. MaxSize /\ n < k
      /\ 0 \in 0 .. k - 1 /\ n \in 0 .. k - 1 /\ 0 \in Cells /\ n \in Cells
      /\ Distinct(h.arr, k) /\ Ordered(h.arr, k)
      /\ Members(h.arr, k) \subseteq Frames
      /\ \A i \in 0 .. k - 1 : i \in Cells
  BY Ranges DEF IsHeap, Recycled, Members
<1>2. arr = Swap(h.arr, 0, n)
  <2>1. \A i \in Cells : arr[i] = Swap(h.arr, 0, n)[i]
    BY <1>1 DEF Swap, Arrays
  <2>2. arr = [i \in Cells |-> arr[i]]
    BY <1>1 DEF Arrays
  <2>3. Swap(h.arr, 0, n) = [i \in Cells |-> Swap(h.arr, 0, n)[i]]
    BY DEF Swap
  <2> QED
    BY <2>1, <2>2, <2>3
<1>3. heap_removeMax(h) = [arr |-> down, size |-> n]
  BY DEF heap_removeMax
<1>4. /\ arr[0] = h.arr[n] /\ arr[n] = h.arr[0]
      /\ \A i \in 0 .. k - 1 : i # 0 /\ i # n => arr[i] = h.arr[i]
  BY <1>1, <1>2 DEF Swap
<1>5. arr \in Arrays /\ Members(arr, k) = Members(h.arr, k) /\ Distinct(arr, k)
  BY <1>1, <1>2, SwapKeeps
<1> HIDE DEF arr
<1>6. Distinct(arr, n)
  BY <1>1, <1>5 DEF Distinct
<1>7. Members(arr, n) = Members(h.arr, k) \ {h.arr[0]}
  <2>1. 0 .. k - 1 = (0 .. n - 1) \cup {n} /\ n \notin 0 .. n - 1
    BY <1>1
  <2>2. Members(arr, k) = Members(arr, n) \cup {h.arr[0]}
    BY <1>4, <2>1 DEF Members
  <2>3. \A i \in 0 .. n - 1 : arr[i] # arr[n]
    BY <1>1, <1>5, <2>1 DEF Distinct
  <2>4. h.arr[0] \notin Members(arr, n)
    BY <1>4, <2>3 DEF Members
  <2> QED
    BY <1>5, <2>2, <2>4
<1>8. /\ down \in Arrays /\ Members(down, n) = Members(arr, n)
      /\ Distinct(down, n) /\ Ordered(down, n)
  <2>1. CASE n > 1
    <3>1. n \in 1 .. MaxSize
      BY <1>1, <2>1
    <3>2. arr[0] \in Frames
      BY <1>1, <1>4 DEF Members
    <3>3. ASSUME NEW i \in 1 .. n - 1, heap_parent(i) # 0
          PROVE  arr[i] < arr[heap_parent(i)]
      <4>1. i \in Nat /\ i > 0 /\ i # n /\ i \in 1 .. k - 1 /\ i \in 0 .. k - 1
        BY <1>1
      <4>2. heap_parent(i) \in Nat /\ heap_parent(i) < i
        BY <4>1, Parent
      <4>3. heap_parent(i) \in 0 .. k - 1 /\ heap_parent(i) # n
        BY <1>1, <4>1, <4>2
      <4> QED
        BY <1>1, <1>4, <3>3, <4>1, <4>3 DEF Ordered
    <3>4. DownOrder(arr, n, 0)
      BY <3>3 DEF DownOrder
    <3> QED
      BY <1>5, <1>6, <2>1, <3>1, <3>2, <3>4, SiftDownSorts
  <2>2. CASE ~(n > 1)
    <3>1. 1 .. n - 1 = {}
      BY <1>1, <2>2
    <3> QED
      BY <1>5, <1>6, <2>2, <3>1 DEF Ordered
  <2> QED
    BY <2>1, <2>2
<1>9. k = 1 => down[0] = h.arr[0]
  BY <1>4
<1> HIDE DEF down
<1>10. heap_removeMax(h).arr = down /\ heap_removeMax(h).size = n
  BY <1>3
<1>11. /\ Recycled(heap_removeMax(h)) = Members(down, n)
       /\ Recycled(h) = Members(h.arr, k)
  BY <1>10 DEF Recycled, Members
<1>12. heap_removeMax(h) \in [arr : Arrays, size : 0 .. MaxSize]
  BY <1>1, <1>3, <1>8
<1> QED
  BY <1>1, <1>7, <1>8, <1>9, <1>10, <1>11, <1>12 DEF IsHeap

(* heap_top is the largest frame of the heap. *)
LEMMA RootIsMax ==
  ASSUME NEW h, IsHeap(h), NEW x \in Recycled(h)
  PROVE  h.size # 0 /\ h.arr[0] \in Recycled(h) /\ x <= h.arr[0]
<1> DEFINE n == h.size
           arr == h.arr
           Bad == {i \in 0 .. n - 1 : ~(arr[i] <= arr[0])}
<1>1. /\ arr \in Arrays /\ n \in Nat /\ n <= MaxSize /\ Ordered(arr, n)
      /\ \A i \in 0 .. n - 1 : i \in Cells
  BY Ranges DEF IsHeap
<1>2. PICK i \in 0 .. n - 1 : x = arr[i]
  BY DEF Recycled
<1>3. n # 0 /\ 0 \in 0 .. n - 1
  BY <1>1, <1>2
<1>4. arr[0] \in Recycled(h)
  BY <1>3 DEF Recycled
<1>5. \A j \in 0 .. n - 1 : arr[j] \in Nat
  BY <1>1, CellType
<1>6. Bad = {}
  <2> SUFFICES ASSUME Bad # {} PROVE FALSE
    OBVIOUS
  <2>1. Bad \subseteq Nat
    BY <1>1
  <2>2. PICK b \in Bad : \A y \in Bad : b <= y
    <3> HIDE DEF Bad
    <3> QED
      BY <2>1, Smallest
  <2>3. b \in 1 .. n - 1 /\ b \in Nat /\ b > 0
    BY <1>1, <1>3, <1>5, <2>2
  <2>4. heap_parent(b) \in Nat /\ heap_parent(b) < b
    BY <2>3, Parent
  <2>5. heap_parent(b) \in 0 .. n - 1 /\ heap_parent(b) \notin Bad
    BY <1>1, <2>2, <2>3, <2>4
  <2>6. arr[b] < arr[heap_parent(b)] /\ arr[heap_parent(b)] <= arr[0]
    BY <1>1, <2>3, <2>5 DEF Ordered
  <2>7. arr[b] \in Nat /\ arr[heap_parent(b)] \in Nat /\ arr[0] \in Nat
    BY <1>3, <1>5, <2>3, <2>5
  <2>8. arr[b] <= arr[0]
    <3> HIDE DEF arr
    <3> QED
      BY <2>6, <2>7
  <2> QED
    BY <2>2, <2>8
<1> QED
  BY <1>2, <1>3, <1>4, <1>6

-----------------------------------------------------------------------------
(* The loop of frame_dealloc.  F is the set of free frames it starts from, *)
(* c the boundary.  When it empties the heap the first cell still holds    *)
(* the frame it took off last, which is the boundary itself.               *)
TrimStates(F, c) ==
    {s \in [heap : {h \in [arr : Arrays, size : 0 .. MaxSize] : IsHeap(h)},
            current : start .. c, stuck : {FALSE}] :
        /\ s.current .. c - 1 \subseteq F
        /\ Recycled(s.heap) = F \ (s.current .. c - 1)
        /\ s.heap.size = 0 => s.heap.arr[0] = s.current}

LEMMA TrimTurn ==
  ASSUME NEW c \in start .. end, NEW F, F \subseteq start .. c - 1,
         NEW s \in TrimStates(F, c)
  PROVE  /\ TrimStep(s) \in TrimStates(F, c)
         /\ \/ TrimStep(s) = s /\ s.heap.arr[0] # s.current - 1
            \/ TrimStep(s) # s /\ TrimStep(s).heap.size < s.heap.size
<1> DEFINE h == s.heap
           b == s.current
           g == heap_removeMax(h)
           t == TrimStep(s)
<1>1. /\ IsHeap(h) /\ b \in start .. c /\ b .. c - 1 \subseteq F
      /\ Recycled(h) = F \ (b .. c - 1) /\ (h.size = 0 => h.arr[0] = b)
      /\ h.size \in Nat /\ start \in Nat /\ c \in Nat /\ b \in Nat
      /\ ~s.stuck
  <2>1. /\ h \in {e \in [arr : Arrays, size : 0 .. MaxSize] : IsHeap(e)}
        /\ b \in start .. c /\ s.stuck = FALSE
        /\ b .. c - 1 \subseteq F
        /\ Recycled(h) = F \ (b .. c - 1) /\ (h.size = 0 => h.arr[0] = b)
    BY DEF TrimStates
  <2>2. start \in Nat /\ end \in Nat /\ MaxSize \in Nat
    BY Ranges
  <2>3. h.size \in Nat
    BY <2>1, <2>2
  <2>4. c \in Nat /\ b \in Nat
    BY <2>1, <2>2
  <2> QED
    BY <2>1, <2>2, <2>3, <2>4
<1>2. CASE h.arr[0] # b - 1
  BY <1>2 DEF TrimStep
<1>3. CASE h.arr[0] = b - 1
  <2>1. h.size # 0
    BY <1>1, <1>3
  <2>2. t = [heap |-> g, current |-> b - 1, stuck |-> FALSE]
    BY <1>1, <1>3, <2>1 DEF TrimStep
  <2>3. /\ IsHeap(g) /\ g.size = h.size - 1
        /\ Recycled(g) = Recycled(h) \ {b - 1}
        /\ h.size = 1 => g.arr[0] = b - 1
    BY <1>1, <1>3, <2>1, RemoveTakesRoot
  <2> HIDE DEF g, t
  <2>4. b - 1 \in Recycled(h)
    <3>1. 0 \in 0 .. h.size - 1
      BY <1>1, <2>1
    <3> QED
      BY <1>3, <3>1 DEF Recycled
  <2>5. b - 1 \in start .. c /\ b - 1 \in F
    BY <1>1, <2>4
  <2>6. (b - 1) .. c - 1 = (b .. c - 1) \cup {b - 1}
    BY <1>1, <2>5
  <2>7. /\ (b - 1) .. c - 1 \subseteq F
        /\ Recycled(g) = F \ ((b - 1) .. c - 1)
    BY <1>1, <2>3, <2>5, <2>6
  <2>8. g.size = 0 => g.arr[0] = b - 1
    BY <1>1, <2>3
  <2>9. g \in [arr : Arrays, size : 0 .. MaxSize]
    BY <2>3 DEF IsHeap
  <2>10. t.heap = g /\ t.current = b - 1
    BY <2>2
  <2>11. t \in TrimStates(F, c)
    BY <2>2, <2>3, <2>5, <2>7, <2>8, <2>9, <2>10 DEF TrimStates
  <2>12. t # s
    BY <1>1, <2>10
  <2> QED
    BY <1>1, <2>3, <2>10, <2>11, <2>12 DEF t
<1> QED
  BY <1>2, <1>3

(* What the loop leaves: it never reads a stale cell as a frame, and stops *)
(* at the lowest boundary.                                                 *)
LEMMA TrimLowers ==
  ASSUME NEW h, IsHeap(h), h.size # 0, current \in start .. end,
         Recycled(h) \subseteq start .. current - 1
  PROVE  LET t == Trim(h)
         IN /\ ~t.stuck /\ IsHeap(t.heap)
            /\ t.current \in start .. current
            /\ t.current .. current - 1 \subseteq Recycled(h)
            /\ t.current = start \/ t.current - 1 \notin Recycled(h)
            /\ Recycled(t.heap) = Recycled(h) \ (t.current .. current - 1)
<1> DEFINE F == Recycled(h)
           S == TrimStates(F, current)
           s0 == [heap |-> h, current |-> current, stuck |-> FALSE]
           m == [s \in S |-> s.heap.size]
           N == MaxSize + 1
           z == Loop(TrimStep, s0, N)
<1>1. /\ h \in [arr : Arrays, size : 0 .. MaxSize] /\ N \in Nat
      /\ MaxSize \in Nat /\ start \in Nat /\ current \in Nat
      /\ current \in start .. current /\ current .. current - 1 = {}
      /\ h.size <= N
  <2>1. start \in Nat /\ end \in Nat /\ MaxSize \in Nat
    BY Ranges
  <2>2. h \in [arr : Arrays, size : 0 .. MaxSize]
    BY DEF IsHeap
  <2> QED
    BY <2>1, <2>2
<1>2. s0 \in S
  BY <1>1 DEF TrimStates
<1>3. \A s \in S : s.heap.size \in Nat
  BY <1>1 DEF TrimStates
<1>4. m \in [S -> Nat] /\ m[s0] <= N
  BY <1>1, <1>2, <1>3
<1>5. ASSUME NEW s \in S
      PROVE  /\ TrimStep(s) \in S
             /\ TrimStep(s) = s \/ m[TrimStep(s)] < m[s]
  <2>1. /\ TrimStep(s) \in S
        /\ TrimStep(s) = s \/ TrimStep(s).heap.size < s.heap.size
    BY <1>5, TrimTurn
  <2> HIDE DEF S
  <2> QED
    BY <2>1
<1> HIDE DEF m, s0, S, N
<1>6. z \in S /\ TrimStep(z) = z
  <2>1. N \in Nat
    BY <1>1
  <2> QED
    BY <1>2, <1>4, <1>5, <2>1, TrimLoop, Zenon
<1>7. Trim(h) = z
  BY DEF Trim, s0, N
<1> HIDE DEF z
<1>8. z.heap.arr[0] # z.current - 1
  BY <1>6, TrimTurn DEF S
<1>9. /\ z.heap \in {e \in [arr : Arrays, size : 0 .. MaxSize] : IsHeap(e)}
      /\ z.current \in start .. current /\ z.stuck = FALSE
      /\ z.current .. current - 1 \subseteq F
      /\ Recycled(z.heap) = F \ (z.current .. current - 1)
  BY <1>6 DEF S, TrimStates
<1>10. IsHeap(z.heap)
  BY <1>9
<1>11. z.current - 1 \notin F
  <2> SUFFICES ASSUME z.current - 1 \in F PROVE FALSE
    OBVIOUS
  <2>1. z.current \in Nat /\ z.current <= current
    BY <1>1, <1>9
  <2>2. z.current - 1 \in Recycled(z.heap)
    BY <1>1, <1>9, <2>1
  <2>3. z.heap.arr[0] \in Recycled(z.heap) /\ z.current - 1 <= z.heap.arr[0]
    BY <1>10, <2>2, RootIsMax
  <2>4. /\ z.heap.arr[0] \in start .. current - 1
        /\ z.heap.arr[0] \notin z.current .. current - 1
    BY <1>9, <2>3
  <2> QED
    BY <1>1, <1>8, <2>1, <2>3, <2>4
<1> QED
  BY <1>7, <1>9, <1>10, <1>11

-----------------------------------------------------------------------------
(* The invariant of the allocator: the array is a heap of distinct frames, *)
(* and these and the frames in use are what lies below the boundary.       *)
FrameInv ==
    /\ TypeOK /\ IsHeap(heap)
    /\ used \cap Recycled(heap) = {}
    /\ used \cup Recycled(heap) = start .. current - 1

LEMMA FrameInvParts ==
  ASSUME FrameInv
  PROVE  /\ start \in Nat /\ end \in Nat /\ MaxSize \in Nat
         /\ current \in Nat /\ start <= current /\ current <= end
         /\ CurrentSize \in Nat /\ CurrentSize <= MaxSize
         /\ heapArray \in Arrays /\ used \subseteq Frames
         /\ heap.arr = heapArray /\ heap.size = CurrentSize
         /\ Recycled(heap) = Members(heapArray, CurrentSize)
         /\ Recycled(heap) \subseteq Frames
<1>1. start \in Nat /\ end \in Nat /\ MaxSize \in Nat
  BY Ranges
<1>2. heap.arr = heapArray /\ heap.size = CurrentSize
  BY DEF heap
<1>3. Recycled(heap) = Members(heapArray, CurrentSize)
  BY <1>2 DEF Recycled, Members
<1> QED
  BY <1>1, <1>2, <1>3 DEF FrameInv, TypeOK, Arrays, IsHeap

(* A heap whose array is full holds every frame. *)
LEMMA FullHeap ==
  ASSUME NEW h, IsHeap(h), h.size = MaxSize
  PROVE  Recycled(h) = Frames
<1>1. /\ h.arr \in Arrays /\ Distinct(h.arr, MaxSize)
      /\ Recycled(h) \subseteq Frames /\ Recycled(h) = {h.arr[i] : i \in Cells}
  BY DEF IsHeap, Recycled, Cells
<1>2. h.arr \in [Cells -> Frames]
  BY <1>1 DEF Arrays
<1>3. h.arr \in Injection(Cells, Frames)
  BY <1>1, <1>2 DEF Distinct, Injection, IsInjective, Cells
<1>4. /\ IsFiniteSet(Frames) /\ IsFiniteSet(Cells)
      /\ Cardinality(Frames) = Cardinality(Cells)
  <2>1. /\ start \in Int /\ end - 1 \in Int /\ 0 \in Int /\ MaxSize - 1 \in Int
        /\ start <= end - 1 /\ 0 <= MaxSize - 1 /\ MaxSize = end - start
    BY PageRangeAssumption DEF MaxSize
  <2>2. /\ IsFiniteSet(start .. end - 1)
        /\ Cardinality(start .. end - 1) = (end - 1) - start + 1
    BY <2>1, FS_Interval, SMTT(30)
  <2>3. /\ IsFiniteSet(0 .. MaxSize - 1)
        /\ Cardinality(0 .. MaxSize - 1) = (MaxSize - 1) - 0 + 1
    BY <2>1, FS_Interval, SMTT(30)
  <2>4. IsFiniteSet(Frames) /\ Cardinality(Frames) = (end - 1) - start + 1
    BY <2>2, Zenon DEF Frames
  <2>5. IsFiniteSet(Cells) /\ Cardinality(Cells) = (MaxSize - 1) - 0 + 1
    BY <2>3, Zenon DEF Cells
  <2>6. (end - 1) - start + 1 = (MaxSize - 1) - 0 + 1
    BY <2>1, PageRangeAssumption
  <2> QED
    BY <2>4, <2>5, <2>6
<1>5. h.arr \in Surjection(Cells, Frames)
  BY <1>3, <1>4, FS_Injection
<1>6. \A x \in Frames : \E i \in Cells : h.arr[i] = x
  BY <1>5 DEF Surjection
<1> QED
  BY <1>1, <1>6

(* frame_dealloc's test finds exactly the frames nobody owns. *)
LEMMA RejectedIs ==
  ASSUME FrameInv, NEW ppn \in Frames
  PROVE  Rejected(ppn) <=> ppn \notin used
<1>1. ppn \in Nat /\ start <= ppn
  BY Ranges
<1>2. /\ start \in Nat /\ current \in Nat
      /\ used \cap Recycled(heap) = {}
      /\ used \cup Recycled(heap) = start .. current - 1
  BY FrameInvParts DEF FrameInv
<1>3. ppn \in start .. current - 1 <=> ~(ppn >= current)
  BY <1>1, <1>2
<1> QED
  BY <1>2, <1>3 DEF Rejected

LEMMA FrameInvInit == Init => FrameInv /\ Pool!PoolInit
<1> SUFFICES ASSUME Init PROVE FrameInv /\ Pool!PoolInit
  OBVIOUS
<1>1. start \in Nat /\ end \in Nat /\ MaxSize \in Nat /\ start < end
  BY Ranges, PageRangeAssumption
<1>2. /\ heapArray \in Arrays /\ CurrentSize = 0 /\ current = start
      /\ used = {} /\ panicked = "no"
  BY DEF Init, Arrays
<1>3. heap.arr = heapArray /\ heap.size = 0 /\ 0 .. 0 - 1 = {} /\ 1 .. 0 - 1 = {}
  BY <1>2 DEF heap
<1>4. Recycled(heap) = {}
  BY <1>3 DEF Recycled
<1>5. heap \in [arr : Arrays, size : 0 .. MaxSize]
  BY <1>1, <1>2 DEF heap
<1>6. IsHeap(heap)
  BY <1>3, <1>4, <1>5 DEF IsHeap, Distinct, Ordered
<1>7. TypeOK
  BY <1>1, <1>2 DEF TypeOK, Arrays
<1>8. start .. current - 1 = {}
  BY <1>1, <1>2
<1> QED
  BY <1>2, <1>4, <1>6, <1>7, <1>8 DEF FrameInv, Pool!PoolInit

(* The last cell is a leaf: without it the rest is a heap still. *)
LEMMA AllocRecycledStep ==
  ASSUME FrameInv, AllocRecycled
  PROVE  FrameInv' /\ Pool!PoolNext
<1> DEFINE k == CurrentSize - 1
           x == heapArray[k]
<1>1. /\ CurrentSize \in Nat /\ CurrentSize <= MaxSize /\ MaxSize \in Nat
      /\ heapArray \in Arrays
      /\ heap.arr = heapArray /\ heap.size = CurrentSize
      /\ Recycled(heap) = Members(heapArray, CurrentSize)
      /\ Recycled(heap) \subseteq Frames
      /\ used \subseteq Frames
      /\ Distinct(heapArray, CurrentSize) /\ Ordered(heapArray, CurrentSize)
  BY FrameInvParts DEF FrameInv, IsHeap
<1>2. /\ CurrentSize # 0 /\ CurrentSize' = k /\ used' = used \cup {x}
      /\ heapArray' = heapArray /\ current' = current
      /\ panicked' = panicked /\ panicked = "no"
  BY DEF AllocRecycled, Running
<1>3. k \in Nat /\ k \in 0 .. MaxSize /\ k < CurrentSize
      /\ 0 .. CurrentSize - 1 = (0 .. k - 1) \cup {k} /\ k \notin 0 .. k - 1
  BY <1>1, <1>2
<1>4. /\ heap'.arr = heapArray /\ heap'.size = k
      /\ Recycled(heap)' = Members(heapArray, k)
  BY <1>2 DEF heap, Recycled, Members
<1>5. Distinct(heapArray, k) /\ Ordered(heapArray, k)
  BY <1>1, <1>3 DEF Distinct, Ordered
<1>6. /\ Members(heapArray, CurrentSize) = Members(heapArray, k) \cup {x}
      /\ x \notin Members(heapArray, k)
  <2>1. Members(heapArray, CurrentSize)
          = {heapArray[i] : i \in (0 .. k - 1) \cup {k}}
    BY <1>3, Zenon DEF Members
  <2>2. Members(heapArray, k) = {heapArray[i] : i \in 0 .. k - 1}
    BY DEF Members
  <2>3. \A i \in 0 .. k - 1 : heapArray[i] # x
    BY <1>1, <1>3 DEF Distinct
  <2> HIDE DEF k
  <2> QED
    BY <2>1, <2>2, <2>3
<1> HIDE DEF x, k
<1>7. heap' \in [arr : Arrays, size : 0 .. MaxSize]
  BY <1>1, <1>2, <1>3 DEF heap
<1>8. IsHeap(heap')
  BY <1>1, <1>4, <1>5, <1>6, <1>7, Zenon DEF IsHeap, Recycled, Members
<1>9. Recycled(heap)' = Recycled(heap) \ {x} /\ x \in Recycled(heap)
  BY <1>1, <1>4, <1>6
<1>10. x \in Frames
  BY <1>1, <1>9
<1>11. TypeOK'
  BY <1>1, <1>2, <1>3, <1>10 DEF FrameInv, TypeOK
<1>12. FrameInv'
  BY <1>2, <1>8, <1>9, <1>11 DEF FrameInv
<1>13. Pool!PoolAlloc(x)
  BY <1>2, <1>9 DEF Pool!PoolAlloc
<1> QED
  BY <1>10, <1>12, <1>13 DEF Pool!PoolNext, Pool!Frames, Frames

LEMMA AllocFreshStep ==
  ASSUME FrameInv, AllocFresh
  PROVE  FrameInv' /\ Pool!PoolNext
<1>1. /\ start \in Nat /\ end \in Nat /\ current \in Nat /\ start <= current
      /\ current <= end /\ heap.size = CurrentSize
      /\ Recycled(heap) = Members(heapArray, CurrentSize)
  BY FrameInvParts
<1>2. /\ CurrentSize = 0 /\ current # end /\ current' = current + 1
      /\ used' = used \cup {current} /\ heapArray' = heapArray
      /\ CurrentSize' = CurrentSize /\ panicked' = panicked /\ panicked = "no"
  BY DEF AllocFresh, Running
<1>3. heap' = heap /\ Recycled(heap)' = Recycled(heap)
  BY <1>2 DEF heap, Recycled
<1>4. Recycled(heap) = {}
  <2>1. 0 .. 0 - 1 = {}
    OBVIOUS
  <2> QED
    BY <1>1, <1>2, <2>1 DEF Members
<1>5. /\ current < end /\ current \in Frames /\ current + 1 \in start .. end
      /\ start .. (current + 1) - 1 = (start .. current - 1) \cup {current}
      /\ current \notin start .. current - 1
  BY <1>1, <1>2 DEF Frames
<1>6. TypeOK'
  BY <1>2, <1>5 DEF FrameInv, TypeOK
<1>7. FrameInv'
  <2>1. used' = start .. current' - 1
    BY <1>2, <1>4, <1>5 DEF FrameInv
  <2> QED
    BY <1>3, <1>4, <1>6, <2>1 DEF FrameInv
<1>8. Pool!PoolAlloc(current)
  BY <1>2, <1>3, <1>4, <1>5 DEF Pool!PoolAlloc
<1> QED
  BY <1>5, <1>7, <1>8 DEF Pool!PoolNext, Pool!Frames, Frames

LEMMA PanicStep ==
  ASSUME FrameInv, NEW why, Panic(why)
  PROVE  FrameInv' /\ UNCHANGED <<current, Recycled(heap), used>>
<1>1. /\ heap' = heap /\ current' = current /\ used' = used
      /\ heapArray' = heapArray /\ CurrentSize' = CurrentSize
  BY DEF Panic, heap
<1>2. Recycled(heap)' = Recycled(heap)
  BY <1>1 DEF Recycled
<1> QED
  BY <1>1, <1>2 DEF FrameInv, TypeOK

LEMMA AllocExhaustedStep ==
  ASSUME FrameInv, AllocExhausted
  PROVE  FrameInv' /\ Pool!PoolNext
<1>1. FrameInv' /\ UNCHANGED <<current, Recycled(heap), used>>
  BY PanicStep DEF AllocExhausted
<1>2. Recycled(heap) = {}
  <2>1. 0 .. 0 - 1 = {}
    OBVIOUS
  <2> QED
    BY <2>1, FrameInvParts DEF AllocExhausted, Members
<1> QED
  BY <1>1, <1>2 DEF AllocExhausted, Running, Panic, Pool!PoolNext,
                    Pool!PoolExhausted

LEMMA DeallocRejectedStep ==
  ASSUME FrameInv, NEW ppn \in Frames, DeallocRejected(ppn)
  PROVE  FrameInv' /\ Pool!PoolNext
<1>1. FrameInv' /\ UNCHANGED <<current, Recycled(heap), used>>
  BY PanicStep DEF DeallocRejected
<1>2. ppn \notin used
  BY RejectedIs DEF DeallocRejected
<1>3. Pool!PoolMisuse(ppn)
  BY <1>1, <1>2 DEF DeallocRejected, Running, Panic, Pool!PoolMisuse
<1> QED
  BY <1>1, <1>3 DEF Pool!PoolNext, Pool!Frames, Frames

(* A frame that is in use comes back: there is room for it, the loop ends  *)
(* without a panic, and what it takes off the heap lies above the new      *)
(* boundary.                                                               *)
LEMMA DeallocStep ==
  ASSUME FrameInv, NEW ppn \in Frames, Dealloc(ppn)
  PROVE  FrameInv' /\ Pool!PoolNext
<1> DEFINE g == heap_insert(heap, ppn)
           t == Trim(g)
           c == t.current
           F == Recycled(heap) \cup {ppn}
<1>1. /\ start \in Nat /\ end \in Nat /\ MaxSize \in Nat /\ current \in Nat
      /\ start <= current /\ current <= end
      /\ CurrentSize \in Nat /\ CurrentSize <= MaxSize
      /\ heap.size = CurrentSize /\ IsHeap(heap) /\ used \subseteq Frames
      /\ Recycled(heap) \subseteq Frames
      /\ used \cap Recycled(heap) = {}
      /\ used \cup Recycled(heap) = start .. current - 1
  BY FrameInvParts DEF FrameInv
<1>2. ppn \in used /\ ppn \notin Recycled(heap) /\ F \subseteq start .. current - 1
  BY <1>1, RejectedIs DEF Dealloc
<1>3. CurrentSize # MaxSize
  BY <1>1, <1>2, FullHeap
<1>4. IsHeap(g) /\ g.size = CurrentSize + 1 /\ Recycled(g) = F
  BY <1>1, <1>2, <1>3, InsertAdds
<1> HIDE DEF g
<1>5. /\ ~t.stuck /\ IsHeap(t.heap) /\ c \in start .. current
      /\ c .. current - 1 \subseteq F
      /\ c = start \/ c - 1 \notin F
      /\ Recycled(t.heap) = F \ (c .. current - 1)
  <2>1. g.size # 0 /\ current \in start .. end
    BY <1>1, <1>4
  <2> QED
    BY <1>2, <1>4, <2>1, TrimLowers
<1>6. /\ heapArray' = t.heap.arr /\ CurrentSize' = t.heap.size
      /\ current' = c /\ used' = used \ {ppn} /\ panicked' = panicked
      /\ panicked = "no"
  BY <1>3, <1>5, Zenon DEF Dealloc, Running, g
<1> HIDE DEF t
<1>7. t.heap \in [arr : Arrays, size : 0 .. MaxSize]
  BY <1>5 DEF IsHeap
<1>8. heap' = t.heap
  BY <1>6, <1>7 DEF heap
<1>9. Recycled(heap)' = F \ (c .. current - 1)
  <2>1. Recycled(heap)' = Recycled(heap')
    BY DEF Recycled
  <2> QED
    BY <1>5, <1>8, <2>1
<1> HIDE DEF c
<1>10. c \in Nat /\ start <= c /\ c <= current
  BY <1>1, <1>5
<1>11. TypeOK'
  <2>1. current' \in start .. end /\ used' \subseteq Frames
    BY <1>1, <1>6, <1>10
  <2>2. heapArray' \in Arrays /\ CurrentSize' \in 0 .. MaxSize
    BY <1>6, <1>7
  <2> QED
    BY <2>1, <2>2 DEF TypeOK, Arrays
<1>12. start .. c - 1 = (start .. current - 1) \ (c .. current - 1)
  BY <1>1, <1>10
<1>13. /\ used' \cap Recycled(heap)' = {}
       /\ used' \cup Recycled(heap)' = start .. c - 1
  BY <1>1, <1>2, <1>5, <1>6, <1>9, <1>12
<1>14. FrameInv'
  <2>1. IsHeap(heap)'
    <3>1. IsHeap(heap')
      BY <1>5, <1>8
    <3> QED
      BY <3>1 DEF IsHeap, Recycled
  <2> QED
    BY <1>6, <1>11, <1>13, <2>1 DEF FrameInv
<1>15. Pool!Boundary(c, F)
  BY <1>5 DEF Pool!Boundary
<1>16. Pool!PoolDealloc(ppn)
  BY <1>2, <1>5, <1>6, <1>9, <1>15 DEF Pool!PoolDealloc
<1> QED
  BY <1>14, <1>16 DEF Pool!PoolNext, Pool!Frames, Frames

LEMMA FrameInvNext ==
  ASSUME FrameInv, [Next]_vars
  PROVE  FrameInv' /\ [Pool!PoolNext]_(Pool!poolVars)
<1>1. CASE Next
  BY <1>1, AllocRecycledStep, AllocFreshStep, AllocExhaustedStep,
     DeallocRejectedStep, DeallocStep DEF Next
<1>2. CASE UNCHANGED vars
  <2>1. /\ heap' = heap /\ current' = current /\ used' = used
        /\ heapArray' = heapArray /\ CurrentSize' = CurrentSize
        /\ panicked' = panicked
    BY <1>2 DEF vars, heap
  <2>2. Recycled(heap)' = Recycled(heap)
    BY <2>1 DEF Recycled
  <2> QED
    BY <2>1, <2>2 DEF FrameInv, TypeOK, IsHeap, Pool!poolVars
<1> QED
  BY <1>1, <1>2

-----------------------------------------------------------------------------
(* FrameInv holds in every state, for every range of frames. *)
THEOREM FrameInvCorrect == Spec => []FrameInv
<1>1. Init => FrameInv
  BY FrameInvInit
<1>2. FrameInv /\ [Next]_vars => FrameInv'
  BY FrameInvNext
<1> QED
  BY <1>1, <1>2, PTL DEF Spec

(* The boundary stays within the memory and the heap within its array. *)
THEOREM TypeCorrect == Spec => []TypeOK
<1>1. FrameInv => TypeOK
  BY DEF FrameInv
<1> QED
  BY <1>1, FrameInvCorrect, PTL

(* The sifts of max_heap.c, and frame_alloc's shortcut past them, keep     *)
(* every cell below its parent.                                            *)
THEOREM HeapStaysOrdered == Spec => []HeapOrdered
<1>1. FrameInv => HeapOrdered
  BY FrameInvParts DEF FrameInv, IsHeap, Ordered, HeapOrdered
<1> QED
  BY <1>1, FrameInvCorrect, PTL

(* The allocator of mm_frame_allocator.c implements the pool: its panics   *)
(* are the pool's, and each frame_alloc and frame_dealloc is one step of   *)
(* it.                                                                     *)
THEOREM AllocatorIsPool == Spec => ImplementsPool
<1>1. Init => Pool!PoolInit
  BY FrameInvInit
<1>2. FrameInv /\ [Next]_vars => [Pool!PoolNext]_(Pool!poolVars)
  BY FrameInvNext
<1> QED
  BY <1>1, <1>2, FrameInvCorrect, PTL DEF Spec, ImplementsPool, Pool!PoolSpec

(* So what FramePool promises holds of the code: no frame is in use twice, *)
(* none is lost, and the boundary is as low as it can be.                  *)
THEOREM AllocatorKeepsPromises == Spec => [](Pool!Conserved /\ Pool!Trimmed)
<1>1. FrameInv => Pool!Conserved
  BY DEF FrameInv, Pool!Conserved
<1>2. Init => Pool!Trimmed
  BY PageRangeAssumption DEF Init, Pool!Trimmed
<1>3. ASSUME FrameInv, Pool!Trimmed, [Next]_vars PROVE Pool!Trimmed'
  <2>1. FrameInv' /\ [Pool!PoolNext]_(Pool!poolVars)
    BY <1>3, FrameInvNext
  <2>2. /\ start \in Nat /\ current \in Nat /\ start <= current
        /\ current' \in Nat
        /\ used' \cup Recycled(heap)' = start .. current' - 1
    <3>1. start \in Nat /\ current \in Nat /\ start <= current
      BY <1>3, FrameInvParts
    <3>2. TypeOK' /\ used' \cup Recycled(heap)' = start .. current' - 1
      BY <2>1 DEF FrameInv
    <3> QED
      BY <3>1, <3>2, Ranges DEF TypeOK
  <2>3. ASSUME NEW ppn \in Frames, Pool!PoolAlloc(ppn) PROVE Pool!Trimmed'
    <3>1. used \subseteq used' /\ ppn \in used'
      BY <2>3 DEF Pool!PoolAlloc
    <3>2. CASE current' = current
      BY <1>3, <3>1, <3>2 DEF Pool!Trimmed
    <3>3. CASE current' = current + 1 /\ ppn = current
      BY <2>2, <3>1, <3>3 DEF Pool!Trimmed
    <3> QED
      BY <2>3, <3>2, <3>3 DEF Pool!PoolAlloc
  <2>4. ASSUME NEW ppn \in Frames, Pool!PoolDealloc(ppn) PROVE Pool!Trimmed'
    <3>1. PICK c \in start .. current :
            /\ Pool!Boundary(c, Recycled(heap) \cup {ppn}) /\ current' = c
            /\ Recycled(heap)' =
                 (Recycled(heap) \cup {ppn}) \ (c .. current - 1)
      BY <2>4 DEF Pool!PoolDealloc
    <3> SUFFICES ASSUME c > start PROVE c - 1 \in used'
      BY <3>1 DEF Pool!Trimmed
    <3>2. c - 1 \notin Recycled(heap)'
      BY <2>2, <3>1 DEF Pool!Boundary
    <3>3. c - 1 \in start .. c - 1
      BY <2>2, <3>1
    <3> QED
      BY <2>2, <3>1, <3>2, <3>3
  <2>5. ASSUME UNCHANGED <<current, used>> PROVE Pool!Trimmed'
    BY <1>3, <2>5 DEF Pool!Trimmed
  <2> QED
    BY <2>1, <2>3, <2>4, <2>5 DEF Pool!PoolNext, Pool!PoolMisuse,
       Pool!PoolExhausted, Pool!poolVars, Pool!Frames, Frames
<1> QED
  BY <1>1, <1>2, <1>3, FrameInvCorrect, PTL DEF Spec

-----------------------------------------------------------------------------
(***************************************************************************)
(* The pool itself, with recycled as a variable of its own: it never hands *)
(* out a frame that is in use, never loses one, and its boundary is always *)
(* as low as it can be.  PoolTypeOK and Conserved are inductive together;  *)
(* Trimmed needs both, because the frame below the new boundary is known   *)
(* to be in use only when every frame that is not free is.                 *)
(***************************************************************************)
VARIABLE recycled

Abs == INSTANCE FramePool

PoolInv == Abs!PoolTypeOK /\ Abs!Conserved

LEMMA IntervalGrows ==
    ASSUME NEW a \in Int, NEW b \in Int, a <= b
    PROVE  a .. (b + 1) - 1 = (a .. b - 1) \cup {b}
  OBVIOUS

LEMMA IntervalShrinks ==
    ASSUME NEW a \in Int, NEW b \in Int, NEW c \in Int, a <= c, c <= b
    PROVE  a .. c - 1 = (a .. b - 1) \ (c .. b - 1)
  OBVIOUS

LEMMA PoolInitInv == Abs!PoolInit => PoolInv /\ Abs!Trimmed
  BY PageRangeAssumption
  DEF Abs!PoolInit, PoolInv, Abs!PoolTypeOK, Abs!Conserved, Abs!Trimmed, Abs!Frames

(* Handing out a frame: it was recycled or fresh, so nobody owned it. *)
LEMMA AllocInv ==
    ASSUME PoolInv, Abs!Trimmed, NEW ppn \in Abs!Frames, Abs!PoolAlloc(ppn)
    PROVE  PoolInv' /\ Abs!Trimmed' /\ ppn \notin used
<1> USE DEF PoolInv, Abs!PoolTypeOK, Abs!Conserved, Abs!Trimmed
<1>0. start \in Int /\ end \in Int /\ current \in Int /\ start <= current
  BY PageRangeAssumption
<1>1. CASE ppn \in recycled /\ recycled' = recycled \ {ppn} /\ current' = current
  <2>1. used' = used \cup {ppn} /\ panicked' = panicked  BY DEF Abs!PoolAlloc
  <2> QED  BY <1>1, <2>1
<1>2. CASE recycled = {} /\ current < end /\ ppn = current
           /\ current' = current + 1 /\ recycled' = recycled
  <2>1. used' = used \cup {ppn} /\ panicked' = panicked  BY DEF Abs!PoolAlloc
  <2>2. current' \in start .. end
    BY <1>0, <1>2
  <2>3. start .. current' - 1 = (start .. current - 1) \cup {current}
    BY <1>0, <1>2, IntervalGrows
  <2>4. current \notin start .. current - 1 /\ current' - 1 = current
    BY <1>0, <1>2
  <2>5. used' \cup recycled' = start .. current' - 1 /\ used' \cap recycled' = {}
    BY <1>2, <2>1, <2>3
  <2>6. ppn \notin used
    BY <1>2, <2>4
  <2> QED  BY <1>2, <2>1, <2>2, <2>4, <2>5, <2>6
<1> QED  BY <1>1, <1>2 DEF Abs!PoolAlloc

(* Giving a frame back: everything from the new boundary on is free, and   *)
(* what is left below it is split as before.                               *)
LEMMA DeallocInv ==
    ASSUME PoolInv, Abs!Trimmed, NEW ppn \in Abs!Frames, Abs!PoolDealloc(ppn)
    PROVE  PoolInv' /\ Abs!Trimmed'
<1> DEFINE free == recycled \cup {ppn}
<1>1. /\ ppn \in used
      /\ used' = used \ {ppn}
      /\ panicked' = panicked
  BY DEF Abs!PoolDealloc
<1>2. PICK c \in start .. current :
          /\ Abs!Boundary(c, free)
          /\ current' = c
          /\ recycled' = free \ (c .. current - 1)
  BY DEF Abs!PoolDealloc
<1>3. /\ c .. current - 1 \subseteq free
      /\ c = start \/ c - 1 \notin free
  BY <1>2 DEF Abs!Boundary
<1> HIDE DEF free
<1> USE DEF PoolInv, Abs!PoolTypeOK, Abs!Conserved, Abs!Trimmed
<1>0. start \in Int /\ end \in Int /\ current \in Int /\ c \in Int
      /\ start <= c /\ c <= current /\ current <= end
  BY PageRangeAssumption
<1>4. used' \cup free = start .. current - 1 /\ used' \cap free = {}
  BY <1>1 DEF free
<1>5. start .. c - 1 = (start .. current - 1) \ (c .. current - 1)
  BY <1>0, IntervalShrinks
<1>6. used' \cap (c .. current - 1) = {}
  BY <1>3, <1>4
<1>7. Abs!Conserved'
  BY <1>2, <1>4, <1>5, <1>6
<1>8. Abs!PoolTypeOK'
  <2>1. current' \in start .. end
    BY <1>0, <1>2
  <2>2. recycled' \subseteq Abs!Frames /\ used' \subseteq Abs!Frames
    BY <1>1, <1>2 DEF free
  <2> QED  BY <1>1, <2>1, <2>2
<1>9. Abs!Trimmed'
  <2>1. SUFFICES ASSUME c > start PROVE c - 1 \in used'
    BY <1>2
  <2>2. c - 1 \in start .. current - 1
    BY <1>0, <2>1
  <2>3. c # start
    BY <1>0, <2>1
  <2> QED  BY <1>3, <1>4, <2>2, <2>3
<1> QED  BY <1>7, <1>8, <1>9

LEMMA PoolStepInv ==
    ASSUME PoolInv, Abs!Trimmed, [Abs!PoolNext]_(Abs!poolVars)
    PROVE  PoolInv' /\ Abs!Trimmed'
<1>1. ASSUME NEW ppn \in Abs!Frames, Abs!PoolAlloc(ppn) PROVE PoolInv' /\ Abs!Trimmed'
  BY <1>1, AllocInv
<1>2. ASSUME NEW ppn \in Abs!Frames, Abs!PoolDealloc(ppn) PROVE PoolInv' /\ Abs!Trimmed'
  BY <1>2, DeallocInv
<1>3. ASSUME NEW ppn \in Abs!Frames, Abs!PoolMisuse(ppn) PROVE PoolInv' /\ Abs!Trimmed'
  BY <1>3 DEF Abs!PoolMisuse, PoolInv, Abs!PoolTypeOK, Abs!Conserved, Abs!Trimmed
<1>4. CASE Abs!PoolExhausted
  BY <1>4 DEF Abs!PoolExhausted, PoolInv, Abs!PoolTypeOK, Abs!Conserved, Abs!Trimmed
<1>5. CASE UNCHANGED Abs!poolVars
  BY <1>5 DEF Abs!poolVars, PoolInv, Abs!PoolTypeOK, Abs!Conserved, Abs!Trimmed
<1> QED  BY <1>1, <1>2, <1>3, <1>4, <1>5 DEF Abs!PoolNext

(* No frame is in use and recycled at once, and none is lost, whatever the *)
(* callers of frame_alloc and frame_dealloc do.                            *)
THEOREM FramesAreConserved == Abs!PoolSpec => [](Abs!PoolTypeOK /\ Abs!Conserved)
<1>1. Abs!PoolInit => PoolInv /\ Abs!Trimmed  BY PoolInitInv
<1>2. PoolInv /\ Abs!Trimmed /\ [Abs!PoolNext]_(Abs!poolVars) => PoolInv' /\ Abs!Trimmed'
  BY PoolStepInv
<1>3. PoolInv => Abs!PoolTypeOK /\ Abs!Conserved  BY DEF PoolInv
<1> QED  BY <1>1, <1>2, <1>3, PTL DEF Abs!PoolSpec

(* frame_dealloc always lowers the boundary past all free frames on top. *)
THEOREM BoundaryIsTrimmed == Abs!PoolSpec => []Abs!Trimmed
<1>1. Abs!PoolInit => PoolInv /\ Abs!Trimmed  BY PoolInitInv
<1>2. PoolInv /\ Abs!Trimmed /\ [Abs!PoolNext]_(Abs!poolVars) => PoolInv' /\ Abs!Trimmed'
  BY PoolStepInv
<1> QED  BY <1>1, <1>2, PTL DEF Abs!PoolSpec

(* frame_alloc gives out only frames that nobody owns. *)
THEOREM NoFrameTwice ==
    Abs!PoolSpec => [][\A ppn \in Abs!Frames : Abs!PoolAlloc(ppn) => ppn \notin used]_(Abs!poolVars)
<1>1. Abs!PoolInit => PoolInv /\ Abs!Trimmed  BY PoolInitInv
<1>2. PoolInv /\ Abs!Trimmed /\ [Abs!PoolNext]_(Abs!poolVars) => PoolInv' /\ Abs!Trimmed'
  BY PoolStepInv
<1>3. PoolInv /\ Abs!Trimmed /\ [Abs!PoolNext]_(Abs!poolVars) =>
        [\A ppn \in Abs!Frames : Abs!PoolAlloc(ppn) => ppn \notin used]_(Abs!poolVars)
  BY AllocInv
<1> QED  BY <1>1, <1>2, <1>3, PTL DEF Abs!PoolSpec
=============================================================================
