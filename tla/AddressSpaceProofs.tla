------------------------ MODULE AddressSpaceProofs ------------------------
(***************************************************************************)
(* The address spaces, for every number of frames, pages, tasks and traps  *)
(* and every size of a program, a stack and a page table.                  *)
(*                                                                         *)
(* The operations are loops over the pages of areas, written as recursive  *)
(* functions.  A loop is shown to be an iteration of its body (TurnsExist, *)
(* MaMapTurns, PushAllTurns); induction takes a set where the library      *)
(* takes a predicate (SetInduction).  What the operations do to one space: *)
(*   Exact     its frames and those of others make up the frames in use,   *)
(*             no frame twice;                                             *)
(*   Match     its page table says what was recorded of its frames;        *)
(*   MappedTo  some pages were mapped, all of them new.                    *)
(* The invariant, AddressInv, says of all spaces that they share no frame  *)
(* (Partitioned), and while the kernel runs of each live task that         *)
(*   Sound     table and areas agree, areas lie below the file mappings    *)
(*             and do not overlap, and all pages below the break but one   *)
(*             are covered;                                                *)
(*   Sane      unless a task did something strange: no area ends above the *)
(*             break, and the entries of file mappings permit what the     *)
(*             mappings do.                                                *)
(* That areas stay below the file mappings rests on a count: all pages     *)
(* below the break but one have a frame, and there are fewer frames than   *)
(* pages below the mappings (FramesBoundPages).                            *)
(***************************************************************************)
EXTENDS AddressSpace, SequenceTheorems, FiniteSetTheorems, WellFoundedInduction,
        TLAPS

-----------------------------------------------------------------------------
(* Induction, with a set in the place of the predicate, and loops. *)

(* A set of natural numbers that is not empty has a least member. *)
LEMMA LeastMember ==
  ASSUME NEW S, S \subseteq Nat, S # {}
  PROVE  \E x \in S : \A y \in S : x <= y
<1> DEFINE Less == {p \in Nat \X Nat : p[1] < p[2]}
<1>1. IsWellFoundedOn(Less, Nat)
  BY NatLessThanWellFounded DEF OpToRel
<1> HIDE DEF Less
<1>2. PICK x \in S : \A y \in S : ~(<<y, x>> \in Less)
  BY <1>1, WFMin
<1>3. ASSUME NEW y \in S, ~(x <= y) PROVE FALSE
  <2>1. x \in Nat /\ y \in Nat /\ y < x
    BY <1>3
  <2>2. <<y, x>> \in Less
    BY <2>1 DEF Less
  <2> QED
    BY <1>2, <2>2
<1> QED
  BY <1>3

(* Min of FiniteSetsExt is a member. *)
LEMMA MinIsMember ==
  ASSUME NEW S, S \subseteq Nat, S # {}
  PROVE  Min(S) \in S
<1>1. PICK x \in S : \A y \in S : x <= y
  BY LeastMember
<1> QED
  BY <1>1 DEF Min

(* Induction over the natural numbers. *)
LEMMA SetInduction ==
  ASSUME NEW P, 0 \in P, \A k \in Nat : k \in P => k + 1 \in P
  PROVE  \A k \in Nat : k \in P
<1> SUFFICES ASSUME Nat \ P # {} PROVE FALSE
  OBVIOUS
<1>1. PICK x \in Nat \ P : \A y \in Nat \ P : x <= y
  BY LeastMember
<1>2. x - 1 \in Nat
  BY <1>1
<1>3. x - 1 \in P
  BY <1>1, <1>2
<1>4. (x - 1) + 1 \in P
  BY <1>2, <1>3
<1> QED
  BY <1>1, <1>4

(* A loop has a history: g is its body, given the number of the turn. *)
Histories(S, s0, g) ==
    {f \in [Nat -> S] : f[0] = s0 /\ \A k \in Nat : f[k + 1] = g[<<k, f[k]>>]}

(* Every loop has a history. *)
LEMMA TurnsExist ==
  ASSUME NEW S, NEW s0 \in S, NEW g \in [Nat \X S -> S]
  PROVE  Histories(S, s0, g) # {}
<1> DEFINE Upto(n, h) == /\ h \in [0..n -> S] /\ h[0] = s0
                         /\ \A k \in 0..n : k # n => h[k + 1] = g[<<k, h[k]>>]
           P == {n \in Nat : \E h : Upto(n, h)}
<1>1. \A n \in Nat : n \in P
  <2>1. 0 \in P
    <3> DEFINE h == [i \in 0..0 |-> s0]
    <3>1. Upto(0, h)
      OBVIOUS
    <3> QED
      BY <3>1
  <2>2. ASSUME NEW n \in Nat, n \in P PROVE n + 1 \in P
    <3>1. PICK h : Upto(n, h)
      BY <2>2
    <3> DEFINE e == [i \in 0..(n + 1) |-> IF i = n + 1 THEN g[<<n, h[n]>>] ELSE h[i]]
    <3>2. e \in [0..(n + 1) -> S]
      BY <3>1
    <3>3. ASSUME NEW k \in 0..(n + 1), k # n + 1 PROVE e[k + 1] = g[<<k, e[k]>>]
      <4>1. CASE k = n
        BY <3>3, <4>1
      <4>2. CASE k # n
        <5>1. k \in 0..n /\ k + 1 \in 0..(n + 1) /\ k + 1 # n + 1
          BY <3>3, <4>2
        <5>2. h[k + 1] = g[<<k, h[k]>>]
          BY <3>1, <4>2, <5>1
        <5>3. e[k + 1] = h[k + 1] /\ e[k] = h[k]
          BY <3>3, <5>1
        <5> QED
          BY <5>2, <5>3
      <4> QED
        BY <4>1, <4>2
    <3>4. e[0] = s0
      BY <3>1
    <3>5. Upto(n + 1, e)
      <4> HIDE DEF e
      <4> QED
        BY <3>2, <3>3, <3>4
    <3> HIDE DEF Upto, e
    <3> QED
      BY <3>5
  <2> HIDE DEF P
  <2> QED
    BY <2>1, <2>2, SetInduction
<1>2. ASSUME NEW n \in Nat, NEW h, NEW m \in Nat, NEW e, n <= m,
             Upto(n, h), Upto(m, e)
      PROVE  \A k \in 0..n : h[k] = e[k]
  <2> DEFINE Q == {k \in Nat : k \in 0..n => h[k] = e[k]}
  <2>1. 0 \in Q
    BY <1>2
  <2>2. ASSUME NEW k \in Nat, k \in Q PROVE k + 1 \in Q
    <3> SUFFICES ASSUME k + 1 \in 0..n PROVE h[k + 1] = e[k + 1]
      OBVIOUS
    <3>1. k \in 0..n /\ k # n /\ k \in 0..m /\ k # m
      BY <1>2
    <3> QED
      BY <1>2, <2>2, <3>1
  <2>3. \A k \in Nat : k \in Q
    <3> HIDE DEF Q
    <3> QED
      BY <2>1, <2>2, SetInduction
  <2> QED
    BY <2>3
<1> DEFINE H(n) == CHOOSE h : Upto(n, h)
           f == [n \in Nat |-> H(n)[n]]
<1>3. \A n \in Nat : Upto(n, H(n))
  <2> TAKE n \in Nat
  <2>1. \E h : Upto(n, h)
    BY <1>1
  <2> HIDE DEF Upto
  <2> QED
    BY <2>1, Zenon
<1> HIDE DEF H
<1>4. f \in [Nat -> S] /\ f[0] = s0
  BY <1>3
<1>5. ASSUME NEW k \in Nat PROVE f[k + 1] = g[<<k, f[k]>>]
  <2>1. H(k)[k] = H(k + 1)[k]
    <3>1. Upto(k, H(k)) /\ Upto(k + 1, H(k + 1)) /\ k + 1 \in Nat /\ k <= k + 1
      BY <1>3
    <3> HIDE DEF Upto
    <3> QED
      BY <1>2, <3>1
  <2>2. H(k + 1)[k + 1] = g[<<k, H(k + 1)[k]>>]
    BY <1>3
  <2> QED
    BY <2>1, <2>2
<1> HIDE DEF f
<1> QED
  BY <1>4, <1>5 DEF Histories

-----------------------------------------------------------------------------
(* Addresses and pages. *)

(* Division with remainder. *)
LEMMA Divided ==
  ASSUME NEW P \in Nat \ {0}, NEW a \in Int
  PROVE  /\ a \div P \in Int
         /\ P * (a \div P) <= a
         /\ a < P * (a \div P) + P
         /\ a % P = a - P * (a \div P)
  OBVIOUS

(* The quotient is the only number of its kind. *)
LEMMA Quotient ==
  ASSUME NEW P \in Nat \ {0}, NEW q \in Int, NEW r \in Int
  PROVE  P * q < P * r + P => q <= r
<1> SUFFICES ASSUME r + 1 <= q PROVE P * r + P <= P * q
  OBVIOUS
<1>1. q - r - 1 \in Nat
  OBVIOUS
<1>2. P * (q - r - 1) >= 0
  BY <1>1
<1>3. P * (q - r - 1) = P * q - P * r - P
  OBVIOUS
<1> QED
  BY <1>2, <1>3

(* va_floor and va_ceil round an address down and up to a page. *)
LEMMA PageBounds ==
  ASSUME NEW a \in Nat
  PROVE  /\ va_floor(a) \in Nat /\ va_ceil(a) \in Nat
         /\ va_floor(a) <= va_ceil(a) /\ va_ceil(a) <= va_floor(a) + 1
         /\ a % PAGE_SIZE = 0 => va_ceil(a) = va_floor(a)
         /\ PAGE_SIZE * va_floor(a) <= a /\ a < PAGE_SIZE * va_floor(a) + PAGE_SIZE
         /\ a <= PAGE_SIZE * va_ceil(a) /\ PAGE_SIZE * va_ceil(a) < a + PAGE_SIZE
<1> DEFINE P == PAGE_SIZE  f == va_floor(a)  c == va_ceil(a)
<1>0. P \in Nat \ {0}
  BY AddressSpaceAssumption
<1>1. f \in Int /\ P * f <= a /\ a < P * f + P /\ a % P = a - P * f
  BY <1>0, Divided DEF va_floor
<1>2. c \in Int /\ P * c <= a + P - 1 /\ a + P - 1 < P * c + P
  <2>1. a + P - 1 \in Int
    BY <1>0
  <2> QED
    BY <1>0, <2>1, Divided DEF va_ceil
<1> HIDE DEF P, f, c
<1>3. f \in Nat
  <2>1. P * 0 < P * f + P
    BY <1>0, <1>1
  <2> QED
    BY <1>0, <1>1, <2>1, Quotient
<1>4. f <= c
  <2>1. P * f < P * c + P
    BY <1>0, <1>1, <1>2
  <2> QED
    BY <1>0, <1>1, <1>2, <2>1, Quotient
<1>5. c <= f + 1
  <2>1. P * (f + 1) = P * f + P
    BY <1>0, <1>1
  <2>2. P * c < P * (f + 1) + P
    BY <1>0, <1>1, <1>2, <2>1
  <2> QED
    BY <1>0, <1>1, <1>2, <2>2, Quotient
<1>6. ASSUME a % P = 0 PROVE c <= f
  <2>1. P * c < P * f + P
    BY <1>0, <1>1, <1>2, <1>6
  <2> QED
    BY <1>0, <1>1, <1>2, <2>1, Quotient
<1>7. a <= P * c
  BY <1>0, <1>1, <1>2
<1>8. P * c < a + P
  BY <1>0, <1>1, <1>2
<1>9. /\ f \in Nat /\ c \in Nat /\ f <= c /\ c <= f + 1
      /\ a % P = 0 => c = f
      /\ P * f <= a /\ a < P * f + P /\ a <= P * c /\ P * c < a + P
  BY <1>1, <1>2, <1>3, <1>4, <1>5, <1>6, <1>7, <1>8
<1> QED
  BY <1>9 DEF P, f, c

(* Rounding up keeps the order of addresses. *)
LEMMA CeilGrows ==
  ASSUME NEW a \in Nat, NEW b \in Nat, a <= b
  PROVE  va_ceil(a) <= va_ceil(b)
<1>0. PAGE_SIZE \in Nat \ {0}
  BY AddressSpaceAssumption
<1>1. /\ va_ceil(a) \in Nat /\ va_ceil(b) \in Nat
      /\ PAGE_SIZE * va_ceil(a) < a + PAGE_SIZE /\ b <= PAGE_SIZE * va_ceil(b)
  BY PageBounds
<1>2. PAGE_SIZE * va_ceil(a) < PAGE_SIZE * va_ceil(b) + PAGE_SIZE
  BY <1>0, <1>1
<1> QED
  BY <1>0, <1>1, <1>2, Quotient

(* A page that starts below an address is below its va_ceil. *)
LEMMA BelowBreak ==
  ASSUME NEW a \in Nat, NEW p \in Nat
  PROVE  p * PAGE_SIZE < a => p < va_ceil(a)
<1>0. PAGE_SIZE \in Nat \ {0}
  BY AddressSpaceAssumption
<1>1. SUFFICES ASSUME p * PAGE_SIZE < a PROVE p + 1 <= va_ceil(a)
  BY <1>0, PageBounds
<1>2. va_ceil(a) \in Nat /\ a <= PAGE_SIZE * va_ceil(a)
  BY PageBounds
<1>3. PAGE_SIZE * (p + 1) = p * PAGE_SIZE + PAGE_SIZE
  BY <1>0
<1>4. PAGE_SIZE * (p + 1) < PAGE_SIZE * va_ceil(a) + PAGE_SIZE
  BY <1>0, <1>1, <1>2, <1>3
<1> QED
  BY <1>0, <1>2, <1>4, Quotient

(* The address of a page is rounded to that page. *)
LEMMA WholePages ==
  ASSUME NEW n \in Nat
  PROVE  /\ n * PAGE_SIZE \in Nat
         /\ va_floor(n * PAGE_SIZE) = n /\ va_ceil(n * PAGE_SIZE) = n
         /\ (n * PAGE_SIZE) % PAGE_SIZE = 0
<1> DEFINE P == PAGE_SIZE
<1>0. P \in Nat \ {0}
  BY AddressSpaceAssumption
<1> HIDE DEF P
<1> DEFINE a == n * P
           f == a \div P
<1>1. a \in Nat /\ a = P * n
  BY <1>0
<1> HIDE DEF a
<1>2. f \in Int /\ P * f <= a /\ a < P * f + P /\ a % P = a - P * f
  <2>1. a \in Int
    BY <1>1
  <2> QED
    BY <1>0, <2>1, Divided
<1> HIDE DEF f
<1>3. f <= n
  <2>1. P * f < P * n + P
    BY <1>0, <1>1, <1>2
  <2> QED
    BY <1>0, <1>2, <2>1, Quotient
<1>4. n <= f
  BY <1>0, <1>1, <1>2, Quotient
<1>5. f = n
  BY <1>2, <1>3, <1>4
<1>6. a % P = 0
  BY <1>1, <1>2, <1>5
<1>7. va_floor(a) = n
  BY <1>5 DEF f, va_floor, P
<1>8. va_ceil(a) = n
  BY <1>1, <1>6, <1>7, PageBounds DEF P
<1> QED
  BY <1>1, <1>6, <1>7, <1>8 DEF a, P

-----------------------------------------------------------------------------
(* Types: maps are functions on some of the keys. *)
Perms == {"R", "W", "X", "U"}
Partial(A, B) == UNION {[D -> B] : D \in SUBSET A}
Nodes == Nat \X Int
PteType == [ppn : Frames, perm : SUBSET Perms]
AreaType == [vm_start : Int, vm_end : Int, map_perm : SUBSET Perms]
SpaceType == [tables : Partial(Nodes, Frames), pte : Partial(Int, PteType),
              areas : Seq(AreaType), vma : Seq(AreaType),
              data : Partial(Int, Frames)]
Errors == {"no", "map", "no_frame_to_alloc", "initproc exit"}
MemType == [ms : SpaceType, used : SUBSET Frames, err : Errors]

(* What a map is. *)
LEMMA PartialElim ==
  ASSUME NEW A, NEW B, NEW f \in Partial(A, B)
  PROVE  DOMAIN f \subseteq A /\ f \in [DOMAIN f -> B]
         /\ \A x \in DOMAIN f : f[x] \in B
  BY DEF Partial

(* A function on some of the keys is a map. *)
LEMMA PartialIntro ==
  ASSUME NEW A, NEW B, NEW D \in SUBSET A, NEW f \in [D -> B]
  PROVE  f \in Partial(A, B)
  BY DEF Partial

(* The empty map. *)
LEMMA EmptyMap ==
  ASSUME NEW A, NEW B
  PROVE  <<>> \in Partial(A, B) /\ DOMAIN <<>> = {}
<1>1. DOMAIN <<>> = {}
  OBVIOUS
<1>2. <<>> \in [{} -> B]
  OBVIOUS
<1> QED
  BY <1>1, <1>2, PartialIntro

(* A map with one more entry. *)
LEMMA WithFacts ==
  ASSUME NEW A, NEW B, NEW f \in Partial(A, B), NEW x \in A, NEW v \in B
  PROVE  /\ With(f, x, v) \in Partial(A, B)
         /\ DOMAIN With(f, x, v) = DOMAIN f \cup {x}
         /\ With(f, x, v)[x] = v
         /\ \A y \in DOMAIN f : y # x => With(f, x, v)[y] = f[y]
<1>1. DOMAIN f \subseteq A /\ \A y \in DOMAIN f : f[y] \in B
  BY PartialElim
<1>2. DOMAIN f \cup {x} \in SUBSET A
  BY <1>1
<1>3. With(f, x, v) \in [DOMAIN f \cup {x} -> B]
  BY <1>1 DEF With
<1> QED
  BY <1>2, <1>3, PartialIntro DEF With

OneToOne(f) == \A x, y \in DOMAIN f : f[x] = f[y] => x = y

(* A new key with a new value keeps a map one-to-one. *)
LEMMA WithNew ==
  ASSUME NEW A, NEW B, NEW f \in Partial(A, B), NEW x \in A, NEW v \in B,
         x \notin DOMAIN f, v \notin Range(f), OneToOne(f)
  PROVE  OneToOne(With(f, x, v)) /\ Range(With(f, x, v)) = Range(f) \cup {v}
<1> DEFINE w == With(f, x, v)
<1>1. /\ DOMAIN w = DOMAIN f \cup {x} /\ w[x] = v
      /\ \A y \in DOMAIN f : w[y] = f[y]
  BY WithFacts
<1> HIDE DEF w
<1>2. OneToOne(w)
  BY <1>1 DEF OneToOne, Range
<1>3. Range(w) = Range(f) \cup {v}
  BY <1>1 DEF Range
<1> QED
  BY <1>2, <1>3 DEF w

-----------------------------------------------------------------------------
(* Frames: what a space owns, besides what others own. *)
Owned(s) == Range(s.tables) \cup Range(s.data)
Proper(s) == /\ OneToOne(s.tables) /\ OneToOne(s.data)
             /\ Range(s.tables) \cap Range(s.data) = {}
Exact(m, others) == /\ m.used = others \cup Owned(m.ms)
                    /\ others \cap Owned(m.ms) = {}
                    /\ Proper(m.ms)

(* frame_alloc gives a free frame when there is one. *)
LEMMA FrameGiven ==
  ASSUME NEW m, Free(m) # {}
  PROVE  frame_alloc(m) \in Frames /\ frame_alloc(m) \notin m.used
<1>1. Frames \subseteq Nat
  BY PageRangeAssumption DEF Frames
<1>2. Free(m) \subseteq Nat
  BY <1>1 DEF Free
<1>3. Min(Free(m)) \in Free(m)
  BY <1>2, MinIsMember
<1> QED
  BY <1>3 DEF frame_alloc, Free

(* What making a page table node leaves alone. *)
LEMMA AddTableFacts ==
  ASSUME NEW m \in MemType, NEW node \in Nodes
  PROVE  LET r == AddTable(m, node) IN
         /\ r \in MemType
         /\ r.ms.pte = m.ms.pte /\ r.ms.areas = m.ms.areas
         /\ r.ms.vma = m.ms.vma /\ r.ms.data = m.ms.data
         /\ DOMAIN m.ms.tables \subseteq DOMAIN r.ms.tables
         /\ r.err = m.err \/ (Good(m) /\ r.err = "no_frame_to_alloc")
         /\ Good(r) => node \in DOMAIN r.ms.tables
         /\ \/ r.ms.tables = m.ms.tables /\ r.used = m.used
            \/ \E f \in Frames \ m.used :
                 /\ node \notin DOMAIN m.ms.tables
                 /\ r.ms.tables = With(m.ms.tables, node, f)
                 /\ r.used = m.used \cup {f}
<1> DEFINE r == AddTable(m, node)
<1>1. CASE ~Good(m) \/ node \in DOMAIN m.ms.tables
  <2>1. r = m
    BY <1>1 DEF AddTable
  <2> HIDE DEF r
  <2>2. Good(m) => node \in DOMAIN m.ms.tables
    BY <1>1
  <2> QED
    BY <2>1, <2>2 DEF r, Good
<1>2. CASE Good(m) /\ node \notin DOMAIN m.ms.tables /\ Free(m) = {}
  <2>1. r = [m EXCEPT !.err = "no_frame_to_alloc"]
    BY <1>2 DEF AddTable, OutOfFrames
  <2> HIDE DEF r
  <2>2. /\ r \in MemType /\ r.ms = m.ms /\ r.used = m.used
        /\ r.err = "no_frame_to_alloc"
    BY <2>1 DEF MemType, Errors
  <2> QED
    BY <1>2, <2>2 DEF r, Good
<1>3. CASE Good(m) /\ node \notin DOMAIN m.ms.tables /\ Free(m) # {}
  <2>1. PICK f \in Frames : f = frame_alloc(m) /\ f \notin m.used
    BY <1>3, FrameGiven
  <2> DEFINE w == With(m.ms.tables, node, f)
  <2>2. r = [m EXCEPT !.ms.tables = w, !.used = @ \cup {f}]
    BY <1>3, <2>1 DEF AddTable
  <2>3. m.ms.tables \in Partial(Nodes, Frames)
    BY DEF MemType, SpaceType
  <2>4. w \in Partial(Nodes, Frames)
    BY <2>3, WithFacts
  <2>9. DOMAIN w = DOMAIN m.ms.tables \cup {node}
    BY DEF With
  <2> HIDE DEF r, w
  <2>5. m.ms \in SpaceType /\ m.used \in SUBSET Frames /\ m.err \in Errors
    BY DEF MemType
  <2>6. /\ r.ms = [m.ms EXCEPT !.tables = w] /\ r.used = m.used \cup {f}
        /\ r.err = m.err /\ r = [ms |-> r.ms, used |-> r.used, err |-> r.err]
    BY <2>2 DEF MemType
  <2>7. /\ r.ms \in SpaceType /\ r.ms.tables = w
        /\ r.ms.pte = m.ms.pte /\ r.ms.areas = m.ms.areas
        /\ r.ms.vma = m.ms.vma /\ r.ms.data = m.ms.data
    BY <2>4, <2>5, <2>6 DEF SpaceType
  <2>8. r \in MemType
    BY <2>1, <2>5, <2>6, <2>7 DEF MemType
  <2> QED
    BY <1>3, <2>1, <2>4, <2>9, <2>6, <2>7, <2>8 DEF r, w
<1> QED
  BY <1>1, <1>2, <1>3

(* A node takes a frame nobody uses. *)
LEMMA AddTableExact ==
  ASSUME NEW m \in MemType, NEW node \in Nodes, NEW others, Exact(m, others)
  PROVE  Exact(AddTable(m, node), others)
<1> DEFINE r == AddTable(m, node)
<1>1. /\ r.ms.data = m.ms.data
      /\ \/ r.ms.tables = m.ms.tables /\ r.used = m.used
         \/ \E f \in Frames \ m.used :
                 /\ node \notin DOMAIN m.ms.tables
                 /\ r.ms.tables = With(m.ms.tables, node, f)
                 /\ r.used = m.used \cup {f}
  BY AddTableFacts
<1> HIDE DEF r
<1>2. CASE r.ms.tables = m.ms.tables /\ r.used = m.used
  BY <1>1, <1>2 DEF Exact, Owned, Proper, r
<1>3. ASSUME NEW f \in Frames \ m.used, node \notin DOMAIN m.ms.tables,
             r.ms.tables = With(m.ms.tables, node, f), r.used = m.used \cup {f}
      PROVE  Exact(r, others)
  <2>1. m.ms.tables \in Partial(Nodes, Frames)
    BY DEF MemType, SpaceType
  <2>2. f \notin others /\ f \notin Range(m.ms.tables) /\ f \notin Range(m.ms.data)
    BY DEF Exact, Owned
  <2>3. OneToOne(m.ms.tables)
    BY DEF Exact, Proper
  <2>4. OneToOne(r.ms.tables) /\ Range(r.ms.tables) = Range(m.ms.tables) \cup {f}
    BY <1>3, <2>1, <2>2, <2>3, WithNew
  <2> QED
    BY <1>1, <1>3, <2>2, <2>4 DEF Exact, Owned, Proper
<1> QED
  BY <1>1, <1>2, <1>3 DEF r

(* The nodes on the way to a page are nodes. *)
LEMMA NodesOfPage ==
  ASSUME NEW vpn \in Int
  PROVE  Node1(vpn) \in Nodes /\ Node2(vpn) \in Nodes /\ Root \in Nodes
<1>1. PTES \in Nat \ {0}
  BY AddressSpaceAssumption
<1>2. PTES * PTES \in Nat \ {0}
  BY <1>1
<1>3. vpn \div PTES \in Int
  BY <1>1, Divided
<1> DEFINE q == PTES * PTES
<1> HIDE DEF q
<1>4. vpn \div q \in Int
  BY <1>2, Divided DEF q
<1> QED
  BY <1>3, <1>4 DEF Node1, Node2, Root, Nodes, q

(* find_pte_create leaves all but the tables alone. *)
LEMMA AddTablesFacts ==
  ASSUME NEW m \in MemType, NEW vpn \in Int
  PROVE  LET r == AddTables(m, vpn) IN
         /\ r \in MemType
         /\ r.ms.pte = m.ms.pte /\ r.ms.areas = m.ms.areas
         /\ r.ms.vma = m.ms.vma /\ r.ms.data = m.ms.data
         /\ DOMAIN m.ms.tables \subseteq DOMAIN r.ms.tables
         /\ r.err = m.err \/ (Good(m) /\ r.err = "no_frame_to_alloc")
         /\ Good(r) => TableNodes(vpn) \subseteq DOMAIN r.ms.tables
<1> DEFINE a == AddTable(m, Node1(vpn))
           r == AddTable(a, Node2(vpn))
<1>1. Node1(vpn) \in Nodes /\ Node2(vpn) \in Nodes
  BY NodesOfPage
<1>2. /\ a \in MemType
      /\ a.ms.pte = m.ms.pte /\ a.ms.areas = m.ms.areas
      /\ a.ms.vma = m.ms.vma /\ a.ms.data = m.ms.data
      /\ DOMAIN m.ms.tables \subseteq DOMAIN a.ms.tables
      /\ a.err = m.err \/ (Good(m) /\ a.err = "no_frame_to_alloc")
      /\ Good(a) => Node1(vpn) \in DOMAIN a.ms.tables
  BY <1>1, AddTableFacts
<1> HIDE DEF a
<1>3. /\ r \in MemType
      /\ r.ms.pte = a.ms.pte /\ r.ms.areas = a.ms.areas
      /\ r.ms.vma = a.ms.vma /\ r.ms.data = a.ms.data
      /\ DOMAIN a.ms.tables \subseteq DOMAIN r.ms.tables
      /\ r.err = a.err \/ (Good(a) /\ r.err = "no_frame_to_alloc")
      /\ Good(r) => Node2(vpn) \in DOMAIN r.ms.tables
  BY <1>1, <1>2, AddTableFacts
<1> HIDE DEF r
<1>4. Good(r) => TableNodes(vpn) \subseteq DOMAIN r.ms.tables
  BY <1>2, <1>3 DEF Good, TableNodes
<1>5. r.err = m.err \/ (Good(m) /\ r.err = "no_frame_to_alloc")
  BY <1>2, <1>3 DEF Good
<1> QED
  BY <1>2, <1>3, <1>4, <1>5 DEF AddTables, r, a

(* find_pte_create takes frames nobody uses. *)
LEMMA AddTablesExact ==
  ASSUME NEW m \in MemType, NEW vpn \in Int, NEW others, Exact(m, others)
  PROVE  Exact(AddTables(m, vpn), others)
<1>1. Node1(vpn) \in Nodes /\ Node2(vpn) \in Nodes
  BY NodesOfPage
<1>2. AddTable(m, Node1(vpn)) \in MemType /\ Exact(AddTable(m, Node1(vpn)), others)
  BY <1>1, AddTableFacts, AddTableExact
<1> QED
  BY <1>1, <1>2, AddTableExact DEF AddTables

(* A page gets a frame, or there is none. *)
LEMMA BackedFacts ==
  ASSUME NEW m \in MemType, NEW vpn \in Int, Good(m)
  PROVE  LET r == Backed(m, vpn) IN
         /\ r \in MemType
         /\ r.ms.pte = m.ms.pte /\ r.ms.areas = m.ms.areas
         /\ r.ms.vma = m.ms.vma /\ r.ms.tables = m.ms.tables
         /\ \/ r.err = "no_frame_to_alloc" /\ r.ms.data = m.ms.data /\ r.used = m.used
            \/ Good(r) /\ \E f \in Frames \ m.used :
                 /\ r.ms.data = With(m.ms.data, vpn, f)
                 /\ r.used = m.used \cup {f}
<1> DEFINE r == Backed(m, vpn)
<1>2. CASE Free(m) = {}
  <2>1. r = [m EXCEPT !.err = "no_frame_to_alloc"]
    BY <1>2 DEF Backed, OutOfFrames
  <2> HIDE DEF r
  <2>2. /\ r \in MemType /\ r.ms = m.ms /\ r.used = m.used
        /\ r.err = "no_frame_to_alloc"
    BY <2>1 DEF MemType, Errors
  <2> QED
    BY <1>2, <2>2 DEF r, Good
<1>3. CASE Free(m) # {}
  <2>1. PICK f \in Frames : f = frame_alloc(m) /\ f \notin m.used
    BY <1>3, FrameGiven
  <2> DEFINE w == With(m.ms.data, vpn, f)
  <2>2. r = [m EXCEPT !.ms.data = w, !.used = @ \cup {f}]
    BY <1>3, <2>1 DEF Backed
  <2>3. m.ms.data \in Partial(Int, Frames)
    BY DEF MemType, SpaceType
  <2>4. w \in Partial(Int, Frames)
    BY <2>3, WithFacts
  <2> HIDE DEF r, w
  <2>5. m.ms \in SpaceType /\ m.used \in SUBSET Frames /\ m.err \in Errors
    BY DEF MemType
  <2>6. /\ r.ms = [m.ms EXCEPT !.data = w] /\ r.used = m.used \cup {f}
        /\ r.err = m.err /\ r = [ms |-> r.ms, used |-> r.used, err |-> r.err]
    BY <2>2 DEF MemType
  <2>7. /\ r.ms \in SpaceType /\ r.ms.data = w
        /\ r.ms.pte = m.ms.pte /\ r.ms.areas = m.ms.areas
        /\ r.ms.vma = m.ms.vma /\ r.ms.tables = m.ms.tables
    BY <2>4, <2>5, <2>6 DEF SpaceType
  <2>8. r \in MemType /\ Good(r)
    BY <2>1, <2>5, <2>6, <2>7 DEF MemType, Good
  <2> QED
    BY <2>1, <2>6, <2>7, <2>8 DEF r, w
<1> QED
  BY <1>2, <1>3

(* The frame of a page that had none is one nobody uses. *)
LEMMA BackedExact ==
  ASSUME NEW m \in MemType, NEW vpn \in Int, Good(m), NEW others, Exact(m, others),
         vpn \notin DOMAIN m.ms.data
  PROVE  Exact(Backed(m, vpn), others)
<1> DEFINE r == Backed(m, vpn)
<1>1. /\ r.ms.tables = m.ms.tables
      /\ \/ r.ms.data = m.ms.data /\ r.used = m.used
         \/ \E f \in Frames \ m.used :
                 /\ r.ms.data = With(m.ms.data, vpn, f)
                 /\ r.used = m.used \cup {f}
  BY BackedFacts
<1> HIDE DEF r
<1>2. CASE r.ms.data = m.ms.data /\ r.used = m.used
  BY <1>1, <1>2 DEF Exact, Owned, Proper, r
<1>3. ASSUME NEW f \in Frames \ m.used,
             r.ms.data = With(m.ms.data, vpn, f), r.used = m.used \cup {f}
      PROVE  Exact(r, others)
  <2>1. m.ms.data \in Partial(Int, Frames)
    BY DEF MemType, SpaceType
  <2>2. f \notin others /\ f \notin Range(m.ms.tables) /\ f \notin Range(m.ms.data)
    BY DEF Exact, Owned
  <2>3. OneToOne(m.ms.data)
    BY DEF Exact, Proper
  <2>4. OneToOne(r.ms.data) /\ Range(r.ms.data) = Range(m.ms.data) \cup {f}
    BY <1>3, <2>1, <2>2, <2>3, WithNew
  <2> QED
    BY <1>1, <1>3, <2>2, <2>4 DEF Exact, Owned, Proper
<1> QED
  BY <1>1, <1>2, <1>3 DEF r

(* map sets one entry, or finds it taken. *)
LEMMA MapFacts ==
  ASSUME NEW m \in MemType, NEW vpn \in Int, NEW perm \in SUBSET Perms,
         Good(m) => vpn \in DOMAIN m.ms.data
  PROVE  LET r == map(m, vpn, perm) IN
         /\ r \in MemType
         /\ r.ms.data = m.ms.data /\ r.ms.areas = m.ms.areas
         /\ r.ms.vma = m.ms.vma /\ r.ms.tables = m.ms.tables
         /\ r.used = m.used
         /\ ~Good(m) => r = m
         /\ Good(m) /\ vpn \in DOMAIN m.ms.pte => r.err = "map"
         /\ Good(m) /\ vpn \notin DOMAIN m.ms.pte =>
              /\ Good(r)
              /\ r.ms.pte = With(m.ms.pte, vpn, [ppn |-> m.ms.data[vpn], perm |-> perm])
<1> DEFINE r == map(m, vpn, perm)
<1>1. CASE ~Good(m)
  BY <1>1 DEF map
<1>2. CASE Good(m) /\ vpn \in DOMAIN m.ms.pte
  <2>1. r = [m EXCEPT !.err = "map"]
    BY <1>2 DEF map, MayMap
  <2> HIDE DEF r
  <2>2. r \in MemType /\ r.ms = m.ms /\ r.used = m.used /\ r.err = "map"
    BY <2>1 DEF MemType, Errors
  <2> QED
    BY <1>2, <2>2 DEF r, Good
<1>3. CASE Good(m) /\ vpn \notin DOMAIN m.ms.pte
  <2> DEFINE v == [ppn |-> m.ms.data[vpn], perm |-> perm]
             w == With(m.ms.pte, vpn, v)
  <2>2. r = [m EXCEPT !.ms.pte = w]
    BY <1>3 DEF map, MayMap
  <2>3. m.ms.pte \in Partial(Int, PteType) /\ m.ms.data \in Partial(Int, Frames)
    BY DEF MemType, SpaceType
  <2>9. m.ms.data[vpn] \in Frames
    BY <1>3, <2>3, PartialElim
  <2>10. v \in PteType
    BY <2>9 DEF PteType
  <2> HIDE DEF v
  <2>4. w \in Partial(Int, PteType)
    BY <2>3, <2>10, WithFacts
  <2> HIDE DEF r, w
  <2>5. m.ms \in SpaceType /\ m.used \in SUBSET Frames /\ m.err \in Errors
    BY DEF MemType
  <2>6. /\ r.ms = [m.ms EXCEPT !.pte = w] /\ r.used = m.used
        /\ r.err = m.err /\ r = [ms |-> r.ms, used |-> r.used, err |-> r.err]
    BY <2>2 DEF MemType
  <2>7. /\ r.ms \in SpaceType /\ r.ms.pte = w
        /\ r.ms.data = m.ms.data /\ r.ms.areas = m.ms.areas
        /\ r.ms.vma = m.ms.vma /\ r.ms.tables = m.ms.tables
    BY <2>4, <2>5, <2>6 DEF SpaceType
  <2>8. r \in MemType /\ Good(r)
    BY <1>3, <2>5, <2>6, <2>7 DEF MemType, Good
  <2> QED
    BY <1>3, <2>6, <2>7, <2>8 DEF r, w, v
<1> QED
  BY <1>1, <1>2, <1>3

(* The table of a space says what its areas recorded. *)
Match(s) ==
    /\ DOMAIN s.pte = DOMAIN s.data
    /\ \A p \in DOMAIN s.pte : s.pte[p].ppn = s.data[p]
                               /\ TableNodes(p) \subseteq DOMAIN s.tables

(* ma_map_one: one more page with a frame and an entry, or a panic. *)
LEMMA MapOneFacts ==
  ASSUME NEW m \in MemType, NEW vpn \in Int, NEW perm \in SUBSET Perms
  PROVE  LET r == ma_map_one(m, vpn, perm) IN
         /\ r \in MemType
         /\ r.ms.areas = m.ms.areas /\ r.ms.vma = m.ms.vma
         /\ ~Good(m) => r = m
         /\ Good(m) /\ vpn \in DOMAIN m.ms.pte => ~Good(r)
         /\ Good(m) /\ r.err = "map" => vpn \in DOMAIN m.ms.pte
         /\ DOMAIN m.ms.tables \subseteq DOMAIN r.ms.tables
         /\ Good(r) => /\ TableNodes(vpn) \subseteq DOMAIN r.ms.tables
                       /\ \E f \in Frames :
                            /\ r.ms.data = With(m.ms.data, vpn, f)
                            /\ r.ms.pte = With(m.ms.pte, vpn, [ppn |-> f, perm |-> perm])
<1> DEFINE r == ma_map_one(m, vpn, perm)
<1>1. CASE ~Good(m)
  <2>1. r = m
    BY <1>1 DEF ma_map_one
  <2> QED
    BY <1>1, <2>1 DEF Good
<1>2. CASE Good(m)
  <2> DEFINE b == Backed(m, vpn)  c == AddTables(b, vpn)
  <2>1. r = map(c, vpn, perm)
    BY <1>2 DEF ma_map_one
  <2>2. /\ b \in MemType
        /\ b.ms.pte = m.ms.pte /\ b.ms.areas = m.ms.areas
        /\ b.ms.vma = m.ms.vma /\ b.ms.tables = m.ms.tables
        /\ \/ b.err = "no_frame_to_alloc"
           \/ Good(b) /\ \E f \in Frames : b.ms.data = With(m.ms.data, vpn, f)
    BY <1>2, BackedFacts
  <2> HIDE DEF b
  <2>3. /\ c \in MemType
        /\ c.ms.pte = b.ms.pte /\ c.ms.areas = b.ms.areas
        /\ c.ms.vma = b.ms.vma /\ c.ms.data = b.ms.data
        /\ DOMAIN b.ms.tables \subseteq DOMAIN c.ms.tables
        /\ c.err = b.err \/ (Good(b) /\ c.err = "no_frame_to_alloc")
        /\ Good(c) => TableNodes(vpn) \subseteq DOMAIN c.ms.tables
    BY <2>2, AddTablesFacts
  <2> HIDE DEF c, r
  <2>4. c.err # "map" /\ c.err \in {"no", "no_frame_to_alloc"}
    BY <2>2, <2>3 DEF Good
  <2>5. ASSUME Good(c) PROVE \E f \in Frames : c.ms.data = With(m.ms.data, vpn, f)
    BY <2>2, <2>3, <2>5 DEF Good
  <2>6. ASSUME Good(c) PROVE vpn \in DOMAIN c.ms.data
    <3>1. PICK f \in Frames : c.ms.data = With(m.ms.data, vpn, f)
      BY <2>5, <2>6
    <3> QED
      BY <3>1 DEF With
  <2>7. /\ r \in MemType
        /\ r.ms.data = c.ms.data /\ r.ms.areas = c.ms.areas
        /\ r.ms.vma = c.ms.vma /\ r.ms.tables = c.ms.tables
        /\ ~Good(c) => r = c
        /\ Good(c) /\ vpn \in DOMAIN c.ms.pte => r.err = "map"
        /\ Good(c) /\ vpn \notin DOMAIN c.ms.pte =>
              /\ Good(r)
              /\ r.ms.pte = With(c.ms.pte, vpn, [ppn |-> c.ms.data[vpn], perm |-> perm])
    BY <2>1, <2>3, <2>6, MapFacts
  <2>8. Good(r) => Good(c) /\ vpn \notin DOMAIN m.ms.pte
    BY <2>2, <2>3, <2>7 DEF Good
  <2>9. r.err = "map" => vpn \in DOMAIN m.ms.pte
    BY <2>2, <2>3, <2>4, <2>7 DEF Good
  <2>10. ASSUME Good(r)
         PROVE  \E f \in Frames :
                    /\ r.ms.data = With(m.ms.data, vpn, f)
                    /\ r.ms.pte = With(m.ms.pte, vpn, [ppn |-> f, perm |-> perm])
    <3>1. PICK f \in Frames : c.ms.data = With(m.ms.data, vpn, f)
      BY <2>5, <2>8, <2>10
    <3>2. c.ms.data[vpn] = f
      BY <3>1 DEF With
    <3>3. r.ms.pte = With(m.ms.pte, vpn, [ppn |-> f, perm |-> perm])
      BY <2>2, <2>3, <2>7, <2>8, <2>10, <3>2
    <3>4. r.ms.data = With(m.ms.data, vpn, f)
      BY <2>7, <3>1
    <3> QED
      BY <3>3, <3>4
  <2>11. Good(r) => TableNodes(vpn) \subseteq DOMAIN r.ms.tables
    BY <2>3, <2>7, <2>8
  <2>12. DOMAIN m.ms.tables \subseteq DOMAIN r.ms.tables
    BY <2>2, <2>3, <2>7
  <2>13. r.ms.areas = m.ms.areas /\ r.ms.vma = m.ms.vma
    BY <2>2, <2>3, <2>7
  <2> QED
    BY <1>2, <2>7, <2>8, <2>9, <2>10, <2>11, <2>12, <2>13 DEF r
<1> QED
  BY <1>1, <1>2

(* ma_map_one of a page without a frame keeps frames apart. *)
LEMMA MapOneExact ==
  ASSUME NEW m \in MemType, NEW vpn \in Int, NEW perm \in SUBSET Perms,
         NEW others, Exact(m, others), vpn \notin DOMAIN m.ms.data
  PROVE  Exact(ma_map_one(m, vpn, perm), others)
<1>1. CASE ~Good(m)
  BY <1>1 DEF ma_map_one
<1>2. CASE Good(m)
  <2> DEFINE b == Backed(m, vpn)  c == AddTables(b, vpn)  r == map(c, vpn, perm)
  <2>1. ma_map_one(m, vpn, perm) = r
    BY <1>2 DEF ma_map_one
  <2>2. b \in MemType /\ Exact(b, others)
    BY <1>2, BackedFacts, BackedExact
  <2>3. Good(b) => vpn \in DOMAIN b.ms.data
    <3>1. b.err = "no_frame_to_alloc"
             \/ \E f \in Frames : b.ms.data = With(m.ms.data, vpn, f)
      BY <1>2, BackedFacts
    <3> QED
      BY <3>1 DEF Good, With
  <2> HIDE DEF b
  <2>4. /\ c \in MemType /\ c.ms.data = b.ms.data
        /\ c.err = b.err \/ (Good(b) /\ c.err = "no_frame_to_alloc")
    BY <2>2, AddTablesFacts
  <2>5. Exact(c, others)
    BY <2>2, AddTablesExact
  <2>6. Good(c) => vpn \in DOMAIN c.ms.data
    BY <2>3, <2>4 DEF Good
  <2> HIDE DEF c
  <2>7. r.ms.data = c.ms.data /\ r.ms.tables = c.ms.tables /\ r.used = c.used
    BY <2>4, <2>6, MapFacts
  <2> HIDE DEF r
  <2>8. Exact(r, others)
    BY <2>5, <2>7 DEF Exact, Owned, Proper
  <2> QED
    BY <2>1, <2>8
<1> QED
  BY <1>1, <1>2

(* ma_map_one keeps table and frames in agreement. *)
LEMMA MapOneMatch ==
  ASSUME NEW m \in MemType, NEW vpn \in Int, NEW perm \in SUBSET Perms,
         Match(m.ms), Good(ma_map_one(m, vpn, perm))
  PROVE  LET r == ma_map_one(m, vpn, perm) IN
         /\ Good(m) /\ vpn \notin DOMAIN m.ms.pte
         /\ DOMAIN r.ms.pte = DOMAIN m.ms.pte \cup {vpn}
         /\ r.ms.pte[vpn].perm = perm
         /\ \A p \in DOMAIN m.ms.pte : r.ms.pte[p] = m.ms.pte[p]
         /\ Match(r.ms)
<1> DEFINE r == ma_map_one(m, vpn, perm)
<1>1. /\ ~Good(m) => r = m
      /\ Good(m) /\ vpn \in DOMAIN m.ms.pte => ~Good(r)
      /\ DOMAIN m.ms.tables \subseteq DOMAIN r.ms.tables
      /\ TableNodes(vpn) \subseteq DOMAIN r.ms.tables
  BY MapOneFacts
<1>2. PICK f \in Frames : /\ r.ms.data = With(m.ms.data, vpn, f)
                          /\ r.ms.pte = With(m.ms.pte, vpn, [ppn |-> f, perm |-> perm])
  BY MapOneFacts
<1> HIDE DEF r
<1>3. Good(m) /\ vpn \notin DOMAIN m.ms.pte
  BY <1>1 DEF r
<1>4. /\ DOMAIN r.ms.pte = DOMAIN m.ms.pte \cup {vpn}
      /\ DOMAIN r.ms.data = DOMAIN m.ms.data \cup {vpn}
  BY <1>2 DEF With
<1>5. r.ms.pte[vpn] = [ppn |-> f, perm |-> perm] /\ r.ms.data[vpn] = f
  BY <1>2 DEF With
<1>6. \A p \in DOMAIN m.ms.pte : r.ms.pte[p] = m.ms.pte[p]
  BY <1>2, <1>3 DEF With
<1>7. \A p \in DOMAIN m.ms.data : p # vpn => r.ms.data[p] = m.ms.data[p]
  BY <1>2 DEF With
<1>8. r.ms.pte[vpn].ppn = f /\ r.ms.pte[vpn].perm = perm
  BY <1>5
<1>9. Match(r.ms)
  <2>1. DOMAIN r.ms.pte = DOMAIN r.ms.data
    BY <1>4 DEF Match
  <2>2. ASSUME NEW p \in DOMAIN r.ms.pte
        PROVE  r.ms.pte[p].ppn = r.ms.data[p] /\ TableNodes(p) \subseteq DOMAIN r.ms.tables
    <3>1. CASE p = vpn
      BY <1>1, <1>5, <1>8, <3>1
    <3>2. CASE p # vpn
      <4>1. p \in DOMAIN m.ms.pte /\ p \in DOMAIN m.ms.data
        BY <1>4, <3>2 DEF Match
      <4>2. m.ms.pte[p].ppn = m.ms.data[p] /\ TableNodes(p) \subseteq DOMAIN m.ms.tables
        BY <4>1 DEF Match
      <4> QED
        BY <1>1, <1>6, <1>7, <3>2, <4>1, <4>2
    <3> QED
      BY <3>1, <3>2
  <2> QED
    BY <2>1, <2>2 DEF Match
<1> QED
  BY <1>3, <1>4, <1>6, <1>8, <1>9 DEF r

-----------------------------------------------------------------------------
(* ma_map: its turns, and what they leave. *)

(* ma_map is the iteration of ma_map_one over the pages. *)
LEMMA MaMapTurns ==
  ASSUME NEW m \in MemType, NEW area \in AreaType
  PROVE  \E h \in [Nat -> MemType] :
           /\ h[0] = m
           /\ \A k \in Nat :
                h[k + 1] = ma_map_one(h[k], area.vm_start + k, area.map_perm)
           /\ ma_map(m, area) = h[Cardinality(PagesOf(area))]
<1> DEFINE vs == area.vm_start
           perm == area.map_perm
           g == [x \in Nat \X MemType |-> ma_map_one(x[2], vs + x[1], perm)]
           Turns(f) == f = [n \in Nat |-> IF n = 0 THEN m
                              ELSE ma_map_one(f[n - 1], vs + n - 1, perm)]
           h == CHOOSE f : Turns(f)
<1>1. vs \in Int /\ perm \in SUBSET Perms
  BY DEF AreaType
<1> HIDE DEF vs, perm
<1>2. g \in [Nat \X MemType -> MemType]
  <2> SUFFICES ASSUME NEW x \in Nat \X MemType
               PROVE  ma_map_one(x[2], vs + x[1], perm) \in MemType
    OBVIOUS
  <2>1. x[2] \in MemType /\ vs + x[1] \in Int
    BY <1>1
  <2> QED
    BY <1>1, <2>1, MapOneFacts
<1>3. \A k \in Nat, s \in MemType : g[<<k, s>>] = ma_map_one(s, vs + k, perm)
  OBVIOUS
<1> HIDE DEF g
<1>4. PICK f \in [Nat -> MemType] :
         f[0] = m /\ \A k \in Nat : f[k + 1] = g[<<k, f[k]>>]
  <2>1. Histories(MemType, m, g) # {}
    BY <1>2, TurnsExist
  <2> QED
    BY <2>1 DEF Histories
<1>5. \E e : Turns(e)
  <2>1. ASSUME NEW n \in Nat, n # 0
        PROVE  f[n] = ma_map_one(f[n - 1], vs + n - 1, perm)
    <3>1. n - 1 \in Nat /\ (n - 1) + 1 = n /\ vs + (n - 1) = vs + n - 1
      BY <1>1, <2>1
    <3>2. f[(n - 1) + 1] = g[<<n - 1, f[n - 1]>>] /\ f[n - 1] \in MemType
      BY <1>4, <3>1
    <3>3. g[<<n - 1, f[n - 1]>>] = ma_map_one(f[n - 1], vs + (n - 1), perm)
      BY <1>3, <3>1, <3>2
    <3> QED
      BY <3>1, <3>2, <3>3
  <2>2. Turns(f)
    BY <1>4, <2>1
  <2> QED
    BY <2>2
<1>6. Turns(h)
  <2> HIDE DEF Turns
  <2> QED
    BY <1>5, Zenon
<1>7. ma_map(m, area) = h[Cardinality(PagesOf(area))]
  BY Zenon DEF ma_map, vs, perm
<1> HIDE DEF h
<1>8. h[0] = m
  BY <1>6
<1>9. ASSUME NEW k \in Nat PROVE h[k + 1] = ma_map_one(h[k], vs + k, perm)
  <2>1. k + 1 \in Nat /\ k + 1 # 0 /\ (k + 1) - 1 = k /\ vs + (k + 1) - 1 = vs + k
    BY <1>1
  <2>2. h[k + 1] = ma_map_one(h[(k + 1) - 1], vs + (k + 1) - 1, perm)
    BY <1>6, <2>1
  <2> QED
    BY <2>1, <2>2
<1>10. \A k \in Nat : h[k] \in MemType
  <2> DEFINE Q == {k \in Nat : h[k] \in MemType}
  <2>1. 0 \in Q
    BY <1>8
  <2>2. ASSUME NEW k \in Nat, k \in Q PROVE k + 1 \in Q
    <3>1. vs + k \in Int /\ h[k] \in MemType
      BY <1>1, <2>2
    <3>2. ma_map_one(h[k], vs + k, perm) \in MemType
      BY <1>1, <3>1, MapOneFacts
    <3> QED
      BY <1>9, <3>2
  <2>3. \A k \in Nat : k \in Q
    <3> HIDE DEF Q
    <3> QED
      BY <2>1, <2>2, SetInduction
  <2> QED
    BY <2>3
<1>11. h \in [Nat -> MemType]
  <2>1. h = [k \in Nat |-> h[k]]
    BY <1>6
  <2> QED
    BY <1>10, <2>1
<1>12. \A k \in Nat : h[k + 1] = ma_map_one(h[k], area.vm_start + k, area.map_perm)
  BY <1>9 DEF vs, perm
<1> QED
  BY <1>7, <1>8, <1>11, <1>12

(* How many pages an area has. *)
LEMMA PagesCounted ==
  ASSUME NEW area \in AreaType
  PROVE  /\ Cardinality(PagesOf(area)) \in Nat
         /\ PagesOf(area) = area.vm_start..(area.vm_start + Cardinality(PagesOf(area)) - 1)
<1> DEFINE a == area.vm_start  b == area.vm_end - 1
<1>1. a \in Int /\ b \in Int
  BY DEF AreaType
<1>2. Cardinality(a..b) = IF a > b THEN 0 ELSE b - a + 1
  BY <1>1, FS_Interval
<1>3. CASE a > b
  BY <1>1, <1>2, <1>3 DEF PagesOf
<1>4. CASE a <= b
  BY <1>1, <1>2, <1>4 DEF PagesOf
<1> QED
  BY <1>1, <1>3, <1>4

(* The memory r after some pages of an area were mapped into the memory m. *)
MappedTo(m, r, pages, others) ==
    /\ pages \cap DOMAIN m.ms.pte = {}
    /\ DOMAIN r.ms.pte = DOMAIN m.ms.pte \cup pages
    /\ \A p \in DOMAIN m.ms.pte : r.ms.pte[p] = m.ms.pte[p]
    /\ Match(r.ms) /\ Exact(r, others)

(* The assertion of map failed at page p, all before it having found a frame. *)
TakenAt(m, p, first, others) ==
    /\ p \in DOMAIN m.ms.pte
    /\ \E x \in MemType : /\ Exact(x, others)
                          /\ DOMAIN x.ms.data = DOMAIN m.ms.pte \cup first..(p - 1)
                          /\ DOMAIN m.ms.tables \subseteq DOMAIN x.ms.tables

(* ma_map maps all pages of an area, or stops at one that is taken. *)
LEMMA MaMapFacts ==
  ASSUME NEW m \in MemType, NEW area \in AreaType, NEW others,
         Good(m) => Match(m.ms) /\ Exact(m, others)
  PROVE  LET r == ma_map(m, area) IN
         /\ r \in MemType
         /\ r.ms.areas = m.ms.areas /\ r.ms.vma = m.ms.vma
         /\ DOMAIN m.ms.tables \subseteq DOMAIN r.ms.tables
         /\ ~Good(m) => r.err = m.err
         /\ Good(r) => MappedTo(m, r, PagesOf(area), others)
         /\ Good(m) /\ r.err = "map" =>
              \E p \in PagesOf(area) : TakenAt(m, p, area.vm_start, others)
<1> DEFINE vs == area.vm_start
           perm == area.map_perm
           Upto(k) == vs..(vs + k - 1)
           N == Cardinality(PagesOf(area))
           J(s, k) == /\ s \in MemType
                      /\ s.ms.areas = m.ms.areas /\ s.ms.vma = m.ms.vma
                      /\ DOMAIN m.ms.tables \subseteq DOMAIN s.ms.tables
                      /\ ~Good(m) => s.err = m.err
                      /\ Good(s) => MappedTo(m, s, Upto(k), others)
                      /\ Good(m) /\ s.err = "map" =>
                            \E p \in Upto(k) : TakenAt(m, p, vs, others)
<1>1. vs \in Int /\ perm \in SUBSET Perms /\ N \in Nat /\ PagesOf(area) = Upto(N)
  BY PagesCounted DEF AreaType
<1>2. PICK h \in [Nat -> MemType] :
           /\ h[0] = m
           /\ \A k \in Nat : h[k + 1] = ma_map_one(h[k], vs + k, perm)
           /\ ma_map(m, area) = h[N]
  BY MaMapTurns
<1> HIDE DEF vs, perm, N
<1>3. J(h[0], 0)
  <2>1. Upto(0) = {}
    BY <1>1
  <2>2. Good(m) => MappedTo(m, m, {}, others)
    BY DEF MappedTo
  <2>3. Good(m) => m.err # "map"
    BY DEF Good
  <2> QED
    BY <1>2, <2>1, <2>2, <2>3
<1>4. ASSUME NEW k \in Nat, J(h[k], k) PROVE J(h[k + 1], k + 1)
  <2> DEFINE s == h[k]  q == vs + k  r == ma_map_one(s, q, perm)
  <2>1. /\ s \in MemType /\ h[k + 1] = r /\ q \in Int
        /\ Upto(k + 1) = Upto(k) \cup {q} /\ Upto(k) = vs..(q - 1) /\ q \notin Upto(k)
    <3>1. s \in MemType /\ q \in Int
      BY <1>1, <1>2
    <3>3. h[k + 1] = r
      BY <1>2, Zenon
    <3>2. /\ Upto(k + 1) = Upto(k) \cup {q} /\ Upto(k) = vs..(q - 1)
          /\ q \notin Upto(k)
      BY <1>1
    <3> QED
      BY <3>1, <3>2, <3>3
  <2>2. J(s, k)
    BY <1>4
  <2> HIDE DEF s, q, Upto
  <2>3. /\ r \in MemType
        /\ r.ms.areas = s.ms.areas /\ r.ms.vma = s.ms.vma
        /\ ~Good(s) => r = s
        /\ Good(s) /\ r.err = "map" => q \in DOMAIN s.ms.pte
        /\ DOMAIN s.ms.tables \subseteq DOMAIN r.ms.tables
    BY <1>1, <2>1, MapOneFacts
  <2>4. CASE ~Good(s)
    <3>1. r = s
      BY <2>3, <2>4
    <3> HIDE DEF r
    <3>2. J(r, k + 1)
      BY <2>1, <2>2, <2>4, <3>1
    <3> QED
      BY <2>1, <3>2
  <2>5. CASE Good(s)
    <3>1. /\ Good(m) /\ Upto(k) \cap DOMAIN m.ms.pte = {}
          /\ DOMAIN s.ms.pte = DOMAIN m.ms.pte \cup Upto(k)
          /\ \A p \in DOMAIN m.ms.pte : s.ms.pte[p] = m.ms.pte[p]
          /\ Match(s.ms) /\ Exact(s, others)
      BY <2>2, <2>5 DEF MappedTo, Good
    <3>2. ASSUME Good(r) PROVE MappedTo(m, r, Upto(k + 1), others)
      <4>1. /\ q \notin DOMAIN s.ms.pte
            /\ DOMAIN r.ms.pte = DOMAIN s.ms.pte \cup {q}
            /\ \A p \in DOMAIN s.ms.pte : r.ms.pte[p] = s.ms.pte[p]
            /\ Match(r.ms)
        BY <1>1, <2>1, <3>1, <3>2, MapOneMatch
      <4>2. q \notin DOMAIN s.ms.data
        BY <3>1, <4>1 DEF Match
      <4>3. Exact(r, others)
        BY <1>1, <2>1, <3>1, <4>2, MapOneExact
      <4> HIDE DEF r
      <4> QED
        BY <2>1, <3>1, <4>1, <4>3 DEF MappedTo
    <3>3. ASSUME r.err = "map" PROVE TakenAt(m, q, vs, others)
      <4>1. q \in DOMAIN s.ms.pte
        BY <2>3, <2>5, <3>3
      <4>2. q \in DOMAIN m.ms.pte
        BY <2>1, <3>1, <4>1
      <4>3. DOMAIN s.ms.data = DOMAIN m.ms.pte \cup vs..(q - 1)
        BY <2>1, <3>1 DEF Match
      <4>4. DOMAIN m.ms.tables \subseteq DOMAIN s.ms.tables
        BY <2>2
      <4> QED
        BY <2>1, <3>1, <4>2, <4>3, <4>4 DEF TakenAt
    <3> HIDE DEF r
    <3>4. J(r, k + 1)
      BY <2>1, <2>2, <2>3, <3>1, <3>2, <3>3
    <3> QED
      BY <2>1, <3>4
  <2> QED
    BY <2>4, <2>5
<1>5. J(h[N], N)
  <2> DEFINE Q == {k \in Nat : J(h[k], k)}
  <2> HIDE DEF J
  <2>1. 0 \in Q
    BY <1>3
  <2>2. \A k \in Nat : k \in Q => k + 1 \in Q
    BY <1>4
  <2>3. \A k \in Nat : k \in Q
    <3> HIDE DEF Q
    <3> QED
      BY <2>1, <2>2, SetInduction
  <2> QED
    BY <1>1, <2>3
<1> QED
  BY <1>1, <1>2, <1>5 DEF vs

(* ms_push: ma_map, and the area on the list. *)
LEMMA MsPushFacts ==
  ASSUME NEW m \in MemType, NEW area \in AreaType, NEW others,
         Good(m) => Match(m.ms) /\ Exact(m, others)
  PROVE  LET r == ms_push(m, area) IN
         /\ r \in MemType
         /\ r.ms.areas = Append(m.ms.areas, area) /\ r.ms.vma = m.ms.vma
         /\ DOMAIN m.ms.tables \subseteq DOMAIN r.ms.tables
         /\ ~Good(m) => r.err = m.err
         /\ Good(r) => MappedTo(m, r, PagesOf(area), others)
         /\ Good(m) /\ r.err = "map" =>
              \E p \in PagesOf(area) : TakenAt(m, p, area.vm_start, others)
<1> DEFINE s == ma_map(m, area)  r == ms_push(m, area)  aa == Append(s.ms.areas, area)
<1>1. /\ s \in MemType
      /\ s.ms.areas = m.ms.areas /\ s.ms.vma = m.ms.vma
      /\ DOMAIN m.ms.tables \subseteq DOMAIN s.ms.tables
      /\ ~Good(m) => s.err = m.err
      /\ Good(s) => MappedTo(m, s, PagesOf(area), others)
      /\ Good(m) /\ s.err = "map" =>
              \E p \in PagesOf(area) : TakenAt(m, p, area.vm_start, others)
  BY MaMapFacts
<1>2. r = [s EXCEPT !.ms.areas = aa]
  BY DEF ms_push
<1> HIDE DEF s, r
<1>3. s.ms \in SpaceType /\ s.used \in SUBSET Frames /\ s.err \in Errors
  BY <1>1 DEF MemType
<1>4. aa \in Seq(AreaType)
  BY <1>3 DEF SpaceType
<1> HIDE DEF aa
<1>5. /\ r.ms = [s.ms EXCEPT !.areas = aa] /\ r.used = s.used
      /\ r.err = s.err /\ r = [ms |-> r.ms, used |-> r.used, err |-> r.err]
  BY <1>1, <1>2 DEF MemType
<1>6. /\ r.ms \in SpaceType /\ r.ms.areas = aa
      /\ r.ms.pte = s.ms.pte /\ r.ms.data = s.ms.data
      /\ r.ms.vma = s.ms.vma /\ r.ms.tables = s.ms.tables
  BY <1>3, <1>4, <1>5 DEF SpaceType
<1>7. r \in MemType
  BY <1>3, <1>5, <1>6 DEF MemType
<1>8. Good(r) <=> Good(s)
  BY <1>5 DEF Good
<1>9. ASSUME Good(r) PROVE MappedTo(m, r, PagesOf(area), others)
  <2>1. MappedTo(m, s, PagesOf(area), others)
    BY <1>1, <1>8, <1>9
  <2>2. Match(r.ms)
    BY <1>6, <2>1 DEF MappedTo, Match
  <2>3. Exact(r, others)
    BY <1>5, <1>6, <2>1 DEF MappedTo, Exact, Owned, Proper
  <2> QED
    BY <1>6, <2>1, <2>2, <2>3 DEF MappedTo
<1>10. r.ms.areas = Append(m.ms.areas, area)
  BY <1>1, <1>6 DEF aa
<1> QED
  BY <1>1, <1>5, <1>6, <1>7, <1>9, <1>10 DEF r

(* ms_push makes a memory of a memory. *)
LEMMA MsPushType ==
  ASSUME NEW m \in MemType, NEW area \in AreaType
  PROVE  ms_push(m, area) \in MemType
<1> DEFINE s == ma_map(m, area)  aa == Append(s.ms.areas, area)
<1>1. PICK h \in [Nat -> MemType] : s = h[Cardinality(PagesOf(area))]
  BY MaMapTurns
<1>2. s \in MemType
  BY <1>1, PagesCounted
<1>3. ms_push(m, area) = [s EXCEPT !.ms.areas = aa]
  BY DEF ms_push
<1> HIDE DEF s
<1>4. s.ms \in SpaceType
  BY <1>2 DEF MemType
<1>5. aa \in Seq(AreaType)
  BY <1>4 DEF SpaceType
<1> HIDE DEF aa
<1>6. [s.ms EXCEPT !.areas = aa] \in SpaceType
  BY <1>4, <1>5 DEF SpaceType
<1> QED
  BY <1>2, <1>3, <1>6 DEF MemType

(* PushAll is the iteration of ms_push over the list. *)
LEMMA PushAllTurns ==
  ASSUME NEW m \in MemType, NEW areas \in Seq(AreaType)
  PROVE  \E h \in [Nat -> MemType] :
           /\ h[0] = m
           /\ \A k \in 0..Len(areas) :
                k # Len(areas) => h[k + 1] = ms_push(h[k], areas[k + 1])
           /\ PushAll(m, areas) = h[Len(areas)]
<1> DEFINE L == Len(areas)
           g == [x \in Nat \X MemType |->
                   IF x[1] < L THEN ms_push(x[2], areas[x[1] + 1]) ELSE x[2]]
           Turns(f) == f = [n \in 0..L |-> IF n = 0 THEN m
                                           ELSE ms_push(f[n - 1], areas[n])]
           h == CHOOSE f : Turns(f)
<1>1. L \in Nat /\ \A i \in 1..L : areas[i] \in AreaType
  OBVIOUS
<1>2. g \in [Nat \X MemType -> MemType]
  <2> SUFFICES ASSUME NEW x \in Nat \X MemType, x[1] < L
               PROVE  ms_push(x[2], areas[x[1] + 1]) \in MemType
    OBVIOUS
  <2>1. x[2] \in MemType /\ areas[x[1] + 1] \in AreaType
    BY <1>1
  <2> QED
    BY <2>1, MsPushType
<1>3. \A k \in Nat, s \in MemType : k < L => g[<<k, s>>] = ms_push(s, areas[k + 1])
  OBVIOUS
<1> HIDE DEF g, L
<1>4. PICK f \in [Nat -> MemType] :
         f[0] = m /\ \A k \in Nat : f[k + 1] = g[<<k, f[k]>>]
  <2>1. Histories(MemType, m, g) # {}
    BY <1>2, TurnsExist
  <2> QED
    BY <2>1 DEF Histories
<1>5. ASSUME NEW n \in Nat, n # 0, n <= L PROVE f[n] = ms_push(f[n - 1], areas[n])
  <2>1. n - 1 \in Nat /\ (n - 1) + 1 = n /\ n - 1 < L
    BY <1>1, <1>5
  <2>2. f[(n - 1) + 1] = g[<<n - 1, f[n - 1]>>] /\ f[n - 1] \in MemType
    BY <1>4, <2>1
  <2>3. g[<<n - 1, f[n - 1]>>] = ms_push(f[n - 1], areas[(n - 1) + 1])
    BY <1>3, <2>1, <2>2
  <2> QED
    BY <2>1, <2>2, <2>3
<1>6. \E e : Turns(e)
  <2> DEFINE e == [n \in 0..L |-> f[n]]
  <2>1. ASSUME NEW n \in 0..L PROVE e[n] = IF n = 0 THEN m ELSE ms_push(e[n - 1], areas[n])
    <3>1. CASE n = 0
      BY <1>4, <3>1
    <3>2. CASE n # 0
      <4>1. n \in Nat /\ n <= L /\ n - 1 \in 0..L
        BY <1>1, <3>2
      <4>2. e[n] = f[n] /\ e[n - 1] = f[n - 1]
        BY <4>1
      <4>3. f[n] = ms_push(f[n - 1], areas[n])
        BY <1>5, <3>2, <4>1
      <4> QED
        BY <3>2, <4>2, <4>3
    <3> QED
      BY <3>1, <3>2
  <2>2. e = [n \in 0..L |-> e[n]]
    OBVIOUS
  <2> HIDE DEF e
  <2>3. Turns(e)
    BY <2>1, <2>2
  <2> HIDE DEF Turns
  <2> QED
    BY <2>3
<1>7. Turns(h)
  <2> HIDE DEF Turns
  <2> QED
    BY <1>6, Zenon
<1>8. PushAll(m, areas) = h[L]
  BY Zenon DEF PushAll, L
<1> HIDE DEF h
<1>9. \A n \in 0..L : h[n] = f[n]
  <2> DEFINE Q == {k \in Nat : k \in 0..L => h[k] = f[k]}
  <2>1. 0 \in Q
    BY <1>1, <1>4, <1>7
  <2>2. ASSUME NEW k \in Nat, k \in Q PROVE k + 1 \in Q
    <3> SUFFICES ASSUME k + 1 \in 0..L PROVE h[k + 1] = f[k + 1]
      OBVIOUS
    <3>1. k \in 0..L /\ k + 1 # 0 /\ k + 1 \in Nat /\ k + 1 <= L /\ (k + 1) - 1 = k
      BY <1>1
    <3>2. h[k + 1] = ms_push(h[k], areas[k + 1])
      BY <1>7, <3>1
    <3>3. f[k + 1] = ms_push(f[k], areas[k + 1])
      BY <1>5, <3>1
    <3> QED
      BY <2>2, <3>1, <3>2, <3>3
  <2>3. \A k \in Nat : k \in Q
    <3> HIDE DEF Q
    <3> QED
      BY <2>1, <2>2, SetInduction
  <2> QED
    BY <1>1, <2>3
<1>10. ASSUME NEW k \in 0..L, k # L PROVE f[k + 1] = ms_push(f[k], areas[k + 1])
  <2>1. k + 1 \in Nat /\ k + 1 # 0 /\ k + 1 <= L /\ (k + 1) - 1 = k
    BY <1>1, <1>10
  <2> QED
    BY <1>5, <2>1
<1>11. PushAll(m, areas) = f[L]
  BY <1>1, <1>8, <1>9
<1> QED
  BY <1>4, <1>10, <1>11 DEF L

Disjoint(areas) ==
    \A i, j \in DOMAIN areas : i # j => PagesOf(areas[i]) \cap PagesOf(areas[j]) = {}

(* Areas that do not overlap can all be mapped into an empty space. *)
LEMMA PushAllFacts ==
  ASSUME NEW m \in MemType, NEW areas \in Seq(AreaType), NEW others,
         Good(m) => Match(m.ms) /\ Exact(m, others), m.err # "map",
         m.ms.areas = <<>>, DOMAIN m.ms.pte = {}, Disjoint(areas)
  PROVE  LET r == PushAll(m, areas) IN
         /\ r \in MemType /\ r.ms.vma = m.ms.vma /\ r.ms.areas = areas
         /\ DOMAIN m.ms.tables \subseteq DOMAIN r.ms.tables
         /\ r.err # "map" /\ (Good(r) => Good(m))
         /\ Good(r) => /\ Match(r.ms) /\ Exact(r, others)
                       /\ DOMAIN r.ms.pte = Covered(areas)
<1> DEFINE L == Len(areas)
           First(k) == UNION {PagesOf(areas[i]) : i \in 1..k}
           J(s, k) == /\ s \in MemType /\ s.ms.vma = m.ms.vma
                      /\ DOMAIN m.ms.tables \subseteq DOMAIN s.ms.tables
                      /\ Len(s.ms.areas) = k
                      /\ \A i \in 1..k : s.ms.areas[i] = areas[i]
                      /\ s.err # "map" /\ (Good(s) => Good(m))
                      /\ Good(s) => /\ Match(s.ms) /\ Exact(s, others)
                                    /\ DOMAIN s.ms.pte = First(k)
<1>1. L \in Nat /\ DOMAIN areas = 1..L /\ \A i \in 1..L : areas[i] \in AreaType
  OBVIOUS
<1>2. PICK h \in [Nat -> MemType] :
           /\ h[0] = m
           /\ \A k \in 0..L : k # L => h[k + 1] = ms_push(h[k], areas[k + 1])
           /\ PushAll(m, areas) = h[L]
  BY PushAllTurns
<1> HIDE DEF L
<1>3. J(h[0], 0)
  <2>1. First(0) = {}
    OBVIOUS
  <2>2. Len(m.ms.areas) = 0
    OBVIOUS
  <2> QED
    BY <1>2, <2>1, <2>2
<1>4. ASSUME NEW k \in 0..L, k # L, J(h[k], k) PROVE J(h[k + 1], k + 1)
  <2> DEFINE s == h[k]  a == areas[k + 1]  r == ms_push(s, a)
  <2>1. k \in Nat /\ k + 1 \in 1..L /\ a \in AreaType
    BY <1>1, <1>4
  <2>2. h[k + 1] = r
    BY <1>2, <1>4, Zenon
  <2>3. J(s, k)
    BY <1>4
  <2>4. First(k + 1) = First(k) \cup PagesOf(a)
    <3>1. 1..(k + 1) = 1..k \cup {k + 1}
      BY <2>1
    <3> QED
      BY <3>1
  <2>5. First(k) \cap PagesOf(a) = {}
    <3>1. ASSUME NEW i \in 1..k PROVE PagesOf(areas[i]) \cap PagesOf(a) = {}
      <4>1. i \in DOMAIN areas /\ k + 1 \in DOMAIN areas /\ i # k + 1
        BY <1>1, <2>1
      <4> QED
        BY <4>1 DEF Disjoint
    <3> QED
      BY <3>1
  <2> HIDE DEF s, a, First
  <2>6. /\ r \in MemType
        /\ r.ms.areas = Append(s.ms.areas, a) /\ r.ms.vma = s.ms.vma
        /\ DOMAIN s.ms.tables \subseteq DOMAIN r.ms.tables
        /\ ~Good(s) => r.err = s.err
        /\ Good(r) => MappedTo(s, r, PagesOf(a), others)
        /\ Good(s) /\ r.err = "map" =>
              \E p \in PagesOf(a) : TakenAt(s, p, a.vm_start, others)
    BY <2>1, <2>3, MsPushFacts
  <2> HIDE DEF r
  <2>7. r.err # "map" /\ (Good(r) => Good(m))
    BY <2>3, <2>5, <2>6 DEF TakenAt, Good
  <2>8. ASSUME Good(r)
        PROVE  Match(r.ms) /\ Exact(r, others) /\ DOMAIN r.ms.pte = First(k + 1)
    <3>1. Good(s)
      BY <2>6, <2>8 DEF Good
    <3> QED
      BY <2>3, <2>4, <2>6, <2>8, <3>1 DEF MappedTo
  <2>9. /\ Len(r.ms.areas) = k + 1
        /\ \A i \in 1..(k + 1) : r.ms.areas[i] = areas[i]
    <3>1. s.ms.areas \in Seq(AreaType) /\ Len(s.ms.areas) = k
          /\ \A i \in 1..k : s.ms.areas[i] = areas[i]
      BY <2>3 DEF MemType, SpaceType
    <3>2. Len(r.ms.areas) = k + 1 /\ r.ms.areas[k + 1] = a
      BY <2>1, <2>6, <3>1
    <3>3. \A i \in 1..k : r.ms.areas[i] = s.ms.areas[i]
      BY <2>1, <2>6, <3>1
    <3> QED
      BY <2>1, <3>1, <3>2, <3>3 DEF a
  <2>10. J(r, k + 1)
    BY <2>3, <2>6, <2>7, <2>8, <2>9
  <2> QED
    BY <2>2, <2>10
<1>5. J(h[L], L)
  <2> DEFINE Q == {k \in Nat : k \in 0..L => J(h[k], k)}
  <2> HIDE DEF J
  <2>1. 0 \in Q
    BY <1>3
  <2>2. ASSUME NEW k \in Nat, k \in Q PROVE k + 1 \in Q
    <3> SUFFICES ASSUME k + 1 \in 0..L PROVE J(h[k + 1], k + 1)
      OBVIOUS
    <3>1. k \in 0..L /\ k # L
      BY <1>1
    <3> QED
      BY <1>4, <2>2, <3>1
  <2>3. \A k \in Nat : k \in Q
    <3> HIDE DEF Q
    <3> QED
      BY <2>1, <2>2, SetInduction
  <2> QED
    BY <1>1, <2>3
<1> DEFINE r == h[L]
<1> HIDE DEF r
<1>6. J(r, L)
  BY <1>5 DEF r
<1>7. r.ms.areas = areas
  <2>1. r.ms.areas \in Seq(AreaType) /\ Len(r.ms.areas) = Len(areas)
    BY <1>6 DEF MemType, SpaceType, L
  <2>2. \A i \in 1..Len(areas) : r.ms.areas[i] = areas[i]
    BY <1>6 DEF L
  <2> QED
    BY <2>1, <2>2, SeqEqual
<1>8. First(L) = Covered(areas)
  BY <1>1 DEF Covered
<1> HIDE DEF First
<1> QED
  BY <1>2, <1>6, <1>7, <1>8 DEF r

-----------------------------------------------------------------------------
(* A space cannot map more pages than there are frames. *)
LEMMA FramesBoundPages ==
  ASSUME NEW x \in MemType, NEW others, Exact(x, others), NEW node,
         node \in DOMAIN x.ms.tables, NEW n \in Nat, NEW gap,
         (0..(n - 1)) \ {gap} \subseteq DOMAIN x.ms.data
  PROVE  n < VMA_START
<1> DEFINE S == (0..(n - 1)) \ {gap}
           f0 == x.ms.tables[node]
           T == Frames \ {f0}
           f == [p \in S |-> x.ms.data[p]]
<1>1. /\ x.ms.data \in Partial(Int, Frames) /\ x.ms.tables \in Partial(Nodes, Frames)
  BY DEF MemType, SpaceType
<1>2. f0 \in Frames /\ f0 \in Range(x.ms.tables)
  BY <1>1, PartialElim DEF Range
<1>3. \A p \in DOMAIN x.ms.data : x.ms.data[p] \in Frames /\ x.ms.data[p] # f0
  <2>1. \A p \in DOMAIN x.ms.data : x.ms.data[p] \in Frames
    BY <1>1, PartialElim
  <2>2. \A p \in DOMAIN x.ms.data : x.ms.data[p] \in Range(x.ms.data)
    BY DEF Range
  <2> QED
    BY <1>2, <2>1, <2>2 DEF Exact, Proper
<1>4. start \in Int /\ end \in Int /\ start < end /\ end - 1 \in Int
  BY PageRangeAssumption
<1>5. IsFiniteSet(Frames) /\ Cardinality(Frames) = end - start
  BY <1>4, FS_Interval DEF Frames
<1>6. IsFiniteSet(T) /\ Cardinality(T) = end - start - 1
  BY <1>2, <1>4, <1>5, FS_RemoveElement
<1>7. IsFiniteSet(S) /\ Cardinality(S) >= n - 1 /\ Cardinality(S) \in Int
  <2>1. 0 \in Int /\ n - 1 \in Int
    OBVIOUS
  <2>2. IsFiniteSet(0..(n - 1)) /\ Cardinality(0..(n - 1)) = n
    BY <2>1, FS_Interval
  <2> DEFINE I == 0..(n - 1)
  <2> HIDE DEF I
  <2>3. IsFiniteSet(I) /\ Cardinality(I) = n
    BY <2>2 DEF I
  <2>4. /\ IsFiniteSet(I \ {gap})
        /\ Cardinality(I \ {gap}) = IF gap \in I THEN n - 1 ELSE n
    BY <2>3, FS_RemoveElement
  <2>5. S = I \ {gap}
    BY DEF I
  <2> HIDE DEF S
  <2> QED
    BY <2>4, <2>5
<1>8. f \in [S -> T]
  BY <1>3
<1>9. \A p, q \in S : f[p] = f[q] => p = q
  <2>1. OneToOne(x.ms.data)
    BY DEF Exact, Proper
  <2> QED
    BY <2>1 DEF OneToOne
<1> HIDE DEF f, S, T
<1>10. ~(Cardinality(T) < Cardinality(S))
  BY <1>6, <1>7, <1>8, <1>9, FS_PigeonHole
<1>11. end - start < VMA_START /\ VMA_START \in Int
  BY AddressSpaceAssumption, LayoutAssumption
<1> QED
  BY <1>4, <1>6, <1>7, <1>10, <1>11

(* A space that does not exist owns nothing. *)
LEMMA EmptySpace ==
  /\ NoSpace \in SpaceType /\ Owned(NoSpace) = {} /\ Proper(NoSpace)
  /\ Match(NoSpace)
<1>1. /\ NoSpace.tables = <<>> /\ NoSpace.pte = <<>> /\ NoSpace.data = <<>>
      /\ NoSpace.areas = <<>> /\ NoSpace.vma = <<>>
  BY DEF NoSpace
<1>2. /\ <<>> \in Partial(Nodes, Frames) /\ <<>> \in Partial(Int, PteType)
      /\ <<>> \in Partial(Int, Frames) /\ DOMAIN <<>> = {}
  BY EmptyMap
<1>3. <<>> \in Seq(AreaType)
  OBVIOUS
<1>4. NoSpace \in SpaceType
  BY <1>2, <1>3 DEF NoSpace, SpaceType
<1>5. Range(<<>>) = {} /\ OneToOne(<<>>)
  BY <1>2 DEF Range, OneToOne
<1>6. Owned(NoSpace) = {}
  BY <1>1, <1>5 DEF Owned
<1>7. Proper(NoSpace)
  BY <1>1, <1>5 DEF Proper
<1>8. Match(NoSpace)
  BY <1>1, <1>2 DEF Match
<1> QED
  BY <1>4, <1>6, <1>7, <1>8

(* ms_init makes a space with tables and no pages. *)
LEMMA MsInitFacts ==
  ASSUME NEW m \in MemType
  PROVE  LET r == ms_init(m) IN
         /\ r \in MemType
         /\ r.ms.pte = <<>> /\ r.ms.areas = <<>> /\ r.ms.vma = <<>> /\ r.ms.data = <<>>
         /\ r.err = m.err \/ r.err = "no_frame_to_alloc"
         /\ Good(r) => Root \in DOMAIN r.ms.tables
         /\ Match(r.ms) /\ Exact(r, m.used)
<1> DEFINE z == [m EXCEPT !.ms = NoSpace]
           a == AddTable(z, Root)
           r == AddTables(a, TRAMPOLINE)
<1>1. Root \in Nodes /\ TRAMPOLINE \in Int
  <2>1. 0 \in Int
    OBVIOUS
  <2>2. Root \in Nodes
    BY <2>1, NodesOfPage
  <2> QED
    BY <2>2, AddressSpaceAssumption
<1>2. NoSpace \in SpaceType /\ Owned(NoSpace) = {} /\ Proper(NoSpace)
  BY EmptySpace
<1>3. z \in MemType /\ z.ms = NoSpace /\ z.used = m.used /\ z.err = m.err
  BY <1>2 DEF MemType
<1>4. Exact(z, m.used)
  BY <1>2, <1>3 DEF Exact
<1> HIDE DEF z
<1>5. /\ a \in MemType
      /\ a.ms.pte = z.ms.pte /\ a.ms.areas = z.ms.areas
      /\ a.ms.vma = z.ms.vma /\ a.ms.data = z.ms.data
      /\ a.err = z.err \/ (Good(z) /\ a.err = "no_frame_to_alloc")
      /\ Good(a) => Root \in DOMAIN a.ms.tables
  BY <1>1, <1>3, AddTableFacts
<1>6. Exact(a, m.used)
  BY <1>1, <1>3, <1>4, AddTableExact
<1> HIDE DEF a
<1>7. /\ r \in MemType
      /\ r.ms.pte = a.ms.pte /\ r.ms.areas = a.ms.areas
      /\ r.ms.vma = a.ms.vma /\ r.ms.data = a.ms.data
      /\ DOMAIN a.ms.tables \subseteq DOMAIN r.ms.tables
      /\ r.err = a.err \/ (Good(a) /\ r.err = "no_frame_to_alloc")
  BY <1>1, <1>5, AddTablesFacts
<1>8. Exact(r, m.used)
  BY <1>1, <1>5, <1>6, AddTablesExact
<1> HIDE DEF r
<1>9. r.ms.pte = <<>> /\ r.ms.areas = <<>> /\ r.ms.vma = <<>> /\ r.ms.data = <<>>
  BY <1>3, <1>5, <1>7 DEF NoSpace
<1>10. Match(r.ms)
  BY <1>9, EmptyMap DEF Match
<1>11. Good(r) => Root \in DOMAIN r.ms.tables
  BY <1>5, <1>7 DEF Good
<1>12. ms_init(m) = r
  BY DEF ms_init, r, a, z
<1>13. r.err = m.err \/ r.err = "no_frame_to_alloc"
  BY <1>3, <1>5, <1>7
<1> QED
  BY <1>7, <1>8, <1>9, <1>10, <1>11, <1>12, <1>13

-----------------------------------------------------------------------------
(* The frames of all spaces. *)
Partitioned(sp, u) ==
    /\ \A t \in Owners : Proper(sp[t])
    /\ \A t, v \in Owners : t # v => Owned(sp[t]) \cap Owned(sp[v]) = {}
    /\ u = UNION {Owned(sp[t]) : t \in Owners}
Others(sp, t) == UNION {Owned(sp[v]) : v \in Owners \ {t}}

(* A space among all spaces. *)
LEMMA PartExact ==
  ASSUME NEW sp, NEW u, Partitioned(sp, u), NEW t \in Owners, NEW m,
         m.ms = sp[t], m.used = u
  PROVE  Exact(m, Others(sp, t))
<1>1. u = Others(sp, t) \cup Owned(sp[t])
  BY DEF Partitioned, Others
<1>2. Others(sp, t) \cap Owned(sp[t]) = {}
  BY DEF Partitioned, Others
<1> QED
  BY <1>1, <1>2 DEF Exact, Partitioned

(* A step of one space that keeps it apart keeps all apart. *)
LEMMA PartUpdate ==
  ASSUME NEW sp \in [Owners -> SpaceType], NEW u, Partitioned(sp, u),
         NEW t \in Owners, NEW m \in MemType, Exact(m, Others(sp, t))
  PROVE  LET n == [sp EXCEPT ![t] = m.ms] IN
         n \in [Owners -> SpaceType] /\ Partitioned(n, m.used)
<1> DEFINE n == [sp EXCEPT ![t] = m.ms]
<1>1. m.ms \in SpaceType
  BY DEF MemType
<1>2. n \in [Owners -> SpaceType] /\ n[t] = m.ms
      /\ \A v \in Owners : v # t => n[v] = sp[v]
  BY <1>1
<1> HIDE DEF n
<1>3. \A v \in Owners : Proper(n[v])
  BY <1>2 DEF Partitioned, Exact
<1>4. \A v \in Owners : v # t => Owned(sp[v]) \subseteq Others(sp, t)
  BY DEF Others
<1>5. \A v \in Owners : v # t => Owned(n[t]) \cap Owned(n[v]) = {}
  BY <1>2, <1>4 DEF Exact
<1>6. ASSUME NEW v \in Owners, NEW w \in Owners, v # w
      PROVE  Owned(n[v]) \cap Owned(n[w]) = {}
  <2>1. CASE v = t
    BY <1>5, <1>6, <2>1
  <2>2. CASE w = t
    BY <1>5, <1>6, <2>2
  <2>3. CASE v # t /\ w # t
    BY <1>2, <1>6, <2>3 DEF Partitioned
  <2> QED
    BY <2>1, <2>2, <2>3
<1>7. m.used = UNION {Owned(n[v]) : v \in Owners}
  <2>1. m.used = Others(sp, t) \cup Owned(n[t])
    BY <1>2 DEF Exact
  <2>2. Others(sp, t) = UNION {Owned(n[v]) : v \in Owners \ {t}}
    BY <1>2 DEF Others
  <2> QED
    BY <2>1, <2>2
<1> QED
  BY <1>2, <1>3, <1>6, <1>7 DEF Partitioned, n

-----------------------------------------------------------------------------
(* The space of a live task. *)

(* The longest file mapping. *)
Most == CHOOSE most \in 0..TRAMPOLINE :
            /\ \A n \in Lengths : (n + PAGE_SIZE - 1) \div PAGE_SIZE <= most
            /\ VMA_START + MAX_VMAS * most < TRAMPOLINE

Placed(vma) ==
    /\ Len(vma) <= MAX_VMAS
    /\ \A i \in DOMAIN vma : /\ VMA_START <= vma[i].vm_start
                             /\ vma[i].vm_start <= vma[i].vm_end
                             /\ vma[i].vm_end <= VMA_START + i * Most
    /\ \A i, j \in DOMAIN vma : i < j => vma[i].vm_end <= vma[j].vm_start

Low(areas) == Covered(areas) \subseteq (0..(VMA_START - 1)) \cup {TRAP_CONTEXT}

(* All pages below the break but one. *)
Filled(areas, break) ==
    \E gap \in Int : (0..(va_ceil(break) - 1)) \ {gap} \subseteq Covered(areas)

Sound(s, break) ==
    /\ Match(s) /\ Root \in DOMAIN s.tables
    /\ Covered(s.areas) \subseteq DOMAIN s.pte
    /\ DOMAIN s.pte \subseteq Covered(s.areas) \cup Covered(s.vma)
    /\ Disjoint(s.areas) /\ Low(s.areas) /\ Placed(s.vma)
    /\ Filled(s.areas, break)

(* The areas of a task that never left its break inside a page. *)
Packed(areas, break) ==
    /\ break % PAGE_SIZE = 0
    /\ Covered(areas) \subseteq (0..(va_floor(break) - 1)) \cup {TRAP_CONTEXT}

(* What file mappings let user code do, its pages do too. *)
Granted(s) ==
    \A i \in DOMAIN s.vma :
        /\ "U" \in s.vma[i].map_perm
        /\ "W" \in s.vma[i].map_perm => "R" \in s.vma[i].map_perm
        /\ \A p \in PagesOf(s.vma[i]) \cap DOMAIN s.pte :
             s.pte[p].perm = s.vma[i].map_perm

Sane(s, break) == Packed(s.areas, break) /\ Granted(s)

(* The bound LayoutAssumption speaks of. *)
LEMMA MostFacts ==
  /\ Most \in Nat
  /\ \A n \in Lengths : va_ceil(n) <= Most
  /\ VMA_START + MAX_VMAS * Most <= TRAP_CONTEXT
<1> DEFINE P(most) == /\ \A n \in Lengths : (n + PAGE_SIZE - 1) \div PAGE_SIZE <= most
                      /\ VMA_START + MAX_VMAS * most < TRAMPOLINE
<1>1. \E most \in 0..TRAMPOLINE : P(most)
  BY LayoutAssumption
<1>2. Most \in 0..TRAMPOLINE /\ P(Most)
  <2> HIDE DEF P
  <2>1. Most = CHOOSE most \in 0..TRAMPOLINE : P(most)
    BY DEF Most, P
  <2> QED
    BY <1>1, <2>1
<1> HIDE DEF Most
<1>3. TRAMPOLINE \in Nat /\ VMA_START \in Nat /\ MAX_VMAS \in Nat
  BY AddressSpaceAssumption
<1>4. Most \in Nat
  BY <1>2, <1>3
<1>5. MAX_VMAS * Most \in Nat
  BY <1>3, <1>4
<1> QED
  BY <1>2, <1>3, <1>4, <1>5 DEF va_ceil, TRAP_CONTEXT

(* The pages of a list with one more area. *)
LEMMA CoveredAppend ==
  ASSUME NEW areas \in Seq(AreaType), NEW a \in AreaType
  PROVE  Covered(Append(areas, a)) = Covered(areas) \cup PagesOf(a)
<1> DEFINE n == Append(areas, a)  L == Len(areas)
<1>1. /\ L \in Nat /\ DOMAIN areas = 1..L /\ DOMAIN n = 1..(L + 1)
      /\ n[L + 1] = a /\ \A i \in 1..L : n[i] = areas[i]
  OBVIOUS
<1>2. 1..(L + 1) = 1..L \cup {L + 1}
  BY <1>1
<1> HIDE DEF n, L
<1>3. Covered(n) = Covered(areas) \cup PagesOf(a)
  BY <1>1, <1>2 DEF Covered
<1> QED
  BY <1>3 DEF n

(* One more area that overlaps none. *)
LEMMA DisjointAppend ==
  ASSUME NEW areas \in Seq(AreaType), NEW a \in AreaType,
         Disjoint(areas), Covered(areas) \cap PagesOf(a) = {}
  PROVE  Disjoint(Append(areas, a))
<1> DEFINE n == Append(areas, a)  L == Len(areas)
<1>1. /\ L \in Nat /\ DOMAIN areas = 1..L /\ DOMAIN n = 1..(L + 1)
      /\ n[L + 1] = a /\ \A i \in 1..L : n[i] = areas[i]
  OBVIOUS
<1>2. \A i \in 1..L : PagesOf(areas[i]) \cap PagesOf(a) = {}
  BY <1>1 DEF Covered
<1> HIDE DEF n, L
<1>3. ASSUME NEW i \in 1..(L + 1), NEW j \in 1..(L + 1), i # j
      PROVE  PagesOf(n[i]) \cap PagesOf(n[j]) = {}
  <2>1. CASE i = L + 1
    <3>1. j \in 1..L
      BY <1>1, <1>3, <2>1
    <3> QED
      BY <1>1, <1>2, <2>1, <3>1
  <2>2. CASE j = L + 1
    <3>1. i \in 1..L
      BY <1>1, <1>3, <2>2
    <3> QED
      BY <1>1, <1>2, <2>2, <3>1
  <2>3. CASE i # L + 1 /\ j # L + 1
    <3>1. i \in 1..L /\ j \in 1..L
      BY <1>1, <2>3
    <3> QED
      BY <1>1, <1>3, <3>1 DEF Disjoint
  <2> QED
    BY <2>1, <2>2, <2>3
<1> QED
  BY <1>1, <1>3 DEF Disjoint, n

(* The members of a list of areas. *)
LEMMA AreaSeq ==
  ASSUME NEW areas \in Seq(AreaType)
  PROVE  /\ Len(areas) \in Nat /\ DOMAIN areas = 1..Len(areas)
         /\ \A i \in DOMAIN areas :
              /\ areas[i] \in AreaType
              /\ areas[i].vm_start \in Int /\ areas[i].vm_end \in Int
              /\ areas[i].map_perm \in SUBSET Perms
<1>1. Len(areas) \in Nat /\ DOMAIN areas = 1..Len(areas)
  OBVIOUS
<1>2. \A i \in 1..Len(areas) : areas[i] \in AreaType
  OBVIOUS
<1> QED
  BY <1>1, <1>2 DEF AreaType

(* File mappings lie between VMA_START and the trap context, apart. *)
LEMMA MappingsPlaced ==
  ASSUME NEW vma \in Seq(AreaType), Placed(vma)
  PROVE  /\ Covered(vma) \subseteq VMA_START..(TRAP_CONTEXT - 1)
         /\ Disjoint(vma)
<1>0. /\ VMA_START \in Nat /\ MAX_VMAS \in Nat /\ TRAP_CONTEXT \in Int /\ Most \in Nat
      /\ VMA_START + MAX_VMAS * Most <= TRAP_CONTEXT
  <2>1. VMA_START \in Nat /\ MAX_VMAS \in Nat /\ TRAP_CONTEXT \in Int
    BY AddressSpaceAssumption DEF TRAP_CONTEXT
  <2> QED
    BY <2>1, MostFacts
<1>1. /\ Len(vma) \in Nat /\ DOMAIN vma = 1..Len(vma)
      /\ \A i \in DOMAIN vma : vma[i].vm_start \in Int /\ vma[i].vm_end \in Int
  BY AreaSeq
<1>2. ASSUME NEW i \in DOMAIN vma PROVE PagesOf(vma[i]) \subseteq VMA_START..(TRAP_CONTEXT - 1)
  <2>1. i \in Nat /\ i <= MAX_VMAS
    BY <1>0, <1>1 DEF Placed
  <2>2. i * Most <= MAX_VMAS * Most /\ i * Most \in Int /\ MAX_VMAS * Most \in Int
    BY <1>0, <2>1
  <2>3. VMA_START <= vma[i].vm_start /\ vma[i].vm_end <= VMA_START + i * Most
    BY DEF Placed
  <2>4. vma[i].vm_end <= TRAP_CONTEXT
    BY <1>0, <1>1, <2>2, <2>3
  <2> QED
    BY <1>0, <1>1, <2>3, <2>4 DEF PagesOf
<1>3. ASSUME NEW i \in DOMAIN vma, NEW j \in DOMAIN vma, i # j
      PROVE  PagesOf(vma[i]) \cap PagesOf(vma[j]) = {}
  <2>1. i < j \/ j < i
    BY <1>1, <1>3
  <2>2. vma[i].vm_end <= vma[j].vm_start \/ vma[j].vm_end <= vma[i].vm_start
    BY <2>1 DEF Placed
  <2> QED
    BY <1>1, <2>2 DEF PagesOf
<1>4. Covered(vma) \subseteq VMA_START..(TRAP_CONTEXT - 1)
  BY <1>2 DEF Covered
<1> QED
  BY <1>3, <1>4 DEF Disjoint

(* Where the mappings, the trap context and the trampoline lie. *)
LEMMA Layout ==
  /\ VMA_START \in Nat /\ TRAP_CONTEXT \in Nat /\ TRAMPOLINE \in Nat
  /\ VMA_START < TRAP_CONTEXT /\ TRAP_CONTEXT = TRAMPOLINE - 1
  BY AddressSpaceAssumption DEF TRAP_CONTEXT

-----------------------------------------------------------------------------
(* brk. *)
LEMMA BreakAreaFacts ==
  ASSUME NEW old \in Nat, NEW new \in Nat
  PROVE  LET a == BreakArea(old, new) IN
         /\ a \in AreaType /\ a.vm_start = va_floor(old)
         /\ PagesOf(a) = va_floor(old)..(va_ceil(new) - 1)
<1>1. va_floor(old) \in Int /\ va_ceil(new) \in Int
  BY PageBounds
<1> QED
  BY <1>1 DEF BreakArea, Area, AreaType, PagesOf, Perms

(* A brk that finds frames keeps the space sound, and its areas low. *)
LEMMA BrkSound ==
  ASSUME NEW m \in MemType, NEW old \in Nat, NEW new \in Nat, Good(m),
         Sound(m.ms, old), NEW others, Exact(m, others),
         Good(ms_push(m, BreakArea(old, new)))
  PROVE  LET r == ms_push(m, BreakArea(old, new)) IN
         /\ va_ceil(new) < VMA_START
         /\ MappedTo(m, r, va_floor(old)..(va_ceil(new) - 1), others)
         /\ Covered(r.ms.areas) = Covered(m.ms.areas)
                                    \cup va_floor(old)..(va_ceil(new) - 1)
         /\ r.ms.vma = m.ms.vma
         /\ Sound(r.ms, new)
<1> DEFINE a == BreakArea(old, new)
           r == ms_push(m, a)
           f == va_floor(old)
           c == va_ceil(new)
           co == va_ceil(old)
<1>1. f \in Nat /\ c \in Nat /\ co \in Nat /\ f <= co
  BY PageBounds
<1>2. a \in AreaType /\ PagesOf(a) = f..(c - 1)
  BY BreakAreaFacts
<1>3. Match(m.ms)
  BY DEF Sound
<1> HIDE DEF a, f, c, co
<1>4. /\ r \in MemType
      /\ r.ms.areas = Append(m.ms.areas, a) /\ r.ms.vma = m.ms.vma
      /\ DOMAIN m.ms.tables \subseteq DOMAIN r.ms.tables
      /\ MappedTo(m, r, f..(c - 1), others)
  BY <1>2, <1>3, MsPushFacts DEF a
<1>5. m.ms.areas \in Seq(AreaType) /\ m.ms.vma \in Seq(AreaType)
  BY DEF MemType, SpaceType
<1> HIDE DEF r
<1>6. Covered(r.ms.areas) = Covered(m.ms.areas) \cup f..(c - 1)
  BY <1>2, <1>4, <1>5, CoveredAppend
<1>7. /\ (f..(c - 1)) \cap DOMAIN m.ms.pte = {}
      /\ DOMAIN r.ms.pte = DOMAIN m.ms.pte \cup f..(c - 1)
      /\ Match(r.ms) /\ Exact(r, others)
  BY <1>4 DEF MappedTo
<1>8. /\ Covered(r.ms.areas) \subseteq DOMAIN r.ms.pte
      /\ DOMAIN r.ms.pte \subseteq Covered(r.ms.areas) \cup Covered(r.ms.vma)
      /\ Covered(m.ms.areas) \cap (f..(c - 1)) = {}
  BY <1>4, <1>6, <1>7 DEF Sound
<1>9. Disjoint(r.ms.areas)
  <2>1. Disjoint(m.ms.areas)
    BY DEF Sound
  <2> QED
    BY <1>2, <1>4, <1>5, <1>8, <2>1, DisjointAppend
<1>10. PICK gap \in Int : (0..(co - 1)) \ {gap} \subseteq Covered(m.ms.areas)
  BY DEF Sound, Filled, co
<1>11. (0..(c - 1)) \ {gap} \subseteq Covered(r.ms.areas)
  <2> SUFFICES ASSUME NEW p \in 0..(c - 1), p # gap PROVE p \in Covered(r.ms.areas)
    OBVIOUS
  <2>1. CASE p < co
    BY <1>1, <1>6, <1>10, <2>1
  <2>2. CASE ~(p < co)
    BY <1>1, <1>6, <2>2
  <2> QED
    BY <2>1, <2>2
<1>12. Root \in DOMAIN r.ms.tables
  BY <1>4 DEF Sound
<1>13. c < VMA_START
  <2>1. (0..(c - 1)) \ {gap} \subseteq DOMAIN r.ms.data
    BY <1>7, <1>8, <1>11 DEF Match
  <2> QED
    BY <1>1, <1>4, <1>7, <1>12, <2>1, FramesBoundPages
<1>14. Low(r.ms.areas)
  <2>1. f..(c - 1) \subseteq 0..(VMA_START - 1)
    BY <1>1, <1>13, Layout
  <2> QED
    BY <1>6, <2>1 DEF Sound, Low
<1>15. Placed(r.ms.vma)
  BY <1>4 DEF Sound
<1>16. Filled(r.ms.areas, new)
  BY <1>11 DEF Filled, c
<1>17. Sound(r.ms, new)
  BY <1>7, <1>8, <1>9, <1>12, <1>14, <1>15, <1>16 DEF Sound
<1> QED
  BY <1>4, <1>6, <1>13, <1>17 DEF r, a, f, c

(* A brk upwards to a whole page finds no entry taken. *)
LEMMA BrkSane ==
  ASSUME NEW m \in MemType, NEW old \in Nat, NEW new \in Nat, Good(m),
         Sound(m.ms, old), NEW others, Exact(m, others),
         Sane(m.ms, old), old <= new, new % PAGE_SIZE = 0
  PROVE  LET r == ms_push(m, BreakArea(old, new)) IN
         r.err # "map" /\ (Good(r) => Sane(r.ms, new))
<1> DEFINE a == BreakArea(old, new)
           r == ms_push(m, a)
           f == va_floor(old)
           c == va_ceil(new)
<1>1. f \in Nat /\ c \in Nat /\ va_ceil(old) = f /\ va_floor(new) = c /\ f <= c
  BY PageBounds, CeilGrows DEF Sane, Packed
<1>2. a \in AreaType /\ PagesOf(a) = f..(c - 1) /\ a.vm_start = f
  BY BreakAreaFacts
<1>3. Match(m.ms)
  BY DEF Sound
<1>4. m.ms.vma \in Seq(AreaType) /\ Placed(m.ms.vma)
  BY DEF MemType, SpaceType, Sound
<1>5. Covered(m.ms.vma) \subseteq VMA_START..(TRAP_CONTEXT - 1)
  BY <1>4, MappingsPlaced
<1>6. r.err = "map" => \E p \in PagesOf(a) : TakenAt(m, p, a.vm_start, others)
  <2> HIDE DEF a
  <2> QED
    BY <1>2, <1>3, MsPushFacts
<1>7. Covered(m.ms.areas) \subseteq (0..(f - 1)) \cup {TRAP_CONTEXT}
  BY DEF Sane, Packed
<1>8. r.err # "map"
  <2> SUFFICES ASSUME r.err = "map" PROVE FALSE
    OBVIOUS
  <2> HIDE DEF a, r, f, c
  <2>1. PICK p \in f..(c - 1) : TakenAt(m, p, f, others)
    BY <1>2, <1>6
  <2>2. p \in DOMAIN m.ms.pte
    BY <2>1 DEF TakenAt
  <2>3. PICK x \in MemType : /\ Exact(x, others)
                             /\ DOMAIN x.ms.data = DOMAIN m.ms.pte \cup f..(p - 1)
                             /\ DOMAIN m.ms.tables \subseteq DOMAIN x.ms.tables
    BY <2>1 DEF TakenAt
  <2>4. p \in Nat /\ f <= p
    BY <1>1
  <2>5. p \in Covered(m.ms.areas) \cup Covered(m.ms.vma)
    BY <2>2 DEF Sound
  <2>6. VMA_START <= p
    BY <1>1, <1>5, <1>7, <2>4, <2>5, Layout
  <2>7. PICK gap \in Int : (0..(f - 1)) \ {gap} \subseteq Covered(m.ms.areas)
    BY <1>1 DEF Sound, Filled
  <2>8. (0..(p - 1)) \ {gap} \subseteq DOMAIN x.ms.data
    <3> SUFFICES ASSUME NEW q \in 0..(p - 1), q # gap PROVE q \in DOMAIN x.ms.data
      OBVIOUS
    <3>1. CASE q < f
      <4>1. q \in Covered(m.ms.areas)
        BY <1>1, <2>7, <3>1
      <4> QED
        BY <2>3, <4>1 DEF Sound
    <3>2. CASE ~(q < f)
      BY <1>1, <2>3, <2>4, <3>2
    <3> QED
      BY <3>1, <3>2
  <2>9. Root \in DOMAIN x.ms.tables
    BY <2>3 DEF Sound
  <2>10. p < VMA_START
    BY <2>3, <2>4, <2>8, <2>9, FramesBoundPages
  <2> QED
    BY <2>4, <2>6, <2>10, Layout
<1>9. ASSUME Good(r) PROVE Sane(r.ms, new)
  <2>1. /\ c < VMA_START
        /\ MappedTo(m, r, f..(c - 1), others)
        /\ Covered(r.ms.areas) = Covered(m.ms.areas) \cup f..(c - 1)
        /\ r.ms.vma = m.ms.vma
    BY <1>9, BrkSound
  <2> HIDE DEF a, r, f, c
  <2>2. Packed(r.ms.areas, new)
    <3>1. (0..(f - 1)) \subseteq 0..(c - 1) /\ (f..(c - 1)) \subseteq 0..(c - 1)
      BY <1>1
    <3> QED
      BY <1>1, <1>7, <2>1, <3>1 DEF Packed
  <2>3. Granted(r.ms)
    <3> SUFFICES ASSUME NEW i \in DOMAIN m.ms.vma,
                        NEW p \in PagesOf(m.ms.vma[i]) \cap DOMAIN r.ms.pte
                 PROVE  r.ms.pte[p].perm = m.ms.vma[i].map_perm
      BY <2>1 DEF Sane, Granted
    <3>1. p \in Covered(m.ms.vma)
      BY DEF Covered
    <3>2. p \notin f..(c - 1)
      BY <1>1, <1>5, <2>1, <3>1, Layout
    <3>3. p \in DOMAIN m.ms.pte /\ r.ms.pte[p] = m.ms.pte[p]
      BY <2>1, <3>2 DEF MappedTo
    <3> QED
      BY <3>3 DEF Sane, Granted
  <2> QED
    BY <2>2, <2>3 DEF Sane
<1> QED
  BY <1>8, <1>9

(* A brk within a page. *)
LEMMA BrkSamePage ==
  ASSUME NEW s, NEW old \in Nat, NEW new \in Nat, va_ceil(old) = va_ceil(new)
  PROVE  /\ Sound(s, old) => Sound(s, new)
         /\ Sane(s, old) /\ new % PAGE_SIZE = 0 => Sane(s, new)
<1>1. Sound(s, old) => Sound(s, new)
  BY DEF Sound, Filled
<1>2. ASSUME Sane(s, old), new % PAGE_SIZE = 0 PROVE Sane(s, new)
  <2>1. va_floor(old) = va_floor(new)
    BY <1>2, PageBounds DEF Sane, Packed
  <2> QED
    BY <1>2, <2>1 DEF Sane, Packed
<1> QED
  BY <1>1, <1>2

-----------------------------------------------------------------------------
(* A fault on a page of a file mapping. *)
LEMMA FaultSound ==
  ASSUME NEW m \in MemType, NEW break \in Nat, Sound(m.ms, break),
         NEW others, Exact(m, others),
         NEW i \in DOMAIN m.ms.vma, NEW vpn \in PagesOf(m.ms.vma[i]),
         Good(ma_map_one(m, vpn, m.ms.vma[i].map_perm))
  PROVE  LET r == ma_map_one(m, vpn, m.ms.vma[i].map_perm) IN
         /\ r \in MemType /\ Exact(r, others)
         /\ Sound(r.ms, break)
         /\ Sane(m.ms, break) => Sane(r.ms, break)
<1> DEFINE vma == m.ms.vma
           perm == vma[i].map_perm
           r == ma_map_one(m, vpn, perm)
<1>1. vma \in Seq(AreaType) /\ Placed(vma)
  BY DEF MemType, SpaceType, Sound
<1>2. perm \in SUBSET Perms /\ vpn \in Int
  <2>1. vma[i].vm_start \in Int /\ vma[i].vm_end \in Int /\ perm \in SUBSET Perms
    BY <1>1, AreaSeq
  <2> QED
    BY <2>1 DEF PagesOf
<1>3. Match(m.ms)
  BY DEF Sound
<1> HIDE DEF vma, perm
<1>4. /\ r \in MemType
      /\ r.ms.areas = m.ms.areas /\ r.ms.vma = vma
      /\ DOMAIN m.ms.tables \subseteq DOMAIN r.ms.tables
  BY <1>2, MapOneFacts DEF vma
<1>5. /\ vpn \notin DOMAIN m.ms.pte
      /\ DOMAIN r.ms.pte = DOMAIN m.ms.pte \cup {vpn}
      /\ r.ms.pte[vpn].perm = perm
      /\ \A p \in DOMAIN m.ms.pte : r.ms.pte[p] = m.ms.pte[p]
      /\ Match(r.ms)
  BY <1>2, <1>3, MapOneMatch DEF vma, perm
<1>6. Exact(r, others)
  <2>1. vpn \notin DOMAIN m.ms.data
    BY <1>3, <1>5 DEF Match
  <2> QED
    BY <1>2, <2>1, MapOneExact
<1> HIDE DEF r
<1>7. vpn \in Covered(vma)
  BY DEF Covered, vma
<1>8. Sound(r.ms, break)
  <2>1. Covered(r.ms.areas) \subseteq DOMAIN r.ms.pte
    BY <1>4, <1>5 DEF Sound
  <2>2. DOMAIN r.ms.pte \subseteq Covered(r.ms.areas) \cup Covered(r.ms.vma)
    BY <1>4, <1>5, <1>7 DEF Sound, vma
  <2>3. Root \in DOMAIN r.ms.tables
    BY <1>4 DEF Sound
  <2>4. Disjoint(r.ms.areas) /\ Low(r.ms.areas) /\ Placed(r.ms.vma) /\ Filled(r.ms.areas, break)
    BY <1>4 DEF Sound, vma
  <2> QED
    BY <1>5, <2>1, <2>2, <2>3, <2>4 DEF Sound
<1>9. ASSUME Sane(m.ms, break) PROVE Sane(r.ms, break)
  <2>1. Packed(r.ms.areas, break)
    BY <1>4, <1>9 DEF Sane
  <2>2. Granted(r.ms)
    <3> SUFFICES ASSUME NEW j \in DOMAIN vma,
                        NEW p \in PagesOf(vma[j]) \cap DOMAIN r.ms.pte
                 PROVE  r.ms.pte[p].perm = vma[j].map_perm
      BY <1>4, <1>9 DEF Sane, Granted, vma
    <3>1. CASE p = vpn
      <4>1. j = i
        BY <1>1, <3>1, MappingsPlaced DEF Disjoint, vma
      <4> QED
        BY <1>5, <3>1, <4>1 DEF perm
    <3>2. CASE p # vpn
      BY <1>5, <1>9, <3>2 DEF Sane, Granted, vma
    <3> QED
      BY <3>1, <3>2
  <2> QED
    BY <2>1, <2>2 DEF Sane
<1> QED
  BY <1>4, <1>6, <1>8, <1>9 DEF r, vma, perm

-----------------------------------------------------------------------------
(* mmap. *)
MappedFile(s, length, prot) ==
    LET first == IF s.vma = <<>> THEN VMA_START ELSE Last(s.vma).vm_end
    IN [s EXCEPT !.vma = Append(s.vma,
          Area(first, first + va_ceil(length), prot \cup {"U"}))]

(* mmap puts its mapping after the others, over no page in use. *)
LEMMA MmapSound ==
  ASSUME NEW s \in SpaceType, NEW break \in Nat, Sound(s, break),
         NEW length \in Lengths, NEW prot \in Prots, Len(s.vma) < MAX_VMAS
  PROVE  LET n == MappedFile(s, length, prot)
         IN /\ n \in SpaceType /\ Owned(n) = Owned(s) /\ (Proper(s) => Proper(n))
            /\ Sound(n, break)
            /\ Sane(s, break) /\ ~("W" \in prot /\ "R" \notin prot) => Sane(n, break)
<1> DEFINE vma == s.vma
           L == Len(vma)
           first == IF vma = <<>> THEN VMA_START ELSE Last(vma).vm_end
           perm == prot \cup {"U"}
           a == Area(first, first + va_ceil(length), perm)
           w == Append(vma, a)
           n == [s EXCEPT !.vma = w]
<1>0. MappedFile(s, length, prot) = n
  BY DEF MappedFile
<1>1. vma \in Seq(AreaType) /\ Placed(vma)
  BY DEF SpaceType, Sound
<1>2. /\ L \in Nat /\ DOMAIN vma = 1..L
      /\ \A i \in DOMAIN vma : vma[i].vm_start \in Int /\ vma[i].vm_end \in Int
  BY <1>1, AreaSeq
<1>3. MAX_VMAS \in Nat /\ Most \in Nat /\ L + 1 <= MAX_VMAS
  <2>1. MAX_VMAS \in Nat
    BY AddressSpaceAssumption
  <2>2. Most \in Nat
    BY MostFacts
  <2> QED
    BY <1>2, <2>1, <2>2
<1>4. va_ceil(length) \in Nat /\ va_ceil(length) <= Most
  <2>1. length \in Nat
    BY AddressSpaceAssumption
  <2> QED
    BY <2>1, MostFacts, PageBounds
<1>5. /\ first \in Int /\ VMA_START <= first /\ first <= VMA_START + L * Most
      /\ \A i \in DOMAIN vma : vma[i].vm_end <= first
  <2>1. CASE vma = <<>>
    <3>1. L = 0 /\ first = VMA_START
      BY <2>1
    <3>2. L * Most = 0
      BY <1>3, <3>1
    <3> QED
      BY <1>2, <3>1, <3>2, Layout
  <2>2. CASE vma # <<>>
    <3>1. L \in DOMAIN vma /\ L > 0
      BY <1>1, <1>2, <2>2
    <3>2. first = vma[L].vm_end
      BY <2>2 DEF Last
    <3>3. /\ VMA_START <= vma[L].vm_start /\ vma[L].vm_start <= vma[L].vm_end
          /\ vma[L].vm_end <= VMA_START + L * Most
      BY <1>1, <3>1 DEF Placed
    <3>4. ASSUME NEW i \in DOMAIN vma PROVE vma[i].vm_end <= first
      <4>1. CASE i = L
        BY <1>2, <3>2, <4>1
      <4>2. CASE i # L
        <5>1. i < L
          BY <1>2, <4>2
        <5>2. vma[i].vm_end <= vma[L].vm_start
          BY <1>1, <3>1, <5>1 DEF Placed
        <5> QED
          BY <1>2, <3>1, <3>2, <3>3, <5>2
      <4> QED
        BY <4>1, <4>2
    <3> QED
      BY <1>2, <3>1, <3>2, <3>3, <3>4, Layout
  <2> QED
    BY <2>1, <2>2
<1>6. perm \in SUBSET Perms
  <2>1. prot \in SUBSET {"R", "W"}
    BY AddressSpaceAssumption
  <2> QED
    BY <2>1 DEF Perms
<1> HIDE DEF perm, vma, first
<1>7. /\ a \in AreaType /\ a.vm_start = first /\ a.vm_end = first + va_ceil(length)
      /\ a.map_perm = perm
  BY <1>4, <1>5, <1>6 DEF Area, AreaType
<1> HIDE DEF a
<1>8. /\ w \in Seq(AreaType) /\ Len(w) = L + 1 /\ DOMAIN w = 1..(L + 1)
      /\ w[L + 1] = a /\ \A i \in 1..L : w[i] = vma[i]
  BY <1>1, <1>7
<1> HIDE DEF w
<1>9. /\ n \in SpaceType /\ n.vma = w /\ n.areas = s.areas /\ n.pte = s.pte
      /\ n.data = s.data /\ n.tables = s.tables
  BY <1>8 DEF SpaceType
<1> HIDE DEF n
<1>10. Owned(n) = Owned(s) /\ (Proper(s) => Proper(n)) /\ (Match(s) => Match(n))
  BY <1>9 DEF Owned, Proper, Match
<1>11. Placed(w)
  <2>1. ASSUME NEW i \in DOMAIN w
        PROVE  /\ VMA_START <= w[i].vm_start /\ w[i].vm_start <= w[i].vm_end
               /\ w[i].vm_end <= VMA_START + i * Most
    <3>1. CASE i = L + 1
      <4>1. (L + 1) * Most = L * Most + Most /\ L * Most \in Int
        BY <1>2, <1>3
      <4>2. w[i].vm_start = first /\ w[i].vm_end = first + va_ceil(length)
        BY <1>7, <1>8, <3>1
      <4> DEFINE x == L * Most  y == i * Most
      <4>3. x \in Int /\ y = x + Most /\ first <= VMA_START + x
        BY <1>5, <3>1, <4>1
      <4> HIDE DEF x, y
      <4>4. w[i].vm_end <= VMA_START + y
        BY <1>3, <1>4, <1>5, <4>2, <4>3, Layout
      <4> QED
        BY <1>4, <1>5, <4>2, <4>4 DEF y
    <3>2. CASE i # L + 1
      <4>1. i \in 1..L
        BY <1>2, <1>8, <3>2
      <4> QED
        BY <1>1, <1>2, <1>8, <4>1 DEF Placed
    <3> QED
      BY <3>1, <3>2
  <2>2. ASSUME NEW i \in DOMAIN w, NEW j \in DOMAIN w, i < j
        PROVE  w[i].vm_end <= w[j].vm_start
    <3>1. i \in 1..L
      BY <1>2, <1>8, <2>2
    <3>2. CASE j = L + 1
      BY <1>2, <1>5, <1>7, <1>8, <3>1, <3>2
    <3>3. CASE j # L + 1
      <4>1. j \in 1..L
        BY <1>2, <1>8, <3>3
      <4> QED
        BY <1>1, <1>2, <1>8, <2>2, <3>1, <4>1 DEF Placed
    <3> QED
      BY <3>2, <3>3
  <2> QED
    BY <1>3, <1>8, <2>1, <2>2 DEF Placed
<1>12. Covered(w) = Covered(vma) \cup PagesOf(a)
  BY <1>1, <1>7, CoveredAppend DEF w
<1>13. Sound(n, break)
  <2>1. DOMAIN n.pte \subseteq Covered(n.areas) \cup Covered(n.vma)
    BY <1>9, <1>12 DEF Sound, vma
  <2> QED
    BY <1>9, <1>10, <1>11, <2>1 DEF Sound
<1>14. ASSUME Sane(s, break), ~("W" \in prot /\ "R" \notin prot) PROVE Sane(n, break)
  <2>1. Packed(n.areas, break)
    BY <1>9, <1>14 DEF Sane
  <2>2. PagesOf(a) \cap DOMAIN s.pte = {}
    <3>1. Covered(s.areas) \cap Covered(w) = {}
      <4>1. Covered(w) \subseteq VMA_START..(TRAP_CONTEXT - 1)
        BY <1>8, <1>11, MappingsPlaced
      <4>2. Covered(s.areas) \subseteq (0..(VMA_START - 1)) \cup {TRAP_CONTEXT}
        BY DEF Sound, Low
      <4> QED
        BY <4>1, <4>2, Layout
    <3>2. Covered(vma) \cap PagesOf(a) = {}
      <4>1. \A i \in 1..L : PagesOf(w[i]) \cap PagesOf(w[L + 1]) = {}
        <5>1. Disjoint(w)
          BY <1>8, <1>11, MappingsPlaced
        <5>2. \A i \in 1..L : i \in DOMAIN w /\ L + 1 \in DOMAIN w /\ i # L + 1
          BY <1>2, <1>8
        <5> QED
          BY <5>1, <5>2 DEF Disjoint
      <4> QED
        BY <1>2, <1>8, <4>1 DEF Covered
    <3> QED
      BY <1>12, <3>1, <3>2 DEF Sound, vma
  <2>3. Granted(n)
    <3> SUFFICES ASSUME NEW i \in DOMAIN w
                 PROVE  /\ "U" \in w[i].map_perm
                        /\ "W" \in w[i].map_perm => "R" \in w[i].map_perm
                        /\ \A p \in PagesOf(w[i]) \cap DOMAIN s.pte :
                             s.pte[p].perm = w[i].map_perm
      BY <1>9 DEF Granted
    <3>1. CASE i = L + 1
      <4>1. "U" \in perm /\ ("W" \in perm => "R" \in perm)
        BY <1>14 DEF perm
      <4> QED
        BY <1>7, <1>8, <2>2, <3>1, <4>1
    <3>2. CASE i # L + 1
      <4>1. i \in 1..L
        BY <1>2, <1>8, <3>2
      <4>2. i \in DOMAIN s.vma /\ w[i] = s.vma[i]
        BY <1>2, <1>8, <4>1 DEF vma
      <4> QED
        BY <1>14, <4>2 DEF Sane, Granted
    <3> QED
      BY <3>1, <3>2
  <2> QED
    BY <2>1, <2>3 DEF Sane
<1> QED
  BY <1>0, <1>9, <1>10, <1>13, <1>14

-----------------------------------------------------------------------------
(***************************************************************************)
(* The inductive invariant.                                                *)
(***************************************************************************)
SpacesTypeOK ==
    /\ space \in [Owners -> SpaceType] /\ base_size \in [Pids -> Nat]
    /\ status \in [Pids -> {"none", "alive", "zombie"}]
    /\ used \in SUBSET Frames /\ strange \in SUBSET Pids /\ panicked \in Errors

Created == {t \in Pids : status[t] # "none"}
InOrder == \E k \in 0..MAX_PID : Created = 1..k
Unborn == \A t \in Pids : status[t] = "none" => space[t] = NoSpace
KernelSound ==
    /\ Match(space[KERNEL])
    /\ \A p \in DOMAIN space[KERNEL].pte :
         p = TRAP_CONTEXT \/ \E t \in Created : p \in PagesOf(KernelStack(t))
TasksSound == \A t \in Pids : Alive(t) => Sound(space[t], base_size[t])
TasksSane == strange = {} => \A t \in Pids : Alive(t) => Sane(space[t], base_size[t])

AddressInv ==
    /\ SpacesTypeOK /\ Partitioned(space, used) /\ InOrder /\ RemapHasCause
    /\ Running => Unborn /\ KernelSound /\ TasksSound /\ TasksSane

(* Pids, and the kernel that is none. *)
LEMMA PidFacts ==
  /\ MAX_PID \in Nat /\ KERNEL \in Owners /\ KERNEL \notin Pids
  /\ Pids \subseteq Owners /\ \A t \in Pids : t \in Nat
<1>1. MAX_PID \in Nat
  BY AddressSpaceAssumption
<1> QED
  BY <1>1 DEF KERNEL, Owners, Pids

(* Pids are given in order, and the next one was not given before. *)
LEMMA FreshFacts ==
  ASSUME InOrder
  PROVE  /\ Fresh \in Nat \ {0} /\ Created = 1..(Fresh - 1)
         /\ Fresh \in Pids => status[Fresh] = "none"
<1>1. PICK k \in 0..MAX_PID : Created = 1..k
  BY DEF InOrder
<1>2. k \in Nat /\ k \in Int
  BY <1>1
<1>3. Cardinality(1..k) = k
  BY <1>2, FS_Interval
<1>4. Fresh = k + 1
  BY <1>1, <1>3 DEF Fresh, Created
<1>5. Fresh \notin Created
  BY <1>1, <1>2, <1>4
<1> QED
  BY <1>1, <1>2, <1>4, <1>5 DEF Created

(* The kernel stacks of two pids have no page in common. *)
LEMMA KernelStacks ==
  ASSUME NEW pid \in Pids
  PROVE  /\ KernelStack(pid) \in AreaType
         /\ TRAP_CONTEXT \notin PagesOf(KernelStack(pid))
         /\ \A u \in Pids : u # pid =>
              PagesOf(KernelStack(u)) \cap PagesOf(KernelStack(pid)) = {}
<1> DEFINE K == KERNEL_STACK + 1
           Top(t) == TRAP_CONTEXT - t * K
<1>1. K \in Nat /\ K > 0 /\ TRAP_CONTEXT \in Nat /\ KERNEL_STACK = K - 1
  BY AddressSpaceAssumption, Layout
<1> HIDE DEF K
<1>2. \A t \in Pids : t \in Nat /\ t >= 1
  BY PidFacts DEF Pids
<1>3. \A t \in Pids : t * K \in Nat /\ t * K >= K
  <2> TAKE t \in Pids
  <2>1. t \in Nat /\ t - 1 \in Nat
    BY <1>2
  <2>2. (t - 1) * K \in Nat /\ (t - 1) * K = t * K - K
    BY <1>1, <2>1
  <2> QED
    BY <1>1, <2>1, <2>2
<1>4. ASSUME NEW t \in Pids
      PROVE  /\ KernelStack(t) \in AreaType
             /\ PagesOf(KernelStack(t)) = (Top(t) - K + 1)..(Top(t) - 1)
  <2>1. t * K \in Int /\ Top(t) \in Int
    BY <1>1, <1>3
  <2> DEFINE T == Top(t)
  <2>2. KernelStack(t) = Area(T - KERNEL_STACK, T, {"R", "W"})
    BY DEF KernelStack, K
  <2> HIDE DEF T
  <2>3. T \in Int /\ T - KERNEL_STACK = T - K + 1
    BY <1>1, <2>1 DEF T
  <2>4. /\ Area(T - KERNEL_STACK, T, {"R", "W"}) \in AreaType
        /\ PagesOf(Area(T - KERNEL_STACK, T, {"R", "W"})) = (T - KERNEL_STACK)..(T - 1)
    BY <1>1, <2>3 DEF Area, AreaType, Perms, PagesOf
  <2> QED
    BY <2>2, <2>3, <2>4 DEF T
<1>5. TRAP_CONTEXT \notin PagesOf(KernelStack(pid))
  <2> DEFINE x == pid * K
  <2>1. x \in Nat /\ x >= K
    BY <1>3
  <2> HIDE DEF x
  <2>2. PagesOf(KernelStack(pid)) = (TRAP_CONTEXT - x - K + 1)..(TRAP_CONTEXT - x - 1)
    BY <1>4 DEF x
  <2> QED
    BY <1>1, <2>1, <2>2
<1>6. ASSUME NEW t \in Pids, NEW u \in Pids, t < u
      PROVE  PagesOf(KernelStack(t)) \cap PagesOf(KernelStack(u)) = {}
  <2> DEFINE x == t * K  y == u * K
  <2>1. t \in Nat /\ u \in Nat /\ u - t - 1 \in Nat
    BY <1>2, <1>6
  <2>2. (u - t - 1) * K \in Nat /\ (u - t - 1) * K = y - x - K
    BY <1>1, <2>1
  <2>3. x \in Nat /\ y \in Nat /\ y >= x + K
    BY <1>1, <1>3, <2>2
  <2> HIDE DEF x, y
  <2>4. PagesOf(KernelStack(t)) = (TRAP_CONTEXT - x - K + 1)..(TRAP_CONTEXT - x - 1)
    BY <1>4 DEF x
  <2>5. PagesOf(KernelStack(u)) = (TRAP_CONTEXT - y - K + 1)..(TRAP_CONTEXT - y - 1)
    BY <1>4 DEF y
  <2> QED
    BY <1>1, <2>3, <2>4, <2>5
<1>7. ASSUME NEW u \in Pids, u # pid
      PROVE  PagesOf(KernelStack(u)) \cap PagesOf(KernelStack(pid)) = {}
  <2>1. u < pid \/ pid < u
    BY <1>2, <1>7
  <2> QED
    BY <1>6, <2>1
<1> QED
  BY <1>4, <1>5, <1>7

-----------------------------------------------------------------------------
(* The creation of a task. *)
LEMMA MemoryType ==
  ASSUME SpacesTypeOK, NEW t \in Owners
  PROVE  /\ Memory(t) \in MemType /\ Memory(t).ms = space[t]
         /\ Memory(t).used = used /\ Memory(t).err = panicked
         /\ Running => Good(Memory(t))
<1>1. space[t] \in SpaceType /\ used \in SUBSET Frames /\ panicked \in Errors
  BY DEF SpacesTypeOK
<1> QED
  BY <1>1 DEF Memory, MemType, Running, Good

(* The user's part of it. *)
LEMMA NewUser ==
  ASSUME SpacesTypeOK, Partitioned(space, used), Running, NEW pid \in Pids,
         space[pid] = NoSpace,
         NEW areas \in Seq(AreaType), NEW break \in Nat,
         Disjoint(areas), Low(areas), Filled(areas, break)
  PROVE  LET user == PushAll(ms_init(Memory(pid)), areas) IN
         /\ user \in MemType /\ user.err # "map"
         /\ user.ms.areas = areas /\ user.ms.vma = <<>>
         /\ Good(user) => /\ Sound(user.ms, break)
                          /\ Exact(user, Others(space, pid))
<1> DEFINE m == Memory(pid)
           i == ms_init(m)
           user == PushAll(i, areas)
<1>1. pid \in Owners
  BY PidFacts
<1>2. m \in MemType /\ Good(m) /\ m.used = used
  BY <1>1, MemoryType
<1> HIDE DEF m
<1>3. /\ i \in MemType
      /\ i.ms.pte = <<>> /\ i.ms.areas = <<>> /\ i.ms.vma = <<>>
      /\ i.err = m.err \/ i.err = "no_frame_to_alloc"
      /\ Good(i) => Root \in DOMAIN i.ms.tables
      /\ Match(i.ms) /\ Exact(i, m.used)
  BY <1>2, MsInitFacts
<1>4. i.err # "map" /\ DOMAIN i.ms.pte = {}
  BY <1>2, <1>3, EmptyMap DEF Good
<1> HIDE DEF i
<1>5. /\ user \in MemType /\ user.ms.vma = i.ms.vma /\ user.ms.areas = areas
      /\ DOMAIN i.ms.tables \subseteq DOMAIN user.ms.tables
      /\ user.err # "map" /\ (Good(user) => Good(i))
      /\ Good(user) => /\ Match(user.ms) /\ Exact(user, used)
                       /\ DOMAIN user.ms.pte = Covered(areas)
  BY <1>2, <1>3, <1>4, PushAllFacts
<1> HIDE DEF user
<1>7. Others(space, pid) = used
  <2>1. Owned(space[pid]) = {}
    BY EmptySpace
  <2> QED
    BY <1>1, <2>1 DEF Partitioned, Others
<1>8. ASSUME Good(user) PROVE Sound(user.ms, break)
  <2>1. Root \in DOMAIN user.ms.tables
    BY <1>3, <1>5, <1>8
  <2>2. Placed(user.ms.vma)
    <3>1. user.ms.vma = <<>> /\ Len(<<>>) = 0 /\ DOMAIN <<>> = {}
      BY <1>3, <1>5, EmptyMap
    <3>2. MAX_VMAS \in Nat
      BY AddressSpaceAssumption
    <3> QED
      BY <3>1, <3>2 DEF Placed
  <2> QED
    BY <1>5, <1>8, <2>1, <2>2 DEF Sound
<1> QED
  BY <1>3, <1>5, <1>7, <1>8 DEF user, i, m

(* The creation of a task: its space, and one more kernel stack. *)
LEMMA NewTaskStep ==
  ASSUME AddressInv, Running, NEW pid, pid = Fresh,
         NEW areas \in Seq(AreaType), NEW break \in Nat,
         Disjoint(areas), Low(areas), Filled(areas, break),
         NewTask(pid, areas, break)
  PROVE  /\ pid \in Pids
         /\ space' \in [Owners -> SpaceType] /\ base_size' \in [Pids -> Nat]
         /\ status' \in [Pids -> {"none", "alive", "zombie"}]
         /\ used' \in SUBSET Frames /\ panicked' \in Errors /\ panicked' # "map"
         /\ Partitioned(space', used') /\ InOrder'
         /\ \A t \in Pids : t # pid => /\ base_size'[t] = base_size[t]
                                       /\ status'[t] = status[t]
         /\ base_size'[pid] = break /\ status'[pid] = "alive"
         /\ Running' => /\ \A t \in Pids : t # pid => space'[t] = space[t]
                        /\ space'[pid].areas = areas /\ space'[pid].vma = <<>>
                        /\ Sound(space'[pid], break) /\ KernelSound'
<1> DEFINE user == PushAll(ms_init(Memory(pid)), areas)
           k0 == [user EXCEPT !.ms = space[KERNEL]]
           kernel == ms_push(k0, KernelStack(pid))
           sp1 == [space EXCEPT ![pid] = user.ms]
<1>1. pid \in Pids /\ pid \in Owners /\ pid # KERNEL /\ KERNEL \in Owners
  BY PidFacts DEF NewTask
<1>2. status[pid] = "none" /\ Created = 1..(pid - 1) /\ pid \in Nat \ {0}
  BY <1>1, FreshFacts DEF AddressInv
<1>3. space[pid] = NoSpace
  BY <1>1, <1>2 DEF AddressInv, Unborn
<1>4. SpacesTypeOK /\ Partitioned(space, used) /\ KernelSound
  BY DEF AddressInv
<1>5. /\ user \in MemType /\ user.err # "map"
      /\ user.ms.areas = areas /\ user.ms.vma = <<>>
      /\ Good(user) => Sound(user.ms, break) /\ Exact(user, Others(space, pid))
  BY <1>1, <1>3, <1>4, NewUser
<1>6. /\ IF Good(kernel)
         THEN /\ space' = [space EXCEPT ![pid] = user.ms, ![KERNEL] = kernel.ms]
              /\ used' = kernel.used
              /\ panicked' = panicked
         ELSE panicked' = kernel.err /\ space' = space /\ used' = used
      /\ base_size' = [base_size EXCEPT ![pid] = break]
      /\ status' = [status EXCEPT ![pid] = "alive"]
  BY DEF NewTask
<1> HIDE DEF user
<1>7. space \in [Owners -> SpaceType] /\ base_size \in [Pids -> Nat]
      /\ status \in [Pids -> {"none", "alive", "zombie"}]
  BY <1>4 DEF SpacesTypeOK
<1>8. k0 \in MemType /\ k0.ms = space[KERNEL] /\ k0.used = user.used /\ k0.err = user.err
  BY <1>1, <1>5, <1>7 DEF MemType
<1>9. KernelStack(pid) \in AreaType
  BY <1>1, KernelStacks
<1> HIDE DEF k0, kernel
<1>10. Good(user) <=> Good(k0)
  BY <1>8 DEF Good
<1>11. ASSUME Good(user)
       PROVE  /\ sp1 \in [Owners -> SpaceType] /\ Partitioned(sp1, user.used)
              /\ sp1[KERNEL] = space[KERNEL] /\ Exact(k0, Others(sp1, KERNEL))
  <2>1. sp1 \in [Owners -> SpaceType] /\ Partitioned(sp1, user.used)
    BY <1>1, <1>4, <1>5, <1>7, <1>11, PartUpdate
  <2>2. sp1[KERNEL] = space[KERNEL]
    BY <1>1, <1>7
  <2> HIDE DEF sp1
  <2> QED
    BY <1>1, <1>8, <2>1, <2>2, PartExact
<1>12. Match(k0.ms)
  BY <1>4, <1>8 DEF KernelSound
<1>13. /\ kernel \in MemType
       /\ ~Good(k0) => kernel.err = k0.err
       /\ Good(kernel) => MappedTo(k0, kernel, PagesOf(KernelStack(pid)), Others(sp1, KERNEL))
       /\ Good(k0) /\ kernel.err = "map" =>
            \E p \in PagesOf(KernelStack(pid)) : p \in DOMAIN k0.ms.pte
  <2>1. Good(k0) => Match(k0.ms) /\ Exact(k0, Others(sp1, KERNEL))
    BY <1>10, <1>11, <1>12
  <2> HIDE DEF sp1
  <2> QED
    BY <1>8, <1>9, <2>1, MsPushFacts DEF kernel, TakenAt
<1>14. PagesOf(KernelStack(pid)) \cap DOMAIN k0.ms.pte = {}
  <2>1. \A t \in Created : t \in Pids /\ t # pid
    BY <1>2 DEF Created
  <2> QED
    BY <1>1, <1>4, <1>8, <2>1, KernelStacks DEF KernelSound
<1>15. kernel.err # "map"
  <2>1. Good(k0) => kernel.err # "map"
    BY <1>13, <1>14
  <2>2. ~Good(k0) => kernel.err # "map"
    BY <1>5, <1>8, <1>13
  <2> QED
    BY <2>1, <2>2
<1>16. /\ base_size' \in [Pids -> Nat]
       /\ status' \in [Pids -> {"none", "alive", "zombie"}]
       /\ \A t \in Pids : t # pid => base_size'[t] = base_size[t] /\ status'[t] = status[t]
       /\ base_size'[pid] = break /\ status'[pid] = "alive"
  BY <1>1, <1>6, <1>7
<1>17. Created' = 1..pid
  <2>1. Created' = Created \cup {pid}
    BY <1>1, <1>16 DEF Created
  <2> QED
    BY <1>2, <2>1
<1>18. InOrder'
  <2>1. pid \in 0..MAX_PID
    BY <1>1, PidFacts DEF Pids
  <2> QED
    BY <1>17, <2>1 DEF InOrder
<1>19. CASE ~Good(kernel)
  <2>1. panicked' = kernel.err /\ space' = space /\ used' = used
    BY <1>6, <1>19
  <2>2. panicked' \in Errors /\ ~Running'
    BY <1>13, <1>19, <2>1 DEF MemType, Running, Good
  <2> QED
    BY <1>1, <1>4, <1>15, <1>16, <1>18, <2>1, <2>2 DEF SpacesTypeOK
<1>20. CASE Good(kernel)
  <2>1. Good(user)
    BY <1>10, <1>13, <1>20 DEF Good
  <2>2. /\ space' = [space EXCEPT ![pid] = user.ms, ![KERNEL] = kernel.ms]
        /\ used' = kernel.used /\ panicked' = panicked
    BY <1>6, <1>20
  <2>3. kernel.ms \in SpaceType /\ kernel.used \in SUBSET Frames /\ user.ms \in SpaceType
    BY <1>5, <1>13 DEF MemType
  <2>4. /\ space'[pid] = user.ms /\ space'[KERNEL] = kernel.ms
        /\ \A t \in Owners : t # pid /\ t # KERNEL => space'[t] = space[t]
        /\ space' \in [Owners -> SpaceType]
    BY <1>1, <1>7, <2>2, <2>3
  <2>5. MappedTo(k0, kernel, PagesOf(KernelStack(pid)), Others(sp1, KERNEL))
    BY <1>13, <1>20
  <2>6. Exact(kernel, Others(sp1, KERNEL))
    BY <2>5 DEF MappedTo
  <2>7. Partitioned([sp1 EXCEPT ![KERNEL] = kernel.ms], kernel.used)
    <3>1. sp1 \in [Owners -> SpaceType] /\ Partitioned(sp1, user.used)
      BY <1>11, <2>1
    <3> HIDE DEF sp1
    <3> QED
      BY <1>1, <1>13, <2>6, <3>1, PartUpdate
  <2>8. [sp1 EXCEPT ![KERNEL] = kernel.ms] = space'
    BY <2>2
  <2>9. KernelSound'
    <3>1. /\ DOMAIN kernel.ms.pte = DOMAIN k0.ms.pte \cup PagesOf(KernelStack(pid))
          /\ Match(kernel.ms)
      BY <2>5 DEF MappedTo
    <3>2. \A p \in DOMAIN k0.ms.pte :
             p = TRAP_CONTEXT \/ \E t \in Created : p \in PagesOf(KernelStack(t))
      BY <1>4, <1>8 DEF KernelSound
    <3>3. Created \subseteq Created' /\ pid \in Created'
      BY <1>2, <1>17
    <3>4. \A p \in DOMAIN kernel.ms.pte :
             p = TRAP_CONTEXT \/ \E t \in Created' : p \in PagesOf(KernelStack(t))
      BY <3>1, <3>2, <3>3
    <3> QED
      BY <2>4, <3>1, <3>4 DEF KernelSound, KernelStack, PagesOf, Area
  <2>10. Sound(space'[pid], break) /\ space'[pid].areas = areas /\ space'[pid].vma = <<>>
    BY <1>5, <2>1, <2>4
  <2>11. \A t \in Pids : t # pid => space'[t] = space[t]
    BY <2>4, PidFacts
  <2>12. panicked' \in Errors /\ panicked' # "map" /\ used' \in SUBSET Frames
    BY <1>4, <2>2, <2>3 DEF SpacesTypeOK, Running
  <2>13. Partitioned(space', used')
    BY <2>2, <2>7, <2>8
  <2> QED
    BY <1>1, <1>16, <1>18, <2>4, <2>9, <2>10, <2>11, <2>12, <2>13
<1> QED
  BY <1>19, <1>20

(* The creation of a task keeps the invariant. *)
LEMMA NewTaskInv ==
  ASSUME AddressInv, Running, NEW pid, pid = Fresh,
         NEW areas \in Seq(AreaType), NEW break \in Nat,
         Disjoint(areas), Low(areas), Filled(areas, break),
         NewTask(pid, areas, break),
         strange' \in SUBSET Pids,
         strange' = {} => strange = {} /\ Packed(areas, break)
  PROVE  AddressInv'
<1>1. /\ pid \in Pids
      /\ space' \in [Owners -> SpaceType] /\ base_size' \in [Pids -> Nat]
      /\ status' \in [Pids -> {"none", "alive", "zombie"}]
      /\ used' \in SUBSET Frames /\ panicked' \in Errors /\ panicked' # "map"
      /\ Partitioned(space', used') /\ InOrder'
      /\ \A t \in Pids : t # pid => /\ base_size'[t] = base_size[t]
                                    /\ status'[t] = status[t]
      /\ base_size'[pid] = break /\ status'[pid] = "alive"
      /\ Running' => /\ \A t \in Pids : t # pid => space'[t] = space[t]
                     /\ space'[pid].areas = areas /\ space'[pid].vma = <<>>
                     /\ Sound(space'[pid], break) /\ KernelSound'
  BY NewTaskStep
<1>2. SpacesTypeOK'
  BY <1>1 DEF SpacesTypeOK
<1>3. RemapHasCause'
  BY <1>1 DEF RemapHasCause
<1>4. ASSUME Running' PROVE Unborn' /\ TasksSound' /\ TasksSane'
  <2>1. Unborn /\ TasksSound /\ TasksSane
    BY DEF AddressInv
  <2>2. Unborn'
    BY <1>1, <1>4, <2>1 DEF Unborn
  <2>3. \A t \in Pids : t # pid => Alive(t)' = Alive(t)
    BY <1>1 DEF Alive
  <2>4. ASSUME NEW t \in Pids, Alive(t)' PROVE Sound(space'[t], base_size'[t])
    <3>1. CASE t = pid
      BY <1>1, <1>4, <3>1
    <3>2. CASE t # pid
      <4>1. Sound(space[t], base_size[t])
        BY <2>1, <2>3, <2>4, <3>2 DEF TasksSound
      <4> QED
        BY <1>1, <1>4, <3>2, <4>1
    <3> QED
      BY <3>1, <3>2
  <2>5. TasksSound'
    BY <2>4 DEF TasksSound
  <2>6. ASSUME NEW t \in Pids, Alive(t)', strange' = {} PROVE Sane(space'[t], base_size'[t])
    <3>1. CASE t = pid
      <4>1. Granted(space'[pid])
        <5>1. DOMAIN space'[pid].vma = {}
          BY <1>1, <1>4, EmptyMap
        <5> QED
          BY <5>1 DEF Granted
      <4> QED
        BY <1>1, <1>4, <2>6, <3>1, <4>1 DEF Sane
    <3>2. CASE t # pid
      <4>1. Sane(space[t], base_size[t])
        BY <2>1, <2>3, <2>6, <3>2 DEF TasksSane
      <4> QED
        BY <1>1, <1>4, <3>2, <4>1
    <3> QED
      BY <3>1, <3>2
  <2>7. TasksSane'
    BY <2>6 DEF TasksSane
  <2> QED
    BY <2>2, <2>5, <2>7
<1> QED
  BY <1>1, <1>2, <1>3, <1>4 DEF AddressInv

(* The pages of an area. *)
LEMMA AreaFacts ==
  ASSUME NEW a \in Int, NEW b \in Int, NEW perm \in SUBSET Perms
  PROVE  Area(a, b, perm) \in AreaType /\ PagesOf(Area(a, b, perm)) = a..(b - 1)
  BY DEF Area, AreaType, PagesOf

(* The area of the trap context has one page. *)
LEMMA TrapContextPage == TrapContext \in AreaType /\ PagesOf(TrapContext) = {TRAP_CONTEXT}
<1>1. TRAP_CONTEXT \in Int /\ TRAMPOLINE \in Int /\ TRAMPOLINE - 1 = TRAP_CONTEXT
  BY Layout
<1>2. {"R", "W"} \in SUBSET Perms
  BY DEF Perms
<1>3. TrapContext \in AreaType /\ PagesOf(TrapContext) = TRAP_CONTEXT..(TRAMPOLINE - 1)
  BY <1>1, <1>2, AreaFacts DEF TrapContext
<1> QED
  BY <1>1, <1>3

(* The first program: its areas are apart and reach its break. *)
LEMMA UinitFacts ==
  /\ UinitAreas \in Seq(AreaType) /\ UinitBreak \in Nat
  /\ Disjoint(UinitAreas) /\ Low(UinitAreas) /\ Filled(UinitAreas, UinitBreak)
  /\ Packed(UinitAreas, UinitBreak)
<1> DEFINE n == InitCode + 1 + USER_STACK
           code == Area(0, InitCode, {"R", "W", "X", "U"})
           stack == UserStack(InitCode + 1, USER_STACK)
<1>1. InitCode \in Nat /\ USER_STACK \in Nat /\ n \in Nat /\ n <= VMA_START
  BY AddressSpaceAssumption, LayoutAssumption
<1>2. code \in AreaType /\ PagesOf(code) = 0..(InitCode - 1)
  <2>1. {"R", "W", "X", "U"} \in SUBSET Perms
    BY DEF Perms
  <2> QED
    BY <1>1, <2>1, AreaFacts
<1>3. stack \in AreaType /\ PagesOf(stack) = (InitCode + 1)..(n - 1)
  <2>1. {"R", "W", "U"} \in SUBSET Perms
    BY DEF Perms
  <2>2. InitCode + 1 \in Int /\ n \in Int /\ InitCode + 1 + USER_STACK = n
    BY <1>1
  <2>3. stack = Area(InitCode + 1, n, {"R", "W", "U"})
    BY DEF UserStack
  <2> HIDE DEF n
  <2> QED
    BY <2>1, <2>2, <2>3, AreaFacts
<1>4. TrapContext \in AreaType /\ PagesOf(TrapContext) = {TRAP_CONTEXT}
  BY TrapContextPage
<1>5. UinitAreas = <<TrapContext, code, stack>>
  BY DEF UinitAreas
<1> HIDE DEF code, stack
<1>6. /\ UinitAreas \in Seq(AreaType) /\ DOMAIN UinitAreas = {1, 2, 3}
      /\ UinitAreas[1] = TrapContext /\ UinitAreas[2] = code /\ UinitAreas[3] = stack
  BY <1>2, <1>3, <1>4, <1>5
<1>7. Covered(UinitAreas) = {TRAP_CONTEXT} \cup 0..(InitCode - 1) \cup (InitCode + 1)..(n - 1)
  BY <1>2, <1>3, <1>4, <1>6 DEF Covered
<1>8. Disjoint(UinitAreas)
  <2>1. /\ PagesOf(TrapContext) \cap PagesOf(code) = {}
        /\ PagesOf(TrapContext) \cap PagesOf(stack) = {}
        /\ PagesOf(code) \cap PagesOf(stack) = {}
    BY <1>1, <1>2, <1>3, <1>4, Layout
  <2> QED
    BY <1>6, <2>1 DEF Disjoint
<1>9. Low(UinitAreas)
  BY <1>1, <1>7, Layout DEF Low
<1>10. /\ UinitBreak \in Nat /\ va_ceil(UinitBreak) = n /\ va_floor(UinitBreak) = n
       /\ UinitBreak % PAGE_SIZE = 0
  BY <1>1, WholePages DEF UinitBreak
<1>11. Filled(UinitAreas, UinitBreak)
  <2>1. (0..(n - 1)) \ {InitCode} \subseteq Covered(UinitAreas)
    BY <1>1, <1>7
  <2>2. InitCode \in Int
    BY <1>1
  <2> HIDE DEF n
  <2> QED
    BY <1>10, <2>1, <2>2 DEF Filled
<1>12. Packed(UinitAreas, UinitBreak)
  BY <1>1, <1>7, <1>10 DEF Packed
<1> QED
  BY <1>6, <1>8, <1>9, <1>10, <1>11, <1>12

(* A loaded program: its areas are apart and reach its break. *)
LEMMA ElfFacts ==
  /\ ElfAreas \in Seq(AreaType) /\ ElfBreak \in Nat
  /\ Disjoint(ElfAreas) /\ Low(ElfAreas) /\ Filled(ElfAreas, ElfBreak)
  /\ Packed(ElfAreas, ElfBreak)
<1> DEFINE n == TEXT + DATA + 2 + USER_STACK
           top == TEXT + DATA
           text == Area(0, TEXT, {"R", "X", "U"})
           data == Area(TEXT, top, {"R", "W", "U"})
           stack == UserStack(top + 1, USER_STACK + 1)
<1>1. /\ TEXT \in Nat /\ DATA \in Nat /\ USER_STACK \in Nat /\ n \in Nat
      /\ n <= VMA_START /\ top \in Nat /\ TEXT <= top /\ top + 2 <= n
      /\ top + 1 + (USER_STACK + 1) = n
  BY AddressSpaceAssumption, LayoutAssumption
<1>2. {"R", "X", "U"} \in SUBSET Perms /\ {"R", "W", "U"} \in SUBSET Perms
  BY DEF Perms
<1>3. text \in AreaType /\ PagesOf(text) = 0..(TEXT - 1)
  BY <1>1, <1>2, AreaFacts
<1> HIDE DEF n, top
<1>4. data \in AreaType /\ PagesOf(data) = TEXT..(top - 1)
  BY <1>1, <1>2, AreaFacts
<1>5. stack \in AreaType /\ PagesOf(stack) = (top + 1)..(n - 1)
  <2>1. top + 1 \in Int /\ n \in Int
    BY <1>1
  <2>2. stack = Area(top + 1, n, {"R", "W", "U"})
    BY <1>1 DEF UserStack
  <2> QED
    BY <1>2, <2>1, <2>2, AreaFacts
<1>6. TrapContext \in AreaType /\ PagesOf(TrapContext) = {TRAP_CONTEXT}
  BY TrapContextPage
<1>7. ElfAreas = <<text, data, stack, TrapContext>>
  BY DEF ElfAreas, top
<1> HIDE DEF text, data, stack
<1>8. /\ ElfAreas \in Seq(AreaType) /\ DOMAIN ElfAreas = {1, 2, 3, 4}
      /\ ElfAreas[1] = text /\ ElfAreas[2] = data /\ ElfAreas[3] = stack
      /\ ElfAreas[4] = TrapContext
  BY <1>3, <1>4, <1>5, <1>6, <1>7
<1>9. Covered(ElfAreas) = {TRAP_CONTEXT} \cup 0..(TEXT - 1) \cup TEXT..(top - 1)
                            \cup (top + 1)..(n - 1)
  BY <1>3, <1>4, <1>5, <1>6, <1>8 DEF Covered
<1>10. Disjoint(ElfAreas)
  <2>1. /\ PagesOf(text) \cap PagesOf(data) = {} /\ PagesOf(text) \cap PagesOf(stack) = {}
        /\ PagesOf(data) \cap PagesOf(stack) = {}
    BY <1>1, <1>3, <1>4, <1>5
  <2>2. /\ TRAP_CONTEXT \notin PagesOf(text) /\ TRAP_CONTEXT \notin PagesOf(data)
        /\ TRAP_CONTEXT \notin PagesOf(stack)
    BY <1>1, <1>3, <1>4, <1>5, Layout
  <2> DEFINE Apart(a, b) == PagesOf(a) \cap PagesOf(b) = {}
  <2>3. /\ Apart(text, data) /\ Apart(data, text) /\ Apart(text, stack)
        /\ Apart(stack, text) /\ Apart(data, stack) /\ Apart(stack, data)
    BY <2>1
  <2>4. /\ Apart(text, TrapContext) /\ Apart(TrapContext, text)
        /\ Apart(data, TrapContext) /\ Apart(TrapContext, data)
        /\ Apart(stack, TrapContext) /\ Apart(TrapContext, stack)
    BY <1>6, <2>2
  <2> HIDE DEF Apart
  <2>5. \A i, j \in {1, 2, 3, 4} : i # j => Apart(ElfAreas[i], ElfAreas[j])
    BY <1>8, <2>3, <2>4
  <2> QED
    BY <1>8, <2>5 DEF Disjoint, Apart
<1>11. Low(ElfAreas)
  BY <1>1, <1>9, Layout DEF Low
<1>12. /\ ElfBreak \in Nat /\ va_ceil(ElfBreak) = n /\ va_floor(ElfBreak) = n
       /\ ElfBreak % PAGE_SIZE = 0
  BY <1>1, WholePages DEF ElfBreak, n
<1>13. Filled(ElfAreas, ElfBreak)
  <2>1. (0..(n - 1)) \ {top} \subseteq Covered(ElfAreas)
    BY <1>1, <1>9
  <2> QED
    BY <1>1, <1>12, <2>1 DEF Filled
<1>14. Packed(ElfAreas, ElfBreak)
  BY <1>1, <1>9, <1>12 DEF Packed
<1> QED
  BY <1>8, <1>10, <1>11, <1>12, <1>13, <1>14

-----------------------------------------------------------------------------
(* A step of one live task. *)
LEMMA TaskStep ==
  ASSUME AddressInv, Running, NEW t \in Pids, Alive(t),
         NEW m \in MemType, Exact(m, Others(space, t)), NEW break \in Nat,
         NEW st \in {"alive", "zombie"},
         st = "alive" => Sound(m.ms, break),
         space' = [space EXCEPT ![t] = m.ms], used' = m.used, panicked' = panicked,
         base_size' = [base_size EXCEPT ![t] = break],
         status' = [status EXCEPT ![t] = st],
         strange' \in SUBSET Pids,
         strange' = {} => strange = {} /\ (st = "alive" => Sane(m.ms, break))
  PROVE  AddressInv'
<1>1. /\ space \in [Owners -> SpaceType] /\ base_size \in [Pids -> Nat]
      /\ status \in [Pids -> {"none", "alive", "zombie"}] /\ panicked \in Errors
      /\ Partitioned(space, used)
  BY DEF AddressInv, SpacesTypeOK
<1>2. t \in Owners /\ t # KERNEL /\ KERNEL \in Owners /\ Pids \subseteq Owners
  BY PidFacts
<1>3. space' \in [Owners -> SpaceType] /\ Partitioned(space', used')
  BY <1>1, <1>2, PartUpdate
<1>4. m.used \in SUBSET Frames
  BY DEF MemType
<1>5. /\ base_size' \in [Pids -> Nat]
      /\ status' \in [Pids -> {"none", "alive", "zombie"}]
      /\ base_size'[t] = break /\ status'[t] = st /\ space'[t] = m.ms
      /\ \A u \in Pids : u # t => /\ base_size'[u] = base_size[u]
                                  /\ status'[u] = status[u] /\ space'[u] = space[u]
      /\ space'[KERNEL] = space[KERNEL]
  BY <1>1, <1>2
<1>6. SpacesTypeOK'
  BY <1>1, <1>3, <1>4, <1>5 DEF SpacesTypeOK
<1>7. Created' = Created
  BY <1>5 DEF Created, Alive
<1>8. InOrder'
  BY <1>7 DEF InOrder, AddressInv
<1>9. RemapHasCause'
  BY DEF RemapHasCause, Running
<1>10. Unborn'
  BY <1>5 DEF Unborn, AddressInv
<1>11. KernelSound'
  <2>1. KernelSound
    BY DEF AddressInv
  <2> QED
    BY <1>5, <1>7, <2>1 DEF KernelSound, KernelStack, PagesOf, Area
<1>12. \A u \in Pids : u # t => (Alive(u)' <=> Alive(u))
  BY <1>5 DEF Alive
<1>13. TasksSound'
  <2> SUFFICES ASSUME NEW u \in Pids, Alive(u)' PROVE Sound(space'[u], base_size'[u])
    BY DEF TasksSound
  <2>1. CASE u = t
    <3>1. st = "alive"
      BY <1>5, <2>1 DEF Alive
    <3> QED
      BY <1>5, <2>1, <3>1
  <2>2. CASE u # t
    <3>1. Sound(space[u], base_size[u])
      BY <1>12, <2>2 DEF AddressInv, TasksSound
    <3> QED
      BY <1>5, <2>2, <3>1
  <2> QED
    BY <2>1, <2>2
<1>14. TasksSane'
  <2> SUFFICES ASSUME NEW u \in Pids, Alive(u)', strange' = {}
               PROVE  Sane(space'[u], base_size'[u])
    BY DEF TasksSane
  <2>1. CASE u = t
    <3>1. st = "alive"
      BY <1>5, <2>1 DEF Alive
    <3> QED
      BY <1>5, <2>1, <3>1
  <2>2. CASE u # t
    <3>1. Sane(space[u], base_size[u])
      BY <1>12, <2>2 DEF AddressInv, TasksSane
    <3> QED
      BY <1>5, <2>2, <3>1
  <2> QED
    BY <2>1, <2>2
<1> QED
  BY <1>3, <1>6, <1>8, <1>9, <1>10, <1>11, <1>13, <1>14 DEF AddressInv

(* A step that panics. *)
LEMMA PanicStep ==
  ASSUME AddressInv, space' = space, used' = used, status' = status,
         base_size' \in [Pids -> Nat], strange' \in SUBSET Pids,
         panicked' \in Errors, panicked' # "no",
         panicked' = "map" => strange' # {}
  PROVE  AddressInv'
<1>1. SpacesTypeOK'
  BY DEF AddressInv, SpacesTypeOK
<1>2. Partitioned(space', used')
  BY DEF AddressInv
<1>3. InOrder'
  BY DEF AddressInv, InOrder, Created
<1>4. RemapHasCause' /\ ~Running'
  BY DEF RemapHasCause, Running
<1> QED
  BY <1>1, <1>2, <1>3, <1>4 DEF AddressInv

(* What the invariant says of the task that traps. *)
LEMMA AliveFacts ==
  ASSUME AddressInv, NEW t \in Pids, Trap(t)
  PROVE  /\ Running /\ Alive(t) /\ t \in Owners
         /\ Memory(t) \in MemType /\ Memory(t).ms = space[t]
         /\ Memory(t).used = used /\ Good(Memory(t)) /\ Memory(t).err = "no"
         /\ Exact(Memory(t), Others(space, t))
         /\ base_size[t] \in Nat /\ Sound(space[t], base_size[t])
         /\ strange = {} => Sane(space[t], base_size[t])
<1>1. Running /\ Alive(t) /\ t \in Owners
  BY PidFacts DEF Trap
<1>2. SpacesTypeOK /\ Partitioned(space, used)
  BY DEF AddressInv
<1>3. /\ Memory(t) \in MemType /\ Memory(t).ms = space[t]
      /\ Memory(t).used = used /\ Good(Memory(t)) /\ Memory(t).err = "no"
  BY <1>1, <1>2, MemoryType DEF Running
<1>4. Exact(Memory(t), Others(space, t))
  BY <1>1, <1>2, <1>3, PartExact
<1>5. base_size[t] \in Nat
  BY <1>2 DEF SpacesTypeOK
<1>6. Sound(space[t], base_size[t]) /\ (strange = {} => Sane(space[t], base_size[t]))
  BY <1>1 DEF AddressInv, TasksSound, TasksSane
<1> QED
  BY <1>1, <1>3, <1>4, <1>5, <1>6

(* A task that stays alive with its break. *)
LEMMA StatusKept ==
  ASSUME AddressInv, NEW t \in Pids, Alive(t)
  PROVE  /\ [status EXCEPT ![t] = "alive"] = status
         /\ [base_size EXCEPT ![t] = base_size[t]] = base_size
  BY DEF AddressInv, SpacesTypeOK, Alive

(* sys_brk keeps the invariant. *)
LEMMA BrkInv ==
  ASSUME AddressInv, NEW t \in Pids, NEW addr \in Breaks, Brk(t, addr)
  PROVE  AddressInv'
<1> DEFINE m == Memory(t)
           old == base_size[t]
           r == ms_push(m, BreakArea(old, addr))
<1>1. /\ Running /\ Alive(t) /\ t \in Owners
      /\ m \in MemType /\ m.ms = space[t] /\ m.used = used /\ Good(m) /\ m.err = "no"
      /\ Exact(m, Others(space, t)) /\ old \in Nat /\ Sound(m.ms, old)
      /\ strange = {} => Sane(m.ms, old)
  BY AliveFacts DEF Brk
<1>2. addr \in Nat
  BY AddressSpaceAssumption
<1>3. /\ base_size' = [base_size EXCEPT ![t] = addr] /\ status' = status
      /\ strange' = IF addr < old \/ addr % PAGE_SIZE # 0
                    THEN strange \cup {t} ELSE strange
  BY DEF Brk
<1>4. strange \in SUBSET Pids /\ base_size \in [Pids -> Nat]
  BY DEF AddressInv, SpacesTypeOK
<1>5. /\ strange' \in SUBSET Pids
      /\ strange' = {} => strange = {} /\ ~(addr < old) /\ addr % PAGE_SIZE = 0
  BY <1>3, <1>4
<1>6. status' = [status EXCEPT ![t] = "alive"]
  BY <1>1, <1>3, StatusKept
<1>7. CASE SamePage(old, addr)
  <2>1. space' = space /\ used' = used /\ panicked' = panicked
    BY <1>7 DEF Brk
  <2>2. space' = [space EXCEPT ![t] = m.ms] /\ used' = m.used
    BY <1>1, <2>1 DEF AddressInv, SpacesTypeOK
  <2>3. Sound(m.ms, addr) /\ (strange' = {} => Sane(m.ms, addr))
    BY <1>1, <1>2, <1>5, <1>7, BrkSamePage DEF SamePage
  <2> HIDE DEF m
  <2> QED
    BY <1>1, <1>2, <1>3, <1>5, <1>6, <2>1, <2>2, <2>3, TaskStep
<1>8. CASE ~SamePage(old, addr)
  <2>1. Becomes(t, r)
    BY <1>8 DEF Brk
  <2>2. strange' = {} => r.err # "map" /\ (Good(r) => Sane(r.ms, addr))
    <3> HIDE DEF m, old
    <3>1. strange' = {} => old <= addr
      BY <1>1, <1>2, <1>5
    <3> QED
      BY <1>1, <1>2, <1>5, <3>1, BrkSane
  <2>3. Good(r) => Sound(r.ms, addr) /\ Exact(r, Others(space, t))
    <3> HIDE DEF m, old
    <3> QED
      BY <1>1, <1>2, BrkSound DEF MappedTo
  <2>4. r \in MemType
    <3> HIDE DEF m, old
    <3> QED
      BY <1>1, <1>2, BreakAreaFacts, MsPushType
  <2> HIDE DEF r, m, old
  <2>5. CASE Good(r)
    <3>1. space' = [space EXCEPT ![t] = r.ms] /\ used' = r.used /\ panicked' = panicked
      BY <2>1, <2>5 DEF Becomes
    <3> QED
      BY <1>1, <1>2, <1>3, <1>5, <1>6, <2>2, <2>3, <2>4, <2>5, <3>1, TaskStep
  <2>6. CASE ~Good(r)
    <3>1. panicked' = r.err /\ space' = space /\ used' = used
      BY <2>1, <2>6 DEF Becomes
    <3>2. r.err \in Errors /\ r.err # "no"
      BY <2>4, <2>6 DEF MemType, Good
    <3>3. base_size' \in [Pids -> Nat]
      BY <1>2, <1>3, <1>4
    <3> QED
      BY <1>3, <1>5, <2>2, <3>1, <3>2, <3>3, PanicStep
  <2> QED
    BY <2>5, <2>6
<1> QED
  BY <1>7, <1>8

(* sys_mmap keeps the invariant. *)
LEMMA MmapInv ==
  ASSUME AddressInv, NEW t \in Pids, NEW length \in Lengths, NEW prot \in Prots,
         Mmap(t, length, prot)
  PROVE  AddressInv'
<1> DEFINE s == space[t]
           n == MappedFile(s, length, prot)
           m == [Memory(t) EXCEPT !.ms = n]
           break == base_size[t]
<1>1. /\ Running /\ Alive(t) /\ t \in Owners
      /\ Memory(t) \in MemType /\ Memory(t).ms = s /\ Memory(t).used = used
      /\ Exact(Memory(t), Others(space, t)) /\ break \in Nat /\ Sound(s, break)
      /\ strange = {} => Sane(s, break)
  BY AliveFacts DEF Mmap
<1>2. s \in SpaceType /\ strange \in SUBSET Pids
      /\ space \in [Owners -> SpaceType] /\ base_size \in [Pids -> Nat]
  BY <1>1 DEF AddressInv, SpacesTypeOK
<1>3. /\ Len(s.vma) < MAX_VMAS
      /\ strange' = IF "W" \in prot /\ "R" \notin prot THEN strange \cup {t} ELSE strange
      /\ base_size' = base_size /\ status' = status /\ used' = used /\ panicked' = panicked
  BY DEF Mmap
<1>4. /\ n \in SpaceType /\ Owned(n) = Owned(s) /\ (Proper(s) => Proper(n))
      /\ Sound(n, break)
      /\ Sane(s, break) /\ ~("W" \in prot /\ "R" \notin prot) => Sane(n, break)
  <2> HIDE DEF s, break
  <2> QED
    BY <1>1, <1>2, <1>3, MmapSound
<1>5. space' = [space EXCEPT ![t] = n]
  <2> DEFINE first == IF s.vma = <<>> THEN VMA_START ELSE Last(s.vma).vm_end
             w == Append(s.vma, Area(first, first + va_ceil(length), prot \cup {"U"}))
  <2>1. space' = [space EXCEPT ![t].vma = w]
    BY DEF Mmap
  <2>2. n = [s EXCEPT !.vma = w]
    BY DEF MappedFile
  <2> HIDE DEF w
  <2> QED
    BY <1>1, <1>2, <2>1, <2>2
<1> HIDE DEF n
<1>6. m \in MemType /\ m.ms = n /\ m.used = used
  BY <1>1, <1>4 DEF MemType
<1>7. Exact(m, Others(space, t))
  BY <1>1, <1>4, <1>6 DEF Exact
<1>8. /\ strange' \in SUBSET Pids
      /\ strange' = {} => strange = {} /\ ~("W" \in prot /\ "R" \notin prot)
  BY <1>2, <1>3
<1>9. /\ status' = [status EXCEPT ![t] = "alive"]
      /\ base_size' = [base_size EXCEPT ![t] = break]
  BY <1>1, <1>3, StatusKept
<1> HIDE DEF m, s, break
<1>10. space' = [space EXCEPT ![t] = m.ms] /\ used' = m.used
  BY <1>3, <1>5, <1>6
<1>11. Sound(m.ms, break) /\ (strange' = {} => Sane(m.ms, break))
  BY <1>1, <1>4, <1>6, <1>8
<1>12. Running /\ Alive(t) /\ break \in Nat /\ panicked' = panicked /\ m \in MemType
  BY <1>1, <1>3, <1>6
<1>13. "alive" \in {"alive", "zombie"}
  OBVIOUS
<1> QED
  BY <1>7, <1>8, <1>9, <1>10, <1>11, <1>12, <1>13, TaskStep

-----------------------------------------------------------------------------
(* The end of a task. *)
LEMMA RestrictFacts ==
  ASSUME NEW A, NEW B, NEW f \in Partial(A, B), NEW C
  PROVE  LET g == Restrict(f, DOMAIN f \ C) IN
         /\ g \in Partial(A, B) /\ DOMAIN g = DOMAIN f \ C
         /\ \A x \in DOMAIN g : g[x] = f[x]
<1>1. DOMAIN f \subseteq A /\ \A x \in DOMAIN f : f[x] \in B
  BY PartialElim
<1>2. Restrict(f, DOMAIN f \ C) \in [DOMAIN f \ C -> B]
  BY <1>1 DEF Restrict
<1>3. DOMAIN f \ C \in SUBSET A
  BY <1>1
<1>4. Restrict(f, DOMAIN f \ C) \in Partial(A, B)
  BY <1>2, <1>3, PartialIntro
<1> QED
  BY <1>4 DEF Restrict

KeptAtExit(s) ==
    LET C == Covered(s.areas)
    IN [s EXCEPT !.areas = <<>>, !.data = Restrict(s.data, DOMAIN s.data \ C),
                 !.pte = Restrict(s.pte, DOMAIN s.pte \ C)]

(* A space after its exit. *)
LEMMA KeptFacts ==
  ASSUME NEW s \in SpaceType
  PROVE  /\ KeptAtExit(s) \in SpaceType /\ KeptAtExit(s).tables = s.tables
         /\ KeptAtExit(s).data = Restrict(s.data, DOMAIN s.data \ Covered(s.areas))
<1> DEFINE C == Covered(s.areas)
           d == Restrict(s.data, DOMAIN s.data \ C)
           e == Restrict(s.pte, DOMAIN s.pte \ C)
<1>1. d \in Partial(Int, Frames) /\ e \in Partial(Int, PteType)
  BY RestrictFacts DEF SpaceType
<1>2. KeptAtExit(s) = [s EXCEPT !.areas = <<>>, !.data = d, !.pte = e]
  BY DEF KeptAtExit
<1> HIDE DEF d, e
<1>3. <<>> \in Seq(AreaType)
  OBVIOUS
<1>4. KeptAtExit(s) \in SpaceType /\ KeptAtExit(s).tables = s.tables
      /\ KeptAtExit(s).data = d
  BY <1>1, <1>2, <1>3 DEF SpaceType
<1> QED
  BY <1>4 DEF d

(* Exit gives back what the areas own, which nobody else does. *)
LEMMA GoneExact ==
  ASSUME NEW s \in SpaceType, NEW others, others \cap Owned(s) = {}, Proper(s),
         Covered(s.areas) \subseteq DOMAIN s.data
  PROVE  /\ (others \cup Owned(s)) \ GivenBack(s) = others \cup Owned(KeptAtExit(s))
         /\ others \cap Owned(KeptAtExit(s)) = {} /\ Proper(KeptAtExit(s))
<1> DEFINE n == KeptAtExit(s)
           C == Covered(s.areas)
           f == s.data
           g == n.data
<1>0. n.tables = s.tables /\ g = Restrict(f, DOMAIN f \ C)
  BY KeptFacts
<1> HIDE DEF n
<1>1. f \in Partial(Int, Frames)
  BY DEF SpaceType
<1>2. DOMAIN g = DOMAIN f \ C /\ \A x \in DOMAIN g : g[x] = f[x]
  <2> HIDE DEF f, g, C
  <2> QED
    BY <1>0 DEF Restrict
<1>3. OneToOne(f) /\ C \subseteq DOMAIN f
  BY DEF Proper
<1>4. GivenBack(s) = {f[p] : p \in C}
  BY DEF GivenBack
<1> HIDE DEF f, g, C
<1>5. Range(g) = Range(f) \ GivenBack(s)
  <2>1. ASSUME NEW x \in DOMAIN g PROVE g[x] \in Range(f) /\ g[x] \notin GivenBack(s)
    BY <1>2, <1>3, <1>4 DEF Range, OneToOne
  <2>2. ASSUME NEW x \in DOMAIN f, f[x] \notin GivenBack(s) PROVE f[x] \in Range(g)
    <3>1. x \notin C
      BY <1>4, <2>2
    <3>2. x \in DOMAIN g /\ g[x] = f[x]
      BY <1>2, <3>1
    <3> QED
      BY <3>2 DEF Range
  <2>3. Range(g) \subseteq Range(f) \ GivenBack(s)
    BY <2>1 DEF Range
  <2>4. Range(f) \ GivenBack(s) \subseteq Range(g)
    BY <2>2 DEF Range
  <2> QED
    BY <2>3, <2>4
<1>6. GivenBack(s) \subseteq Range(f)
  BY <1>3, <1>4 DEF Range
<1>7. OneToOne(g)
  BY <1>2, <1>3 DEF OneToOne
<1> QED
  <2>1. Owned(n) = Range(s.tables) \cup Range(g) /\ Owned(s) = Range(s.tables) \cup Range(f)
    BY <1>0 DEF Owned, f, g
  <2>2. Range(s.tables) \cap Range(f) = {} /\ OneToOne(s.tables)
    BY DEF Proper, f
  <2>3. Proper(n)
    BY <1>0, <1>5, <1>7, <2>2 DEF Proper, g
  <2> QED
    BY <1>5, <1>6, <2>1, <2>2, <2>3 DEF n

(* The end of a task keeps the invariant. *)
LEMMA EndsInv ==
  ASSUME AddressInv, NEW t \in Pids, Trap(t), Ends(t)
  PROVE  AddressInv'
<1>1. CASE t = INITPROC
  <2>1. /\ panicked' = "initproc exit" /\ space' = space /\ base_size' = base_size
        /\ status' = status /\ used' = used /\ strange' = strange
    BY <1>1 DEF Ends
  <2>2. base_size \in [Pids -> Nat] /\ strange \in SUBSET Pids
    BY DEF AddressInv, SpacesTypeOK
  <2>3. panicked' \in Errors /\ panicked' # "no" /\ panicked' # "map"
    BY <2>1 DEF Errors
  <2> QED
    BY <2>1, <2>2, <2>3, PanicStep
<1>2. CASE t # INITPROC
  <2> DEFINE s == space[t]
             n == KeptAtExit(s)
             m == [ms |-> n, used |-> used \ GivenBack(s), err |-> panicked]
  <2>1. /\ used' = used \ GivenBack(s)
        /\ status' = [status EXCEPT ![t] = "zombie"]
        /\ base_size' = base_size /\ strange' = strange /\ panicked' = panicked
    BY <1>2 DEF Ends, Gone
  <2>2. /\ Running /\ Alive(t) /\ t \in Owners /\ Memory(t).ms = s
        /\ Memory(t).used = used
        /\ Exact(Memory(t), Others(space, t)) /\ base_size[t] \in Nat
        /\ Sound(s, base_size[t])
    BY AliveFacts
  <2>3. /\ space \in [Owners -> SpaceType] /\ s \in SpaceType /\ used \in SUBSET Frames
        /\ base_size \in [Pids -> Nat] /\ strange \in SUBSET Pids /\ panicked \in Errors
    BY <2>2 DEF AddressInv, SpacesTypeOK
  <2>6. space' = [space EXCEPT ![t] = n]
    <3> DEFINE C == Covered(s.areas)
               d == Restrict(s.data, DOMAIN s.data \ C)
               e == Restrict(s.pte, DOMAIN s.pte \ C)
    <3>1. space' = [space EXCEPT ![t].areas = <<>>, ![t].data = d, ![t].pte = e]
      BY <1>2 DEF Ends, Gone
    <3>2. n = [s EXCEPT !.areas = <<>>, !.data = d, !.pte = e]
      BY DEF KeptAtExit
    <3> HIDE DEF d, e, n
    <3> QED
      BY <2>2, <2>3, <3>1, <3>2
  <2>7. Covered(s.areas) \subseteq DOMAIN s.data
    BY <2>2 DEF Sound, Match
  <2>8. /\ used \ GivenBack(s) = Others(space, t) \cup Owned(n)
        /\ Others(space, t) \cap Owned(n) = {} /\ Proper(n)
    <3>1. /\ used = Others(space, t) \cup Owned(s)
          /\ Others(space, t) \cap Owned(s) = {} /\ Proper(s)
      BY <2>2 DEF Exact
    <3> HIDE DEF s
    <3> QED
      BY <2>3, <2>7, <3>1, GoneExact
  <2>5. n \in SpaceType
    BY <2>3, KeptFacts
  <2> HIDE DEF n
  <2>9. m \in MemType /\ m.ms = n /\ m.used = used \ GivenBack(s)
    BY <2>3, <2>5 DEF MemType
  <2> HIDE DEF m
  <2>10. Exact(m, Others(space, t))
    BY <2>8, <2>9 DEF Exact
  <2>11. space' = [space EXCEPT ![t] = m.ms] /\ used' = m.used
    BY <2>1, <2>6, <2>9
  <2>12. base_size' = [base_size EXCEPT ![t] = base_size[t]]
    BY <2>1, <2>2, StatusKept
  <2> QED
    BY <2>1, <2>2, <2>3, <2>9, <2>10, <2>11, <2>12, TaskStep
<1> QED
  BY <1>1, <1>2

(* A fault keeps the invariant. *)
LEMMA FaultInv ==
  ASSUME AddressInv, NEW t \in Pids, NEW vpn, NEW access, Fault(t, vpn, access)
  PROVE  AddressInv'
<1> DEFINE s == space[t]
           vma == s.vma
           hits == {i \in DOMAIN vma : vpn \in PagesOf(vma[i])}
           h == Min(hits)
           perm == vma[h].map_perm
           m == Memory(t)
           r == ma_map_one(m, vpn, perm)
           break == base_size[t]
<1>1. Trap(t) /\ ~Permits(t, vpn, access)
  BY DEF Fault
<1>2. CASE Ends(t)
  BY <1>1, <1>2, EndsInv
<1>3. CASE ~Ends(t)
  <2>1. /\ hits # {} /\ access \in perm /\ Becomes(t, r)
        /\ base_size' = base_size /\ status' = status /\ strange' = strange
    BY <1>3 DEF Fault
  <2>2. /\ Running /\ Alive(t) /\ t \in Owners
        /\ m \in MemType /\ m.ms = s /\ m.used = used /\ Good(m)
        /\ Exact(m, Others(space, t)) /\ break \in Nat /\ Sound(m.ms, break)
        /\ strange = {} => Sane(m.ms, break)
    BY <1>1, AliveFacts
  <2>3. /\ s \in SpaceType /\ strange \in SUBSET Pids
        /\ space \in [Owners -> SpaceType] /\ base_size \in [Pids -> Nat]
    BY <2>2 DEF AddressInv, SpacesTypeOK
  <2>4. vma \in Seq(AreaType)
    BY <2>3 DEF SpaceType
  <2>5. /\ DOMAIN vma \subseteq Nat
        /\ \A i \in DOMAIN vma : /\ vma[i].vm_start \in Int /\ vma[i].vm_end \in Int
                                 /\ vma[i].map_perm \in SUBSET Perms
    <3> HIDE DEF vma
    <3>1. Len(vma) \in Nat /\ DOMAIN vma = 1..Len(vma)
      BY <2>4, AreaSeq
    <3> QED
      BY <2>4, <3>1, AreaSeq
  <2>6. h \in DOMAIN vma /\ vpn \in PagesOf(vma[h])
    <3>1. hits \subseteq Nat
      BY <2>5
    <3> HIDE DEF hits
    <3>2. h \in hits
      BY <2>1, <3>1, MinIsMember
    <3> QED
      BY <3>2 DEF hits
  <2> HIDE DEF h, hits
  <2>7. vpn \in Int /\ perm \in SUBSET Perms
    BY <2>5, <2>6 DEF PagesOf
  <2>8. /\ r \in MemType
        /\ r.err = "map" => vpn \in DOMAIN m.ms.pte
    <3> HIDE DEF perm, m
    <3> QED
      BY <2>2, <2>7, MapOneFacts
  <2>9. Good(r) => /\ Exact(r, Others(space, t)) /\ Sound(r.ms, break)
                   /\ (strange = {} => Sane(r.ms, break))
    <3>1. perm = m.ms.vma[h].map_perm /\ h \in DOMAIN m.ms.vma /\ vpn \in PagesOf(m.ms.vma[h])
      BY <2>2, <2>6
    <3> HIDE DEF perm, m, break
    <3> QED
      BY <2>2, <3>1, FaultSound
  <2>10. r.err = "map" => strange # {}
    <3> SUFFICES ASSUME r.err = "map", strange = {} PROVE FALSE
      OBVIOUS
    <3>1. vpn \in DOMAIN s.pte /\ Granted(s)
      BY <2>2, <2>8 DEF Sane
    <3>2. s.pte[vpn].perm = perm /\ "U" \in perm /\ ("W" \in perm => "R" \in perm)
      BY <2>6, <3>1 DEF Granted
    <3> HIDE DEF perm
    <3>3. Permits(t, vpn, access)
      BY <2>1, <3>1, <3>2 DEF Permits
    <3> QED
      BY <1>1, <3>3
  <2>11. /\ status' = [status EXCEPT ![t] = "alive"]
         /\ base_size' = [base_size EXCEPT ![t] = break]
    BY <2>1, <2>2, StatusKept
  <2> HIDE DEF r, m, s
  <2>12. CASE Good(r)
    <3>1. space' = [space EXCEPT ![t] = r.ms] /\ used' = r.used /\ panicked' = panicked
      BY <2>1, <2>12 DEF Becomes
    <3>2. /\ strange' \in SUBSET Pids
          /\ strange' = {} => strange = {} /\ Sane(r.ms, break)
      BY <2>1, <2>3, <2>9, <2>12
    <3>3. "alive" \in {"alive", "zombie"}
      OBVIOUS
    <3>4. Running /\ Alive(t) /\ break \in Nat
      BY <2>2
    <3> HIDE DEF break
    <3> QED
      BY <2>8, <2>9, <2>11, <2>12, <3>1, <3>2, <3>3, <3>4, TaskStep
  <2>13. CASE ~Good(r)
    <3>1. panicked' = r.err /\ space' = space /\ used' = used
      BY <2>1, <2>13 DEF Becomes
    <3>2. r.err \in Errors /\ r.err # "no"
      BY <2>8, <2>13 DEF MemType, Good
    <3> QED
      BY <2>1, <2>3, <2>10, <3>1, <3>2, PanicStep
  <2> QED
    BY <2>12, <2>13
<1> QED
  BY <1>2, <1>3

(* fork keeps the invariant. *)
LEMMA ForkInv ==
  ASSUME AddressInv, NEW t \in Pids, Fork(t)
  PROVE  AddressInv'
<1> DEFINE areas == space[t].areas
           break == base_size[t]
<1>1. /\ Running /\ Alive(t) /\ t \in Owners /\ break \in Nat
      /\ Sound(space[t], break)
      /\ strange = {} => Sane(space[t], break)
  BY AliveFacts DEF Fork
<1>2. areas \in Seq(AreaType) /\ strange \in SUBSET Pids
  BY <1>1 DEF AddressInv, SpacesTypeOK, SpaceType
<1>3. Disjoint(areas) /\ Low(areas) /\ Filled(areas, break)
  BY <1>1 DEF Sound
<1>4. strange = {} => Packed(areas, break)
  BY <1>1 DEF Sane
<1>5. NewTask(Fresh, areas, break)
  BY DEF Fork
<1>6. Fresh \in Pids
  BY <1>5 DEF NewTask
<1>7. strange' = IF t \in strange THEN strange \cup {Fresh} ELSE strange
  BY DEF Fork
<1>8. strange' \in SUBSET Pids /\ (strange' = {} => strange = {} /\ Packed(areas, break))
  BY <1>2, <1>4, <1>6, <1>7
<1> HIDE DEF areas, break
<1> QED
  BY <1>1, <1>2, <1>3, <1>5, <1>8, NewTaskInv

(* Boot creates tasks of whose areas and break we know everything. *)
LEMMA BootInv ==
  ASSUME AddressInv, AddInitproc \/ Load
  PROVE  AddressInv'
<1>1. strange \in SUBSET Pids
  BY DEF AddressInv, SpacesTypeOK
<1>2. CASE AddInitproc
  <2>1. /\ Running /\ Fresh = INITPROC /\ strange' = strange
        /\ NewTask(INITPROC, UinitAreas, UinitBreak)
    BY <1>2 DEF AddInitproc
  <2> QED
    BY <1>1, <2>1, UinitFacts, NewTaskInv
<1>3. CASE Load
  <2>1. /\ Running /\ strange' = strange /\ NewTask(Fresh, ElfAreas, ElfBreak)
    BY <1>3 DEF Load
  <2> QED
    BY <1>1, <2>1, ElfFacts, NewTaskInv
<1> QED
  BY <1>2, <1>3

(* The kernel's space at boot. *)
LEMMA InitInv == Init => AddressInv
<1> SUFFICES ASSUME Init PROVE AddressInv
  OBVIOUS
<1> DEFINE z == [ms |-> NoSpace, used |-> {}, err |-> "no"]
           i == ms_init(z)
           k == KernelAtBoot
<1>1. z \in MemType /\ z.used = {} /\ z.err = "no"
  BY EmptySpace DEF MemType, Errors
<1> HIDE DEF z
<1>2. /\ i \in MemType
      /\ i.ms.pte = <<>> /\ i.ms.areas = <<>> /\ i.ms.vma = <<>> /\ i.ms.data = <<>>
      /\ i.err = z.err \/ i.err = "no_frame_to_alloc"
      /\ Match(i.ms) /\ Exact(i, z.used)
  BY <1>1, MsInitFacts
<1>3. k = ma_map_one(i, TRAP_CONTEXT, {"R", "W"})
  BY DEF KernelAtBoot, z
<1> HIDE DEF k, i
<1>4. TRAP_CONTEXT \in Int /\ {"R", "W"} \in SUBSET Perms
  BY Layout DEF Perms
<1>5. DOMAIN i.ms.pte = {} /\ DOMAIN i.ms.data = {} /\ i.err # "map"
  BY <1>1, <1>2, EmptyMap
<1>6. k \in MemType /\ (~Good(i) => k = i)
      /\ (Good(i) /\ k.err = "map" => TRAP_CONTEXT \in DOMAIN i.ms.pte)
  BY <1>2, <1>3, <1>4, MapOneFacts
<1>7. Exact(k, {})
  <2>1. TRAP_CONTEXT \notin DOMAIN i.ms.data /\ Exact(i, {})
    BY <1>1, <1>2, <1>5
  <2> QED
    BY <1>2, <1>3, <1>4, <2>1, MapOneExact
<1>8. k.err # "map"
  BY <1>5, <1>6
<1>9. Good(k) => Match(k.ms) /\ DOMAIN k.ms.pte = {TRAP_CONTEXT}
  <2>1. Good(k) => DOMAIN k.ms.pte = DOMAIN i.ms.pte \cup {TRAP_CONTEXT} /\ Match(k.ms)
    BY <1>2, <1>3, <1>4, MapOneMatch
  <2> QED
    BY <1>5, <2>1
<1>10. /\ space = [t \in Owners |-> IF t = KERNEL THEN k.ms ELSE NoSpace]
       /\ used = k.used /\ base_size = [t \in Pids |-> 0]
       /\ status = [t \in Pids |-> "none"] /\ strange = {} /\ panicked = k.err
  BY DEF Init, k
<1>11. k.ms \in SpaceType /\ NoSpace \in SpaceType /\ k.used \in SUBSET Frames
       /\ k.err \in Errors
  BY <1>6, EmptySpace DEF MemType
<1>12. SpacesTypeOK
  BY <1>10, <1>11 DEF SpacesTypeOK
<1>13. space[KERNEL] = k.ms /\ \A t \in Owners : t # KERNEL => space[t] = NoSpace
  BY <1>10, PidFacts
<1>14. Partitioned(space, used)
  <2>1. Owned(NoSpace) = {} /\ Proper(NoSpace) /\ KERNEL \in Owners
    BY EmptySpace, PidFacts
  <2>2. k.used = Owned(k.ms) /\ Proper(k.ms)
    BY <1>7 DEF Exact
  <2>3. \A t \in Owners : Proper(space[t])
    BY <1>13, <2>1, <2>2
  <2>4. \A t, v \in Owners : t # v => Owned(space[t]) \cap Owned(space[v]) = {}
    BY <1>13, <2>1
  <2>5. used = UNION {Owned(space[t]) : t \in Owners}
    BY <1>10, <1>13, <2>1, <2>2
  <2> QED
    BY <2>3, <2>4, <2>5 DEF Partitioned
<1>15. InOrder
  <2>1. Created = {}
    BY <1>10 DEF Created
  <2>2. 0 \in 0..MAX_PID /\ 1..0 = {}
    BY PidFacts
  <2> QED
    BY <2>1, <2>2 DEF InOrder
<1>16. RemapHasCause
  BY <1>8, <1>10 DEF RemapHasCause
<1>17. Unborn
  BY <1>13, PidFacts DEF Unborn
<1>18. Running => KernelSound
  <2>1. Running => Good(k)
    BY <1>10 DEF Running, Good
  <2> QED
    BY <1>9, <1>13, <2>1 DEF KernelSound
<1>19. TasksSound /\ TasksSane
  BY <1>10 DEF TasksSound, TasksSane, Alive
<1> QED
  BY <1>12, <1>14, <1>15, <1>16, <1>17, <1>18, <1>19 DEF AddressInv

(* Every step keeps the invariant. *)
LEMMA NextInv == AddressInv /\ [Next]_vars => AddressInv'
<1> SUFFICES ASSUME AddressInv, [Next]_vars PROVE AddressInv'
  OBVIOUS
<1>1. CASE AddInitproc \/ Load
  BY <1>1, BootInv
<1>2. ASSUME NEW t \in Pids, Fork(t) PROVE AddressInv'
  BY <1>2, ForkInv
<1>3. ASSUME NEW t \in Pids, Exit(t) PROVE AddressInv'
  BY <1>3, EndsInv DEF Exit
<1>4. ASSUME NEW t \in Pids, NEW addr \in Breaks, Brk(t, addr) PROVE AddressInv'
  BY <1>4, BrkInv
<1>5. ASSUME NEW t \in Pids, NEW length \in Lengths, NEW prot \in Prots,
             Mmap(t, length, prot)
      PROVE  AddressInv'
  BY <1>5, MmapInv
<1>6. ASSUME NEW t \in Pids, NEW vpn, NEW access, Fault(t, vpn, access)
      PROVE  AddressInv'
  BY <1>6, FaultInv
<1>7. CASE UNCHANGED vars
  <2>1. /\ space' = space /\ base_size' = base_size /\ status' = status /\ used' = used
        /\ strange' = strange /\ panicked' = panicked
    BY <1>7 DEF vars
  <2>2. Created' = Created /\ Running' = Running
    BY <2>1 DEF Created, Running
  <2>3. SpacesTypeOK' /\ Partitioned(space, used)' /\ InOrder' /\ RemapHasCause'
    BY <2>1, <2>2 DEF AddressInv, SpacesTypeOK, Partitioned, InOrder, RemapHasCause
  <2>4. Running' => Unborn' /\ TasksSound' /\ TasksSane'
    BY <2>1, <2>2 DEF AddressInv, Unborn, TasksSound, TasksSane, Alive
  <2>5. Running' => KernelSound'
    BY <2>1, <2>2 DEF AddressInv, KernelSound, KernelStack, PagesOf, Area
  <2> QED
    BY <2>3, <2>4, <2>5 DEF AddressInv
<1> QED
  BY <1>1, <1>2, <1>3, <1>4, <1>5, <1>6, <1>7 DEF Next

(***************************************************************************)
(* The inductive invariant holds of every behaviour.                       *)
(***************************************************************************)
THEOREM AddressInvariant == Spec => []AddressInv
  BY InitInv, NextInv, PTL DEF Spec

(***************************************************************************)
(* map halts the kernel on a taken entry only with a strange task about.   *)
(***************************************************************************)
THEOREM RemapHasCauseHolds == Spec => []RemapHasCause
<1>1. AddressInv => RemapHasCause
  BY DEF AddressInv
<1> QED
  BY <1>1, AddressInvariant, PTL

-----------------------------------------------------------------------------
(* What frames are used for. *)
LEMMA UseFacts ==
  ASSUME SpacesTypeOK
  PROVE  /\ \A t \in Owners : /\ \A x \in DOMAIN space[t].tables :
                                   /\ <<t, "tables", x>> \in Uses
                                   /\ FrameOf(<<t, "tables", x>>) = space[t].tables[x]
                              /\ \A x \in DOMAIN space[t].data :
                                   /\ <<t, "data", x>> \in Uses
                                   /\ FrameOf(<<t, "data", x>>) = space[t].data[x]
         /\ \A u \in Uses : \E t \in Owners :
              \/ \E x \in DOMAIN space[t].tables : u = <<t, "tables", x>>
              \/ \E x \in DOMAIN space[t].data : u = <<t, "data", x>>
<1>1. ASSUME NEW t \in Owners
      PROVE  space[t]["tables"] = space[t].tables /\ space[t]["data"] = space[t].data
  BY DEF SpacesTypeOK, SpaceType
<1>2. ASSUME NEW t \in Owners, NEW x
      PROVE  /\ FrameOf(<<t, "tables", x>>) = space[t].tables[x]
             /\ FrameOf(<<t, "data", x>>) = space[t].data[x]
  BY <1>1 DEF FrameOf
<1>3. ASSUME NEW t \in Owners, NEW x \in DOMAIN space[t].tables
      PROVE  <<t, "tables", x>> \in Uses
  BY DEF Uses
<1>4. ASSUME NEW t \in Owners, NEW x \in DOMAIN space[t].data
      PROVE  <<t, "data", x>> \in Uses
  BY DEF Uses
<1>5. ASSUME NEW u \in Uses
      PROVE  \E t \in Owners :
               \/ \E x \in DOMAIN space[t].tables : u = <<t, "tables", x>>
               \/ \E x \in DOMAIN space[t].data : u = <<t, "data", x>>
  <2>1. PICK t \in Owners : \/ u \in {t} \X {"tables"} \X DOMAIN space[t].tables
                            \/ u \in {t} \X {"data"} \X DOMAIN space[t].data
    BY DEF Uses
  <2>2. CASE u \in {t} \X {"tables"} \X DOMAIN space[t].tables
    BY <2>2
  <2>3. CASE u \in {t} \X {"data"} \X DOMAIN space[t].data
    BY <2>3
  <2> QED
    BY <2>1, <2>2, <2>3
<1> QED
  BY <1>2, <1>3, <1>4, <1>5

(* The frames in use and their uses are one to one. *)
LEMMA OneUseEach ==
  ASSUME AddressInv
  PROVE  /\ \A u \in Uses : FrameOf(u) \in used
         /\ \A f \in used : \E u \in Uses : FrameOf(u) = f
         /\ \A u, v \in Uses : FrameOf(u) = FrameOf(v) => u = v
<1>1. SpacesTypeOK /\ Partitioned(space, used)
  BY DEF AddressInv
<1>2. /\ \A t \in Owners : Proper(space[t])
      /\ \A t, v \in Owners : t # v => Owned(space[t]) \cap Owned(space[v]) = {}
      /\ used = UNION {Owned(space[t]) : t \in Owners}
  BY <1>1 DEF Partitioned
<1>3. ASSUME NEW t \in Owners
      PROVE  /\ Owned(space[t]) \subseteq used
             /\ \A x \in DOMAIN space[t].tables : space[t].tables[x] \in Owned(space[t])
             /\ \A x \in DOMAIN space[t].data : space[t].data[x] \in Owned(space[t])
             /\ \A f \in Owned(space[t]) :
                  \/ \E x \in DOMAIN space[t].tables : f = space[t].tables[x]
                  \/ \E x \in DOMAIN space[t].data : f = space[t].data[x]
  BY <1>2 DEF Owned, Range
<1>4. ASSUME NEW u \in Uses
      PROVE  \E t \in Owners : u[1] = t /\ FrameOf(u) \in Owned(space[t])
  <2>1. PICK t \in Owners : \/ \E x \in DOMAIN space[t].tables : u = <<t, "tables", x>>
                            \/ \E x \in DOMAIN space[t].data : u = <<t, "data", x>>
    BY <1>1, UseFacts
  <2>2. CASE \E x \in DOMAIN space[t].tables : u = <<t, "tables", x>>
    <3>1. PICK x \in DOMAIN space[t].tables : u = <<t, "tables", x>>
      BY <2>2
    <3>2. FrameOf(u) = space[t].tables[x]
      BY <1>1, <3>1, UseFacts
    <3> QED
      BY <1>3, <3>1, <3>2
  <2>3. CASE \E x \in DOMAIN space[t].data : u = <<t, "data", x>>
    <3>1. PICK x \in DOMAIN space[t].data : u = <<t, "data", x>>
      BY <2>3
    <3>2. FrameOf(u) = space[t].data[x]
      BY <1>1, <3>1, UseFacts
    <3> QED
      BY <1>3, <3>1, <3>2
  <2> QED
    BY <2>1, <2>2, <2>3
<1>5. \A u \in Uses : FrameOf(u) \in used
  BY <1>3, <1>4
<1>6. ASSUME NEW f \in used PROVE \E u \in Uses : FrameOf(u) = f
  <2>1. PICK t \in Owners : f \in Owned(space[t])
    BY <1>2
  <2>2. CASE \E x \in DOMAIN space[t].tables : f = space[t].tables[x]
    BY <1>1, <2>2, UseFacts
  <2>3. CASE \E x \in DOMAIN space[t].data : f = space[t].data[x]
    BY <1>1, <2>3, UseFacts
  <2> QED
    BY <1>3, <2>1, <2>2, <2>3
<1>7. ASSUME NEW u \in Uses, NEW v \in Uses, FrameOf(u) = FrameOf(v) PROVE u = v
  <2>1. PICK t \in Owners : u[1] = t /\ FrameOf(u) \in Owned(space[t])
    BY <1>4
  <2>2. PICK w \in Owners : v[1] = w /\ FrameOf(v) \in Owned(space[w])
    BY <1>4
  <2>3. t = w
    BY <1>2, <1>7, <2>1, <2>2
  <2> DEFINE tab == space[t].tables  dat == space[t].data
  <2>4. /\ \A x, y \in DOMAIN tab : tab[x] = tab[y] => x = y
        /\ \A x, y \in DOMAIN dat : dat[x] = dat[y] => x = y
        /\ \A x \in DOMAIN tab, y \in DOMAIN dat : tab[x] # dat[y]
    BY <1>2 DEF Proper, OneToOne, Range
  <2>5. ASSUME NEW r \in Uses, r[1] = t
        PROVE  \/ \E x \in DOMAIN tab : r = <<t, "tables", x>> /\ FrameOf(r) = tab[x]
               \/ \E x \in DOMAIN dat : r = <<t, "data", x>> /\ FrameOf(r) = dat[x]
    <3>1. PICK s \in Owners : \/ \E x \in DOMAIN space[s].tables : r = <<s, "tables", x>>
                              \/ \E x \in DOMAIN space[s].data : r = <<s, "data", x>>
      BY <1>1, UseFacts
    <3>2. s = t
      BY <2>5, <3>1
    <3>3. \/ \E x \in DOMAIN tab : r = <<t, "tables", x>>
          \/ \E x \in DOMAIN dat : r = <<t, "data", x>>
      BY <3>1, <3>2
    <3> QED
      BY <1>1, <3>3, UseFacts
  <2> HIDE DEF tab, dat
  <2>6. v[1] = t
    BY <2>2, <2>3
  <2> QED
    BY <1>7, <2>1, <2>4, <2>5, <2>6
<1> QED
  BY <1>5, <1>6, <1>7

(* There are finitely many frames. *)
LEMMA FramesFinite == IsFiniteSet(Frames)
<1>1. start \in Int /\ end - 1 \in Int
  BY PageRangeAssumption
<1> QED
  BY <1>1, FS_Interval DEF Frames

(* The invariant implies FramesPartitioned. *)
LEMMA PartitionInv == AddressInv => FramesPartitioned
<1> SUFFICES ASSUME AddressInv PROVE FramesPartitioned
  OBVIOUS
<1> DEFINE g == [u \in Uses |-> FrameOf(u)]
<1>1. /\ \A u \in Uses : FrameOf(u) \in used
      /\ \A f \in used : \E u \in Uses : FrameOf(u) = f
      /\ \A u, v \in Uses : FrameOf(u) = FrameOf(v) => u = v
  BY OneUseEach
<1>2. used = {FrameOf(u) : u \in Uses}
  BY <1>1
<1>3. /\ g \in [Uses -> used] /\ \A f \in used : \E u \in Uses : g[u] = f
      /\ \A u, v \in Uses : g[u] = g[v] => u = v
  BY <1>1
<1> HIDE DEF g
<1>4. g \in Injection(Uses, used) /\ g \in Surjection(Uses, used)
  BY <1>3 DEF Injection, Surjection, IsInjective
<1>5. IsFiniteSet(used)
  <2>1. used \in SUBSET Frames
    BY DEF AddressInv, SpacesTypeOK
  <2> QED
    BY <2>1, FramesFinite, FS_Subset
<1>6. Cardinality(Uses) = Cardinality(used)
  BY <1>4, <1>5, FS_Injection
<1> QED
  BY <1>2, <1>6 DEF FramesPartitioned

(***************************************************************************)
(* Every frame in use has exactly one use, for every number of frames,     *)
(* tasks and traps.                                                        *)
(***************************************************************************)
THEOREM FramesPartitionedHolds == Spec => []FramesPartitioned
  BY AddressInvariant, PartitionInv, PTL

-----------------------------------------------------------------------------
(* The page tables of the live tasks. *)
LEMMA AllDisjoint ==
  ASSUME NEW areas \in Seq(AreaType), NEW vma \in Seq(AreaType),
         Disjoint(areas), Disjoint(vma), Covered(areas) \cap Covered(vma) = {}
  PROVE  Disjoint(areas \o vma)
<1> DEFINE c == areas \o vma
           L == Len(areas)
<1>1. /\ L \in Nat /\ Len(vma) \in Nat /\ DOMAIN areas = 1..L /\ DOMAIN vma = 1..Len(vma)
      /\ DOMAIN c = 1..(L + Len(vma))
      /\ \A i \in 1..L : c[i] = areas[i]
      /\ \A i \in (L + 1)..(L + Len(vma)) : c[i] = vma[i - L]
  OBVIOUS
<1> HIDE DEF c, L
<1>2. ASSUME NEW i \in DOMAIN c PROVE
         \/ i \in DOMAIN areas /\ c[i] = areas[i] /\ PagesOf(c[i]) \subseteq Covered(areas)
         \/ /\ i \notin DOMAIN areas /\ i - L \in DOMAIN vma /\ c[i] = vma[i - L]
            /\ PagesOf(c[i]) \subseteq Covered(vma) /\ i \in Int
  <2>1. CASE i \in 1..L
    BY <1>1, <2>1 DEF Covered
  <2>2. CASE i \notin 1..L
    <3>1. i \in (L + 1)..(L + Len(vma)) /\ i - L \in 1..Len(vma) /\ i \in Int
      BY <1>1, <2>2
    <3> QED
      BY <1>1, <2>2, <3>1 DEF Covered
  <2> QED
    BY <2>1, <2>2
<1>3. ASSUME NEW i \in DOMAIN c, NEW j \in DOMAIN c, i # j
      PROVE  PagesOf(c[i]) \cap PagesOf(c[j]) = {}
  <2>1. CASE i \in DOMAIN areas /\ j \in DOMAIN areas
    BY <1>2, <1>3, <2>1 DEF Disjoint
  <2>2. CASE i \notin DOMAIN areas /\ j \notin DOMAIN areas
    <3>1. /\ i - L \in DOMAIN vma /\ c[i] = vma[i - L]
          /\ j - L \in DOMAIN vma /\ c[j] = vma[j - L] /\ i \in Int /\ j \in Int
      BY <1>2, <2>2
    <3>2. i - L # j - L
      BY <1>1, <1>3, <3>1
    <3> QED
      BY <3>1, <3>2 DEF Disjoint
  <2>3. CASE ~(i \in DOMAIN areas <=> j \in DOMAIN areas)
    BY <1>2, <2>3
  <2> QED
    BY <2>1, <2>2, <2>3
<1> QED
  BY <1>3 DEF Disjoint, c

(* The invariant implies TablesMatchAreas. *)
LEMMA TablesInv == AddressInv => TablesMatchAreas
<1> SUFFICES ASSUME AddressInv, Running, NEW t \in Pids, Alive(t)
             PROVE  LET s == space[t] IN
                    /\ DOMAIN s.pte = DOMAIN s.data
                    /\ \A p \in DOMAIN s.pte : /\ s.pte[p].ppn = s.data[p]
                                               /\ TableNodes(p) \subseteq DOMAIN s.tables
                    /\ Covered(s.areas) \subseteq DOMAIN s.pte
                    /\ DOMAIN s.pte \subseteq Covered(s.areas) \cup Covered(s.vma)
                    /\ Disjoint(s.areas \o s.vma)
  BY DEF TablesMatchAreas, Disjoint
<1> DEFINE s == space[t]
<1>1. Sound(s, base_size[t])
  BY DEF AddressInv, TasksSound
<1>2. s.areas \in Seq(AreaType) /\ s.vma \in Seq(AreaType)
  <2>1. s \in SpaceType
    BY PidFacts DEF AddressInv, SpacesTypeOK
  <2> QED
    BY <2>1 DEF SpaceType
<1> HIDE DEF s
<1>3. Disjoint(s.areas) /\ Low(s.areas) /\ Placed(s.vma)
  BY <1>1 DEF Sound
<1>4. Covered(s.vma) \subseteq VMA_START..(TRAP_CONTEXT - 1) /\ Disjoint(s.vma)
  BY <1>2, <1>3, MappingsPlaced
<1>5. Covered(s.areas) \cap Covered(s.vma) = {}
  BY <1>3, <1>4, Layout DEF Low
<1>6. Disjoint(s.areas \o s.vma)
  BY <1>2, <1>3, <1>4, <1>5, AllDisjoint
<1> QED
  BY <1>1, <1>6 DEF Sound, Match, s

(***************************************************************************)
(* The page table of a live task and the lists of its areas say the same.  *)
(***************************************************************************)
THEOREM TablesMatchAreasHolds == Spec => []TablesMatchAreas
  BY AddressInvariant, TablesInv, PTL

(* The invariant implies BelowBreakMapped. *)
LEMMA BreakInv == AddressInv => BelowBreakMapped
<1> SUFFICES ASSUME AddressInv, Running, NEW t \in Pids, Alive(t)
             PROVE  Cardinality({p \in Pages : p * PAGE_SIZE < base_size[t]}
                                \ DOMAIN space[t].pte) <= 1
  BY DEF BelowBreakMapped
<1> DEFINE break == base_size[t]
           S == {p \in Pages : p * PAGE_SIZE < break} \ DOMAIN space[t].pte
<1>1. Sound(space[t], break)
  BY DEF AddressInv, TasksSound
<1>2. break \in Nat
  BY DEF AddressInv, SpacesTypeOK
<1> HIDE DEF break
<1>3. PICK gap \in Int : (0..(va_ceil(break) - 1)) \ {gap} \subseteq DOMAIN space[t].pte
  BY <1>1 DEF Sound, Filled
<1>4. ASSUME NEW p \in S PROVE p = gap
  <2>1. p \in Nat /\ p * PAGE_SIZE < break /\ p \notin DOMAIN space[t].pte
    BY Layout DEF Pages
  <2>2. p < va_ceil(break) /\ va_ceil(break) \in Nat
    BY <1>2, <2>1, BelowBreak, PageBounds
  <2>3. p \in 0..(va_ceil(break) - 1)
    BY <2>1, <2>2
  <2> QED
    BY <1>3, <2>1, <2>3
<1>5. IsFiniteSet({gap}) /\ Cardinality({gap}) = 1
  BY FS_Singleton
<1>6. S \in SUBSET {gap}
  BY <1>4
<1> HIDE DEF S
<1>7. Cardinality(S) <= Cardinality({gap})
  BY <1>5, <1>6, FS_Subset
<1> QED
  BY <1>5, <1>7 DEF S, break

(***************************************************************************)
(* All pages below the break of a live task are mapped but one.            *)
(***************************************************************************)
THEOREM BelowBreakMappedHolds == Spec => []BelowBreakMapped
  BY AddressInvariant, BreakInv, PTL
=============================================================================
