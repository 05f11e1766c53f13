----------------------------- MODULE PipeProofs -----------------------------
(***************************************************************************)
(* Proofs about Pipe for any numbers of readers and writers, any PIPESIZE  *)
(* and counters of any width that PIPESIZE divides.                        *)
(***************************************************************************)
EXTENDS Pipe, SchedulerProofs

(***************************************************************************)
(* The arithmetic of the counters.                                         *)
(***************************************************************************)
LEMMA DivMod ==
  ASSUME NEW p \in Nat \ {0}, NEW a \in Int
  PROVE  a = p * (a \div p) + (a % p) /\ a % p \in 0..p - 1 /\ a \div p \in Int
OBVIOUS

LEMMA NoMultipleBetween ==
  ASSUME NEW p \in Nat \ {0}, NEW d \in Int, p * d < p, -p < p * d
  PROVE  d = 0
<1>1. ASSUME d >= 1 PROVE FALSE
  <2>1. p * d >= p
    BY <1>1
  <2> QED
    BY <2>1
<1>2. ASSUME d <= -1 PROVE FALSE
  <2>1. p * d <= -p
    BY <1>2
  <2> QED
    BY <2>1
<1> QED
  BY <1>1, <1>2

LEMMA RemainderUnique ==
  ASSUME NEW p \in Nat \ {0}, NEW q \in Int, NEW r \in 0..p - 1, NEW a \in Int,
         a = p * q + r
  PROVE  a % p = r
<1>1. a = p * (a \div p) + (a % p) /\ a % p \in 0..p - 1 /\ a \div p \in Int
  BY DivMod
<1>2. p * (a \div p - q) = r - (a % p)
  BY <1>1
<1>3. a \div p - q = 0
  BY <1>1, <1>2, NoMultipleBetween
<1> QED
  BY <1>1, <1>2, <1>3

(* Numbers less than p apart that agree modulo p are the same. *)
LEMMA WindowInjective ==
  ASSUME NEW p \in Nat \ {0}, NEW a \in Int, NEW b \in Int,
         a % p = b % p, a - b < p, b - a < p
  PROVE  a = b
<1>1. a = p * (a \div p) + (a % p) /\ a \div p \in Int
  BY DivMod
<1>2. b = p * (b \div p) + (a % p) /\ b \div p \in Int
  BY DivMod
<1>3. p * (a \div p - b \div p) = a - b
  BY <1>1, <1>2
<1>4. a \div p - b \div p = 0
  BY <1>1, <1>2, <1>3, NoMultipleBetween
<1> QED
  BY <1>1, <1>2, <1>4

(* One turn of the counters' range. *)
LEMMA ModTurn ==
  ASSUME NEW u \in Nat \ {0}, NEW a \in Int
  PROVE  /\ 0 <= a /\ a < u => a % u = a
         /\ u <= a /\ a < 2 * u => a % u = a - u
         /\ -u <= a /\ a < 0 => a % u = a + u
OBVIOUS

LEMMA CounterDifference ==
  ASSUME NEW u \in Nat \ {0}, NEW a \in 0..u - 1, NEW b \in 0..u - 1
  PROVE  (b - a) % u = IF a <= b THEN b - a ELSE b - a + u
<1> DEFINE d == b - a
<1>1. d \in Int /\ -u <= d /\ d < u /\ (d < 0 <=> ~(a <= b))
  OBVIOUS
<1> HIDE DEF d
<1>2. /\ 0 <= d /\ d < u => d % u = d
      /\ -u <= d /\ d < 0 => d % u = d + u
  BY <1>1, ModTurn
<1> QED
  BY <1>1, <1>2 DEF d

LEMMA CounterSum ==
  ASSUME NEW u \in Nat \ {0}, NEW a \in 0..u - 1, NEW n \in 0..u
  PROVE  /\ (a + n) % u = (IF a + n < u THEN a + n ELSE a + n - u)
         /\ (a + n) % u \in 0..u - 1
<1> DEFINE d == a + n
<1>1. d \in Int /\ 0 <= d /\ d < 2 * u
  OBVIOUS
<1> HIDE DEF d
<1>2. /\ 0 <= d /\ d < u => d % u = d
      /\ u <= d /\ d < 2 * u => d % u = d - u
  BY <1>1, ModTurn
<1>3. d % u \in 0..u - 1
  BY <1>1, DivMod
<1> QED
  BY <1>1, <1>2, <1>3 DEF d

LEMMA RemainderOfSum ==
  ASSUME NEW p \in Nat \ {0}, NEW m \in Int, NEW c \in Int, m = p * c, NEW a \in Int
  PROVE  (m + a) % p = a % p
<1>1. a = p * (a \div p) + (a % p) /\ a \div p \in Int /\ a % p \in 0..p - 1
  BY DivMod
<1> DEFINE d == a \div p
           r == a % p
<1>2. d \in Int /\ r \in 0..p - 1 /\ a = p * d + r
  BY <1>1
<1> HIDE DEF d, r
<1>3. m + a = p * (c + d) + r /\ c + d \in Int /\ m + a \in Int
  BY <1>2
<1>4. (m + a) % p = r
  BY <1>2, <1>3, RemainderUnique
<1> QED
  BY <1>4 DEF r

(* PIPESIZE divides UINT, so wrapping at UINT does not change the cell. *)
LEMMA SlotMod ==
  ASSUME NEW a \in Int
  PROVE  /\ Slot(a) = a % PIPESIZE
         /\ Slot(a) \in 0..PIPESIZE - 1
         /\ Slot(a + UINT) = Slot(a)
<1> DEFINE P == PIPESIZE
           U == UINT
<1>1. P \in Nat \ {0} /\ U \in Nat \ {0} /\ U % P = 0
  BY PipeAssumption
<1> HIDE DEF P, U
<1> DEFINE c == U \div P
<1>2. U = P * c /\ c \in Int
  BY <1>1, DivMod
<1> HIDE DEF c
<1>3. ASSUME NEW b \in Int PROVE (b % U) % P = b % P
  <2> DEFINE e == b \div U
             r == b % U
  <2>1. b = U * e + r /\ e \in Int /\ r \in Int
    BY <1>1, DivMod
  <2> HIDE DEF e, r
  <2>2. U * e = P * (c * e) /\ c * e \in Int /\ U * e \in Int
    BY <1>1, <1>2, <2>1
  <2>3. (U * e + r) % P = r % P
    BY <1>1, <2>1, <2>2, RemainderOfSum
  <2> QED
    BY <2>1, <2>3 DEF r
<1>4. (a + U) % P = a % P
  <2>0. U \in Int
    BY <1>1
  <2>1. (U + a) % P = a % P
    BY <2>0, <1>1, <1>2, RemainderOfSum
  <2>2. U + a = a + U
    BY <1>1
  <2> QED
    BY <2>1, <2>2
<1>5. a % P \in 0..P - 1 /\ a + U \in Int
  BY <1>1, DivMod
<1>6. (a % U) % P = a % P /\ ((a + U) % U) % P = (a + U) % P
  BY <1>3, <1>5
<1> QED
  BY <1>4, <1>5, <1>6 DEF Slot, P, U

-----------------------------------------------------------------------------
(* What is in the pipe and what is free add up to PIPESIZE. *)
Ring ==
    /\ nread \in 0..UINT - 1
    /\ nwrite \in 0..UINT - 1
    /\ Used <= PIPESIZE

LEMMA RingFacts ==
  ASSUME Ring
  PROVE  /\ Used \in 0..PIPESIZE /\ Space \in 0..PIPESIZE
         /\ Used + Space = PIPESIZE
         /\ Empty <=> Used = 0
         /\ Full <=> Used = PIPESIZE
         /\ nwrite = nread + Used \/ nwrite + UINT = nread + Used
<1>1. /\ PIPESIZE \in Nat \ {0} /\ UINT \in Nat \ {0} /\ UINT > PIPESIZE
  BY PipeAssumption
<1>2. nread \in 0..UINT - 1 /\ nwrite \in 0..UINT - 1
  BY DEF Ring
<1>3. Used = IF nread <= nwrite THEN nwrite - nread ELSE nwrite - nread + UINT
  BY <1>1, <1>2, CounterDifference DEF Used
<1>4. (nread + PIPESIZE) % UINT =
        IF nread + PIPESIZE < UINT THEN nread + PIPESIZE ELSE nread + PIPESIZE - UINT
  <2>1. PIPESIZE \in 0..UINT
    BY <1>1
  <2> QED
    BY <1>1, <1>2, <2>1, CounterSum
<1>5. Used <= PIPESIZE
  BY DEF Ring
<1>6. Space = PIPESIZE - Used
  <2> DEFINE d == nread + PIPESIZE - nwrite
  <2>1. /\ d \in Int
        /\ nread <= nwrite => d = PIPESIZE - Used /\ 0 <= d /\ d < UINT
        /\ ~(nread <= nwrite) =>
              d = PIPESIZE - Used + UINT /\ UINT <= d /\ d < 2 * UINT
    BY <1>1, <1>2, <1>3, <1>5
  <2> HIDE DEF d
  <2>2. /\ 0 <= d /\ d < UINT => d % UINT = d
        /\ UINT <= d /\ d < 2 * UINT => d % UINT = d - UINT
    BY <1>1, <2>1, ModTurn
  <2>3. d % UINT = PIPESIZE - Used
    BY <1>1, <1>2, <1>3, <2>1, <2>2
  <2> QED
    BY <2>3 DEF d, Space
<1>7. Used \in 0..PIPESIZE
  BY <1>1, <1>2, <1>3, <1>5
<1>8. Empty <=> Used = 0
  BY <1>1, <1>2, <1>3 DEF Empty
<1>9. Full <=> Used = PIPESIZE
  <2> DEFINE f == (nread + PIPESIZE) % UINT
  <2>1. f = IF nread + PIPESIZE < UINT THEN nread + PIPESIZE
            ELSE nread + PIPESIZE - UINT
    BY <1>4
  <2> HIDE DEF f
  <2>2. nwrite = f <=> Used = PIPESIZE
    BY <1>1, <1>2, <1>3, <2>1
  <2> QED
    BY <2>2 DEF f, Full
<1>10. nwrite = nread + Used \/ nwrite + UINT = nread + Used
  BY <1>1, <1>2, <1>3
<1>11. Space \in 0..PIPESIZE /\ Used + Space = PIPESIZE
  BY <1>1, <1>6, <1>7
<1> QED
  BY <1>7, <1>8, <1>9, <1>10, <1>11

(* Moving a counter moves the amount in the pipe. *)
LEMMA RingMoves ==
  ASSUME Ring, NEW n \in Nat
  PROVE  /\ n <= Space /\ nread' = nread /\ nwrite' = (nwrite + n) % UINT
              => Ring' /\ Used' = Used + n
         /\ n <= Used /\ nwrite' = nwrite /\ nread' = (nread + n) % UINT
              => Ring' /\ Used' = Used - n
<1>1. /\ PIPESIZE \in Nat \ {0} /\ UINT \in Nat \ {0} /\ UINT > PIPESIZE
  BY PipeAssumption
<1>2. /\ nread \in 0..UINT - 1 /\ nwrite \in 0..UINT - 1
      /\ Used \in 0..PIPESIZE /\ Space \in 0..PIPESIZE
      /\ Used + Space = PIPESIZE
      /\ nwrite = nread + Used \/ nwrite + UINT = nread + Used
  BY RingFacts DEF Ring
<1>3. ASSUME NEW a \in 0..UINT - 1, NEW b \in 0..UINT - 1
      PROVE  (b - a) % UINT = IF a <= b THEN b - a ELSE b - a + UINT
  BY <1>1, CounterDifference
<1>4. ASSUME NEW a \in 0..UINT - 1, n <= PIPESIZE
      PROVE  /\ (a + n) % UINT = (IF a + n < UINT THEN a + n ELSE a + n - UINT)
             /\ (a + n) % UINT \in 0..UINT - 1
  <2>1. n \in 0..UINT
    BY <1>1, <1>4
  <2> QED
    BY <1>1, <2>1, CounterSum
<1>5. ASSUME n <= Space, nread' = nread, nwrite' = (nwrite + n) % UINT
      PROVE  Ring' /\ Used' = Used + n
  <2>1. /\ nwrite' = (IF nwrite + n < UINT THEN nwrite + n ELSE nwrite + n - UINT)
        /\ nwrite' \in 0..UINT - 1 /\ nread' \in 0..UINT - 1
    BY <1>1, <1>2, <1>4, <1>5
  <2>2. Used' = IF nread' <= nwrite' THEN nwrite' - nread' ELSE nwrite' - nread' + UINT
    BY <1>3, <2>1 DEF Used
  <2> QED
    BY <1>1, <1>2, <1>5, <2>1, <2>2 DEF Ring
<1>6. ASSUME n <= Used, nwrite' = nwrite, nread' = (nread + n) % UINT
      PROVE  Ring' /\ Used' = Used - n
  <2>1. /\ nread' = (IF nread + n < UINT THEN nread + n ELSE nread + n - UINT)
        /\ nwrite' \in 0..UINT - 1 /\ nread' \in 0..UINT - 1
    BY <1>1, <1>2, <1>4, <1>6
  <2>2. Used' = IF nread' <= nwrite' THEN nwrite' - nread' ELSE nwrite' - nread' + UINT
    BY <1>3, <2>1 DEF Used
  <2> QED
    BY <1>1, <1>2, <1>6, <2>1, <2>2 DEF Ring
<1> QED
  BY <1>5, <1>6

-----------------------------------------------------------------------------
LEMMA FrontAndLast ==
  ASSUME NEW T, NEW s \in Seq(T), s # <<>>,
         NEW S, \A i \in 1..Len(s) - 1 : s[i] \in S
  PROVE  /\ SubSeq(s, 1, Len(s) - 1) \in Seq(S)
         /\ Len(SubSeq(s, 1, Len(s) - 1)) = Len(s) - 1
         /\ \A i \in 1..Len(s) - 1 : SubSeq(s, 1, Len(s) - 1)[i] = s[i]
         /\ s = Append(SubSeq(s, 1, Len(s) - 1), s[Len(s)])
<1>1. s = Append(SubSeq(s, 1, Len(s) - 1), s[Len(s)])
  OBVIOUS
<1>2. Len(s) \in Nat \ {0}
  OBVIOUS
<1> DEFINE n == Len(s) - 1
<1>3. n \in 0..Len(s) - 1 /\ \A i \in 1..n : s[i] \in S
  BY <1>2
<1> HIDE DEF n
<1>4. SubSeq(s, 1, n) \in Seq(S)
  BY <1>3, SubSeqProperties
<1>5. Len(SubSeq(s, 1, n)) = n
  BY <1>2, <1>3
<1>6. \A i \in 1..n : SubSeq(s, 1, n)[i] = s[i]
  BY <1>2, <1>3
<1> QED
  BY <1>1, <1>4, <1>5, <1>6, Zenon DEF n

(* The buffers of a write. *)
LEMMA ChunkIs ==
  ASSUME NEW buf
  PROVE  buf \in Chunks <=>
           /\ buf \in Seq(Bytes \cup {NULL})
           /\ Len(buf) <= MaxCount
           /\ \A i \in 1..Len(buf) - 1 : buf[i] \in Bytes
<1>0. MaxCount \in Nat \ {0} /\ MaxCount - 1 \in Nat
  BY PipeAssumption
<1>1. \A n \in Nat : \A s :
        s \in BoundedSeq(Bytes, n) <=> s \in Seq(Bytes) /\ Len(s) <= n
  <2> SUFFICES ASSUME NEW n \in Nat, NEW s
               PROVE  s \in BoundedSeq(Bytes, n) <=> s \in Seq(Bytes) /\ Len(s) <= n
    OBVIOUS
  <2>1. ASSUME s \in BoundedSeq(Bytes, n) PROVE s \in Seq(Bytes) /\ Len(s) <= n
    <3>1. PICK m \in 0..n : s \in [1..m -> Bytes]
      BY <2>1 DEF BoundedSeq, SeqOf
    <3>2. m \in Nat
      BY <3>1
    <3> QED
      BY <3>1, <3>2
  <2>2. ASSUME s \in Seq(Bytes), Len(s) <= n PROVE s \in BoundedSeq(Bytes, n)
    <3>1. Len(s) \in 0..n /\ s \in [1..Len(s) -> Bytes]
      BY <2>2
    <3> QED
      BY <3>1 DEF BoundedSeq, SeqOf
  <2> QED
    BY <2>1, <2>2
<1>2. ASSUME buf \in Chunks
      PROVE  /\ buf \in Seq(Bytes \cup {NULL})
             /\ Len(buf) <= MaxCount
             /\ \A i \in 1..Len(buf) - 1 : buf[i] \in Bytes
  <2>1. CASE buf \in BoundedSeq(Bytes, MaxCount)
    <3>1. buf \in Seq(Bytes) /\ Len(buf) <= MaxCount
      BY <1>0, <1>1, <2>1
    <3> QED
      BY <3>1
  <2>2. CASE buf \notin BoundedSeq(Bytes, MaxCount)
    <3>1. PICK s \in BoundedSeq(Bytes, MaxCount - 1) : buf = Append(s, NULL)
      BY <1>2, <2>2 DEF Chunks
    <3>2. s \in Seq(Bytes) /\ Len(s) <= MaxCount - 1
      BY <1>0, <1>1
    <3>3. s \in Seq(Bytes \cup {NULL})
      BY <3>2
    <3> QED
      BY <1>0, <3>1, <3>2, <3>3
  <2> QED
    BY <2>1, <2>2
<1>3. ASSUME buf \in Seq(Bytes \cup {NULL}), Len(buf) <= MaxCount,
             \A i \in 1..Len(buf) - 1 : buf[i] \in Bytes
      PROVE  buf \in Chunks
  <2>1. CASE buf = <<>> \/ buf[Len(buf)] \in Bytes
    <3>1. \A i \in 1..Len(buf) : buf[i] \in Bytes
      BY <1>3, <2>1
    <3>2. buf \in Seq(Bytes)
      BY <1>3, <3>1
    <3> QED
      BY <1>0, <1>1, <1>3, <3>2 DEF Chunks
  <2>2. CASE buf # <<>> /\ buf[Len(buf)] \notin Bytes
    <3> DEFINE s == SubSeq(buf, 1, Len(buf) - 1)
    <3>1. Len(buf) \in Nat \ {0} /\ buf[Len(buf)] = NULL
      BY <1>3, <2>2
    <3>2. /\ s \in Seq(Bytes) /\ Len(s) = Len(buf) - 1
          /\ buf = Append(s, buf[Len(buf)])
      BY <1>3, <2>2, FrontAndLast, Zenon
    <3>3. buf = Append(s, NULL)
      BY <3>1, <3>2, Zenon
    <3> HIDE DEF s
    <3>4. Len(s) <= MaxCount - 1
      BY <1>0, <1>3, <3>1, <3>2
    <3>5. s \in BoundedSeq(Bytes, MaxCount - 1)
      BY <1>0, <1>1, <3>2, <3>4
    <3> QED
      BY <3>3, <3>5 DEF Chunks
  <2> QED
    BY <2>1, <2>2
<1> QED
  BY <1>2, <1>3

(* The bytes of a buffer are all of it, or all but its last cell. *)
LEMMA ReadableIs ==
  ASSUME NEW buf \in Chunks
  PROVE  /\ Readable(buf) \in Seq(Bytes)
         /\ Len(Readable(buf)) <= Len(buf)
         /\ Len(buf) - 1 <= Len(Readable(buf))
         /\ Len(buf) \in Nat
         /\ \A i \in 1..Len(Readable(buf)) : Readable(buf)[i] = buf[i]
         /\ Len(Readable(buf)) =
              (IF buf # <<>> /\ buf[Len(buf)] = NULL THEN Len(buf) - 1 ELSE Len(buf))
<1>1. /\ buf \in Seq(Bytes \cup {NULL})
      /\ \A i \in 1..Len(buf) - 1 : buf[i] \in Bytes
      /\ NULL \notin Bytes
  BY ChunkIs, PipeAssumption
<1>2. CASE buf # <<>> /\ buf[Len(buf)] = NULL
  <2>1. Readable(buf) = SubSeq(buf, 1, Len(buf) - 1)
    BY <1>2 DEF Readable, Last, Front
  <2>2. Len(buf) \in Nat \ {0}
    BY <1>1, <1>2
  <2>3. /\ SubSeq(buf, 1, Len(buf) - 1) \in Seq(Bytes)
        /\ Len(SubSeq(buf, 1, Len(buf) - 1)) = Len(buf) - 1
        /\ \A i \in 1..Len(buf) - 1 : SubSeq(buf, 1, Len(buf) - 1)[i] = buf[i]
    BY <1>1, <1>2, FrontAndLast, Zenon
  <2> QED
    BY <1>2, <2>1, <2>2, <2>3
<1>3. CASE ~(buf # <<>> /\ buf[Len(buf)] = NULL)
  <2>1. Readable(buf) = buf
    BY <1>3 DEF Readable, Last
  <2>2. \A i \in 1..Len(buf) : buf[i] \in Bytes
    BY <1>1, <1>3
  <2>3. buf \in Seq(Bytes) /\ Len(buf) \in Nat
    BY <1>1, <2>2
  <2> QED
    BY <1>3, <2>1, <2>3
<1> QED
  BY <1>2, <1>3

-----------------------------------------------------------------------------
(* The ring buffer. *)
Cells == Bytes \cup {NULL}

RingType == Ring /\ data \in [0..PIPESIZE - 1 -> Cells]

(* Cells less than PIPESIZE apart are different cells. *)
LEMMA SlotInjective ==
  ASSUME NEW a \in Int, NEW b \in Int, Slot(a) = Slot(b),
         a - b < PIPESIZE, b - a < PIPESIZE
  PROVE  a = b
<1>1. Slot(a) = a % PIPESIZE /\ Slot(b) = b % PIPESIZE
  BY SlotMod
<1>2. PIPESIZE \in Nat \ {0}
  BY PipeAssumption
<1> QED
  BY <1>1, <1>2, WindowInjective

(* The cell at nwrite comes right after the bytes in the pipe. *)
LEMMA NextCell ==
  ASSUME Ring, NEW k \in Nat
  PROVE  Slot(nwrite + k) = Slot(nread + Used + k)
<1>1. /\ nwrite \in Int /\ nread \in Int /\ Used \in Int /\ UINT \in Int
      /\ nwrite = nread + Used \/ nwrite + UINT = nread + Used
  BY RingFacts, PipeAssumption DEF Ring
<1> DEFINE a == nwrite + k
           b == nread + Used + k
<1>2. a \in Int /\ b \in Int /\ (a = b \/ a + UINT = b)
  BY <1>1
<1> HIDE DEF a, b
<1>3. Slot(a) = Slot(b)
  BY <1>2, SlotMod
<1> QED
  BY <1>3 DEF a, b

LEMMA ContentsIs ==
  ASSUME RingType
  PROVE  /\ Contents \in Seq(Cells)
         /\ Len(Contents) = Used
         /\ \A i \in 1..Used : Contents[i] = data[Slot(nread + i - 1)]
<1>1. Used \in Nat /\ nread \in Int
  BY RingFacts, PipeAssumption DEF RingType, Ring
<1>2. \A i \in 1..Used : data[Slot(nread + i - 1)] \in Cells
  <2> SUFFICES ASSUME NEW i \in 1..Used PROVE data[Slot(nread + i - 1)] \in Cells
    OBVIOUS
  <2>1. nread + i - 1 \in Int
    BY <1>1
  <2>2. Slot(nread + i - 1) \in 0..PIPESIZE - 1
    BY <2>1, SlotMod
  <2> QED
    BY <2>2 DEF RingType
<1> DEFINE n == Used
           c(i) == data[Slot(nread + i - 1)]
<1>3. n \in Nat /\ \A i \in 1..n : c(i) \in Cells
  BY <1>1, <1>2
<1> HIDE DEF n, c
<1>4. /\ [i \in 1..n |-> c(i)] \in Seq(Cells)
      /\ Len([i \in 1..n |-> c(i)]) = n
      /\ \A i \in 1..n : [j \in 1..n |-> c(j)][i] = c(i)
  BY <1>3
<1> QED
  BY <1>4 DEF n, c, Contents

(* pipewrite's loop: n bytes go behind the ones in the pipe. *)
LEMMA StoreCells ==
  ASSUME RingType, NEW buf, NEW n \in Nat, n <= Space,
         \A k \in 1..n : buf[k] \in Cells,
         Store(buf, n), nread' = nread
  PROVE  /\ RingType' /\ Used' = Used + n
         /\ \A k \in 1..n : data'[Slot(nread + Used + k - 1)] = buf[k]
         /\ \A i \in 1..Used : data'[Slot(nread + i - 1)] = data[Slot(nread + i - 1)]
<1>1. /\ nwrite \in Int /\ nread \in Int /\ Used \in Nat /\ Space \in Nat
      /\ Used + Space = PIPESIZE /\ PIPESIZE \in Nat \ {0}
  BY RingFacts, PipeAssumption DEF RingType, Ring
<1>2. Ring' /\ Used' = Used + n
  BY RingMoves DEF RingType, Store
<1> DEFINE ks(j) == {k \in 1..n : Slot(nwrite + k - 1) = j}
<1>3. \A j \in 0..PIPESIZE - 1 :
        data'[j] = IF ks(j) = {} THEN data[j] ELSE buf[Max(ks(j))]
  BY DEF Store, RingType
<1>4. ASSUME NEW k \in 1..n PROVE Slot(nwrite + k - 1) = Slot(nread + Used + k - 1)
  <2>1. k - 1 \in Nat /\ nwrite + (k - 1) = nwrite + k - 1
        /\ nread + Used + (k - 1) = nread + Used + k - 1
    BY <1>1
  <2> DEFINE m == k - 1
  <2>2. Slot(nwrite + m) = Slot(nread + Used + m)
    BY <2>1, NextCell DEF RingType
  <2> QED
    BY <2>1, <2>2
<1>5. ASSUME NEW k \in 1..n PROVE ks(Slot(nwrite + k - 1)) = {k}
  <2> SUFFICES ASSUME NEW l \in 1..n, Slot(nwrite + l - 1) = Slot(nwrite + k - 1)
               PROVE  l = k
    OBVIOUS
  <2> DEFINE a == nwrite + l - 1
             b == nwrite + k - 1
  <2>1. a \in Int /\ b \in Int /\ a - b < PIPESIZE /\ b - a < PIPESIZE
    BY <1>1
  <2>2. Slot(a) = Slot(b)
    OBVIOUS
  <2> HIDE DEF a, b
  <2>3. a = b
    BY <2>1, <2>2, SlotInjective
  <2> QED
    BY <1>1, <2>3 DEF a, b
<1>6. ASSUME NEW k \in 1..n PROVE data'[Slot(nwrite + k - 1)] = buf[k]
  <2>1. Slot(nwrite + k - 1) \in 0..PIPESIZE - 1
    <3>1. nwrite + k - 1 \in Int
      BY <1>1
    <3> QED
      BY <3>1, SlotMod
  <2>2. Max({k}) = k
    BY <1>6 DEF Max
  <2> HIDE DEF ks
  <2> QED
    BY <1>3, <1>5, <2>1, <2>2
<1>7. ASSUME NEW i \in 1..Used
      PROVE  data'[Slot(nread + i - 1)] = data[Slot(nread + i - 1)]
  <2> DEFINE a == nread + i - 1
  <2>1. a \in Int
    BY <1>1
  <2>2. ks(Slot(a)) = {}
    <3> SUFFICES ASSUME NEW k \in 1..n, Slot(nwrite + k - 1) = Slot(a) PROVE FALSE
      OBVIOUS
    <3> DEFINE b == nread + Used + k - 1
    <3>1. b \in Int /\ a - b < PIPESIZE /\ b - a < PIPESIZE /\ a # b
      BY <1>1
    <3>2. Slot(a) = Slot(b)
      BY <1>4
    <3> HIDE DEF a, b
    <3> QED
      BY <2>1, <3>1, <3>2, SlotInjective
  <2>3. Slot(a) \in 0..PIPESIZE - 1
    BY <2>1, SlotMod
  <2> HIDE DEF a, ks
  <2>4. data'[Slot(a)] = data[Slot(a)]
    BY <1>3, <2>2, <2>3
  <2> QED
    BY <2>4 DEF a
<1>8. data' \in [0..PIPESIZE - 1 -> Cells]
  <2>1. DOMAIN data = 0..PIPESIZE - 1
    BY DEF RingType
  <2>2. data' = [j \in 0..PIPESIZE - 1 |->
                   IF ks(j) = {} THEN data[j] ELSE buf[Max(ks(j))]]
    BY <2>1 DEF Store
  <2>3. ASSUME NEW j \in 0..PIPESIZE - 1 PROVE data'[j] \in Cells
    <3>1. CASE ks(j) = {}
      BY <1>3, <3>1 DEF RingType
    <3>2. CASE ks(j) # {}
      <4>1. PICK k \in 1..n : Slot(nwrite + k - 1) = j
        BY <3>2
      <4> QED
        BY <1>6, <4>1
    <3> QED
      BY <3>1, <3>2
  <2> HIDE DEF ks
  <2> QED
    BY <2>2, <2>3
<1>9. \A k \in 1..n : data'[Slot(nread + Used + k - 1)] = buf[k]
  BY <1>4, <1>6
<1> QED
  BY <1>2, <1>7, <1>8, <1>9 DEF RingType

LEMMA ConcatIs ==
  ASSUME NEW S, NEW c \in Seq(S), NEW b \in Seq(S), NEW d \in Seq(S),
         Len(d) = Len(c) + Len(b),
         \A i \in 1..Len(c) : d[i] = c[i],
         \A k \in 1..Len(b) : d[Len(c) + k] = b[k]
  PROVE  d = c \o b
<1>1. /\ c \o b \in Seq(S) /\ Len(c \o b) = Len(c) + Len(b)
      /\ Len(c) \in Nat /\ Len(b) \in Nat
      /\ \A i \in 1..Len(c) + Len(b) :
            (c \o b)[i] = IF i <= Len(c) THEN c[i] ELSE b[i - Len(c)]
  BY ConcatProperties, LenProperties
<1>2. ASSUME NEW i \in 1..Len(d) PROVE d[i] = (c \o b)[i]
  <2>1. CASE i <= Len(c)
    BY <1>1, <2>1
  <2>2. CASE i > Len(c)
    <3>1. i - Len(c) \in 1..Len(b) /\ Len(c) + (i - Len(c)) = i
      BY <1>1, <2>2
    <3> QED
      BY <1>1, <2>2, <3>1
  <2> QED
    BY <1>1, <2>1, <2>2
<1> QED
  BY <1>1, <1>2, SeqEqual

LEMMA StoreAppends ==
  ASSUME RingType, NEW buf, NEW n \in Nat, n <= Space,
         NEW bytes \in Seq(Cells), n <= Len(bytes),
         \A k \in 1..n : buf[k] \in Cells /\ buf[k] = bytes[k],
         Store(buf, n), nread' = nread
  PROVE  Contents' = Contents \o SubSeq(bytes, 1, n)
<1>1. /\ RingType' /\ Used' = Used + n
      /\ \A k \in 1..n : data'[Slot(nread + Used + k - 1)] = buf[k]
      /\ \A i \in 1..Used : data'[Slot(nread + i - 1)] = data[Slot(nread + i - 1)]
  BY StoreCells
<1>2. Used \in Nat /\ nread \in Int
  BY RingFacts, PipeAssumption DEF RingType, Ring
<1>3. /\ Contents \in Seq(Cells) /\ Len(Contents) = Used
      /\ \A i \in 1..Used : Contents[i] = data[Slot(nread + i - 1)]
  BY ContentsIs
<1>4. /\ Contents' \in Seq(Cells) /\ Len(Contents') = Used + n
      /\ \A i \in 1..Used + n : Contents'[i] = data'[Slot(nread + i - 1)]
  <2>1. /\ Contents' \in Seq(Cells) /\ Len(Contents') = Used'
        /\ \A i \in 1..Used' : Contents'[i] = data'[Slot(nread' + i - 1)]
    <3>1. RingType => /\ Contents \in Seq(Cells) /\ Len(Contents) = Used
                      /\ \A i \in 1..Used : Contents[i] = data[Slot(nread + i - 1)]
      BY ContentsIs
    <3>2. (RingType => /\ Contents \in Seq(Cells) /\ Len(Contents) = Used
                       /\ \A i \in 1..Used : Contents[i] = data[Slot(nread + i - 1)])'
      BY ContentsIs, PTL
    <3> QED
      BY <1>1, <3>2
  <2> QED
    BY <1>1, <2>1
<1> DEFINE b == SubSeq(bytes, 1, n)
<1>5. b \in Seq(Cells) /\ Len(b) = n /\ \A k \in 1..n : b[k] = bytes[k]
  OBVIOUS
<1> HIDE DEF b
<1>6. \A i \in 1..Used : Contents'[i] = Contents[i]
  <2> SUFFICES ASSUME NEW i \in 1..Used PROVE Contents'[i] = Contents[i]
    OBVIOUS
  <2>1. i \in 1..Used + n
    BY <1>2
  <2> QED
    BY <1>1, <1>3, <1>4, <2>1
<1>7. \A k \in 1..n : Contents'[Used + k] = b[k]
  <2> SUFFICES ASSUME NEW k \in 1..n PROVE Contents'[Used + k] = b[k]
    OBVIOUS
  <2>1. Used + k \in 1..Used + n /\ nread + (Used + k) - 1 = nread + Used + k - 1
    BY <1>2
  <2>2. Contents'[Used + k] = data'[Slot(nread + (Used + k) - 1)]
    BY <1>4, <2>1
  <2> QED
    BY <1>1, <1>5, <2>1, <2>2
<1>8. Contents' = Contents \o b
  BY <1>3, <1>4, <1>5, <1>6, <1>7, ConcatIs, Zenon
<1> QED
  BY <1>8 DEF b

LEMMA DropIs ==
  ASSUME NEW S, NEW s \in Seq(S), NEW m \in 0..Len(s)
  PROVE  /\ SubSeq(s, m + 1, Len(s)) \in Seq(S)
         /\ Len(SubSeq(s, m + 1, Len(s))) = Len(s) - m
         /\ \A i \in 1..Len(s) - m : SubSeq(s, m + 1, Len(s))[i] = s[m + i]
OBVIOUS

(* piperead's loop: m bytes leave the front. *)
LEMMA ReadDrops ==
  ASSUME RingType, NEW m \in Nat, m <= Used,
         nread' = (nread + m) % UINT, nwrite' = nwrite, data' = data
  PROVE  /\ RingType' /\ Used' = Used - m
         /\ Contents' = SubSeq(Contents, m + 1, Len(Contents))
<1>1. Ring' /\ Used' = Used - m
  BY RingMoves DEF RingType
<1>2. RingType'
  BY <1>1 DEF RingType
<1>3. /\ Used \in 0..PIPESIZE /\ nread \in 0..UINT - 1
      /\ UINT \in Nat \ {0} /\ PIPESIZE \in Nat /\ PIPESIZE < UINT
  BY RingFacts, PipeAssumption DEF RingType, Ring
<1>4. nread' \in Int /\ (nread' = nread + m \/ nread' + UINT = nread + m)
  <2>1. m \in 0..UINT
    BY <1>3
  <2>2. /\ (nread + m) % UINT =
             (IF nread + m < UINT THEN nread + m ELSE nread + m - UINT)
    BY <1>3, <2>1, CounterSum
  <2> DEFINE x == (nread + m) % UINT
  <2>3. x = IF nread + m < UINT THEN nread + m ELSE nread + m - UINT
    BY <2>2
  <2> HIDE DEF x
  <2>4. x \in Int /\ (x = nread + m \/ x + UINT = nread + m)
    BY <1>3, <2>3
  <2> QED
    BY <2>4 DEF x
<1>5. /\ Contents \in Seq(Cells) /\ Len(Contents) = Used
      /\ \A i \in 1..Used : Contents[i] = data[Slot(nread + i - 1)]
  BY ContentsIs
<1>6. /\ Contents' \in Seq(Cells) /\ Len(Contents') = Used'
      /\ \A i \in 1..Used' : Contents'[i] = data'[Slot(nread' + i - 1)]
  <2>1. (RingType => /\ Contents \in Seq(Cells) /\ Len(Contents) = Used
                     /\ \A i \in 1..Used : Contents[i] = data[Slot(nread + i - 1)])'
    BY ContentsIs, PTL
  <2> QED
    BY <1>2, <2>1
<1> DEFINE c == SubSeq(Contents, m + 1, Len(Contents))
<1>7. /\ c \in Seq(Cells) /\ Len(c) = Used - m
      /\ \A i \in 1..Used - m : c[i] = Contents[m + i]
  <2>1. m \in 0..Len(Contents)
    BY <1>3, <1>5
  <2>2. /\ c \in Seq(Cells) /\ Len(c) = Len(Contents) - m
        /\ \A i \in 1..Len(Contents) - m : c[i] = Contents[m + i]
    BY <1>5, <2>1, DropIs, Zenon
  <2> HIDE DEF c
  <2> QED
    BY <1>5, <2>2
<1> HIDE DEF c
<1>8. ASSUME NEW i \in 1..Used - m PROVE Contents'[i] = c[i]
  <2>1. i \in 1..Used' /\ m + i \in 1..Used
    BY <1>1, <1>3
  <2> DEFINE a == nread' + i - 1
             b == nread + (m + i) - 1
  <2>2. a \in Int /\ b \in Int /\ (a = b \/ a + UINT = b)
    BY <1>3, <1>4
  <2> HIDE DEF a, b
  <2>3. Slot(a) = Slot(b)
    BY <2>2, SlotMod
  <2>4. Contents'[i] = data[Slot(a)]
    BY <1>6, <2>1 DEF a
  <2>5. Contents[m + i] = data[Slot(b)]
    BY <1>5, <2>1 DEF b
  <2> QED
    BY <1>7, <2>3, <2>4, <2>5
<1>9. Contents' = c
  BY <1>1, <1>6, <1>7, <1>8, SeqEqual
<1> QED
  BY <1>1, <1>2, <1>9 DEF c

(* What a read hands over. *)
LEMMA ReadHandsOver ==
  ASSUME RingType, NEW k \in Nat, k <= Used
  PROVE  [j \in 1..k |-> data[Slot(nread + j - 1)]] = SubSeq(Contents, 1, k)
<1>1. Used \in Nat
  BY RingFacts, PipeAssumption DEF RingType
<1>2. /\ Contents \in Seq(Cells) /\ Len(Contents) = Used
      /\ \A i \in 1..Used : Contents[i] = data[Slot(nread + i - 1)]
  BY ContentsIs
<1> DEFINE c(j) == data[Slot(nread + j - 1)]
<1>3. \A j \in 1..k : j \in 1..Used /\ Contents[j] = c(j)
  BY <1>1, <1>2
<1>4. SubSeq(Contents, 1, k) = [j \in 1..k |-> Contents[j]]
  BY <1>1, <1>2
<1>5. [j \in 1..k |-> Contents[j]] = [j \in 1..k |-> c(j)]
  BY <1>3
<1> QED
  BY <1>4, <1>5

-----------------------------------------------------------------------------
(***************************************************************************)
(* The inductive invariant: beyond the types and the queues, an end is     *)
(* open while somebody holds it, who is in a call holds the end it needs,  *)
(* a writer outside a call has nothing left to write, and a task sleeps    *)
(* where its call put it.                                                  *)
(***************************************************************************)
EndsInv ==
    /\ readopen <=> holds \cap Readers # {}
    /\ writeopen <=> holds \cap Writers # {}

CallInv ==
    \A t \in Tasks :
        /\ call[t] = "read" => t \in Readers \cap holds
        /\ call[t] = "write" => t \in Writers \cap holds
        /\ t \in Writers /\ call[t] # "write" => todo[t] = <<>>

SleepInv ==
    /\ \A t \in ToSet(wait_queue["rwaiter"]) : call[t] = "read"
    /\ \A t \in ToSet(wait_queue["wwaiter"]) : call[t] = "write"

PipeInv ==
    /\ TypeOK
    /\ SchedTypeOK
    /\ QueueInv
    /\ EndsInv
    /\ CallInv
    /\ SleepInv

LEMMA Ends ==
  /\ "rwaiter" \in Queues /\ "wwaiter" \in Queues
  /\ Readers \subseteq Tasks /\ Writers \subseteq Tasks
  /\ Readers \cap Writers = {}
BY PipeAssumption

LEMMA TypeIsRing == TypeOK => RingType
BY DEF TypeOK, RingType, Ring, Cells

(* A permutation of the tasks links each of them once. *)
LEMMA PermutationLinks ==
  ASSUME NEW s \in SetToSeqs(Tasks)
  PROVE  s \in Seq(Tasks) /\ Once(s) /\ ToSet(s) = Tasks
<1> DEFINE n == Cardinality(Tasks)
<1>1. n \in Nat /\ IsFiniteSet(Tasks)
  BY PipeAssumption, FS_CardinalityType
<1>2. s \in [1..n -> Tasks] /\ \A i, j \in 1..n : i # j => s[i] # s[j]
  BY DEF SetToSeqs
<1>3. IsFiniteSet(1..n) /\ Cardinality(1..n) = n
  BY <1>1, FS_Interval
<1>4. s \in Injection(1..n, Tasks)
  BY <1>2 DEF Injection, IsInjective
<1>5. s \in Surjection(1..n, Tasks)
  BY <1>1, <1>3, <1>4, FS_Injection
<1>6. \A t \in Tasks : \E i \in 1..n : s[i] = t
  BY <1>5 DEF Surjection
<1> HIDE DEF n
<1>7. s \in Seq(Tasks) /\ Len(s) = n
  BY <1>1, <1>2
<1>8. ToSet(s) = {s[i] : i \in 1..n} /\ ToSet(s) \subseteq Tasks
  BY <1>7, ToSetOf
<1> QED
  BY <1>2, <1>6, <1>7, <1>8 DEF Once

LEMMA EmptyChunk == <<>> \in Chunks
<1>1. <<>> \in Seq(Bytes \cup {NULL}) /\ Len(<<>>) = 0
  OBVIOUS
<1>2. Len(<<>>) <= MaxCount /\ \A i \in 1..Len(<<>>) - 1 : <<>>[i] \in Bytes
  BY <1>1, PipeAssumption
<1> QED
  BY <1>1, <1>2, ChunkIs, Zenon

LEMMA InitPipeInv == Init => PipeInv
<1> SUFFICES ASSUME Init PROVE PipeInv
  OBVIOUS
<1>1. /\ ready_queue \in Seq(Tasks) /\ Once(ready_queue)
      /\ ToSet(ready_queue) = Tasks
  BY PermutationLinks DEF Init
<1>2. SchedTypeOK
  BY <1>1, EmptyLinks DEF Init, SchedTypeOK, Statuses
<1>3. QueueInv
  <2>1. ListsOnce
    BY <1>1, EmptyLinks DEF Init, ListsOnce
  <2>2. StatusOfList
    BY <1>1, EmptyLinks, SchedulerAssumption DEF Init, StatusOfList
  <2> QED
    BY <2>1, <2>2 DEF QueueInv
<1>4. TypeOK
  <2>1. /\ UINT \in Nat \ {0} /\ PIPESIZE \in Nat \ {0}
    BY PipeAssumption
  <2>2. Used = 0
    BY <2>1, CounterDifference DEF Init, Used
  <2> QED
    BY <2>1, <2>2, EmptyChunk DEF Init, TypeOK
<1>5. EndsInv
  BY PipeAssumption DEF Init, EndsInv
<1>6. CallInv
  BY DEF Init, CallInv
<1>7. SleepInv
  BY EmptyLinks, Ends DEF Init, SleepInv
<1> QED
  BY <1>2, <1>3, <1>4, <1>5, <1>6, <1>7 DEF PipeInv

-----------------------------------------------------------------------------
(* The running task is in no queue. *)
LEMMA RunningAwake ==
  ASSUME QueueInv, NEW t \in Tasks, Runs(t)
  PROVE  \A q \in Queues : t \notin ToSet(wait_queue[q])
<1>1. task_status[t] = "Running"
  BY DEF Runs, QueueInv, StatusOfList
<1> QED
  BY <1>1 DEF QueueInv, StatusOfList

LEMMA WakeupShrinks ==
  ASSUME SchedTypeOK, QueueInv, NEW q \in Queues,
         wait_queue' = [wait_queue EXCEPT ![q] = QueueAfterWakeup(q)]
  PROVE  \A r \in Queues : ToSet(wait_queue'[r]) \subseteq ToSet(wait_queue[r])
<1>1. ToSet(QueueAfterWakeup(q)) \subseteq ToSet(wait_queue[q])
  <2>1. ToSet(QueueAfterWakeup(q)) = ToSet(wait_queue[q]) \ Woken(q)
    BY WokenMoves
  <2> QED
    BY <2>1
<1> QED
  BY <1>1 DEF SchedTypeOK

(* The return from a call, whatever it woke. *)
LEMMA ReturnKeeps ==
  ASSUME PipeInv, NEW t \in Tasks, Runs(t), Return(t),
         NEW q \in Queues, Wakeup(q) \/ UNCHANGED <<task_status, ready_queue, wait_queue>>,
         UNCHANGED <<readopen, writeopen, holds>>,
         \A u \in Writers : (u = t => todo'[u] = <<>>) /\ (u # t => todo'[u] = todo[u])
  PROVE  SchedTypeOK' /\ QueueInv' /\ EndsInv' /\ CallInv' /\ SleepInv'
<1>1. /\ tcb_lock' = [tcb_lock EXCEPT ![t] = FALSE]
      /\ call' = [call EXCEPT ![t] = "user"]
      /\ UNCHANGED <<all_task, current, idle, panicked>>
  BY DEF Return
<1>2. SchedTypeOK /\ QueueInv /\ EndsInv /\ CallInv /\ SleepInv
      /\ call \in [Tasks -> {"user", "read", "write"}]
  BY DEF PipeInv, TypeOK
<1>3. tcb_lock' \in [Tasks -> BOOLEAN]
  BY <1>1, <1>2 DEF SchedTypeOK
<1>4. SchedTypeOK' /\ QueueInv'
  <2>1. CASE Wakeup(q)
    BY <1>1, <1>2, <1>3, <2>1, WakeupKeeps DEF Wakeup
  <2>2. CASE UNCHANGED <<task_status, ready_queue, wait_queue>>
    BY <1>1, <1>2, <1>3, <2>2 DEF SchedTypeOK, QueueInv, ListsOnce, StatusOfList
  <2> QED
    BY <2>1, <2>2
<1>5. EndsInv'
  BY <1>2 DEF EndsInv
<1>6. CallInv'
  BY <1>1, <1>2 DEF CallInv
<1>7. \A r \in Queues : ToSet(wait_queue'[r]) \subseteq ToSet(wait_queue[r])
  <2>1. CASE Wakeup(q)
    BY <1>2, <2>1, WakeupShrinks DEF Wakeup
  <2> QED
    BY <2>1
<1>8. \A r \in Queues : t \notin ToSet(wait_queue[r])
  BY <1>2, RunningAwake
<1>9. \A r \in Queues : \A u \in ToSet(wait_queue[r]) : u \in Tasks
  BY <1>2, ToSetOf DEF SchedTypeOK
<1>10. SleepInv'
  BY <1>1, <1>2, <1>7, <1>8, <1>9, Ends DEF SleepInv
<1> QED
  BY <1>4, <1>5, <1>6, <1>10

LEMMA RunPipe == PipeInv /\ Run => PipeInv'
<1> SUFFICES ASSUME PipeInv, Run PROVE PipeInv'
  OBVIOUS
<1>1. SchedTypeOK' /\ QueueInv'
  BY DispatchKeeps DEF PipeInv, Run
<1>2. UNCHANGED <<pipeVars, wait_queue>>
  BY DEF Run, Dispatch
<1>3. TypeOK' /\ EndsInv' /\ CallInv' /\ SleepInv'
  BY <1>2 DEF pipeVars, PipeInv, TypeOK, Used, EndsInv, CallInv, SleepInv
<1> QED
  BY <1>1, <1>3 DEF PipeInv

LEMMA YieldPipe == ASSUME PipeInv, NEW t \in Tasks, Yield(t) PROVE PipeInv'
<1>1. SchedTypeOK' /\ QueueInv'
  BY SuspendKeeps DEF PipeInv, Yield, InUser
<1>2. UNCHANGED <<pipeVars, wait_queue>>
  BY DEF Yield, Suspend
<1>3. TypeOK' /\ EndsInv' /\ CallInv' /\ SleepInv'
  BY <1>2 DEF pipeVars, PipeInv, TypeOK, Used, EndsInv, CallInv, SleepInv
<1> QED
  BY <1>1, <1>3 DEF PipeInv

(* The rest of a buffer is a buffer. *)
LEMMA RestOfChunk ==
  ASSUME NEW buf \in Chunks, NEW m \in 0..Len(buf)
  PROVE  SubSeq(buf, m + 1, Len(buf)) \in Chunks
<1>1. /\ buf \in Seq(Cells) /\ Len(buf) <= MaxCount
      /\ \A i \in 1..Len(buf) - 1 : buf[i] \in Bytes
  BY ChunkIs DEF Cells
<1>2. /\ Len(buf) \in Nat /\ m \in Nat /\ MaxCount \in Nat
  BY <1>1, PipeAssumption
<1> DEFINE c == SubSeq(buf, m + 1, Len(buf))
<1>3. /\ c \in Seq(Cells) /\ Len(c) = Len(buf) - m
      /\ \A i \in 1..Len(buf) - m : c[i] = buf[m + i]
  BY <1>1, DropIs, Zenon
<1> HIDE DEF c
<1>4. Len(c) <= MaxCount
  BY <1>1, <1>2, <1>3
<1>5. ASSUME NEW i \in 1..Len(c) - 1 PROVE c[i] \in Bytes
  <2>1. i \in 1..Len(buf) - m /\ m + i \in 1..Len(buf) - 1
    BY <1>2, <1>3
  <2> QED
    BY <1>1, <1>3, <2>1
<1>6. c \in Chunks
  BY <1>3, <1>4, <1>5, ChunkIs DEF Cells
<1> QED
  BY <1>6 DEF c

(* What a step of pipewrite has found. *)
LEMMA WriterIs ==
  ASSUME PipeInv, NEW t \in Writers, NEW buf \in Chunks, Writing(t, buf)
  PROVE  /\ Runs(t) /\ t \in Tasks /\ t \in holds /\ writeopen
         /\ call[t] = "write" => buf = todo[t]
         /\ call[t] # "write" => todo[t] = <<>>
         /\ \A k \in 1..Len(buf) : buf[k] \in Cells
         /\ Len(buf) \in Nat
<1>1. t \in Tasks /\ CallInv /\ EndsInv
  BY Ends DEF PipeInv
<1>2. Runs(t) /\ t \in holds
  BY <1>1 DEF Writing, InUser, CallInv
<1>3. /\ call[t] = "write" => buf = todo[t]
      /\ call[t] # "write" => todo[t] = <<>>
  BY <1>1 DEF Writing, CallInv
<1>4. buf \in Seq(Cells)
  BY ChunkIs DEF Cells
<1> QED
  BY <1>1, <1>2, <1>3, <1>4 DEF EndsInv

LEMMA WriteDonePipe ==
  ASSUME PipeInv, NEW t \in Writers, NEW buf \in Chunks, WriteDone(t, buf)
  PROVE  PipeInv'
<1>1. /\ Runs(t) /\ t \in Tasks /\ Writing(t, buf)
      /\ \A k \in 1..Len(buf) : buf[k] \in Cells
  BY WriterIs DEF WriteDone
<1>2. /\ Len(buf) <= Space /\ Store(buf, Len(Readable(buf)))
      /\ Wakeup("rwaiter") /\ Return(t)
      /\ todo' = [todo EXCEPT ![t] = <<>>]
      /\ UNCHANGED <<nread, readopen, writeopen, holds, want, out>>
  BY DEF WriteDone
<1>3. todo \in [Writers -> Chunks]
  BY DEF PipeInv, TypeOK
<1>4. SchedTypeOK' /\ QueueInv' /\ EndsInv' /\ CallInv' /\ SleepInv'
  BY <1>1, <1>2, <1>3, ReturnKeeps, Ends
<1>5. RingType'
  <2> DEFINE n == Len(Readable(buf))
  <2>1. /\ n \in Nat /\ n <= Len(buf) /\ Len(buf) \in Nat
    <3>1. /\ Readable(buf) \in Seq(Bytes) /\ n <= Len(buf) /\ Len(buf) \in Nat
      BY ReadableIs
    <3> QED
      BY <3>1
  <2>2. RingType /\ Space \in Nat
    BY TypeIsRing, RingFacts, PipeAssumption DEF PipeInv, RingType
  <2> HIDE DEF n
  <2>3. n <= Space /\ \A k \in 1..n : buf[k] \in Cells
    BY <1>1, <1>2, <2>1, <2>2
  <2> QED
    BY <1>2, <2>1, <2>2, <2>3, StoreCells DEF n
<1>6. call' \in [Tasks -> {"user", "read", "write"}]
  BY <1>2 DEF Return, PipeInv, TypeOK
<1>7. TypeOK'
  BY <1>2, <1>3, <1>5, <1>6, EmptyChunk DEF PipeInv, TypeOK, RingType, Ring, Cells
<1> QED
  BY <1>4, <1>7 DEF PipeInv

LEMMA WriteBrokenPipe ==
  ASSUME PipeInv, NEW t \in Writers, NEW buf \in Chunks, WriteBroken(t, buf)
  PROVE  PipeInv'
<1>1. /\ Runs(t) /\ t \in Tasks /\ Len(buf) \in Nat
      /\ \A k \in 1..Len(buf) : buf[k] \in Cells
  BY WriterIs DEF WriteBroken
<1>2. /\ Len(buf) > Space /\ Store(buf, Space) /\ Return(t)
      /\ todo' = [todo EXCEPT ![t] = <<>>]
      /\ UNCHANGED <<task_status, ready_queue, wait_queue, nread, readopen,
                     writeopen, holds, want, out>>
  BY DEF WriteBroken
<1>3. todo \in [Writers -> Chunks]
  BY DEF PipeInv, TypeOK
<1>4. SchedTypeOK' /\ QueueInv' /\ EndsInv' /\ CallInv' /\ SleepInv'
  <2>1. UNCHANGED <<task_status, ready_queue, wait_queue>>
    BY <1>2
  <2> QED
    BY <1>1, <1>2, <1>3, <2>1, ReturnKeeps, Ends
<1>5. RingType'
  <2>1. RingType /\ Space \in Nat
    BY TypeIsRing, RingFacts, PipeAssumption DEF PipeInv, RingType
  <2>2. \A k \in 1..Space : buf[k] \in Cells
    BY <1>1, <1>2, <2>1
  <2> QED
    BY <1>2, <2>1, <2>2, StoreCells
<1>6. call' \in [Tasks -> {"user", "read", "write"}]
  BY <1>2 DEF Return, PipeInv, TypeOK
<1>7. TypeOK'
  BY <1>2, <1>3, <1>5, <1>6, EmptyChunk DEF PipeInv, TypeOK, RingType, Ring, Cells
<1> QED
  BY <1>4, <1>7 DEF PipeInv

LEMMA WriteSleepPipe ==
  ASSUME PipeInv, NEW t \in Writers, NEW buf \in Chunks, WriteSleep(t, buf)
  PROVE  PipeInv'
<1>1. /\ Runs(t) /\ t \in Tasks /\ t \in holds /\ Len(buf) \in Nat
      /\ \A k \in 1..Len(buf) : buf[k] \in Cells
  BY WriterIs DEF WriteSleep
<1>2. /\ Len(buf) > Space /\ Store(buf, Space) /\ SleepOn(t)
      /\ task_status' = [StatusAfterWakeup("rwaiter") EXCEPT ![t] = "Sleeping"]
      /\ ready_queue' = ReadyAfterWakeup("rwaiter")
      /\ wait_queue' = [wait_queue EXCEPT !["rwaiter"] = QueueAfterWakeup("rwaiter"),
                                          !["wwaiter"] = Append(@, t)]
      /\ call' = [call EXCEPT ![t] = "write"]
      /\ todo' = [todo EXCEPT ![t] = SubSeq(buf, Space + 1, Len(buf))]
      /\ UNCHANGED <<nread, readopen, writeopen, holds, want, out>>
  BY DEF WriteSleep
<1>3. /\ SchedTypeOK /\ QueueInv /\ EndsInv /\ CallInv /\ SleepInv
      /\ todo \in [Writers -> Chunks]
      /\ call \in [Tasks -> {"user", "read", "write"}]
  BY DEF PipeInv, TypeOK
<1>4. SchedTypeOK' /\ QueueInv'
  <2>1. /\ tcb_lock' \in [Tasks -> BOOLEAN] /\ idle' = TRUE
        /\ UNCHANGED <<all_task, current>>
    BY <1>1, <1>2, <1>3 DEF SleepOn, Schedule, SchedTypeOK
  <2>2. "rwaiter" # "wwaiter"
    OBVIOUS
  <2> QED
    BY <1>1, <1>2, <1>3, <2>1, <2>2, Ends, WakeAndSleepKeeps
<1>5. EndsInv' /\ CallInv'
  BY <1>1, <1>2, <1>3, Ends DEF EndsInv, CallInv
<1>6. Space \in Nat /\ Space \in 0..Len(buf) /\ RingType
  BY <1>1, <1>2, TypeIsRing, RingFacts, PipeAssumption DEF PipeInv, RingType
<1>7. SubSeq(buf, Space + 1, Len(buf)) \in Chunks
  BY <1>6, RestOfChunk
<1>8. RingType'
  <2>2. \A k \in 1..Space : buf[k] \in Cells
    BY <1>1, <1>2, <1>6
  <2> QED
    BY <1>2, <1>6, <2>2, StoreCells
<1>9. TypeOK'
  BY <1>2, <1>3, <1>7, <1>8 DEF PipeInv, TypeOK, RingType, Ring, Cells
<1>10. SleepInv'
  <2>1. ToSet(wait_queue'["rwaiter"]) \subseteq ToSet(wait_queue["rwaiter"])
    <3>1. ToSet(QueueAfterWakeup("rwaiter")) =
            ToSet(wait_queue["rwaiter"]) \ Woken("rwaiter")
      BY <1>3, Ends, WokenMoves
    <3>2. wait_queue'["rwaiter"] = QueueAfterWakeup("rwaiter")
      BY <1>2, <1>3, Ends DEF SchedTypeOK
    <3> QED
      BY <3>1, <3>2
  <2>2. ToSet(wait_queue'["wwaiter"]) = ToSet(wait_queue["wwaiter"]) \cup {t}
    <3>1. wait_queue'["wwaiter"] = Append(wait_queue["wwaiter"], t)
      BY <1>2, <1>3, Ends DEF SchedTypeOK
    <3> QED
      BY <1>1, <1>3, <3>1, Ends, AppendLinks DEF SchedTypeOK
  <2>3. \A r \in Queues : t \notin ToSet(wait_queue[r])
    BY <1>1, <1>3, RunningAwake
  <2>4. \A r \in Queues : \A u \in ToSet(wait_queue[r]) : u \in Tasks
    BY <1>3, ToSetOf DEF SchedTypeOK
  <2> QED
    BY <1>1, <1>2, <1>3, <2>1, <2>2, <2>3, <2>4, Ends DEF SleepInv
<1> QED
  BY <1>3, <1>4, <1>5, <1>9, <1>10 DEF PipeInv

-----------------------------------------------------------------------------
LEMMA ReaderIs ==
  ASSUME PipeInv, NEW t \in Readers, NEW w, Reading(t, w)
  PROVE  Runs(t) /\ t \in Tasks /\ t \in holds /\ readopen /\ t \notin Writers
<1>1. t \in Tasks /\ CallInv /\ EndsInv /\ t \notin Writers
  BY Ends DEF PipeInv
<1>2. Runs(t) /\ t \in holds
  BY <1>1 DEF Reading, InUser, CallInv
<1> QED
  BY <1>1, <1>2 DEF EndsInv

LEMMA ReadSleepPipe ==
  ASSUME PipeInv, NEW t \in Readers, NEW w \in Counts, ReadSleep(t, w)
  PROVE  PipeInv'
<1>1. Runs(t) /\ t \in Tasks /\ t \in holds /\ t \notin Writers
  BY ReaderIs DEF ReadSleep
<1>2. /\ SleepOn(t)
      /\ task_status' = [task_status EXCEPT ![t] = "Sleeping"]
      /\ wait_queue' = [wait_queue EXCEPT !["rwaiter"] = Append(@, t)]
      /\ call' = [call EXCEPT ![t] = "read"]
      /\ want' = [want EXCEPT ![t] = w]
      /\ UNCHANGED <<ready_queue, data, nread, nwrite, readopen, writeopen, holds,
                     todo, out>>
  BY DEF ReadSleep
<1>3. /\ SchedTypeOK /\ QueueInv /\ EndsInv /\ CallInv /\ SleepInv
      /\ want \in [Readers -> Counts \cup {NULL}]
      /\ call \in [Tasks -> {"user", "read", "write"}]
  BY DEF PipeInv, TypeOK
<1>4. SchedTypeOK' /\ QueueInv'
  <2>1. /\ tcb_lock' \in [Tasks -> BOOLEAN] /\ idle' = TRUE
        /\ UNCHANGED <<ready_queue, all_task, current>>
    BY <1>1, <1>2, <1>3 DEF SleepOn, Schedule, SchedTypeOK
  <2> QED
    BY <1>1, <1>2, <1>3, <2>1, Ends, FallAsleepKeeps
<1>5. EndsInv' /\ CallInv'
  BY <1>1, <1>2, <1>3, Ends DEF EndsInv, CallInv
<1>6. TypeOK'
  BY <1>2, <1>3 DEF PipeInv, TypeOK, Used
<1>7. SleepInv'
  <2>1. /\ wait_queue'["rwaiter"] = Append(wait_queue["rwaiter"], t)
        /\ wait_queue'["wwaiter"] = wait_queue["wwaiter"]
    BY <1>2, <1>3, Ends DEF SchedTypeOK
  <2>2. ToSet(wait_queue'["rwaiter"]) = ToSet(wait_queue["rwaiter"]) \cup {t}
    BY <1>1, <1>3, <2>1, Ends, AppendLinks DEF SchedTypeOK
  <2>3. \A r \in Queues : t \notin ToSet(wait_queue[r])
    BY <1>1, <1>3, RunningAwake
  <2>4. \A r \in Queues : \A u \in ToSet(wait_queue[r]) : u \in Tasks
    BY <1>3, ToSetOf DEF SchedTypeOK
  <2> QED
    BY <1>1, <1>2, <1>3, <2>1, <2>2, <2>3, <2>4, Ends DEF SleepInv
<1> QED
  BY <1>3, <1>4, <1>5, <1>6, <1>7 DEF PipeInv

(* How far a read gets. *)
Taken(w) == Min({w.room, Used})
Lost(w) == IF w.room < w.n /\ w.room < Used THEN 1 ELSE 0

LEMMA TakenIs ==
  ASSUME Used \in Nat, NEW w \in Counts
  PROVE  /\ Taken(w) \in Nat /\ Lost(w) \in {0, 1}
         /\ Taken(w) + Lost(w) <= Used
         /\ Taken(w) + Lost(w) <= w.n
         /\ Taken(w) + Lost(w) = 0 /\ w.n # 0 => Used = 0
         /\ w.n \in 0..MaxCount
<1>1. w.n \in Nat /\ w.room \in Nat /\ w.room <= w.n /\ w.n \in 0..MaxCount
  BY PipeAssumption DEF Counts
<1>2. Taken(w) \in {w.room, Used} /\ Taken(w) <= w.room /\ Taken(w) <= Used
  BY <1>1, MinProperty DEF Taken
<1> QED
  BY <1>1, <1>2 DEF Lost

LEMMA ReadDoneIs ==
  ASSUME NEW t, NEW w, ReadDone(t, w)
  PROVE  /\ Reading(t, w)
         /\ ~Empty \/ ~writeopen
         /\ nread' = (nread + Taken(w) + Lost(w)) % UINT
         /\ out' = [asked |-> w.n # 0,
                    bytes |-> [j \in 1..Taken(w) |-> data[Slot(nread + j - 1)]],
                    fault |-> Lost(w) = 1]
         /\ Wakeup("wwaiter") /\ Return(t)
         /\ want' = [want EXCEPT ![t] = NULL]
         /\ UNCHANGED <<data, nwrite, readopen, writeopen, holds, todo>>
BY Zenon DEF ReadDone, Taken, Lost

LEMMA ReadDoneRing ==
  ASSUME PipeInv, NEW t \in Readers, NEW w \in Counts, ReadDone(t, w)
  PROVE  /\ RingType'
         /\ Contents' = SubSeq(Contents, Taken(w) + Lost(w) + 1, Len(Contents))
<1>1. /\ nread' = (nread + Taken(w) + Lost(w)) % UINT
      /\ nwrite' = nwrite /\ data' = data
  BY ReadDoneIs
<1>2. RingType /\ Used \in Nat /\ nread \in Int
  BY TypeIsRing, RingFacts, PipeAssumption DEF PipeInv, RingType, Ring
<1> DEFINE m == Taken(w) + Lost(w)
<1>3. m \in Nat /\ m <= Used /\ nread + m = nread + Taken(w) + Lost(w)
  BY <1>2, TakenIs
<1> HIDE DEF m
<1>4. nread' = (nread + m) % UINT
  BY <1>1, <1>3
<1>5. RingType' /\ Contents' = SubSeq(Contents, m + 1, Len(Contents))
  BY <1>1, <1>2, <1>3, <1>4, ReadDrops
<1> QED
  BY <1>5 DEF m

LEMMA ReadDonePipe ==
  ASSUME PipeInv, NEW t \in Readers, NEW w \in Counts, ReadDone(t, w)
  PROVE  PipeInv'
<1>1. /\ Reading(t, w) /\ Wakeup("wwaiter") /\ Return(t)
      /\ want' = [want EXCEPT ![t] = NULL]
      /\ UNCHANGED <<data, nwrite, readopen, writeopen, holds, todo>>
  BY ReadDoneIs
<1>2. Runs(t) /\ t \in Tasks /\ t \in holds /\ t \notin Writers
  BY <1>1, ReaderIs
<1>3. SchedTypeOK' /\ QueueInv' /\ EndsInv' /\ CallInv' /\ SleepInv'
  BY <1>1, <1>2, ReturnKeeps, Ends
<1>4. RingType'
  BY ReadDoneRing
<1>5. call' \in [Tasks -> {"user", "read", "write"}]
  BY <1>1 DEF Return, PipeInv, TypeOK
<1>6. TypeOK'
  BY <1>1, <1>4, <1>5 DEF PipeInv, TypeOK, RingType, Ring, Cells
<1> QED
  BY <1>3, <1>6 DEF PipeInv

-----------------------------------------------------------------------------
(* fileclose by a task outside a call. *)
LEMMA CloseKeeps ==
  ASSUME PipeInv, NEW t \in Tasks, InUser(t), holds' = holds \ {t},
         NEW q \in Queues,
         Wakeup(q) \/ UNCHANGED <<task_status, ready_queue, wait_queue>>,
         UNCHANGED <<all_task, current, idle, tcb_lock, panicked, data, nread,
                     nwrite, call, todo, want, out>>,
         readopen' \in BOOLEAN, writeopen' \in BOOLEAN, EndsInv'
  PROVE  PipeInv'
<1>1. SchedTypeOK /\ QueueInv /\ CallInv /\ SleepInv
  BY DEF PipeInv
<1>2. tcb_lock' \in [Tasks -> BOOLEAN]
  BY <1>1 DEF SchedTypeOK
<1>3. SchedTypeOK' /\ QueueInv'
  <2>1. CASE Wakeup(q)
    BY <1>1, <1>2, <2>1, WakeupKeeps DEF Wakeup
  <2>2. CASE UNCHANGED <<task_status, ready_queue, wait_queue>>
    BY <1>1, <2>2 DEF SchedTypeOK, QueueInv, ListsOnce, StatusOfList
  <2> QED
    BY <2>1, <2>2
<1>4. \A r \in Queues : ToSet(wait_queue'[r]) \subseteq ToSet(wait_queue[r])
  <2>1. CASE Wakeup(q)
    BY <1>1, <2>1, WakeupShrinks DEF Wakeup
  <2> QED
    BY <2>1
<1>5. CallInv'
  BY <1>1 DEF CallInv, InUser
<1>6. SleepInv'
  BY <1>1, <1>4, Ends DEF SleepInv
<1>7. TypeOK'
  BY DEF PipeInv, TypeOK, Used
<1> QED
  BY <1>3, <1>5, <1>6, <1>7 DEF PipeInv

LEMMA CloseReaderPipe ==
  ASSUME PipeInv, NEW t \in Readers, CloseReader(t) PROVE PipeInv'
<1>1. /\ InUser(t) /\ t \in Readers \cap holds /\ holds' = holds \ {t}
      /\ UNCHANGED <<all_task, current, idle, tcb_lock, panicked, data, nread,
                     nwrite, writeopen, call, todo, want, out>>
  BY DEF CloseReader
<1>2. \/ holds \cap Readers = {t} /\ readopen' = FALSE /\ Wakeup("wwaiter")
      \/ holds \cap Readers # {t} /\ readopen' = readopen
         /\ UNCHANGED <<task_status, ready_queue, wait_queue>>
  BY DEF CloseReader
<1>3. EndsInv /\ readopen \in BOOLEAN /\ writeopen \in BOOLEAN
  BY DEF PipeInv, TypeOK
<1>4. EndsInv'
  BY <1>1, <1>2, <1>3, Ends DEF EndsInv
<1>5. /\ readopen' \in BOOLEAN /\ writeopen' \in BOOLEAN
      /\ Wakeup("wwaiter") \/ UNCHANGED <<task_status, ready_queue, wait_queue>>
  BY <1>1, <1>2, <1>3
<1> QED
  BY <1>1, <1>4, <1>5, CloseKeeps, Ends

LEMMA CloseWriterPipe ==
  ASSUME PipeInv, NEW t \in Writers, CloseWriter(t) PROVE PipeInv'
<1>1. /\ InUser(t) /\ t \in Writers \cap holds /\ holds' = holds \ {t}
      /\ UNCHANGED <<all_task, current, idle, tcb_lock, panicked, data, nread,
                     nwrite, readopen, call, todo, want, out>>
  BY DEF CloseWriter
<1>2. \/ holds \cap Writers = {t} /\ writeopen' = FALSE /\ Wakeup("rwaiter")
      \/ holds \cap Writers # {t} /\ writeopen' = writeopen
         /\ UNCHANGED <<task_status, ready_queue, wait_queue>>
  BY DEF CloseWriter
<1>3. EndsInv /\ readopen \in BOOLEAN /\ writeopen \in BOOLEAN
  BY DEF PipeInv, TypeOK
<1>4. EndsInv'
  BY <1>1, <1>2, <1>3, Ends DEF EndsInv
<1>5. /\ readopen' \in BOOLEAN /\ writeopen' \in BOOLEAN
      /\ Wakeup("rwaiter") \/ UNCHANGED <<task_status, ready_queue, wait_queue>>
  BY <1>1, <1>2, <1>3
<1> QED
  BY <1>1, <1>4, <1>5, CloseKeeps, Ends

LEMMA NextPipeInv == PipeInv /\ [Next]_vars => PipeInv'
<1> SUFFICES ASSUME PipeInv, [Next]_vars PROVE PipeInv'
  OBVIOUS
<1>1. CASE Run
  BY <1>1, RunPipe
<1>2. ASSUME NEW t \in Tasks, Yield(t) PROVE PipeInv'
  BY <1>2, YieldPipe
<1>3. ASSUME NEW t \in Writers, NEW buf \in Chunks,
             WriteDone(t, buf) \/ WriteBroken(t, buf) \/ WriteSleep(t, buf)
      PROVE  PipeInv'
  BY <1>3, WriteDonePipe, WriteBrokenPipe, WriteSleepPipe
<1>4. ASSUME NEW t \in Readers, NEW w \in Counts, ReadSleep(t, w) \/ ReadDone(t, w)
      PROVE  PipeInv'
  BY <1>4, ReadSleepPipe, ReadDonePipe
<1>5. ASSUME NEW t \in Readers, CloseReader(t) PROVE PipeInv'
  BY <1>5, CloseReaderPipe
<1>6. ASSUME NEW t \in Writers, CloseWriter(t) PROVE PipeInv'
  BY <1>6, CloseWriterPipe
<1>7. CASE UNCHANGED vars
  BY <1>7 DEF vars, schedVars, pipeVars, PipeInv, TypeOK, Used, SchedTypeOK,
     QueueInv, ListsOnce, StatusOfList, EndsInv, CallInv, SleepInv
<1> QED
  BY <1>1, <1>2, <1>3, <1>4, <1>5, <1>6, <1>7 DEF Next

(***************************************************************************)
(* The pipe's invariant, for any readers and writers.                      *)
(***************************************************************************)
THEOREM PipeInvCorrect == Spec => []PipeInv
<1>1. Init => PipeInv
  BY InitPipeInv
<1>2. PipeInv /\ [Next]_vars => PipeInv'
  BY NextPipeInv
<1> QED
  BY <1>1, <1>2, PTL DEF Spec

(***************************************************************************)
(* The fields keep their types and the pipe never holds more than PIPESIZE *)
(* bytes, wherever its two wrapping counters stand.                        *)
(***************************************************************************)
THEOREM TypeCorrect == Spec => []TypeOK
<1>1. PipeInv => TypeOK
  BY DEF PipeInv
<1> QED
  BY <1>1, PipeInvCorrect, PTL

(***************************************************************************)
(* A task that reads or writes the pipe is linked into exactly the one     *)
(* queue its status names, through every sleep and wakeup_fromwq.          *)
(***************************************************************************)
THEOREM QueuesExact == Spec => []QueueDiscipline
<1>1. PipeInv => QueueDiscipline
  BY InvGivesDiscipline DEF PipeInv
<1> QED
  BY <1>1, PipeInvCorrect, PTL

-----------------------------------------------------------------------------
(* With one task at an end, a wake-up leaves nobody asleep there. *)
LEMMA SoleSleeper ==
  ASSUME PipeInv, NEW q \in Queues, NEW x, ToSet(wait_queue[q]) \subseteq {x}
  PROVE  /\ QueueAfterWakeup(q) = <<>>
         /\ x \notin ToSet(wait_queue[q]) => wait_queue[q] = <<>>
<1>1. wait_queue[q] \in Seq(Tasks) /\ SchedTypeOK /\ QueueInv
  BY DEF PipeInv, SchedTypeOK
<1>2. ASSUME NEW s \in Seq(Tasks), ToSet(s) = {} PROVE s = <<>>
  <2> SUFFICES ASSUME s # <<>> PROVE FALSE
    OBVIOUS
  <2> QED
    BY <1>2, TailLinks
<1>3. wait_queue[q] # <<>> => x \in ToSet(wait_queue[q]) /\ Woken(q) = {x}
  <2> SUFFICES ASSUME wait_queue[q] # <<>>
               PROVE  x \in ToSet(wait_queue[q]) /\ Woken(q) = {x}
    OBVIOUS
  <2>1. Head(wait_queue[q]) \in ToSet(wait_queue[q])
    BY <1>1, TailLinks
  <2> QED
    BY <2>1 DEF Woken
<1>4. /\ QueueAfterWakeup(q) \in Seq(Tasks)
      /\ ToSet(QueueAfterWakeup(q)) = ToSet(wait_queue[q]) \ Woken(q)
  BY <1>1, WokenMoves
<1>5. wait_queue[q] = <<>> => ToSet(wait_queue[q]) = {}
  BY EmptyLinks
<1>6. ToSet(QueueAfterWakeup(q)) = {}
  BY <1>3, <1>4, <1>5
<1> QED
  BY <1>1, <1>2, <1>3, <1>4, <1>6

LEMMA SleepersAtTheirEnd ==
  ASSUME PipeInv
  PROVE  /\ ToSet(wait_queue["rwaiter"]) \subseteq Readers \cap holds
         /\ ToSet(wait_queue["wwaiter"]) \subseteq Writers \cap holds
<1>1. \A q \in Queues : \A u \in ToSet(wait_queue[q]) : u \in Tasks
  BY ToSetOf DEF PipeInv, SchedTypeOK
<1> QED
  BY <1>1, Ends DEF PipeInv, SleepInv, CallInv

LEMMA FullIs == Ring => (Full <=> Used = PIPESIZE)
BY RingFacts

LEMMA NextSleepers ==
  ASSUME NEW r, NEW w, Readers = {r}, Writers = {w},
         PipeInv, SleepersHaveReason, [Next]_vars
  PROVE  SleepersHaveReason'
<1>1. /\ SchedTypeOK /\ QueueInv /\ EndsInv /\ Ring
      /\ r \in Tasks /\ w \in Tasks /\ r # w
      /\ "rwaiter" \in Queues /\ "wwaiter" \in Queues
  BY Ends, TypeIsRing DEF PipeInv, RingType
<1>2. /\ ToSet(wait_queue["rwaiter"]) \subseteq {r} \cap holds
      /\ ToSet(wait_queue["wwaiter"]) \subseteq {w} \cap holds
  BY SleepersAtTheirEnd
<1>3. /\ QueueAfterWakeup("rwaiter") = <<>> /\ QueueAfterWakeup("wwaiter") = <<>>
      /\ r \notin ToSet(wait_queue["rwaiter"]) => wait_queue["rwaiter"] = <<>>
      /\ w \notin ToSet(wait_queue["wwaiter"]) => wait_queue["wwaiter"] = <<>>
  BY <1>1, <1>2, SoleSleeper
<1>4. /\ Used \in 0..PIPESIZE /\ PIPESIZE \in Nat \ {0}
      /\ Used + Space = PIPESIZE /\ Space \in Nat
      /\ Empty <=> Used = 0
      /\ Full <=> Used = PIPESIZE
  BY <1>1, RingFacts, PipeAssumption
<1>5. /\ Runs(r) => wait_queue["rwaiter"] = <<>>
      /\ Runs(w) => wait_queue["wwaiter"] = <<>>
  BY <1>1, <1>3, RunningAwake
<1>6. \A q \in Queues : Wakeup(q) => /\ wait_queue'[q] = QueueAfterWakeup(q)
                                     /\ \A p \in Queues \ {q} : wait_queue'[p] = wait_queue[p]
  BY <1>1 DEF Wakeup, SchedTypeOK
<1>7. CASE Run
  BY <1>7 DEF Run, Dispatch, pipeVars, SleepersHaveReason, Empty, Full
<1>8. ASSUME NEW t \in Tasks, Yield(t) PROVE SleepersHaveReason'
  BY <1>8 DEF Yield, Suspend, pipeVars, SleepersHaveReason, Empty, Full
<1>9. ASSUME NEW buf \in Chunks, WriteDone(w, buf) PROVE SleepersHaveReason'
  <2>1. Runs(w)
    BY <1>9, WriterIs DEF WriteDone
  <2>2. wait_queue'["rwaiter"] = <<>> /\ wait_queue'["wwaiter"] = <<>>
    BY <1>1, <1>3, <1>5, <1>6, <1>9, <2>1 DEF WriteDone
  <2> QED
    BY <2>2 DEF SleepersHaveReason
<1>10. ASSUME NEW buf \in Chunks, WriteBroken(w, buf) PROVE SleepersHaveReason'
  <2>1. Runs(w) /\ ~readopen /\ wait_queue' = wait_queue
    BY <1>10, WriterIs DEF WriteBroken
  <2>2. wait_queue["rwaiter"] = <<>>
    BY <1>1, <1>2, <1>3, <2>1 DEF EndsInv
  <2> QED
    BY <1>5, <2>1, <2>2 DEF SleepersHaveReason
<1>11. ASSUME NEW buf \in Chunks, WriteSleep(w, buf) PROVE SleepersHaveReason'
  <2>1. wait_queue'["rwaiter"] = <<>>
    BY <1>1, <1>3, <1>11 DEF WriteSleep, SchedTypeOK
  <2>2. readopen' /\ Used' = Used + Space /\ Ring'
    BY <1>1, <1>4, <1>11, RingMoves DEF WriteSleep, Store
  <2>3. Full'
    <3>1. (Ring => (Full <=> Used = PIPESIZE))'
      BY FullIs, PTL
    <3> QED
      BY <1>4, <2>2, <3>1
  <2> QED
    BY <2>1, <2>2, <2>3 DEF SleepersHaveReason
<1>12. ASSUME NEW n \in Counts, ReadSleep(r, n) PROVE SleepersHaveReason'
  <2>1. /\ Empty /\ writeopen
        /\ UNCHANGED <<nread, nwrite, readopen, writeopen>>
        /\ wait_queue'["wwaiter"] = wait_queue["wwaiter"]
    BY <1>1, <1>12 DEF ReadSleep, SchedTypeOK
  <2>2. wait_queue["wwaiter"] = <<>>
    BY <1>4, <2>1 DEF SleepersHaveReason
  <2> QED
    BY <2>1, <2>2 DEF SleepersHaveReason, Empty
<1>13. ASSUME NEW n \in Counts, ReadDone(r, n) PROVE SleepersHaveReason'
  <2>1. Runs(r) /\ Wakeup("wwaiter")
    BY <1>13, ReadDoneIs, ReaderIs
  <2>2. wait_queue'["rwaiter"] = <<>> /\ wait_queue'["wwaiter"] = <<>>
    BY <1>1, <1>3, <1>5, <1>6, <2>1
  <2> QED
    BY <2>2 DEF SleepersHaveReason
<1>14. CASE CloseReader(r)
  <2>1. /\ Runs(r) /\ UNCHANGED <<nread, nwrite, writeopen>>
        /\ \/ Wakeup("wwaiter")
           \/ readopen' = readopen /\ wait_queue' = wait_queue
    BY <1>14 DEF CloseReader, InUser
  <2>2. CASE Wakeup("wwaiter")
    <3>1. wait_queue'["rwaiter"] = <<>> /\ wait_queue'["wwaiter"] = <<>>
      BY <1>1, <1>3, <1>5, <1>6, <2>1, <2>2
    <3> QED
      BY <3>1 DEF SleepersHaveReason
  <2>3. CASE readopen' = readopen /\ wait_queue' = wait_queue
    BY <2>1, <2>3 DEF SleepersHaveReason, Empty, Full
  <2> QED
    BY <2>1, <2>2, <2>3
<1>15. CASE CloseWriter(w)
  <2>1. /\ Runs(w) /\ UNCHANGED <<nread, nwrite, readopen>>
        /\ \/ Wakeup("rwaiter")
           \/ writeopen' = writeopen /\ wait_queue' = wait_queue
    BY <1>15 DEF CloseWriter, InUser
  <2>2. CASE Wakeup("rwaiter")
    <3>1. wait_queue'["rwaiter"] = <<>> /\ wait_queue'["wwaiter"] = <<>>
      BY <1>1, <1>3, <1>5, <1>6, <2>1, <2>2
    <3> QED
      BY <3>1 DEF SleepersHaveReason
  <2>3. CASE writeopen' = writeopen /\ wait_queue' = wait_queue
    BY <2>1, <2>3 DEF SleepersHaveReason, Empty, Full
  <2> QED
    BY <2>1, <2>2, <2>3
<1>16. CASE UNCHANGED vars
  BY <1>16 DEF vars, schedVars, pipeVars, SleepersHaveReason, Empty, Full
<1> QED
  BY <1>7, <1>8, <1>9, <1>10, <1>11, <1>12, <1>13, <1>14, <1>15, <1>16 DEF Next

(***************************************************************************)
(* One reader and one writer never both sleep, and neither sleeps while    *)
(* what it waits for is there: the wake-ups of piperead, pipewrite and     *)
(* pipeclose are enough, for every PIPESIZE and every length of call.      *)
(***************************************************************************)
THEOREM NoSleepWithoutReason ==
  ASSUME NEW r, NEW w, Readers = {r}, Writers = {w}
  PROVE  Spec => []SleepersHaveReason
<1>1. Init => SleepersHaveReason
  BY Ends DEF Init, SleepersHaveReason
<1>2. PipeInv /\ SleepersHaveReason /\ [Next]_vars => SleepersHaveReason'
  BY NextSleepers
<1> QED
  BY <1>1, <1>2, PipeInvCorrect, PTL DEF Spec

-----------------------------------------------------------------------------
(* What the abstract queue sees of a buffer. *)
LEMMA ReadableBounded ==
  ASSUME NEW buf \in Chunks
  PROVE  Readable(buf) \in Fifo!BoundedSeq(Bytes, MaxCount)
<1>1. /\ Readable(buf) \in Seq(Bytes) /\ Len(Readable(buf)) <= Len(buf)
      /\ Len(buf) \in Nat
  BY ReadableIs
<1>2. Len(buf) <= MaxCount /\ MaxCount \in Nat
  BY ChunkIs, PipeAssumption
<1>3. /\ Len(Readable(buf)) \in 0..MaxCount
      /\ Readable(buf) \in [1..Len(Readable(buf)) -> Bytes]
  BY <1>1, <1>2
<1> QED
  BY <1>3 DEF Fifo!BoundedSeq, Fifo!SeqOf

LEMMA InitFifo == Init => Fifo!FifoInit
<1> SUFFICES ASSUME Init PROVE Fifo!FifoInit
  OBVIOUS
<1>1. UINT \in Nat \ {0}
  BY PipeAssumption
<1>2. Used = 0
  BY <1>1, CounterDifference DEF Init, Used
<1>3. Contents = <<>>
  BY <1>2 DEF Contents
<1>4. [t \in Writers |-> Readable(todo[t])] \in [Writers -> {<<>>}]
  BY DEF Init, Readable
<1> QED
  BY <1>3, <1>4 DEF Init, Fifo!FifoInit

LEMMA ReadableEmpty == Readable(<<>>) = <<>>
BY DEF Readable

(* A step of pipewrite that stores k bytes and keeps rest for later is the *)
(* abstract write of k bytes.                                              *)
LEMMA WriteIsFifoWrite ==
  ASSUME PipeInv, NEW t \in Writers, NEW buf \in Chunks, Writing(t, buf),
         NEW k \in 0..Len(Readable(buf)), k <= Space, Store(buf, k),
         UNCHANGED <<nread, readopen, writeopen, out>>,
         NEW rest, todo' = [todo EXCEPT ![t] = rest],
         \/ Readable(rest) =
              SubSeq(Readable(buf), k + 1, Len(Readable(buf)))
         \/ ~readopen /\ k = Space /\ rest = <<>>
  PROVE  Fifo!FifoNext
<1> DEFINE bytes == Readable(buf)
           left == SubSeq(bytes, k + 1, Len(bytes))
           pend == [u \in Writers |-> Readable(todo[u])]
<1>1. /\ bytes \in Seq(Bytes) /\ Len(bytes) <= Len(buf) /\ Len(buf) \in Nat
      /\ \A i \in 1..Len(bytes) : bytes[i] = buf[i]
  BY ReadableIs
<1>2. bytes \in Seq(Cells) /\ Len(bytes) \in Nat /\ k \in Nat /\ k <= Len(bytes)
  <2> HIDE DEF bytes
  <2> QED
    BY <1>1 DEF Cells, bytes
<1>3. /\ writeopen
      /\ call[t] = "write" => buf = todo[t]
      /\ call[t] # "write" => todo[t] = <<>>
      /\ \A i \in 1..Len(buf) : buf[i] \in Cells
  BY WriterIs
<1>4. /\ RingType /\ Used \in Nat /\ Space \in Nat /\ PIPESIZE \in Nat
      /\ Used + Space = PIPESIZE
  BY TypeIsRing, RingFacts, PipeAssumption DEF PipeInv, RingType
<1>5. Contents' = Contents \o SubSeq(bytes, 1, k)
  <2>1. \A i \in 1..k : buf[i] \in Cells /\ buf[i] = bytes[i]
    BY <1>1, <1>2, <1>3
  <2> HIDE DEF bytes
  <2> QED
    BY <1>2, <1>4, <2>1, StoreAppends
<1>6. Len(Contents) = Used
  BY <1>4, ContentsIs
<1>7. Len(Contents) + k <= PIPESIZE /\ (k = Space => Len(Contents) + k = PIPESIZE)
  BY <1>2, <1>4, <1>6
<1>8. pend[t] # <<>> => bytes = pend[t]
  BY <1>3, ReadableEmpty
<1>9. todo \in [Writers -> Chunks]
  BY DEF PipeInv, TypeOK
<1>10. pend' = [pend EXCEPT ![t] = Readable(rest)]
  BY <1>9
<1>11. \/ pend' = [pend EXCEPT ![t] = left]
       \/ /\ ~readopen
          /\ Len(Contents) + k = PIPESIZE
          /\ pend' = [pend EXCEPT ![t] = <<>>]
  BY <1>7, <1>10, ReadableEmpty
<1>12. Fifo!FifoWrite(t, bytes, k)
  <2> HIDE DEF bytes
  <2> QED
    BY <1>3, <1>5, <1>7, <1>8, <1>11 DEF Fifo!FifoWrite
<1>13. bytes \in Fifo!BoundedSeq(Bytes, MaxCount)
  BY ReadableBounded
<1> HIDE DEF bytes
<1> QED
  BY <1>12, <1>13 DEF Fifo!FifoNext, bytes

LEMMA WriteDoneFifo ==
  ASSUME PipeInv, NEW t \in Writers, NEW buf \in Chunks, WriteDone(t, buf)
  PROVE  Fifo!FifoNext
<1> DEFINE k == Len(Readable(buf))
<1>1. /\ Readable(buf) \in Seq(Bytes) /\ k \in Nat
      /\ k <= Len(buf) /\ Len(buf) \in Nat /\ Space \in Nat /\ Len(buf) <= Space
  <2>1. Readable(buf) \in Seq(Bytes) /\ k <= Len(buf) /\ Len(buf) \in Nat
    BY ReadableIs
  <2>2. Space \in Nat /\ Len(buf) <= Space
    BY TypeIsRing, RingFacts, PipeAssumption DEF PipeInv, RingType, WriteDone
  <2> QED
    BY <2>1, <2>2
<1>2. /\ Writing(t, buf) /\ Store(buf, k) /\ todo' = [todo EXCEPT ![t] = <<>>]
      /\ UNCHANGED <<nread, readopen, writeopen, out>>
  BY DEF WriteDone
<1>3. Readable(<<>>) = SubSeq(Readable(buf), k + 1, Len(Readable(buf)))
  <2>1. SubSeq(Readable(buf), k + 1, k) = <<>>
    <3> HIDE DEF k
    <3> QED
      BY <1>1, SubSeqEmpty
  <2> QED
    BY <2>1, ReadableEmpty
<1>4. k <= Space /\ k \in 0..Len(Readable(buf))
  BY <1>1
<1> QED
  BY <1>2, <1>3, <1>4, WriteIsFifoWrite

LEMMA WriteBrokenFifo ==
  ASSUME PipeInv, NEW t \in Writers, NEW buf \in Chunks, WriteBroken(t, buf)
  PROVE  Fifo!FifoNext
<1>1. /\ Len(buf) \in Nat /\ Len(Readable(buf)) \in Nat
      /\ Len(buf) - 1 <= Len(Readable(buf))
  <2>1. Readable(buf) \in Seq(Bytes)
    BY ReadableIs
  <2> QED
    BY <2>1, ReadableIs
<1>2. Space \in Nat
  BY TypeIsRing, RingFacts, PipeAssumption DEF PipeInv, RingType
<1>3. /\ Writing(t, buf) /\ Store(buf, Space) /\ todo' = [todo EXCEPT ![t] = <<>>]
      /\ UNCHANGED <<nread, readopen, writeopen, out>>
      /\ ~readopen /\ Len(buf) > Space
  BY DEF WriteBroken
<1>4. Space <= Space /\ Space \in 0..Len(Readable(buf))
  BY <1>1, <1>2, <1>3
<1> QED
  BY <1>3, <1>4, WriteIsFifoWrite

LEMMA WriteSleepFifo ==
  ASSUME PipeInv, NEW t \in Writers, NEW buf \in Chunks, WriteSleep(t, buf)
  PROVE  Fifo!FifoNext
<1> DEFINE bytes == Readable(buf)
           rest == SubSeq(buf, Space + 1, Len(buf))
<1>1. /\ bytes \in Seq(Bytes) /\ Len(bytes) <= Len(buf) /\ Len(buf) \in Nat
      /\ Len(bytes) \in Nat
      /\ Len(buf) - 1 <= Len(bytes)
      /\ \A i \in 1..Len(bytes) : bytes[i] = buf[i]
      /\ Len(bytes) =
           (IF buf # <<>> /\ buf[Len(buf)] = NULL THEN Len(buf) - 1 ELSE Len(buf))
  <2>1. bytes \in Seq(Bytes)
    BY ReadableIs
  <2> QED
    BY <2>1, ReadableIs
<1>2. Space \in Nat
  BY TypeIsRing, RingFacts, PipeAssumption DEF PipeInv, RingType
<1>3. /\ Writing(t, buf) /\ Store(buf, Space) /\ todo' = [todo EXCEPT ![t] = rest]
      /\ UNCHANGED <<nread, readopen, writeopen, out>>
      /\ Len(buf) > Space
  BY DEF WriteSleep
<1>4. Space <= Space /\ Space \in 0..Len(bytes) /\ Space \in 0..Len(buf)
  BY <1>1, <1>2, <1>3
<1>5. Readable(rest) = SubSeq(bytes, Space + 1, Len(bytes))
  <2>1. /\ buf \in Seq(Cells) /\ rest \in Chunks
    BY <1>4, ChunkIs, RestOfChunk DEF Cells
  <2> DEFINE left == SubSeq(bytes, Space + 1, Len(bytes))
  <2>2. /\ rest \in Seq(Cells) /\ Len(rest) = Len(buf) - Space
        /\ \A i \in 1..Len(buf) - Space : rest[i] = buf[Space + i]
    BY <1>4, <2>1, DropIs, Zenon
  <2>3. /\ left \in Seq(Bytes) /\ Len(left) = Len(bytes) - Space
        /\ \A i \in 1..Len(bytes) - Space : left[i] = bytes[Space + i]
    BY <1>1, <1>4, DropIs, Zenon
  <2>4. /\ Readable(rest) \in Seq(Bytes)
        /\ \A i \in 1..Len(Readable(rest)) : Readable(rest)[i] = rest[i]
        /\ Len(Readable(rest)) = (IF rest # <<>> /\ rest[Len(rest)] = NULL
                                  THEN Len(rest) - 1 ELSE Len(rest))
    BY <2>1, ReadableIs
  <2> HIDE DEF bytes, rest, left
  <2>5. rest # <<>> /\ buf # <<>> /\ rest[Len(rest)] = buf[Len(buf)]
    <3>1. /\ Len(rest) \in 1..Len(buf) - Space /\ Space + Len(rest) = Len(buf)
          /\ Len(rest) # 0 /\ Len(buf) # 0
      BY <1>1, <1>2, <1>3, <2>2
    <3> QED
      BY <2>2, <3>1
  <2>6. Len(Readable(rest)) = Len(bytes) - Space
    BY <1>1, <1>2, <1>3, <2>2, <2>4, <2>5
  <2>7. ASSUME NEW i \in 1..Len(bytes) - Space PROVE Readable(rest)[i] = left[i]
    <3>1. i \in 1..Len(buf) - Space /\ Space + i \in 1..Len(bytes)
      BY <1>1, <1>2
    <3> QED
      BY <1>1, <2>2, <2>3, <2>4, <2>6, <3>1
  <2>8. Readable(rest) = left
    BY <2>3, <2>4, <2>6, <2>7, SeqEqual
  <2> QED
    BY <2>8 DEF left
<1> HIDE DEF rest
<1> QED
  BY <1>3, <1>4, <1>5, WriteIsFifoWrite

LEMMA ReadDoneFifo ==
  ASSUME PipeInv, NEW t \in Readers, NEW w \in Counts, ReadDone(t, w)
  PROVE  Fifo!FifoNext
<1> DEFINE k == Taken(w)
           l == Lost(w)
<1>1. /\ Reading(t, w) /\ (~Empty \/ ~writeopen)
      /\ out' = [asked |-> w.n # 0,
                 bytes |-> [j \in 1..k |-> data[Slot(nread + j - 1)]],
                 fault |-> l = 1]
      /\ UNCHANGED <<readopen, writeopen, todo>>
  BY ReadDoneIs
<1>2. readopen
  BY <1>1, ReaderIs
<1>3. RingType /\ Used \in Nat /\ (Empty <=> Used = 0)
  BY TypeIsRing, RingFacts, PipeAssumption DEF PipeInv, RingType
<1>4. /\ k \in Nat /\ l \in {0, 1} /\ k + l <= Used /\ k + l <= w.n
      /\ k + l = 0 /\ w.n # 0 => Used = 0
      /\ w.n \in 0..MaxCount
  BY <1>3, TakenIs
<1>5. Contents' = SubSeq(Contents, k + l + 1, Len(Contents))
  BY ReadDoneRing
<1> HIDE DEF k, l
<1>6. Contents \in Seq(Cells) /\ Len(Contents) = Used
  BY <1>3, ContentsIs
<1>7. [j \in 1..k |-> data[Slot(nread + j - 1)]] = SubSeq(Contents, 1, k)
  <2>1. k <= Used
    BY <1>3, <1>4
  <2> QED
    BY <1>3, <1>4, <2>1, ReadHandsOver
<1>8. k + l = 0 /\ w.n # 0 => Contents = <<>> /\ ~writeopen
  BY <1>1, <1>3, <1>4, <1>6
<1>9. out' = [asked |-> w.n # 0, bytes |-> SubSeq(Contents, 1, k), fault |-> l = 1]
  BY <1>1, <1>7
<1>10. Fifo!FifoRead(w.n, k, l)
  BY <1>1, <1>2, <1>4, <1>5, <1>6, <1>8, <1>9 DEF Fifo!FifoRead
<1>11. k \in 0..w.n
  BY <1>4
<1> QED
  BY <1>4, <1>10, <1>11 DEF Fifo!FifoNext

LEMMA NextFifo == PipeInv /\ [Next]_vars => [Fifo!FifoNext]_(Fifo!fifoVars)
<1> SUFFICES ASSUME PipeInv, [Next]_vars PROVE [Fifo!FifoNext]_(Fifo!fifoVars)
  OBVIOUS
<1>1. ASSUME UNCHANGED <<data, nread, nwrite, todo, readopen, writeopen, out>>
      PROVE  UNCHANGED Fifo!fifoVars
  BY <1>1 DEF Fifo!fifoVars, Contents, Used
<1>2. CASE Run
  BY <1>1, <1>2 DEF Run, pipeVars
<1>3. ASSUME NEW t \in Tasks, Yield(t) PROVE UNCHANGED Fifo!fifoVars
  BY <1>1, <1>3 DEF Yield, pipeVars
<1>4. ASSUME NEW t \in Writers, NEW buf \in Chunks,
             WriteDone(t, buf) \/ WriteBroken(t, buf) \/ WriteSleep(t, buf)
      PROVE  Fifo!FifoNext
  BY <1>4, WriteDoneFifo, WriteBrokenFifo, WriteSleepFifo
<1>5. ASSUME NEW t \in Readers, NEW w \in Counts, ReadSleep(t, w)
      PROVE  UNCHANGED Fifo!fifoVars
  BY <1>1, <1>5 DEF ReadSleep
<1>6. ASSUME NEW t \in Readers, NEW w \in Counts, ReadDone(t, w)
      PROVE  Fifo!FifoNext
  BY <1>6, ReadDoneFifo
<1>7. ASSUME UNCHANGED <<data, nread, nwrite, todo, out>>,
             \/ readopen' = FALSE /\ UNCHANGED writeopen
             \/ writeopen' = FALSE /\ UNCHANGED readopen
      PROVE  Fifo!FifoNext
  <2>1. UNCHANGED <<Contents, [t \in Writers |-> Readable(todo[t])], out>>
    BY <1>7 DEF Contents, Used
  <2>2. Fifo!FifoClose
    BY <1>7, <2>1 DEF Fifo!FifoClose
  <2> QED
    BY <2>2 DEF Fifo!FifoNext
<1>8. ASSUME NEW t \in Readers, CloseReader(t)
      PROVE  Fifo!FifoNext \/ UNCHANGED Fifo!fifoVars
  <2>1. /\ UNCHANGED <<data, nread, nwrite, writeopen, todo, out>>
        /\ readopen' = FALSE \/ readopen' = readopen
    BY <1>8 DEF CloseReader
  <2> QED
    BY <1>1, <1>7, <2>1
<1>9. ASSUME NEW t \in Writers, CloseWriter(t)
      PROVE  Fifo!FifoNext \/ UNCHANGED Fifo!fifoVars
  <2>1. /\ UNCHANGED <<data, nread, nwrite, readopen, todo, out>>
        /\ writeopen' = FALSE \/ writeopen' = writeopen
    BY <1>9 DEF CloseWriter
  <2> QED
    BY <1>1, <1>7, <2>1
<1>10. CASE UNCHANGED vars
  BY <1>1, <1>10 DEF vars, pipeVars
<1> QED
  BY <1>2, <1>3, <1>4, <1>5, <1>6, <1>8, <1>9, <1>10 DEF Next

(***************************************************************************)
(* The ring buffer of fs_pipe.c implements the bounded queue PipeFifo, for *)
(* any readers and writers, PIPESIZE and width of the counters: each step  *)
(* is a step of the queue or leaves it alone.                              *)
(***************************************************************************)
THEOREM PipeIsFifo == Spec => ImplementsFifo
<1>1. Init => Fifo!FifoInit
  BY InitFifo
<1>2. PipeInv /\ [Next]_vars => [Fifo!FifoNext]_(Fifo!fifoVars)
  BY NextFifo
<1> QED
  BY <1>1, <1>2, PipeInvCorrect, PTL DEF Spec, ImplementsFifo, Fifo!FifoSpec
=============================================================================
