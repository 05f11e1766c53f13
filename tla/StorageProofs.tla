--------------------------- MODULE StorageProofs ---------------------------
(***************************************************************************)
(* From power-on to a mounted volume in use, for every card, volume and    *)
(* number of buffers.  One invariant, StoreInv, follows a sector from the  *)
(* card to the buffer and back; what it says of a kernel that has not      *)
(* halted (Live) has a part for each layer:                                *)
(*   DriverInv    the registers, the card's data phase and the driver's    *)
(*                semaphore agree with where the driver's thread is;       *)
(*   TransferInv  what is in the heap block, the FIFO and the card during  *)
(*                a transfer is the sector, or the data, of the job;       *)
(*   CallInv      the job is the one the caller of the driver needs, and   *)
(*                what it was given is what the card holds;                *)
(*   HoldInv      the buffer in use is the one and only referenced one,    *)
(*                its semaphore is taken, and every buffer is on the list; *)
(*   CopyInv      no sector is in two buffers, and a valid buffer that is  *)
(*                not being written is a copy of its sector;               *)
(*   VolumeInv    the only boot sectors on the card are the volume's own   *)
(*                and its copy, until a write, which needs a mounted       *)
(*                volume, and a partition table leads to the volume.       *)
(* A second one, PinsInv, says what the pads are set to before and after   *)
(* fpioa_pin_init.                                                         *)
(***************************************************************************)
EXTENDS Storage, SequenceTheorems, FiniteSetTheorems, WellFoundedInduction,
        TLAPS

BootLabels == {"main", "dmac_init", "sd_init", "CMD0", "CMD8", "OCR", "CMD55",
               "ACMD41", "CCS", "CMD16"}
ReadLabels == {"rd_cmd", "rd_token", "rd_dma"}
WriteLabels == {"wr_cmd", "wr_dma", "wr_busy", "CMD13"}

(* Where the thread is in the code above the driver, or will return to. *)
Stage == IF pc \in ReadLabels \cup WriteLabels THEN job.ret ELSE pc

ColdStages == BootLabels \cup {"disk_init", "disk_init_1", "disk_init_0",
                               "binit"}
ReadStages == {"fat32_init_boot", "fat32_init_info", "use"}
HoldStages == ReadStages \cup {"fat32_init_release", "release"}
FoundStages == {"fat32_init_release", "fat32_init_2", "fat32_init_info", "run",
                "use", "release"}
Stages == ColdStages \cup HoldStages \cup {"fat32_init", "fat32_init_2", "run"}

SpiType == [tmod : SPI_TMODS, frf : {"STANDARD"}, dfs : Nat, ctrlr1 : Nat,
            dmacr : SUBSET {"RX", "TX"}, ser : SUBSET {CS3}, ssienr : {0, 1}]
SemType == [value : Nat, pid : Tasks \cup {NOBODY}]
CardType == [kind : {"SDHC", "SDSC"}, mode : {"off", "idle", "ready"},
             phase : {"ready", "sending", "receiving", "busy"},
             sector : Nat, latch : Contents, failed : BOOLEAN]
JobType == [op : {"none", "read", "write"}, sector : Nat,
            data : Values \cup {Free}, ret : Stages \cup {"none"}]
BufType == [sectorno : VolSectors \cup {NoSector}, valid : BOOLEAN,
            refcnt : Nat, lock : SemType, data : Contents]

DeviceType ==
    /\ spi0 \in SpiType
    /\ bounce \in Contents \cup {Free} /\ tx_fifo \in Contents \cup {Free}
    /\ card \in CardType
    /\ sectors \in [PhysSectors -> Contents]
    /\ is_standard_sd \in BOOLEAN /\ sdcard_lock \in SemType

KernelType ==
    /\ job \in JobType /\ answer \in Contents
    /\ buf \in [Bufs -> BufType] /\ lru \in Seq(Bufs)
    /\ DBRsec \in Nat /\ volume \in Nat /\ held \in Bufs \cup {Free}
    /\ me \in Tasks \cup {NOBODY}

DriverInv ==
    /\ pc \notin BootLabels => (is_standard_sd <=> card.kind = "SDSC")
    /\ pc = "CMD16" => card.kind = "SDSC"
    /\ 0 \in chen => pc \in {"rd_dma", "wr_dma"}
    /\ \/ spi0.ssienr = 0
       \/ pc = "rd_dma" /\ spi0.tmod = "RECV"
       \/ pc = "wr_dma" /\ spi0.tmod = "TRANS"
    /\ tx_fifo # Free => pc = "wr_dma" /\ 0 \notin chen
    /\ pc \in {"rd_token", "rd_dma"} => card.phase = "sending"
    /\ pc = "wr_dma" => card.phase = "receiving"
    /\ pc = "wr_busy" => card.phase \in {"busy", "ready"}
    /\ pc \notin {"rd_token", "rd_dma", "wr_dma", "wr_busy"} =>
          card.phase = "ready"
    /\ pc \notin BootLabels =>
          sdcard_lock.value = IF InTransfer THEN 0 ELSE 1

TransferInv ==
    /\ InTransfer => job.sector \in PhysSectors
    /\ pc \in {"rd_token", "rd_dma"} => card.latch = sectors[job.sector]
    /\ pc = "rd_dma" => bounce # Free /\ (0 \notin chen => bounce = card.latch)
    /\ pc = "wr_dma" =>
          /\ bounce = job.data
          /\ 0 \notin chen => \/ tx_fifo = job.data
                              \/ tx_fifo = Free /\ card.latch = job.data
    /\ pc \in {"wr_dma", "wr_busy"} /\ card.phase # "ready" =>
          card.sector = job.sector
    /\ pc = "wr_busy" /\ card.phase = "busy" => card.latch = job.data
    /\ pc \in {"wr_busy", "CMD13"} /\ card.phase = "ready" /\ ~card.failed =>
          sectors[job.sector] = job.data

(* The sector of the card that buffer b stands for. *)
Place(b) == buf[b].sectorno + DBRsec

CallInv ==
    /\ Stage \in Stages
    /\ pc \in ReadLabels =>
          /\ job.ret \in ReadStages \cup {"disk_init_1", "disk_init_0"}
          /\ job.ret = "disk_init_0" => job.sector = 0
          /\ job.ret \in ReadStages =>
                ~buf[held].valid /\ job.sector = Place(held)
    /\ pc \in WriteLabels =>
          /\ job.ret = "release" /\ job.data \in Values
          /\ buf[held].valid /\ buf[held].data = job.data
          /\ job.sector = Place(held)
    /\ pc = "disk_init_0" => 0 \in PhysSectors /\ answer = sectors[0]
    /\ pc \in HoldStages =>
          /\ Place(held) \in PhysSectors
          /\ buf[held].valid => buf[held].data = sectors[Place(held)]
          /\ ~buf[held].valid =>
                pc \in ReadStages /\ answer = sectors[Place(held)]

(* One holder at most, whose semaphore and reference count say so. *)
Counted(b) ==
    LET n == IF b = held THEN 1 ELSE 0
    IN buf[b].lock.value = 1 - n /\ buf[b].refcnt = n

HoldInv ==
    /\ lru = <<>> <=> Stage \in ColdStages
    /\ Stage \in HoldStages <=> held # Free
    /\ lru # <<>> => \A b \in Bufs : \E i \in 1..Len(lru) : lru[i] = b
    /\ lru # <<>> => \A b \in Bufs : Counted(b)
    /\ held # Free => me = NOBODY \/ buf[held].lock.pid = me

CopyInv ==
    /\ \A b \in Bufs : b = held \/ buf[b].valid => buf[b].sectorno # NoSector
    /\ lru # <<>> =>
          \A b, c \in Bufs : b # c /\ buf[b].sectorno = buf[c].sectorno =>
              buf[b].sectorno = NoSector
    /\ \A b \in Bufs :
          buf[b].valid => lru # <<>> /\ Place(b) \in PhysSectors
    /\ \A b \in Bufs : b # held /\ buf[b].valid =>
          buf[b].data = sectors[Place(b)]

Boots == {Boot(l) : l \in StrayLbas \cup {0}}

VolumeInv ==
    /\ Stage \in FoundStages => AtBootSector
    /\ Stage \notin FoundStages =>
          /\ volume = VolumeStart => DBRsec \in {0, VolumeStart}
          /\ \A p \in PhysSectors :
                /\ sectors[p] \in Boots => p - volume \in BootSectors
                /\ p = 0 => sectors[p] \in Boots \cup {Mbr(VolumeStart)}
    /\ Stage = "fat32_init_boot" => buf[held].sectorno = 0

Live == /\ DeviceType /\ KernelType /\ DriverInv /\ TransferInv /\ CallInv
        /\ HoldInv /\ CopyInv /\ VolumeInv

StoreInv == (0 \in chen => ~Halted) /\ (~Halted => Live)

(* What a step out of a live state must show. *)
StaysLive == (0 \in chen' => ~Halted') /\ (~Halted' => Live')

-----------------------------------------------------------------------------
(* Small facts about the operators. *)

LEMMA MinProperty ==
  ASSUME NEW S, S \subseteq Nat, S # {}
  PROVE  Min(S) \in S /\ \A y \in S : Min(S) <= y
<1> DEFINE Less == {p \in Nat \X Nat : p[1] < p[2]}
<1>1. IsWellFoundedOn(Less, Nat)
  BY NatLessThanWellFounded DEF OpToRel
<1> HIDE DEF Less
<1>2. PICK x \in S : \A y \in S : ~(<<y, x>> \in Less)
  BY <1>1, WFMin
<1>3. \A y \in S : x <= y
  <2> SUFFICES ASSUME NEW y \in S, ~(x <= y) PROVE FALSE
    OBVIOUS
  <2>1. x \in Nat /\ y \in Nat /\ y < x
    OBVIOUS
  <2>2. <<y, x>> \in Less
    BY <2>1 DEF Less
  <2> QED
    BY <1>2, <2>2
<1> QED
  BY <1>3 DEF Min

(* The last index is as far from the end as the least distance says. *)
LEMMA MaxProperty ==
  ASSUME NEW n \in Nat, NEW S, S \subseteq 1..n, S # {}
  PROVE  Max(S) \in S
<1> DEFINE T == {n - i : i \in S}
<1>1. T \subseteq Nat /\ T # {}
  <2>1. \A i \in S : i \in Int /\ n - i \in Nat
    OBVIOUS
  <2> QED
    BY <2>1
<1>2. Min(T) \in T /\ \A y \in T : Min(T) <= y
  <2> HIDE DEF T
  <2> QED
    BY <1>1, MinProperty
<1>3. PICK x \in S : Min(T) = n - x
  BY <1>2
<1>4. \A y \in S : x >= y
  <2> TAKE y \in S
  <2>1. n - x <= n - y
    BY <1>2, <1>3
  <2> QED
    BY <2>1
<1> QED
  BY <1>4 DEF Max

LEMMA SemaphoreTurns ==
  /\ (1 - 1) % UINT_RANGE = 0
  /\ (0 + 1) % UINT_RANGE = 1
BY UintAssumption

(* sem_wait and sem_signal between 1 and 0. *)
LEMMA WaitAndSignal ==
  ASSUME NEW s \in SemType, NEW t \in Tasks \cup {NOBODY}
  PROVE  /\ s.value = 1 => /\ sem_wait(s, t) \in SemType
                           /\ sem_wait(s, t).value = 0
                           /\ t = NOBODY \/ sem_wait(s, t).pid = t
         /\ s.value = 0 => /\ sem_signal(s) \in SemType
                           /\ sem_signal(s).value = 1
         /\ s.value = 0 => s = [value |-> 0, pid |-> s.pid]
BY SemaphoreTurns DEF SemType, sem_wait, sem_signal, NOBODY

(* What spi_init leaves in the registers. *)
LEMMA SpiInit ==
  ASSUME spi0 \in SpiType, NEW bits \in Nat, bits - 1 \in Nat
  PROVE  /\ spi_init(bits) \in SpiType /\ spi_init(bits).ssienr = 0
         /\ spi_init(bits).dfs = bits - 1
BY DEF spi_init, SpiType, SPI_TMODS

LEMMA SpiOff ==
  ASSUME spi0 \in SpiType
  PROVE  /\ AfterPolledSend \in SpiType /\ AfterPolledSend.ssienr = 0
         /\ AfterPolledReceive(1) \in SpiType
         /\ AfterPolledReceive(1).ssienr = 0
<1>1. 8 - 1 \in Nat /\ 1 - 1 \in Nat
  OBVIOUS
<1>2. spi_init(8) \in SpiType /\ spi_init(8).ssienr = 0
  BY <1>1, SpiInit
<1>3. ASSUME NEW s \in SpiType, s.ssienr = 0, NEW d \in Nat
      PROVE  /\ [s EXCEPT !.tmod = "TRANS"] \in SpiType
             /\ [s EXCEPT !.tmod = "TRANS"].ssienr = 0
             /\ [s EXCEPT !.tmod = "RECV", !.ctrlr1 = d] \in SpiType
             /\ [s EXCEPT !.tmod = "RECV", !.ctrlr1 = d].ssienr = 0
  BY <1>3 DEF SpiType, SPI_TMODS
<1> QED
  BY <1>1, <1>2, <1>3, Zenon DEF AfterPolledSend, AfterPolledReceive

LEMMA SpiStarts ==
  ASSUME spi0 \in SpiType
  PROVE  /\ StartReceive(0, BSIZE) =>
               /\ spi0' \in SpiType /\ spi0'.tmod = "RECV" /\ bounce' = Junk
               /\ chen' = chen \cup {0} /\ UNCHANGED tx_fifo
         /\ \A d : StartSend(0, d, BSIZE) =>
               /\ spi0' \in SpiType /\ spi0'.tmod = "TRANS" /\ bounce' = d
               /\ chen' = chen \cup {0} /\ UNCHANGED tx_fifo
<1>1. 8 - 1 \in Nat /\ 8 - 1 < 8 /\ 512 \div 1 - 1 \in Nat
  OBVIOUS
<1>2. spi_init(8) \in SpiType /\ spi_init(8).dfs = 8 - 1
  BY <1>1, SpiInit
<1>3. spi_get_frame_size(spi_init(8).dfs) = 1
  BY <1>1, <1>2 DEF spi_get_frame_size
<1> DEFINE n == 512 \div 1 - 1
           s == spi_init(8)
<1>4. n \in Nat /\ s \in SpiType
  BY <1>1, <1>2
<1> HIDE DEF n, s
<1>5. /\ [s EXCEPT !.tmod = "RECV", !.ctrlr1 = n, !.dmacr = {"RX", "TX"},
                   !.ssienr = 1, !.ser = {CS3}] \in SpiType
      /\ [s EXCEPT !.tmod = "RECV", !.ctrlr1 = n, !.dmacr = {"RX", "TX"},
                   !.ssienr = 1, !.ser = {CS3}].tmod = "RECV"
  BY <1>4 DEF SpiType, SPI_TMODS
<1>6. /\ [s EXCEPT !.tmod = "TRANS", !.dmacr = {"TX"}, !.ssienr = 1,
                   !.ser = {CS3}] \in SpiType
      /\ [s EXCEPT !.tmod = "TRANS", !.dmacr = {"TX"}, !.ssienr = 1,
                   !.ser = {CS3}].tmod = "TRANS"
  BY <1>4 DEF SpiType, SPI_TMODS
<1>7. ASSUME StartReceive(0, BSIZE)
      PROVE  spi0' \in SpiType /\ spi0'.tmod = "RECV"
  <2>1. spi0' = [s EXCEPT !.tmod = "RECV", !.ctrlr1 = n,
                   !.dmacr = {"RX", "TX"}, !.ssienr = 1, !.ser = {CS3}]
    BY <1>3, <1>7, ZenonT(60) DEF StartReceive, BSIZE, n, s
  <2> QED
    BY <1>5, <2>1, Zenon
<1>8. ASSUME NEW d, StartSend(0, d, BSIZE)
      PROVE  spi0' \in SpiType /\ spi0'.tmod = "TRANS"
  <2>1. spi0' = [s EXCEPT !.tmod = "TRANS", !.dmacr = {"TX"}, !.ssienr = 1,
                   !.ser = {CS3}]
    BY <1>8, ZenonT(60) DEF StartSend, s
  <2> QED
    BY <1>6, <2>1, Zenon
<1>9. StartReceive(0, BSIZE) =>
         bounce' = Junk /\ chen' = chen \cup {0} /\ UNCHANGED tx_fifo
  BY Zenon DEF StartReceive, dmac_set_single_mode
<1>10. \A d : StartSend(0, d, BSIZE) =>
         bounce' = d /\ chen' = chen \cup {0} /\ UNCHANGED tx_fifo
  BY Zenon DEF StartSend, dmac_set_single_mode
<1> QED
  BY <1>7, <1>8, <1>9, <1>10, Zenon

(* A card with byte addresses gets back the sector the driver multiplied. *)
LEMMA AddressRoundTrip ==
  ASSUME NEW s \in Nat, is_standard_sd \in BOOLEAN,
         is_standard_sd <=> card.kind = "SDSC"
  PROVE  CardSector(Address(s)) = s
<1>1. (s * 512) \div 512 = s
  OBVIOUS
<1> QED
  BY <1>1 DEF CardSector, Address, BSIZE

(* What s \o u is, seen from its two parts. *)
Joined(S, s, u) ==
    /\ s \o u \in Seq(S) /\ Len(s \o u) = Len(s) + Len(u)
    /\ \A i \in 1..Len(s) : (s \o u)[i] = s[i]
    /\ \A i \in 1..Len(u) : (s \o u)[Len(s) + i] = u[i]

LEMMA ConcatAt ==
  ASSUME NEW S, NEW s \in Seq(S), NEW u \in Seq(S)
  PROVE  Joined(S, s, u)
<1>1. /\ s \o u \in Seq(S) /\ Len(s \o u) = Len(s) + Len(u)
      /\ Len(s) \in Nat /\ Len(u) \in Nat
      /\ \A i \in 1..Len(s) + Len(u) :
            (s \o u)[i] = IF i <= Len(s) THEN s[i] ELSE u[i - Len(s)]
  BY ConcatProperties, LenProperties
<1>2. \A i \in 1..Len(s) : (s \o u)[i] = s[i]
  BY <1>1
<1>3. \A i \in 1..Len(u) : (s \o u)[Len(s) + i] = u[i]
  BY <1>1
<1> QED
  BY <1>1, <1>2, <1>3, Zenon DEF Joined

LEMMA ToFrontKeeps ==
  ASSUME lru \in Seq(Bufs), NEW b \in Bufs,
         \A c \in Bufs : \E i \in 1..Len(lru) : lru[i] = c
  PROVE  /\ ToFront(b) \in Seq(Bufs) /\ ToFront(b) # <<>>
         /\ \A c \in Bufs : \E i \in 1..Len(ToFront(b)) : ToFront(b)[i] = c
<1> DEFINE links == {i \in 1..Len(lru) : lru[i] = b}
           k == Min(links)
           n == Len(lru)
           u == SubSeq(lru, 1, k - 1)
           v == SubSeq(lru, k + 1, n)
           w == RemoveAt(lru, k)
<1>1. n \in Nat /\ links \subseteq Nat /\ links # {}
  OBVIOUS
<1>2. k \in links
  <2> HIDE DEF links
  <2> QED
    BY <1>1, MinProperty
<1>3. k \in 1..n /\ lru[k] = b
  BY <1>2
<1> HIDE DEF links, k
<1>4. /\ u \in Seq(Bufs) /\ Len(u) = k - 1
      /\ \A i \in 1..k - 1 : u[i] = lru[i]
  BY <1>1, <1>3, SMTT(30)
<1>5. /\ v \in Seq(Bufs) /\ Len(v) = n - k
      /\ \A i \in 1..n - k : v[i] = lru[i + k]
  BY <1>1, <1>3, SMTT(30)
<1>6. w = u \o v
  BY DEF RemoveAt
<1> HIDE DEF u, v, n, w
<1>7. /\ w \in Seq(Bufs) /\ Len(w) = (k - 1) + (n - k)
      /\ \A i \in 1..k - 1 : w[i] = u[i]
      /\ \A i \in 1..n - k : w[(k - 1) + i] = v[i]
  <2>1. /\ u \o v \in Seq(Bufs) /\ Len(u \o v) = Len(u) + Len(v)
        /\ \A i \in 1..Len(u) : (u \o v)[i] = u[i]
        /\ \A i \in 1..Len(v) : (u \o v)[Len(u) + i] = v[i]
    <3>1. u \in Seq(Bufs) /\ v \in Seq(Bufs)
      BY <1>4, <1>5
    <3>2. Joined(Bufs, u, v)
      BY <3>1, ConcatAt, Zenon
    <3> QED
      BY <3>2, Zenon DEF Joined
  <2> QED
    BY <1>4, <1>5, <1>6, <2>1
<1>8. ToFront(b) = <<b>> \o w
  BY DEF ToFront, links, k, w
<1>9. /\ <<b>> \o w \in Seq(Bufs)
      /\ Len(<<b>> \o w) = n
      /\ (<<b>> \o w)[1] = b
      /\ \A i \in 1..n - 1 : (<<b>> \o w)[1 + i] = w[i]
  <2> DEFINE h == <<b>>
  <2>1. h \in Seq(Bufs) /\ Len(h) = 1 /\ h[1] = b
    OBVIOUS
  <2> HIDE DEF h
  <2>2. /\ h \o w \in Seq(Bufs) /\ Len(h \o w) = Len(h) + Len(w)
        /\ \A i \in 1..Len(h) : (h \o w)[i] = h[i]
        /\ \A i \in 1..Len(w) : (h \o w)[Len(h) + i] = w[i]
    <3>1. h \in Seq(Bufs) /\ w \in Seq(Bufs)
      BY <1>7, <2>1
    <3>2. Joined(Bufs, h, w)
      BY <3>1, ConcatAt, Zenon
    <3> QED
      BY <3>2, Zenon DEF Joined
  <2>3. Len(w) = n - 1 /\ 1 + Len(w) = n /\ 1 \in 1..1
    BY <1>1, <1>3, <1>7
  <2> QED
    BY <2>1, <2>2, <2>3 DEF h
<1>10. ASSUME NEW c \in Bufs
       PROVE  \E i \in 1..n : (<<b>> \o w)[i] = c
  <2>1. PICK i \in 1..n : lru[i] = c
    BY DEF n
  <2>2. CASE i = k
    BY <1>3, <1>9, <2>1, <2>2
  <2>3. CASE i < k
    <3>1. i \in 1..k - 1 /\ i \in 1..n - 1 /\ 1 + i \in 1..n
      BY <1>1, <1>3, <2>1, <2>3
    <3>2. w[i] = c
      BY <1>4, <1>7, <2>1, <3>1, Zenon
    <3>3. (<<b>> \o w)[1 + i] = w[i]
      BY <1>9, <3>1, Zenon
    <3> QED
      BY <3>1, <3>2, <3>3, Zenon
  <2>4. CASE i > k
    <3>1. /\ i - 1 \in 1..n - 1 /\ i - k \in 1..n - k
          /\ (k - 1) + (i - k) = i - 1 /\ (i - k) + k = i /\ 1 + (i - 1) = i
      BY <1>1, <1>3, <2>1, <2>4
    <3>2. w[i - 1] = c
      <4>1. w[(k - 1) + (i - k)] = v[i - k]
        BY <1>7, <3>1, Zenon
      <4>2. v[i - k] = lru[(i - k) + k]
        BY <1>5, <3>1, Zenon
      <4> QED
        BY <2>1, <3>1, <4>1, <4>2, Zenon
    <3>3. (<<b>> \o w)[1 + (i - 1)] = w[i - 1]
      BY <1>9, <3>1, Zenon
    <3>4. (<<b>> \o w)[i] = c
      BY <3>1, <3>2, <3>3, Zenon
    <3> QED
      BY <2>1, <3>4, Zenon
  <2>5. i = k \/ i < k \/ i > k
    BY <1>1, <1>3, <2>1
  <2> QED
    BY <2>2, <2>3, <2>4, <2>5, Zenon
<1> QED
  <2>1. <<b>> \o w # <<>>
    BY <1>1, <1>3, <1>9
  <2> QED
    BY <1>8, <1>9, <1>10, <2>1

-----------------------------------------------------------------------------
(* Bringing up the board and the card: no block, no buffer, no data.       *)

LEMMA BootStep ==
  ASSUME Live, pc \in BootLabels, pc' \in BootLabels \cup {"disk_init"},
         UNCHANGED <<sectors, job, answer, bounce, tx_fifo, bcacheVars,
                     storageVars>>,
         0 \notin chen', spi0' \in SpiType, spi0'.ssienr = 0,
         card' \in CardType, card'.kind = card.kind,
         card'.phase = card.phase,
         is_standard_sd' \in BOOLEAN, sdcard_lock' \in SemType,
         pc' = "disk_init" => /\ is_standard_sd' <=> card.kind = "SDSC"
                              /\ sdcard_lock'.value = 1,
         pc' = "CMD16" => card.kind = "SDSC"
  PROVE  Live'
<1> USE DEF Live
<1>1. DeviceType' /\ KernelType'
  BY DEF DeviceType, KernelType, bcacheVars, storageVars
<1>2. DriverInv'
  BY DEF DriverInv, BootLabels, InTransfer
<1>3. TransferInv'
  BY DEF TransferInv, BootLabels, InTransfer
<1>4. /\ Stage = pc /\ Stage' = pc' /\ Stage' \in ColdStages
      /\ Stage \in ColdStages
      /\ Stage' \notin HoldStages /\ Stage' \notin FoundStages
      /\ Stage \notin HoldStages /\ Stage \notin FoundStages
      /\ pc' \notin ReadLabels /\ pc' \notin WriteLabels
      /\ pc' \notin {"disk_init_0", "fat32_init_boot"}
  BY DEF Stage, ColdStages, BootLabels, ReadLabels, WriteLabels, HoldStages,
         ReadStages, FoundStages
<1>5. CallInv'
  BY <1>4 DEF CallInv, Stages, ReadStages, HoldStages
<1>6. HoldInv'
  BY <1>4 DEF HoldInv, Counted, bcacheVars, storageVars
<1>7. CopyInv'
  BY <1>4 DEF CopyInv, Place, bcacheVars, storageVars
<1>8. VolumeInv'
  BY <1>4 DEF VolumeInv, AtBootSector, storageVars
<1> QED
  BY <1>1, <1>2, <1>3, <1>5, <1>6, <1>7, <1>8

LEMMA BootIdle ==
  ASSUME Live, pc \in BootLabels
  PROVE  0 \notin chen /\ spi0.ssienr = 0
BY DEF Live, DriverInv, BootLabels

LEMMA ExchangeKeeps ==
  ASSUME Live, NEW cmd, NEW r, Exchange(cmd, r)
  PROVE  /\ card' \in CardType /\ card'.kind = card.kind
         /\ card'.phase = card.phase
         /\ spi0' \in SpiType /\ spi0'.ssienr = 0
         /\ UNCHANGED <<sectors, bounce, tx_fifo, chen>>
<1>1. PICK m \in CardMode(cmd, r) : card' = [card EXCEPT !.mode = m]
  BY DEF Exchange
<1>2. card \in CardType /\ spi0 \in SpiType
  BY DEF Live, DeviceType
<1>3. m \in {"off", "idle", "ready"}
  BY <1>1, <1>2 DEF CardMode, CardType
<1>4. card' \in CardType /\ card'.kind = card.kind /\ card'.phase = card.phase
  BY <1>1, <1>2, <1>3 DEF CardType
<1> QED
  BY <1>2, <1>4, SpiOff DEF Exchange, dmacVars

LEMMA PowerUpLive ==
  ASSUME Live, ~Halted, PowerUp
  PROVE  StaysLive
<1>1. pc \in BootLabels /\ pc' \in BootLabels
  BY DEF PowerUp, At, Goto, BootLabels
<1>2. 0 \notin chen' /\ spi0' \in SpiType /\ spi0'.ssienr = 0
  BY <1>1, BootIdle DEF PowerUp, dmacVars, spiVars, Live, DeviceType
<1>3. /\ card' \in CardType /\ card'.kind = card.kind
      /\ card'.phase = card.phase
      /\ is_standard_sd' \in BOOLEAN /\ sdcard_lock' \in SemType
  BY DEF PowerUp, cardVars, Live, DeviceType
<1>4. UNCHANGED <<sectors, job, answer, bounce, tx_fifo, bcacheVars,
                  storageVars>>
  BY DEF PowerUp, cardVars, spiVars
<1>5. pc' # "disk_init" /\ pc' # "CMD16"
  BY DEF PowerUp, Goto
<1>6. Live'
  BY <1>1, <1>2, <1>3, <1>4, <1>5, BootStep
<1> QED
  BY <1>2, <1>6 DEF StaysLive

LEMMA DmacInitLive ==
  ASSUME Live, ~Halted, DmacInit
  PROVE  StaysLive
<1>1. pc \in BootLabels /\ pc' \in BootLabels
  BY DEF DmacInit, At, Goto, BootLabels
<1>2. 0 \notin chen' /\ spi0' \in SpiType /\ spi0'.ssienr = 0
  BY <1>1, BootIdle DEF DmacInit, dmac_init, spiVars, Live, DeviceType
<1>3. /\ card' \in CardType /\ card'.kind = card.kind
      /\ card'.phase = card.phase
      /\ is_standard_sd' \in BOOLEAN /\ sdcard_lock' \in SemType
  BY DEF DmacInit, cardVars, Live, DeviceType
<1>4. UNCHANGED <<sectors, job, answer, bounce, tx_fifo, bcacheVars,
                  storageVars>>
  BY DEF DmacInit, cardVars, spiVars
<1>5. pc' # "disk_init" /\ pc' # "CMD16"
  BY DEF DmacInit, Goto
<1>6. Live'
  BY <1>1, <1>2, <1>3, <1>4, <1>5, BootStep
<1> QED
  BY <1>2, <1>6 DEF StaysLive

LEMMA SdLowlevelInitLive ==
  ASSUME Live, ~Halted, SdLowlevelInit, UNCHANGED <<bcacheVars, storageVars>>
  PROVE  StaysLive
<1>1. pc \in BootLabels /\ pc' \in BootLabels
  BY DEF SdLowlevelInit, At, Goto, BootLabels
<1>2. 0 \notin chen' /\ spi0' \in SpiType /\ spi0'.ssienr = 0
  BY <1>1, BootIdle, SpiOff DEF SdLowlevelInit, dmacVars, Live, DeviceType
<1>3. /\ card' \in CardType /\ card'.kind = card.kind
      /\ card'.phase = card.phase
      /\ is_standard_sd' \in BOOLEAN /\ sdcard_lock' \in SemType
  BY DEF SdLowlevelInit, cardVars, Live, DeviceType
<1>4. UNCHANGED <<sectors, job, answer, bounce, tx_fifo, bcacheVars,
                  storageVars>>
  BY DEF SdLowlevelInit, cardVars
<1>5. pc' # "disk_init" /\ pc' # "CMD16"
  BY DEF SdLowlevelInit, Goto
<1>6. Live'
  BY <1>1, <1>2, <1>3, <1>4, <1>5, BootStep
<1> QED
  BY <1>2, <1>6 DEF StaysLive

(* A step of the card's initialisation that sends one command: it goes on  *)
(* within the initialisation, panics, or is its end.                       *)
LEMMA CommandStep ==
  ASSUME Live, ~Halted, pc \in BootLabels,
         NEW cmd, NEW r, Exchange(cmd, r),
         UNCHANGED <<job, answer, bcacheVars, storageVars>>,
         \/ Halted'
         \/ /\ pc' \in BootLabels
            /\ pc' = "CMD16" => card.kind = "SDSC"
            /\ UNCHANGED <<is_standard_sd, sdcard_lock>>
         \/ /\ SdReady
            /\ is_standard_sd' \in BOOLEAN
            /\ is_standard_sd' <=> card.kind = "SDSC"
  PROVE  StaysLive
<1>1. /\ card' \in CardType /\ card'.kind = card.kind
      /\ card'.phase = card.phase
      /\ spi0' \in SpiType /\ spi0'.ssienr = 0
      /\ UNCHANGED <<sectors, bounce, tx_fifo, chen>>
  BY ExchangeKeeps
<1>2. 0 \notin chen'
  BY <1>1, BootIdle
<1>3. CASE Halted'
  BY <1>2, <1>3 DEF StaysLive
<1>4. CASE /\ pc' \in BootLabels
           /\ pc' = "CMD16" => card.kind = "SDSC"
           /\ UNCHANGED <<is_standard_sd, sdcard_lock>>
  <2>1. is_standard_sd' \in BOOLEAN /\ sdcard_lock' \in SemType
    BY <1>4 DEF Live, DeviceType
  <2>2. pc' # "disk_init"
    BY <1>4 DEF BootLabels
  <2>3. Live'
    BY <1>1, <1>2, <1>4, <2>1, <2>2, BootStep
  <2> QED
    BY <1>2, <2>3 DEF StaysLive
<1>5. CASE /\ SdReady
           /\ is_standard_sd' \in BOOLEAN
           /\ is_standard_sd' <=> card.kind = "SDSC"
  <2>1. pc' = "disk_init" /\ sdcard_lock' = [value |-> 1, pid |-> NOBODY]
    BY <1>5 DEF SdReady, Goto, sem_init
  <2>2. sdcard_lock' \in SemType /\ sdcard_lock'.value = 1
    BY <2>1 DEF SemType
  <2>3. Live'
    BY <1>1, <1>2, <1>5, <2>1, <2>2, BootStep
  <2> QED
    BY <1>2, <2>3 DEF StaysLive
<1> QED
  BY <1>3, <1>4, <1>5

LEMMA SdInitLive ==
  ASSUME Live, ~Halted, SdInit, UNCHANGED <<bcacheVars, storageVars>>
  PROVE  StaysLive
<1>1. CASE SwitchToSpiMode
  <2>1. PICK r \in {"idle", "ok", "error", "lost"} :
          /\ Exchange("CMD0", r)
          /\ Halted' \/ pc' \in BootLabels \ {"CMD16"}
          /\ UNCHANGED <<is_standard_sd, sdcard_lock>>
    BY <1>1 DEF SwitchToSpiMode, Goto, Panic, Halted, BootLabels
  <2>2. pc \in BootLabels /\ UNCHANGED <<job, answer>>
    BY <1>1 DEF SwitchToSpiMode, At, BootLabels
  <2> QED
    BY <2>1, <2>2, CommandStep
<1>2. CASE VerifyOperationCondition
  <2>1. PICK r \in {"idle", "ok", "error", "lost"} :
          /\ Exchange("CMD8", r)
          /\ Halted' \/ pc' \in BootLabels \ {"CMD16"}
          /\ UNCHANGED <<is_standard_sd, sdcard_lock>>
    BY <1>2 DEF VerifyOperationCondition, Goto, Panic, Halted, BootLabels
  <2>2. pc \in BootLabels /\ UNCHANGED <<job, answer>>
    BY <1>2 DEF VerifyOperationCondition, At, BootLabels
  <2> QED
    BY <2>1, <2>2, CommandStep
<1>3. CASE ReadOCR
  <2>1. PICK r \in {"idle", "ok", "error", "lost"} :
          /\ Exchange("CMD58", r)
          /\ Halted' \/ pc' \in BootLabels \ {"CMD16"}
          /\ UNCHANGED <<is_standard_sd, sdcard_lock>>
    BY <1>3 DEF ReadOCR, Goto, Panic, Halted, BootLabels
  <2>2. pc \in BootLabels /\ UNCHANGED <<job, answer>>
    BY <1>3 DEF ReadOCR, At, BootLabels
  <2> QED
    BY <2>1, <2>2, CommandStep
<1>4. CASE AppCommand
  <2>1. PICK r \in {"idle", "ok", "error", "lost"} :
          /\ Exchange("CMD55", r)
          /\ Halted' \/ pc' \in BootLabels \ {"CMD16"}
          /\ UNCHANGED <<is_standard_sd, sdcard_lock>>
    BY <1>4 DEF AppCommand, Goto, Panic, Halted, BootLabels
  <2>2. pc \in BootLabels /\ UNCHANGED <<job, answer>>
    BY <1>4 DEF AppCommand, At, BootLabels
  <2> QED
    BY <2>1, <2>2, CommandStep
<1>5. CASE SetCapacity
  <2>1. PICK r \in {"idle", "ok", "error", "lost"} :
          /\ Exchange("ACMD41", r)
          /\ Halted' \/ pc' \in BootLabels \ {"CMD16"}
          /\ UNCHANGED <<is_standard_sd, sdcard_lock>>
    BY <1>5 DEF SetCapacity, Goto, Panic, Halted, BootLabels
  <2>2. pc \in BootLabels /\ UNCHANGED <<job, answer>>
    BY <1>5 DEF SetCapacity, At, BootLabels
  <2> QED
    BY <2>1, <2>2, CommandStep
<1>6. CASE CheckBlockSize
  <2>1. PICK r \in {"idle", "ok", "error", "lost"} :
          /\ Exchange("CMD58", r)
          /\ \/ Halted'
             \/ /\ pc' \in BootLabels
                /\ pc' = "CMD16" => card.kind = "SDSC"
                /\ UNCHANGED <<is_standard_sd, sdcard_lock>>
             \/ SdReady /\ card.kind = "SDHC" /\ is_standard_sd' = FALSE
    BY <1>6 DEF CheckBlockSize, Goto, Panic, Halted, BootLabels
  <2>2. pc \in BootLabels /\ UNCHANGED <<job, answer>>
    BY <1>6 DEF CheckBlockSize, At, BootLabels
  <2> QED
    BY <2>1, <2>2, CommandStep
<1>7. CASE SetBlockSize
  <2>1. PICK r \in {"idle", "ok", "error", "lost"} :
          /\ Exchange("CMD16", r)
          /\ \/ Halted'
             \/ /\ pc' \in BootLabels
                /\ UNCHANGED <<is_standard_sd, sdcard_lock>>
             \/ SdReady /\ is_standard_sd' = TRUE
    BY <1>7 DEF SetBlockSize, Goto, Panic, Halted, BootLabels
  <2>2. pc \in BootLabels /\ UNCHANGED <<job, answer>>
    BY <1>7 DEF SetBlockSize, At, BootLabels
  <2>3. card.kind = "SDSC"
    BY <1>7 DEF SetBlockSize, At, Live, DriverInv
  <2> QED
    BY <2>1, <2>2, <2>3, CommandStep
<1> QED
  BY <1>1, <1>2, <1>3, <1>4, <1>5, <1>6, <1>7, SdLowlevelInitLive DEF SdInit


-----------------------------------------------------------------------------
(* A sector transfer: the layers above the driver stand still.             *)

LEMMA FrameStep ==
  ASSUME Live, UNCHANGED <<bcacheVars, storageVars>>, Stage' = Stage,
         \/ UNCHANGED sectors
         \/ /\ Stage \in FoundStages \ {"fat32_init_boot"}
            /\ \A b \in Bufs : b # held /\ buf[b].valid =>
                  sectors'[Place(b)] = sectors[Place(b)]
  PROVE  HoldInv' /\ CopyInv' /\ VolumeInv'
<1>1. HoldInv'
  BY DEF Live, HoldInv, Counted, bcacheVars, storageVars
<1>2. CopyInv'
  BY DEF Live, CopyInv, Place, bcacheVars, storageVars
<1>3. VolumeInv'
  BY DEF Live, VolumeInv, AtBootSector, bcacheVars, storageVars
<1> QED
  BY <1>1, <1>2, <1>3

LEMMA SectorNumbers ==
  /\ \A s \in VolSectors : s \in Nat
  /\ 0 \in VolSectors /\ 1 \in VolSectors /\ NoSector \notin VolSectors
  /\ \A s \in PhysSectors : s \in Nat
BY StorageAssumption

LEMMA HeldIs ==
  ASSUME Live, Stage \in HoldStages
  PROVE  /\ held \in Bufs /\ lru # <<>>
         /\ buf[held].sectorno \in VolSectors
         /\ Place(held) \in Nat
<1>1. held \in Bufs
  BY DEF Live, HoldInv, KernelType
<1>2. Stage \notin ColdStages
  BY DEF ColdStages, BootLabels, HoldStages, ReadStages
<1>3. lru # <<>>
  BY <1>2 DEF Live, HoldInv
<1>4. buf[held].sectorno \in VolSectors
  BY <1>1 DEF Live, CopyInv, KernelType, BufType
<1>5. DBRsec \in Nat
  BY DEF Live, KernelType
<1>6. Place(held) \in Nat
  BY <1>4, <1>5, SectorNumbers DEF Place
<1> QED
  BY <1>1, <1>3, <1>4, <1>6

LEMMA DmaReceiveLive ==
  ASSUME Live, ~Halted, DmaReceive, UNCHANGED <<bcacheVars, storageVars>>
  PROVE  StaysLive
<1>1. pc = "rd_dma"
  BY DEF DmaReceive, SpiRequests, Live, DriverInv
<1>2. UNCHANGED <<spi0, tx_fifo, card, sectors, is_standard_sd, sdcard_lock,
                  pc, job, answer, panicked>>
  BY DEF DmaReceive, cardVars, sdVars
<1>3. bounce' = card.latch /\ chen' = chen \ {0}
  BY <1>1 DEF DmaReceive, DMAC_CHANNEL0, Live, TransferInv
<1>4. ~Halted' /\ Stage' = Stage
  BY <1>2 DEF Halted, Stage
<1>5. card.latch \in Contents
  BY DEF Live, DeviceType, CardType
<1>6. DeviceType' /\ KernelType'
  BY <1>2, <1>3, <1>5 DEF Live, DeviceType, KernelType, bcacheVars, storageVars
<1>7. DriverInv'
  BY <1>2, <1>3 DEF Live, DriverInv, InTransfer
<1>8. TransferInv'
  BY <1>1, <1>2, <1>3, <1>5, StorageAssumption DEF Live, TransferInv, InTransfer
<1>9. CallInv'
  BY <1>2, <1>4 DEF Live, CallInv, Place, bcacheVars, storageVars
<1> QED
  BY <1>2, <1>4, <1>6, <1>7, <1>8, <1>9, FrameStep DEF StaysLive, Live

LEMMA DmaSendLive ==
  ASSUME Live, ~Halted, DmaSend, UNCHANGED <<bcacheVars, storageVars>>
  PROVE  StaysLive
<1>1. pc = "wr_dma" /\ 0 \in chen
  BY DEF DmaSend, DmaServes, DMAC_CHANNEL0, SpiRequests, Live, DriverInv
<1>2. UNCHANGED <<spi0, bounce, card, sectors, is_standard_sd, sdcard_lock,
                  pc, job, answer, panicked>>
  BY DEF DmaSend, cardVars, sdVars
<1>3. job.data \in Values /\ bounce = job.data
  BY <1>1 DEF Live, TransferInv, CallInv, WriteLabels
<1>4. bounce # Free /\ bounce \in Contents
  BY <1>3, StorageAssumption DEF Contents
<1>5. tx_fifo' = bounce /\ chen' = chen \ {0}
  BY <1>4 DEF DmaSend, DMAC_CHANNEL0
<1>6. ~Halted' /\ Stage' = Stage
  BY <1>2 DEF Halted, Stage
<1>7. DeviceType' /\ KernelType'
  BY <1>2, <1>4, <1>5 DEF Live, DeviceType, KernelType, bcacheVars, storageVars
<1>8. DriverInv'
  BY <1>1, <1>2, <1>5 DEF Live, DriverInv, InTransfer
<1>9. TransferInv'
  BY <1>1, <1>2, <1>3, <1>5 DEF Live, TransferInv, InTransfer
<1>10. CallInv'
  BY <1>2, <1>6 DEF Live, CallInv, Place, bcacheVars, storageVars
<1> QED
  BY <1>2, <1>6, <1>7, <1>8, <1>9, <1>10, FrameStep DEF StaysLive, Live

LEMMA ShiftOutLive ==
  ASSUME Live, ~Halted, ShiftOut, UNCHANGED <<bcacheVars, storageVars>>
  PROVE  StaysLive
<1>1. /\ tx_fifo # Free /\ tx_fifo' = Free
      /\ card' = [card EXCEPT !.latch = tx_fifo]
      /\ UNCHANGED <<spi0, bounce, chen, sectors, is_standard_sd, sdcard_lock,
                     pc, job, answer, panicked>>
  BY DEF ShiftOut, sdVars, dmacVars
<1>2. pc = "wr_dma" /\ 0 \notin chen
  BY <1>1 DEF Live, DriverInv
<1>3. tx_fifo = job.data /\ tx_fifo \in Contents
  BY <1>1, <1>2 DEF Live, TransferInv, DeviceType
<1>4. /\ card' \in CardType /\ card'.latch = job.data
      /\ card'.kind = card.kind /\ card'.phase = card.phase
      /\ card'.sector = card.sector /\ card'.failed = card.failed
  BY <1>1, <1>3 DEF Live, DeviceType, CardType
<1>5. ~Halted' /\ Stage' = Stage
  BY <1>1 DEF Halted, Stage
<1>6. DeviceType' /\ KernelType'
  BY <1>1, <1>4 DEF Live, DeviceType, KernelType, bcacheVars, storageVars
<1>7. DriverInv'
  BY <1>1, <1>2, <1>4 DEF Live, DriverInv, InTransfer
<1>8. TransferInv'
  BY <1>1, <1>2, <1>4 DEF Live, TransferInv, InTransfer
<1>9. CallInv'
  BY <1>1, <1>5 DEF Live, CallInv, Place, bcacheVars, storageVars
<1> QED
  BY <1>1, <1>5, <1>6, <1>7, <1>8, <1>9, FrameStep DEF StaysLive, Live

(* The card writes the sector of the buffer that is held, and no other     *)
(* buffer stands for that sector.                                          *)
LEMMA CardProgramLive ==
  ASSUME Live, ~Halted, CardProgram, UNCHANGED <<bcacheVars, storageVars>>
  PROVE  StaysLive
<1>1. PICK ok \in BOOLEAN :
        /\ card' = [card EXCEPT !.phase = "ready", !.failed = ~ok,
                                !.latch = Junk, !.sector = 0]
        /\ sectors' = [sectors EXCEPT ![card.sector] =
                          IF ok THEN card.latch ELSE Junk]
  BY DEF CardProgram
<1>2. /\ card.phase = "busy"
      /\ UNCHANGED <<spi0, bounce, tx_fifo, chen, is_standard_sd, sdcard_lock,
                     pc, job, answer, panicked>>
  BY DEF CardProgram, hwVars, dmacVars, spiVars, sdVars
<1>3. pc = "wr_busy"
  BY <1>2 DEF Live, DriverInv
<1>4. /\ card.sector = job.sector /\ card.latch = job.data
      /\ job.sector \in PhysSectors /\ job.sector = Place(held)
      /\ job.ret = "release"
  BY <1>2, <1>3 DEF Live, TransferInv, CallInv, InTransfer, WriteLabels
<1>5. Stage = "release" /\ Stage' = Stage /\ ~Halted'
  BY <1>2, <1>3, <1>4 DEF Stage, WriteLabels, Halted
<1>6. /\ card' \in CardType /\ card'.kind = card.kind
      /\ card'.phase = "ready" /\ card'.failed = ~ok
  <2>1. card \in CardType /\ Junk \in Contents
    BY DEF Live, DeviceType, Contents
  <2> QED
    BY <1>1, <2>1 DEF CardType
<1>7. /\ sectors' \in [PhysSectors -> Contents]
      /\ ok => sectors'[job.sector] = job.data
      /\ \A p \in PhysSectors : p # job.sector => sectors'[p] = sectors[p]
  <2>1. sectors \in [PhysSectors -> Contents] /\ card.latch \in Contents
        /\ Junk \in Contents
    BY DEF Live, DeviceType, CardType, Contents
  <2> QED
    BY <1>1, <1>4, <2>1
<1>8. \A b \in Bufs : b # held /\ buf[b].valid =>
         sectors'[Place(b)] = sectors[Place(b)]
  <2> SUFFICES ASSUME NEW b \in Bufs, b # held, buf[b].valid
               PROVE  sectors'[Place(b)] = sectors[Place(b)]
    OBVIOUS
  <2>1. held \in Bufs /\ lru # <<>> /\ buf[held].sectorno \in VolSectors
    BY <1>5, HeldIs DEF HoldStages
  <2>2. buf[b].sectorno \in VolSectors /\ Place(b) \in PhysSectors
    BY DEF Live, CopyInv, KernelType, BufType
  <2>3. buf[b].sectorno # buf[held].sectorno
    BY <2>1, <2>2, StorageAssumption DEF Live, CopyInv
  <2>4. DBRsec \in Nat
    BY DEF Live, KernelType
  <2>5. Place(b) # Place(held)
    BY <2>1, <2>2, <2>3, <2>4, SectorNumbers DEF Place
  <2> QED
    BY <1>4, <1>7, <2>2, <2>5
<1>9. HoldInv' /\ CopyInv' /\ VolumeInv'
  BY <1>5, <1>8, FrameStep DEF FoundStages
<1>10. DeviceType' /\ KernelType'
  BY <1>2, <1>6, <1>7 DEF Live, DeviceType, KernelType, bcacheVars, storageVars
<1>11. DriverInv'
  BY <1>2, <1>3, <1>6 DEF Live, DriverInv, InTransfer, BootLabels
<1>12. TransferInv'
  BY <1>2, <1>3, <1>6, <1>7 DEF Live, TransferInv, InTransfer
<1>13. CallInv'
  BY <1>2, <1>3, <1>5 DEF Live, CallInv, Place, bcacheVars, storageVars,
                          HoldStages, ReadStages, ReadLabels
<1> QED
  BY <1>5, <1>9, <1>10, <1>11, <1>12, <1>13 DEF StaysLive, Live


(* A data command that the card accepts is for the sector of the job. *)
LEMMA DataCommandIs ==
  ASSUME Live, pc \notin BootLabels, NEW ok \in BOOLEAN, NEW ph, NEW latch,
         DataCommand(job.sector, ok, ph, latch)
  PROVE  /\ CardSector(Address(job.sector)) = job.sector
         /\ UNCHANGED sectors
         /\ ok => /\ job.sector \in PhysSectors
                  /\ card' = [card EXCEPT !.phase = ph, !.latch = latch,
                                          !.sector = job.sector]
<1>1. job.sector \in Nat /\ is_standard_sd \in BOOLEAN
      /\ (is_standard_sd <=> card.kind = "SDSC")
  BY DEF Live, KernelType, JobType, DeviceType, DriverInv
<1>2. CardSector(Address(job.sector)) = job.sector
  BY <1>1, AddressRoundTrip
<1> QED
  BY <1>2 DEF DataCommand

LEMMA ReadSectorCommandLive ==
  ASSUME Live, ~Halted, ReadSectorCommand(me),
         UNCHANGED <<bcacheVars, storageVars>>
  PROVE  StaysLive
<1>1. pc = "rd_cmd" /\ pc \notin BootLabels
  BY DEF ReadSectorCommand, At, BootLabels
<1>2. PICK ok \in BOOLEAN :
        /\ DataCommand(job.sector, ok, "sending",
             sectors[IF ok THEN CardSector(Address(job.sector)) ELSE 0])
        /\ IF ok
           THEN /\ Goto("rd_token")
                /\ sdcard_lock' = sem_wait(sdcard_lock, me)
           ELSE Halted'
  BY DEF ReadSectorCommand, Panic, Halted
<1>3. /\ spi0' = AfterPolledReceive(1)
      /\ UNCHANGED <<chen, bounce, tx_fifo, is_standard_sd, job, answer>>
  BY DEF ReadSectorCommand, dmacVars
<1>4. 0 \notin chen
  BY <1>1 DEF Live, DriverInv
<1>5. CASE ~ok
  BY <1>2, <1>3, <1>4, <1>5 DEF StaysLive
<1>6. CASE ok
  <2>1. /\ job.sector \in PhysSectors /\ UNCHANGED sectors
        /\ card' = [card EXCEPT !.phase = "sending",
                      !.latch = sectors[job.sector], !.sector = job.sector]
    BY <1>1, <1>2, <1>6, DataCommandIs
  <2>2. pc' = "rd_token" /\ UNCHANGED panicked
    BY <1>2, <1>6 DEF Goto
  <2>3. /\ card' \in CardType /\ card'.kind = card.kind
        /\ card'.phase = "sending" /\ card'.latch = sectors[job.sector]
    <3>1. sectors[job.sector] \in Contents /\ job.sector \in Nat
          /\ card \in CardType
      BY <2>1, SectorNumbers DEF Live, DeviceType
    <3> QED
      BY <2>1, <3>1 DEF CardType
  <2>4. /\ sdcard_lock' \in SemType /\ sdcard_lock'.value = 0
    <3>1. sdcard_lock \in SemType /\ sdcard_lock.value = 1
          /\ me \in Tasks \cup {NOBODY}
      BY <1>1 DEF Live, DeviceType, KernelType, DriverInv, InTransfer,
                  BootLabels
    <3> QED
      BY <1>2, <1>6, <3>1, WaitAndSignal
  <2>5. spi0' \in SpiType /\ spi0'.ssienr = 0
    BY <1>3, SpiOff DEF Live, DeviceType
  <2>6. ~Halted' /\ Stage' = Stage
    BY <1>1, <1>3, <2>2 DEF Halted, Stage, ReadLabels
  <2>7. DeviceType' /\ KernelType'
    BY <1>3, <2>1, <2>3, <2>4, <2>5 DEF Live, DeviceType, KernelType,
                                        bcacheVars, storageVars
  <2>8. DriverInv'
    BY <1>1, <1>3, <1>4, <2>2, <2>3, <2>4, <2>5
    DEF Live, DriverInv, InTransfer, BootLabels
  <2>9. TransferInv'
    BY <1>3, <2>1, <2>2, <2>3 DEF TransferInv, InTransfer
  <2>10. CallInv'
    BY <1>1, <1>3, <2>2, <2>6 DEF Live, CallInv, Place, bcacheVars,
       storageVars, ReadLabels, WriteLabels, HoldStages, ReadStages
  <2> QED
    BY <2>1, <2>6, <2>7, <2>8, <2>9, <2>10, FrameStep DEF StaysLive, Live
<1> QED
  BY <1>5, <1>6

LEMMA ReadSectorTokenLive ==
  ASSUME Live, ~Halted, ReadSectorToken, UNCHANGED <<bcacheVars, storageVars>>
  PROVE  StaysLive
<1>1. /\ pc = "rd_token" /\ 0 \notin chen /\ tx_fifo = Free
      /\ spi0 \in SpiType
  BY DEF ReadSectorToken, At, Live, DriverInv, DeviceType
<1>2. UNCHANGED <<card, sectors, is_standard_sd, sdcard_lock, job, answer>>
  BY DEF ReadSectorToken, cardVars
<1>3. CASE Halted'
  <2>1. Panic("timeout_reading") /\ UNCHANGED chen
    BY <1>3 DEF ReadSectorToken, Goto, Panic, Halted, dmacVars
  <2> QED
    BY <1>1, <1>3, <2>1 DEF StaysLive
<1>4. CASE ~Halted'
  <2>1. StartReceive(0, BSIZE) /\ Goto("rd_dma")
    BY <1>4 DEF ReadSectorToken, Panic, Halted, DMAC_CHANNEL0
  <2>2. /\ spi0' \in SpiType /\ spi0'.tmod = "RECV" /\ bounce' = Junk
        /\ chen' = chen \cup {0} /\ UNCHANGED tx_fifo
    BY <1>1, <2>1, SpiStarts
  <2>3. pc' = "rd_dma"
    BY <2>1 DEF Goto
  <2>4. Junk \in Contents /\ Junk # Free
    BY StorageAssumption DEF Contents
  <2>5. Stage' = Stage
    BY <1>1, <1>2, <2>3 DEF Stage, ReadLabels
  <2>6. DeviceType' /\ KernelType'
    BY <1>2, <2>2, <2>4 DEF Live, DeviceType, KernelType, bcacheVars,
                            storageVars
  <2>7. DriverInv'
    BY <1>1, <1>2, <2>2, <2>3 DEF Live, DriverInv, InTransfer, BootLabels
  <2>8. TransferInv'
    BY <1>1, <1>2, <2>2, <2>3, <2>4 DEF Live, TransferInv, InTransfer
  <2>9. CallInv'
    BY <1>1, <1>2, <2>3, <2>5 DEF Live, CallInv, Place, bcacheVars,
       storageVars, ReadLabels, WriteLabels, HoldStages, ReadStages
  <2> QED
    BY <1>2, <1>4, <2>5, <2>6, <2>7, <2>8, <2>9, FrameStep
    DEF StaysLive, Live
<1> QED
  BY <1>3, <1>4

(* What the job reads is what the caller finds in `answer'. *)
LEMMA ReadSectorDoneLive ==
  ASSUME Live, ~Halted, ReadSectorDone, UNCHANGED <<bcacheVars, storageVars>>
  PROVE  StaysLive
<1>1. /\ pc = "rd_dma" /\ 0 \notin chen
      /\ answer' = bounce /\ bounce' = Free /\ spi0' = AfterPolledSend
      /\ card' = [card EXCEPT !.phase = "ready", !.latch = Junk, !.sector = 0]
      /\ sdcard_lock' = sem_signal(sdcard_lock)
      /\ pc' = job.ret /\ job' = NoJob
      /\ UNCHANGED <<panicked, chen, tx_fifo, sectors, is_standard_sd>>
  BY DEF ReadSectorDone, At, dmac_is_idle, DMAC_CHANNEL0, Return, Goto, dmacVars
<1>2. /\ answer' = sectors[job.sector] /\ job.sector \in PhysSectors
      /\ answer' \in Contents
  BY <1>1 DEF Live, TransferInv, InTransfer, DeviceType
<1>3. /\ job.ret \in ReadStages \cup {"disk_init_1", "disk_init_0"}
      /\ job.ret = "disk_init_0" => job.sector = 0
      /\ job.ret \in ReadStages => ~buf[held].valid /\ job.sector = Place(held)
  BY <1>1 DEF Live, CallInv, ReadLabels
<1>4. /\ pc' \notin ReadLabels /\ pc' \notin WriteLabels
      /\ pc' \notin BootLabels /\ pc' \in Stages
      /\ pc' \in HoldStages => pc' \in ReadStages
  BY <1>1, <1>3 DEF ReadLabels, WriteLabels, ReadStages, HoldStages, BootLabels,
                    Stages, ColdStages
<1>5. ~Halted' /\ Stage' = Stage
  BY <1>1, <1>4 DEF Halted, Stage, ReadLabels
<1>6. /\ card' \in CardType /\ card'.kind = card.kind /\ card'.phase = "ready"
  <2>1. card \in CardType /\ Junk \in Contents
    BY DEF Live, DeviceType, Contents
  <2> QED
    BY <1>1, <2>1 DEF CardType
<1>7. sdcard_lock' \in SemType /\ sdcard_lock'.value = 1
  <2>1. sdcard_lock \in SemType /\ sdcard_lock.value = 0
        /\ me \in Tasks \cup {NOBODY}
    BY <1>1 DEF Live, DeviceType, KernelType, DriverInv, InTransfer, BootLabels
  <2> QED
    BY <1>1, <2>1, WaitAndSignal
<1>8. spi0' \in SpiType /\ spi0'.ssienr = 0
  BY <1>1, SpiOff DEF Live, DeviceType
<1>9. NoJob \in JobType
  BY DEF NoJob, JobType
<1>10. DeviceType' /\ KernelType'
  BY <1>1, <1>2, <1>6, <1>7, <1>8, <1>9
  DEF Live, DeviceType, KernelType, bcacheVars, storageVars
<1>11. ~InTransfer' /\ tx_fifo = Free
  BY <1>1, <1>3 DEF InTransfer, ReadStages, Live, DriverInv
<1>12. DriverInv'
  <2>1. /\ pc' \notin {"rd_token", "rd_dma", "wr_dma", "wr_busy", "CMD16"}
    BY <1>1, <1>3 DEF ReadStages
  <2>2. is_standard_sd <=> card.kind = "SDSC"
    BY <1>1 DEF Live, DriverInv, BootLabels
  <2> QED
    BY <1>1, <1>6, <1>7, <1>8, <1>11, <2>1, <2>2 DEF DriverInv
<1>13. TransferInv'
  BY <1>11 DEF TransferInv, InTransfer
<1>14. CallInv'
  BY <1>1, <1>2, <1>3, <1>4, <1>5 DEF CallInv, Live, Place, bcacheVars,
     storageVars
<1> QED
  BY <1>1, <1>5, <1>10, <1>12, <1>13, <1>14, FrameStep DEF StaysLive, Live


LEMMA WriteSectorCommandLive ==
  ASSUME Live, ~Halted, WriteSectorCommand(me),
         UNCHANGED <<bcacheVars, storageVars>>
  PROVE  StaysLive
<1>1. pc = "wr_cmd" /\ pc \notin BootLabels
  BY DEF WriteSectorCommand, At, BootLabels
<1>2. PICK ok \in BOOLEAN :
        /\ DataCommand(job.sector, ok, "receiving", Junk)
        /\ IF ok
           THEN /\ StartSend(0, job.data, BSIZE)
                /\ Goto("wr_dma")
                /\ sdcard_lock' = sem_wait(sdcard_lock, me)
           ELSE Halted' /\ UNCHANGED chen
  BY DEF WriteSectorCommand, Panic, Halted, dmacVars, DMAC_CHANNEL0
<1>3. UNCHANGED <<is_standard_sd, job, answer>>
  BY DEF WriteSectorCommand
<1>4. 0 \notin chen /\ tx_fifo = Free
  BY <1>1 DEF Live, DriverInv
<1>5. CASE ~ok
  BY <1>2, <1>4, <1>5 DEF StaysLive
<1>6. CASE ok
  <2>1. /\ job.sector \in PhysSectors /\ UNCHANGED sectors
        /\ card' = [card EXCEPT !.phase = "receiving", !.latch = Junk,
                                !.sector = job.sector]
    BY <1>1, <1>2, <1>6, DataCommandIs
  <2>2. pc' = "wr_dma" /\ UNCHANGED panicked
    BY <1>2, <1>6 DEF Goto
  <2>3. /\ card' \in CardType /\ card'.kind = card.kind
        /\ card'.phase = "receiving" /\ card'.sector = job.sector
    <3>1. Junk \in Contents /\ job.sector \in Nat /\ card \in CardType
      BY <2>1, SectorNumbers DEF Live, DeviceType, Contents
    <3> QED
      BY <2>1, <3>1 DEF CardType
  <2>4. /\ sdcard_lock' \in SemType /\ sdcard_lock'.value = 0
    <3>1. sdcard_lock \in SemType /\ sdcard_lock.value = 1
          /\ me \in Tasks \cup {NOBODY}
      BY <1>1 DEF Live, DeviceType, KernelType, DriverInv, InTransfer,
                  BootLabels
    <3> QED
      BY <1>2, <1>6, <3>1, WaitAndSignal
  <2>5. /\ spi0' \in SpiType /\ spi0'.tmod = "TRANS" /\ bounce' = job.data
        /\ chen' = chen \cup {0} /\ UNCHANGED tx_fifo
    <3>1. spi0 \in SpiType
      BY DEF Live, DeviceType
    <3> QED
      BY <1>2, <1>6, <3>1, SpiStarts
  <2>6. ~Halted' /\ Stage' = Stage
    BY <1>1, <1>3, <2>2 DEF Halted, Stage, WriteLabels
  <2>7. job.data \in Contents
    BY <1>1 DEF Live, CallInv, WriteLabels, Contents
  <2>8. DeviceType' /\ KernelType'
    BY <1>3, <2>1, <2>3, <2>4, <2>5, <2>7
    DEF Live, DeviceType, KernelType, bcacheVars, storageVars
  <2>9. DriverInv'
    BY <1>1, <1>3, <1>4, <2>2, <2>3, <2>4, <2>5
    DEF Live, DriverInv, InTransfer, BootLabels
  <2>10. TransferInv'
    BY <1>3, <2>1, <2>2, <2>3, <2>5 DEF TransferInv, InTransfer
  <2>11. CallInv'
    BY <1>1, <1>3, <2>2, <2>6 DEF Live, CallInv, Place, bcacheVars,
       storageVars, ReadLabels, WriteLabels, HoldStages, ReadStages
  <2> QED
    BY <2>1, <2>6, <2>8, <2>9, <2>10, <2>11, FrameStep DEF StaysLive, Live
<1> QED
  BY <1>5, <1>6

LEMMA WriteSectorDoneLive ==
  ASSUME Live, ~Halted, WriteSectorDone, UNCHANGED <<bcacheVars, storageVars>>
  PROVE  StaysLive
<1>1. /\ pc = "wr_dma" /\ 0 \notin chen /\ tx_fifo = Free
      /\ bounce' = Free /\ spi0' = AfterPolledReceive(1)
      /\ UNCHANGED <<chen, tx_fifo, sectors, is_standard_sd, job, answer>>
  BY DEF WriteSectorDone, At, dmac_is_idle, DMAC_CHANNEL0, SpiDrained, dmacVars
<1>2. CASE Halted'
  BY <1>1, <1>2 DEF StaysLive
<1>3. CASE ~Halted'
  <2>1. /\ card' = [card EXCEPT !.phase = "busy"] /\ pc' = "wr_busy"
        /\ UNCHANGED <<sdcard_lock, panicked>>
    BY <1>3 DEF WriteSectorDone, Goto, Panic, Halted
  <2>2. /\ card' \in CardType /\ card'.kind = card.kind
        /\ card'.phase = "busy" /\ card'.sector = card.sector
        /\ card'.latch = card.latch
    BY <2>1 DEF Live, DeviceType, CardType
  <2>3. /\ job.data \in Values /\ card.latch = job.data
        /\ card.sector = job.sector
    <3>1. job.data \in Values /\ card.phase = "receiving"
      BY <1>1 DEF Live, CallInv, DriverInv, WriteLabels
    <3>2. job.data # Free
      BY <3>1, StorageAssumption DEF Contents
    <3> QED
      BY <1>1, <3>1, <3>2 DEF Live, TransferInv
  <2>4. spi0' \in SpiType /\ spi0'.ssienr = 0
    BY <1>1, SpiOff DEF Live, DeviceType
  <2>5. Stage' = Stage
    BY <1>1, <2>1 DEF Stage, WriteLabels
  <2>6. DeviceType' /\ KernelType'
    BY <1>1, <2>1, <2>2, <2>4
    DEF Live, DeviceType, KernelType, bcacheVars, storageVars
  <2>7. DriverInv'
    BY <1>1, <2>1, <2>2, <2>4 DEF Live, DriverInv, InTransfer, BootLabels
  <2>8. TransferInv'
    BY <1>1, <2>1, <2>2, <2>3 DEF Live, TransferInv, InTransfer
  <2>9. CallInv'
    BY <1>1, <2>1, <2>5 DEF Live, CallInv, Place, bcacheVars,
       storageVars, ReadLabels, WriteLabels, HoldStages, ReadStages
  <2> QED
    BY <1>1, <1>3, <2>5, <2>6, <2>7, <2>8, <2>9, FrameStep
    DEF StaysLive, Live
<1> QED
  BY <1>2, <1>3

LEMMA WriteSectorBusyLive ==
  ASSUME Live, ~Halted, WriteSectorBusy, UNCHANGED <<bcacheVars, storageVars>>
  PROVE  StaysLive
<1>1. /\ pc = "wr_busy" /\ 0 \notin chen
      /\ UNCHANGED <<chen, bounce, tx_fifo, card, sectors, is_standard_sd, job,
                     answer>>
  BY DEF WriteSectorBusy, At, dmacVars, cardVars, Live, DriverInv
<1>2. CASE Halted'
  BY <1>1, <1>2 DEF StaysLive
<1>3. CASE ~Halted'
  <2>1. /\ card.phase # "busy" /\ pc' = "CMD13" /\ spi0' = AfterPolledSend
        /\ UNCHANGED <<sdcard_lock, panicked>>
    BY <1>3 DEF WriteSectorBusy, StillBusy, Goto, Panic, Halted
  <2>2. card.phase = "ready"
    BY <1>1, <2>1 DEF Live, DriverInv
  <2>3. spi0' \in SpiType /\ spi0'.ssienr = 0
    BY <2>1, SpiOff DEF Live, DeviceType
  <2>4. Stage' = Stage
    BY <1>1, <2>1 DEF Stage, WriteLabels
  <2>5. DeviceType' /\ KernelType'
    BY <1>1, <2>1, <2>3
    DEF Live, DeviceType, KernelType, bcacheVars, storageVars
  <2>6. DriverInv'
    BY <1>1, <2>1, <2>2, <2>3 DEF Live, DriverInv, InTransfer, BootLabels
  <2>7. TransferInv'
    BY <1>1, <2>1, <2>2 DEF Live, TransferInv, InTransfer
  <2>8. CallInv'
    BY <1>1, <2>1, <2>4 DEF Live, CallInv, Place, bcacheVars,
       storageVars, ReadLabels, WriteLabels, HoldStages, ReadStages
  <2> QED
    BY <1>1, <1>3, <2>4, <2>5, <2>6, <2>7, <2>8, FrameStep
    DEF StaysLive, Live
<1> QED
  BY <1>2, <1>3

(* A write that returns is on the card. *)
LEMMA WriteSectorStatusLive ==
  ASSUME Live, ~Halted, WriteSectorStatus,
         UNCHANGED <<bcacheVars, storageVars>>
  PROVE  StaysLive
<1>1. /\ pc = "CMD13" /\ 0 \notin chen /\ tx_fifo = Free
      /\ sdcard_lock' = sem_signal(sdcard_lock)
      /\ spi0' = AfterPolledSend
      /\ UNCHANGED <<chen, bounce, tx_fifo, card, sectors, is_standard_sd,
                     answer>>
  BY DEF WriteSectorStatus, At, dmacVars, cardVars, Live, DriverInv
<1>2. CASE Halted'
  BY <1>1, <1>2 DEF StaysLive
<1>3. CASE ~Halted'
  <2>1. /\ ~card.failed /\ pc' = job.ret /\ job' = NoJob
        /\ UNCHANGED panicked
    BY <1>3 DEF WriteSectorStatus, StatusGood, Return, Goto, Panic, Halted
  <2>2. /\ job.ret = "release" /\ job.sector = Place(held)
        /\ buf[held].valid /\ buf[held].data = job.data
    BY <1>1 DEF Live, CallInv, WriteLabels
  <2>3. /\ job.sector \in PhysSectors /\ sectors[job.sector] = job.data
    BY <1>1, <2>1 DEF Live, TransferInv, DriverInv, InTransfer
  <2>4. /\ pc' = "release" /\ Stage = "release" /\ Stage' = Stage
    BY <1>1, <2>1, <2>2 DEF Stage, WriteLabels, ReadLabels
  <2>5. sdcard_lock' \in SemType /\ sdcard_lock'.value = 1
    <3>1. sdcard_lock \in SemType /\ sdcard_lock.value = 0
          /\ me \in Tasks \cup {NOBODY}
      BY <1>1 DEF Live, DeviceType, KernelType, DriverInv, InTransfer,
                  BootLabels
    <3> QED
      BY <1>1, <3>1, WaitAndSignal
  <2>6. spi0' \in SpiType /\ spi0'.ssienr = 0
    BY <1>1, SpiOff DEF Live, DeviceType
  <2>7. NoJob \in JobType
    BY DEF NoJob, JobType
  <2>8. DeviceType' /\ KernelType'
    BY <1>1, <2>1, <2>5, <2>6, <2>7
    DEF Live, DeviceType, KernelType, bcacheVars, storageVars
  <2>9. DriverInv'
    BY <1>1, <2>4, <2>5, <2>6 DEF Live, DriverInv, InTransfer, BootLabels
  <2>10. TransferInv'
    BY <2>4 DEF TransferInv, InTransfer
  <2>11. CallInv'
    BY <1>1, <2>2, <2>3, <2>4 DEF CallInv, Live, Place, bcacheVars,
       storageVars, ReadLabels, WriteLabels, Stages, HoldStages
  <2> QED
    BY <1>1, <1>3, <2>4, <2>8, <2>9, <2>10, <2>11, FrameStep
    DEF StaysLive, Live
<1> QED
  BY <1>2, <1>3

LEMMA TransferLive ==
  ASSUME Live, ~Halted, Transfer(me) \/ Hardware,
         UNCHANGED <<bcacheVars, storageVars>>
  PROVE  StaysLive
BY ReadSectorCommandLive, ReadSectorTokenLive, ReadSectorDoneLive,
   WriteSectorCommandLive, WriteSectorDoneLive, WriteSectorBusyLive,
   WriteSectorStatusLive, DmaReceiveLive, DmaSendLive, ShiftOutLive,
   CardProgramLive DEF Transfer, Hardware


-----------------------------------------------------------------------------
(* The kernel above the driver: the devices stand still.                   *)

LEMMA QuietStep ==
  ASSUME Live, UNCHANGED quiet, pc \notin BootLabels, pc' \notin BootLabels,
         ~InTransfer, ~InTransfer'
  PROVE  DeviceType' /\ DriverInv' /\ TransferInv' /\ 0 \notin chen'
<1>1. UNCHANGED <<spi0, bounce, tx_fifo, chen, card, sectors, is_standard_sd,
                  sdcard_lock>>
  BY DEF quiet, hwVars, cardVars, dmacVars, spiVars
<1>2. DeviceType'
  BY <1>1 DEF Live, DeviceType
<1>3. /\ pc \notin {"rd_token", "rd_dma", "wr_dma", "wr_busy"}
      /\ pc' \notin {"rd_token", "rd_dma", "wr_dma", "wr_busy"}
      /\ pc' # "CMD16"
  BY DEF InTransfer, BootLabels
<1>4. 0 \notin chen' /\ tx_fifo = Free /\ spi0.ssienr = 0
      /\ card.phase = "ready"
  BY <1>1, <1>3 DEF Live, DriverInv
<1>5. DriverInv'
  BY <1>1, <1>3, <1>4 DEF Live, DriverInv
<1>6. TransferInv'
  BY <1>3 DEF TransferInv, InTransfer
<1> QED
  BY <1>2, <1>4, <1>5, <1>6

(* Before binit there is nothing in the cache, wherever the volume is. *)
LEMMA ColdStep ==
  ASSUME Live, Stage \in ColdStages, Stage' \in ColdStages,
         UNCHANGED <<bcacheVars, held, me, sectors, volume>>,
         volume = VolumeStart => DBRsec' \in {DBRsec, VolumeStart}
  PROVE  HoldInv' /\ CopyInv' /\ VolumeInv'
<1>1. /\ Stage \notin HoldStages /\ Stage' \notin HoldStages
      /\ Stage \notin FoundStages /\ Stage' \notin FoundStages
      /\ Stage' # "fat32_init_boot"
  BY DEF ColdStages, BootLabels, HoldStages, ReadStages, FoundStages
<1>2. lru = <<>> /\ held = Free
  BY <1>1 DEF Live, HoldInv
<1>3. HoldInv'
  BY <1>1, <1>2 DEF HoldInv, bcacheVars
<1>4. CopyInv'
  <2>1. \A b \in Bufs : ~buf[b].valid /\ b # held
    BY <1>2, StorageAssumption DEF Live, CopyInv
  <2> QED
    BY <1>2, <2>1 DEF CopyInv, bcacheVars
<1>5. VolumeInv'
  BY <1>1 DEF Live, VolumeInv, AtBootSector
<1> QED
  BY <1>3, <1>4, <1>5

LEMMA DiskInitLive ==
  ASSUME Live, ~Halted, DiskInit
  PROVE  StaysLive
<1>1. /\ pc = "disk_init" /\ pc' = "rd_cmd"
      /\ job' = [op |-> "read", sector |-> 1, data |-> Free,
                 ret |-> "disk_init_1"]
      /\ UNCHANGED <<panicked, answer, bcacheVars, storageVars, quiet>>
  BY DEF DiskInit, At, CallRead, Goto
<1>2. DeviceType' /\ DriverInv' /\ TransferInv' /\ 0 \notin chen'
  BY <1>1, QuietStep DEF BootLabels, InTransfer
<1>3. /\ job' \in JobType /\ job'.ret = "disk_init_1"
  BY <1>1 DEF JobType, Stages, ColdStages
<1>4. KernelType'
  BY <1>1, <1>3 DEF Live, KernelType, bcacheVars, storageVars
<1>5. Stage \in ColdStages /\ Stage' \in ColdStages
  BY <1>1, <1>3 DEF Stage, ReadLabels, WriteLabels, ColdStages
<1>6. CallInv'
  BY <1>1, <1>3, <1>5 DEF CallInv, Stages, ReadLabels, WriteLabels, ReadStages,
                          HoldStages
<1>7. HoldInv' /\ CopyInv' /\ VolumeInv'
  BY <1>1, <1>5, ColdStep DEF storageVars, quiet, cardVars
<1> QED
  BY <1>2, <1>4, <1>6, <1>7 DEF StaysLive, Live

LEMMA FindVolumeLive ==
  ASSUME Live, ~Halted, FindVolume
  PROVE  StaysLive
<1>1. /\ pc = "disk_init_1"
      /\ UNCHANGED <<panicked, answer, bcacheVars, storageVars, quiet>>
  BY DEF FindVolume, At, CallRead, Goto
<1>2. \/ /\ pc' = "rd_cmd"
         /\ job' = [op |-> "read", sector |-> 0, data |-> Free,
                    ret |-> "disk_init_0"]
      \/ pc' = "binit" /\ job' = job
  BY DEF FindVolume, CallRead, Goto
<1>3. DeviceType' /\ DriverInv' /\ TransferInv' /\ 0 \notin chen'
  BY <1>1, <1>2, QuietStep DEF BootLabels, InTransfer
<1>4. /\ job' \in JobType
      /\ pc' = "rd_cmd" => job'.ret = "disk_init_0" /\ job'.sector = 0
  BY <1>2 DEF Live, KernelType, JobType, Stages, ColdStages
<1>5. KernelType'
  BY <1>1, <1>4 DEF Live, KernelType, bcacheVars, storageVars
<1>6. Stage \in ColdStages /\ Stage' \in ColdStages
  BY <1>1, <1>2, <1>4 DEF Stage, ReadLabels, WriteLabels, ColdStages
<1>7. CallInv'
  BY <1>1, <1>2, <1>4, <1>6 DEF CallInv, Stages, ReadLabels, WriteLabels,
                                ReadStages, HoldStages
<1>8. HoldInv' /\ CopyInv' /\ VolumeInv'
  BY <1>1, <1>6, ColdStep DEF storageVars, quiet, cardVars
<1> QED
  BY <1>3, <1>5, <1>7, <1>8 DEF StaysLive, Live

LEMMA ReadPartitionLive ==
  ASSUME Live, ~Halted, ReadPartition
  PROVE  StaysLive
<1>1. /\ pc = "disk_init_0" /\ pc' = "binit"
      /\ DBRsec' = answer.lba /\ answer' = Junk
      /\ UNCHANGED <<panicked, job, bcacheVars, volume, held, me, quiet>>
  BY DEF ReadPartition, At, Goto
<1>2. DeviceType' /\ DriverInv' /\ TransferInv' /\ 0 \notin chen'
  BY <1>1, QuietStep DEF BootLabels, InTransfer
<1>3. Stage \in ColdStages /\ Stage' \in ColdStages /\ Stage = pc
  BY <1>1 DEF Stage, ReadLabels, WriteLabels, ColdStages
<1>4. answer.lba \in Nat /\ (volume = VolumeStart => answer.lba = VolumeStart)
  <2>1. Stage \notin FoundStages
    BY <1>1, <1>3 DEF FoundStages
  <2>2. answer = sectors[0] /\ 0 \in PhysSectors
    BY <1>1 DEF Live, CallInv
  <2>3. answer \in Boots \cup {Mbr(VolumeStart)}
    BY <2>1, <2>2 DEF Live, VolumeInv
  <2>4. VolumeStart \in Nat /\ \A l \in StrayLbas \cup {0} : l \in Nat
    BY StorageAssumption
  <2>5. volume = VolumeStart => answer \notin Boots
    <3>1. 0 - VolumeStart \notin BootSectors
      BY StorageAssumption DEF BootSectors
    <3> QED
      BY <2>1, <2>2, <3>1 DEF Live, VolumeInv
  <2>6. answer.lba \in Nat
    BY <2>3, <2>4 DEF Boots, Boot, Mbr
  <2>7. volume = VolumeStart => answer.lba = VolumeStart
    BY <2>3, <2>5 DEF Mbr
  <2> QED
    BY <2>6, <2>7
<1>5. KernelType'
  BY <1>1, <1>4 DEF Live, KernelType, bcacheVars, Contents
<1>6. CallInv'
  BY <1>1, <1>3 DEF CallInv, Stages, ReadLabels, WriteLabels, ReadStages,
                    HoldStages
<1>7. HoldInv' /\ CopyInv' /\ VolumeInv'
  BY <1>1, <1>3, <1>4, ColdStep DEF quiet, cardVars
<1> QED
  BY <1>2, <1>5, <1>6, <1>7 DEF StaysLive, Live

LEMMA BinitLive ==
  ASSUME Live, ~Halted, Binit
  PROVE  StaysLive
<1>1. /\ pc = "binit" /\ pc' = "fat32_init" /\ answer' = Junk
      /\ lru' = [i \in Bufs |-> NBUF + 1 - i]
      /\ buf' = [b \in Bufs |-> [sectorno |-> NoSector, valid |-> FALSE,
                                 refcnt |-> 0,
                                 lock |-> [value |-> 1, pid |-> NOBODY],
                                 data |-> Junk]]
      /\ UNCHANGED <<panicked, job, storageVars, quiet>>
  BY DEF Binit, binit, At, Goto, sem_init
<1>2. DeviceType' /\ DriverInv' /\ TransferInv' /\ 0 \notin chen'
  BY <1>1, QuietStep DEF BootLabels, InTransfer
<1>3. /\ Stage = "binit" /\ Stage' = "fat32_init"
      /\ Stage \notin HoldStages /\ Stage' \notin HoldStages
      /\ Stage' \notin ColdStages
      /\ Stage \notin FoundStages /\ Stage' \notin FoundStages
  BY <1>1 DEF Stage, ReadLabels, WriteLabels, ColdStages, BootLabels,
              HoldStages, ReadStages, FoundStages
<1>4. held = Free
  BY <1>3 DEF Live, HoldInv
<1>5. /\ lru' \in Seq(Bufs) /\ Len(lru') = NBUF /\ NBUF \in Nat /\ NBUF >= 1
      /\ \A i \in 1..NBUF : lru'[i] = NBUF + 1 - i
  <2>1. NBUF \in Nat /\ NBUF >= 1
    BY NbufAssumption
  <2>2. \A i \in 1..NBUF : NBUF + 1 - i \in 1..NBUF
    BY <2>1
  <2> QED
    BY <1>1, <2>1, <2>2 DEF Bufs
<1>6. /\ buf' \in [Bufs -> BufType]
      /\ \A b \in Bufs : /\ buf'[b].sectorno = NoSector /\ ~buf'[b].valid
                         /\ buf'[b].refcnt = 0 /\ buf'[b].lock.value = 1
  BY <1>1 DEF BufType, SemType, Contents
<1>7. KernelType'
  BY <1>1, <1>5, <1>6 DEF Live, KernelType, storageVars, Contents
<1>8. CallInv'
  BY <1>1, <1>3 DEF CallInv, Stages, ReadLabels, WriteLabels, ReadStages,
                    HoldStages
<1>9. lru' # <<>>
  BY <1>5
<1>10. \A b \in Bufs : \E i \in 1..Len(lru') : lru'[i] = b
  <2> TAKE b \in Bufs
  <2>1. NBUF + 1 - b \in 1..NBUF /\ NBUF + 1 - (NBUF + 1 - b) = b
    BY <1>5 DEF Bufs
  <2> QED
    BY <1>5, <2>1
<1>11. held' = Free /\ \A b \in Bufs : b # held'
  BY <1>1, <1>4, StorageAssumption DEF storageVars
<1>12. \A b \in Bufs : Counted(b)'
  BY <1>6, <1>11 DEF Counted
<1>13. HoldInv'
  BY <1>3, <1>9, <1>10, <1>11, <1>12 DEF HoldInv
<1>14. CopyInv'
  BY <1>6, <1>11 DEF CopyInv
<1>15. VolumeInv'
  BY <1>1, <1>3 DEF Live, VolumeInv, AtBootSector, quiet, cardVars, storageVars
<1> QED
  BY <1>2, <1>7, <1>8, <1>13, <1>14, <1>15 DEF StaysLive, Live


(* bget always finds a buffer when none is held, and what it returns for s *)
(* stands for s and for nothing else.                                      *)
LEMMA BgetFinds ==
  ASSUME Live, held = Free, lru # <<>>, NEW s \in VolSectors
  PROVE  /\ bget(s) # {}
         /\ \A b \in bget(s) :
              /\ b \in Bufs
              /\ Hits(s) # {} => buf[b].sectorno = s
              /\ Hits(s) = {} => \A c \in Bufs : buf[c].sectorno # s
<1>1. /\ lru \in Seq(Bufs) /\ Len(lru) \in Nat /\ Len(lru) >= 1
      /\ \A i \in 1..Len(lru) : lru[i] \in Bufs
  BY DEF Live, KernelType
<1>2. CASE Hits(s) # {}
  <2>1. Min(Hits(s)) \in Hits(s)
    <3>1. Hits(s) \subseteq Nat
      BY DEF Hits
    <3> QED
      BY <1>2, <3>1, MinProperty
  <2>2. lru[Min(Hits(s))] \in Bufs /\ buf[lru[Min(Hits(s))]].sectorno = s
    BY <1>1, <2>1 DEF Hits
  <2>3. bget(s) = {lru[Min(Hits(s))]}
    BY <1>2 DEF bget
  <2> QED
    BY <1>2, <2>2, <2>3
<1>3. CASE Hits(s) = {}
  <2>1. \A c \in Bufs : buf[c].sectorno # s
    <3> SUFFICES ASSUME NEW c \in Bufs, buf[c].sectorno = s PROVE FALSE
      OBVIOUS
    <3>1. PICK i \in 1..Len(lru) : lru[i] = c
      BY DEF Live, HoldInv
    <3> QED
      BY <1>3, <3>1 DEF Hits
  <2>2. 1 \in Unreferenced
    <3>1. 1 \in 1..Len(lru) /\ lru[1] \in Bufs
      BY <1>1
    <3>2. buf[lru[1]].refcnt = 0
      BY <3>1, StorageAssumption DEF Live, HoldInv, Counted
    <3> QED
      BY <3>1, <3>2 DEF Unreferenced
  <2>3. Max(Unreferenced) \in Unreferenced
    <3>1. Unreferenced \subseteq 1..Len(lru)
      BY DEF Unreferenced
    <3> QED
      BY <1>1, <2>2, <3>1, MaxProperty
  <2>4. lru[Max(Unreferenced)] \in Bufs
    BY <1>1, <2>3 DEF Unreferenced
  <2>5. bget(s) = {lru[Max(Unreferenced)]}
    BY <1>3, <2>2 DEF bget
  <2> QED
    BY <1>3, <2>1, <2>4, <2>5
<1> QED
  BY <1>2, <1>3

(* What bget makes of the buffer it returns. *)
LEMMA GotIs ==
  ASSUME Live, held = Free, lru # <<>>, NEW s \in VolSectors,
         NEW t \in Tasks \cup {NOBODY}, NEW b \in bget(s)
  PROVE  /\ Got(b, s, t) \in [Bufs -> BufType]
         /\ \A c \in Bufs : c # b => Got(b, s, t)[c] = buf[c]
         /\ Got(b, s, t)[b].sectorno = s
         /\ Got(b, s, t)[b].valid => /\ buf[b].valid /\ buf[b].sectorno = s
                                     /\ Got(b, s, t)[b].data = buf[b].data
         /\ Got(b, s, t)[b].refcnt = 1 /\ Got(b, s, t)[b].lock.value = 0
         /\ t = NOBODY \/ Got(b, s, t)[b].lock.pid = t
<1>1. b \in Bufs /\ (Hits(s) # {} => buf[b].sectorno = s)
  BY BgetFinds
<1>2. buf \in [Bufs -> BufType]
  BY DEF Live, KernelType
<1>3. buf[b].lock \in SemType /\ buf[b] \in BufType
  BY <1>1, <1>2 DEF BufType
<1>4. buf[b].refcnt = 0 /\ buf[b].lock.value = 1
  BY <1>1, StorageAssumption DEF Live, HoldInv, Counted
<1> DEFINE w == sem_wait(buf[b].lock, t)
<1>5. w \in SemType /\ w.value = 0 /\ (t = NOBODY \/ w.pid = t)
  BY <1>3, <1>4, WaitAndSignal
<1>6. CASE Hits(s) # {}
  <2> DEFINE x == [buf[b] EXCEPT !.refcnt = buf[b].refcnt + 1, !.lock = w]
  <2>1. Got(b, s, t) = [buf EXCEPT ![b] = x]
    BY <1>6, Zenon DEF Got
  <2> DEFINE n == buf[b].refcnt + 1
  <2>2. n = 1 /\ n \in Nat
    BY <1>4
  <2> HIDE DEF w, n
  <2>3. /\ x \in BufType /\ x.sectorno = buf[b].sectorno
        /\ x.valid = buf[b].valid /\ x.data = buf[b].data
        /\ x.refcnt = 1 /\ x.lock = w
    BY <1>3, <1>5, <2>2 DEF BufType, n
  <2> HIDE DEF x
  <2> QED
    BY <1>1, <1>2, <1>5, <1>6, <2>1, <2>3
<1>7. CASE Hits(s) = {}
  <2> DEFINE x == [buf[b] EXCEPT !.sectorno = s, !.valid = FALSE, !.refcnt = 1,
                                 !.lock = w]
  <2>1. Got(b, s, t) = [buf EXCEPT ![b] = x]
    BY <1>7, Zenon DEF Got
  <2> HIDE DEF w
  <2>2. /\ x \in BufType /\ x.sectorno = s /\ x.valid = FALSE
        /\ x.refcnt = 1 /\ x.lock = w
    BY <1>3, <1>5 DEF BufType
  <2> HIDE DEF x
  <2> QED
    BY <1>1, <1>2, <1>5, <1>7, <2>1, <2>2
<1> QED
  BY <1>6, <1>7

LEMMA BreadLive ==
  ASSUME Live, ~Halted, NEW s \in VolSectors, NEW t \in Tasks \cup {NOBODY},
         NEW ret, Bread(s, t, ret),
         \/ pc = "fat32_init" /\ ret = "fat32_init_boot" /\ s = 0
         \/ pc = "fat32_init_2" /\ ret = "fat32_init_info"
         \/ pc = "run" /\ ret = "use"
  PROVE  StaysLive
<1>1. /\ Stage = pc /\ Stage \notin HoldStages /\ Stage \notin ColdStages
      /\ ret \in FoundStages <=> Stage \in FoundStages
      /\ pc \notin BootLabels /\ ~InTransfer
  BY DEF Stage, ReadLabels, WriteLabels, HoldStages, ReadStages, ColdStages,
         BootLabels, FoundStages, InTransfer
<1>2. held = Free /\ lru # <<>> /\ \A b \in Bufs : b # held
  BY <1>1, StorageAssumption DEF Live, HoldInv
<1>3. PICK b \in bget(s) :
        /\ buf' = Got(b, s, t) /\ held' = b /\ me' = t
        /\ IF Got(b, s, t)[b].valid
           THEN Goto(ret) /\ UNCHANGED job
           ELSE CallRead(s + DBRsec, ret)
        /\ UNCHANGED <<lru, quiet, answer, DBRsec, volume>>
  BY <1>2, BgetFinds DEF Bread
<1>4. /\ b \in Bufs
      /\ Hits(s) # {} => buf[b].sectorno = s
      /\ Hits(s) = {} => \A c \in Bufs : buf[c].sectorno # s
  BY <1>2, BgetFinds
<1>5. /\ buf' \in [Bufs -> BufType]
      /\ \A c \in Bufs : c # b => buf'[c] = buf[c]
      /\ buf'[b].sectorno = s
      /\ buf'[b].valid => /\ buf[b].valid /\ buf[b].sectorno = s
                          /\ buf'[b].data = buf[b].data
      /\ buf'[b].refcnt = 1 /\ buf'[b].lock.value = 0
      /\ t = NOBODY \/ buf'[b].lock.pid = t
  BY <1>2, <1>3, GotIs
<1>6. /\ s \in Nat /\ DBRsec \in Nat /\ s + DBRsec \in Nat
      /\ Place(b)' = s + DBRsec
  BY <1>3, <1>5, SectorNumbers DEF Live, KernelType, Place
<1>7. \/ /\ buf'[b].valid /\ pc' = ret /\ job' = job /\ UNCHANGED panicked
      \/ /\ ~buf'[b].valid /\ pc' = "rd_cmd" /\ UNCHANGED panicked
         /\ job' = [op |-> "read", sector |-> s + DBRsec, data |-> Free,
                    ret |-> ret]
  BY <1>3 DEF Goto, CallRead
<1>8. /\ job' \in JobType
      /\ pc' = "rd_cmd" => job'.ret = ret /\ job'.sector = s + DBRsec
  <2>1. ret \in Stages
    BY DEF Stages, HoldStages, ReadStages
  <2>2. job \in JobType
    BY DEF Live, KernelType
  <2>3. CASE job' = job /\ pc' = ret
    BY <2>2, <2>3
  <2>4. CASE job' = [op |-> "read", sector |-> s + DBRsec, data |-> Free,
                     ret |-> ret]
    <3> DEFINE n == s + DBRsec
    <3>1. n \in Nat
      BY <1>6
    <3> HIDE DEF n
    <3>2. job' = [op |-> "read", sector |-> n, data |-> Free, ret |-> ret]
      BY <2>4 DEF n
    <3>3. job' \in JobType /\ job'.ret = ret /\ job'.sector = n
      BY <2>1, <3>1, <3>2 DEF JobType
    <3> QED
      BY <3>3 DEF n
  <2> QED
    BY <1>7, <2>3, <2>4
<1>9. /\ Stage' = ret /\ ret \in ReadStages /\ ret \in HoldStages
      /\ ret \notin ColdStages /\ ret \in Stages
      /\ pc' \notin BootLabels /\ ~InTransfer' /\ pc' \notin WriteLabels
      /\ pc' \in {ret, "rd_cmd"} /\ pc' # "disk_init_0"
      /\ "rd_cmd" \notin HoldStages
  BY <1>7, <1>8 DEF Stage, ReadLabels, WriteLabels, HoldStages, ReadStages,
                    ColdStages, BootLabels, InTransfer, Stages
<1>10. DeviceType' /\ DriverInv' /\ TransferInv' /\ 0 \notin chen'
  BY <1>1, <1>3, <1>9, QuietStep
<1>11. KernelType'
  BY <1>3, <1>4, <1>5, <1>8 DEF Live, KernelType
<1>12. UNCHANGED sectors
  BY <1>3 DEF quiet, cardVars
<1>13. buf'[b].valid => /\ Place(b)' = Place(b) /\ Place(b) \in PhysSectors
                        /\ buf[b].data = sectors[Place(b)]
  <2>1. buf'[b].valid => Place(b)' = Place(b)
    BY <1>3, <1>5 DEF Place
  <2>2. buf[b].valid => /\ Place(b) \in PhysSectors
                        /\ buf[b].data = sectors[Place(b)]
    BY <1>2, <1>4 DEF Live, CopyInv
  <2> QED
    BY <1>5, <2>1, <2>2
<1>14. CallInv'
  <2>1. pc' = "rd_cmd" => ~buf'[b].valid /\ job'.sector = Place(b)'
    BY <1>6, <1>7, <1>8, <1>9 DEF HoldStages
  <2>2. pc' # "rd_cmd" => buf'[b].valid /\ pc' \notin ReadLabels
    BY <1>7, <1>9 DEF ReadLabels, ReadStages
  <2>3. Place(held)' = Place(b)'
    BY <1>3 DEF Place
  <2>4. pc' \in ReadLabels =>
          /\ job'.ret \in ReadStages \cup {"disk_init_1", "disk_init_0"}
          /\ job'.ret = "disk_init_0" => job'.sector = 0
          /\ ~buf'[held'].valid /\ job'.sector = Place(held)'
    BY <1>3, <1>8, <1>9, <2>1, <2>2, <2>3 DEF ReadStages
  <2>5. pc' \in HoldStages =>
          /\ buf'[held'].valid
          /\ Place(held)' \in PhysSectors
          /\ buf'[held'].data = sectors'[Place(held)']
    BY <1>3, <1>5, <1>9, <1>12, <1>13, <2>2, <2>3
  <2> QED
    BY <1>9, <2>4, <2>5 DEF CallInv
<1>15. HoldInv'
  <2>1. held' # Free /\ lru' = lru
    BY <1>2, <1>3, <1>4
  <2>2. \A c \in Bufs : Counted(c)'
    <3> TAKE c \in Bufs
    <3>1. CASE c = b
      BY <1>3, <1>5, <3>1 DEF Counted
    <3>2. CASE c # b
      BY <1>2, <1>3, <1>5, <3>2 DEF Live, HoldInv, Counted
    <3> QED
      BY <3>1, <3>2
  <2>3. \A c \in Bufs : \E i \in 1..Len(lru') : lru'[i] = c
    BY <1>2, <2>1 DEF Live, HoldInv
  <2> QED
    BY <1>2, <1>3, <1>5, <1>9, <2>1, <2>2, <2>3 DEF HoldInv
<1>16. CopyInv'
  <2>1. \A c \in Bufs : c # b => Place(c)' = Place(c) /\ buf'[c] = buf[c]
    BY <1>3, <1>5 DEF Place
  <2>2. s # NoSector
    BY SectorNumbers
  <2>3. \A c \in Bufs : c # b => buf[c].sectorno # s
    BY <1>2, <1>4, <2>2 DEF Live, CopyInv
  <2>4. \A c, d \in Bufs : c # d /\ buf'[c].sectorno = buf'[d].sectorno =>
            buf'[c].sectorno = NoSector
    <3> SUFFICES ASSUME NEW c \in Bufs, NEW d \in Bufs, c # d,
                        buf'[c].sectorno = buf'[d].sectorno
                 PROVE  buf'[c].sectorno = NoSector
      OBVIOUS
    <3>1. c # b /\ d # b
      BY <1>5, <2>1, <2>3
    <3> QED
      BY <1>2, <2>1, <3>1 DEF Live, CopyInv
  <2>5. \A c \in Bufs : c = held' \/ buf'[c].valid =>
            buf'[c].sectorno # NoSector
    BY <1>3, <1>5, <2>1, <2>2 DEF Live, CopyInv
  <2>6. \A c \in Bufs :
            buf'[c].valid => lru' # <<>> /\ Place(c)' \in PhysSectors
    BY <1>2, <1>3, <1>13, <2>1 DEF Live, CopyInv
  <2>7. \A c \in Bufs : c # held' /\ buf'[c].valid =>
            buf'[c].data = sectors'[Place(c)']
    BY <1>2, <1>3, <1>12, <2>1 DEF Live, CopyInv
  <2> QED
    BY <2>4, <2>5, <2>6, <2>7 DEF CopyInv
<1>17. VolumeInv'
  <2>1. Stage' = "fat32_init_boot" => buf'[held'].sectorno = 0
    BY <1>3, <1>5, <1>9
  <2>2. Stage' \in FoundStages <=> Stage \in FoundStages
    BY <1>1, <1>9
  <2> QED
    BY <1>3, <1>12, <2>1, <2>2 DEF Live, VolumeInv, AtBootSector
<1>18. ~Halted'
  BY <1>7 DEF Halted
<1> QED
  BY <1>10, <1>11, <1>14, <1>15, <1>16, <1>17, <1>18 DEF StaysLive, Live


(* The holder's brelse finds the semaphore as its sem_wait left it. *)
LEMMA HolderHolds ==
  ASSUME Live, Stage \in HoldStages
  PROVE  /\ held \in Bufs /\ sem_hold(buf[held].lock, me)
         /\ buf[held].refcnt = 1 /\ buf[held].lock.value = 0
<1>1. held \in Bufs /\ lru # <<>> /\ held # Free
  BY HeldIs DEF Live, HoldInv
<1>2. buf[held].refcnt = 1 /\ buf[held].lock.value = 0
  BY <1>1 DEF Live, HoldInv, Counted
<1>3. me = NOBODY \/ buf[held].lock.pid = me
  BY <1>1 DEF Live, HoldInv
<1> QED
  BY <1>1, <1>2, <1>3 DEF sem_hold

LEMMA ReleasedIs ==
  ASSUME Live, Stage \in HoldStages, brelse(held)
  PROVE  /\ buf' \in [Bufs -> BufType]
         /\ \A c \in Bufs : c # held => buf'[c] = buf[c]
         /\ buf'[held].sectorno = buf[held].sectorno
         /\ buf'[held].valid = buf[held].valid
         /\ buf'[held].data = buf[held].data
         /\ buf'[held].refcnt = 0 /\ buf'[held].lock.value = 1
         /\ lru' = ToFront(held)
<1>1. held \in Bufs /\ buf[held].refcnt = 1 /\ buf[held].lock.value = 0
  BY HolderHolds
<1>2. buf \in [Bufs -> BufType] /\ buf[held] \in BufType
      /\ buf[held].lock \in SemType /\ me \in Tasks \cup {NOBODY}
  BY <1>1 DEF Live, KernelType, BufType
<1> DEFINE n == buf[held].refcnt - 1
           w == sem_signal(buf[held].lock)
           x == [buf[held] EXCEPT !.refcnt = n, !.lock = w]
<1>3. buf' = [buf EXCEPT ![held] = x] /\ lru' = ToFront(held)
  BY <1>1, <1>2, Zenon DEF brelse
<1>4. n = 0 /\ n \in Nat
  BY <1>1
<1>5. w \in SemType /\ w.value = 1
  BY <1>1, <1>2, WaitAndSignal
<1> HIDE DEF n, w
<1>6. /\ x \in BufType /\ x.sectorno = buf[held].sectorno
      /\ x.valid = buf[held].valid /\ x.data = buf[held].data
      /\ x.refcnt = 0 /\ x.lock = w
  BY <1>2, <1>4, <1>5 DEF BufType
<1> HIDE DEF x
<1> QED
  BY <1>1, <1>2, <1>3, <1>5, <1>6

LEMMA BrelseLive ==
  ASSUME Live, ~Halted, NEW ret, Brelse(ret),
         \/ pc = "fat32_init_release" /\ ret = "fat32_init_2"
         \/ pc = "release" /\ ret = "run"
  PROVE  StaysLive
<1>1. /\ Stage = pc /\ Stage \in HoldStages /\ pc \in HoldStages
      /\ pc \notin ReadStages /\ Stage \in FoundStages /\ ret \in FoundStages
      /\ pc \notin BootLabels /\ ~InTransfer
  BY DEF Stage, ReadLabels, WriteLabels, HoldStages, ReadStages,
         BootLabels, FoundStages, InTransfer
<1>2. /\ brelse(held) /\ held' = Free /\ me' = NOBODY /\ pc' = ret
      /\ UNCHANGED <<panicked, quiet, answer, job, DBRsec, volume>>
  BY <1>1, HolderHolds DEF Brelse, Goto
<1>3. /\ held \in Bufs /\ lru # <<>> /\ buf[held].sectorno \in VolSectors
  BY <1>1, HeldIs
<1>4. /\ buf' \in [Bufs -> BufType]
      /\ \A c \in Bufs : c # held => buf'[c] = buf[c]
      /\ buf'[held].sectorno = buf[held].sectorno
      /\ buf'[held].valid = buf[held].valid
      /\ buf'[held].data = buf[held].data
      /\ buf'[held].refcnt = 0 /\ buf'[held].lock.value = 1
      /\ lru' = ToFront(held)
  BY <1>1, <1>2, ReleasedIs
<1>5. /\ lru' \in Seq(Bufs) /\ lru' # <<>>
      /\ \A c \in Bufs : \E i \in 1..Len(lru') : lru'[i] = c
  <2>1. lru \in Seq(Bufs) /\ \A c \in Bufs : \E i \in 1..Len(lru) : lru[i] = c
    BY <1>3 DEF Live, KernelType, HoldInv
  <2> QED
    BY <1>3, <1>4, <2>1, ToFrontKeeps
<1>6. /\ Stage' = pc' /\ Stage' \notin HoldStages /\ Stage' \notin ColdStages
      /\ Stage' \in FoundStages /\ Stage' \in Stages
      /\ Stage' # "fat32_init_boot" /\ pc' # "disk_init_0"
      /\ pc' \notin ReadLabels /\ pc' \notin WriteLabels
      /\ pc' \notin BootLabels /\ ~InTransfer'
  BY <1>2 DEF Stage, ReadLabels, WriteLabels, HoldStages, ReadStages,
              ColdStages, BootLabels, FoundStages, InTransfer, Stages
<1>7. DeviceType' /\ DriverInv' /\ TransferInv' /\ 0 \notin chen'
  BY <1>1, <1>2, <1>6, QuietStep
<1>8. KernelType'
  BY <1>2, <1>4, <1>5 DEF Live, KernelType
<1>9. CallInv'
  BY <1>6 DEF CallInv
<1>10. \A c \in Bufs : c # held'
  BY <1>2, StorageAssumption
<1>11. HoldInv'
  <2>1. \A c \in Bufs : Counted(c)'
    <3> TAKE c \in Bufs
    <3>1. CASE c = held
      BY <1>4, <1>10, <3>1 DEF Counted
    <3>2. CASE c # held
      BY <1>3, <1>4, <1>10, <3>2 DEF Live, HoldInv, Counted
    <3> QED
      BY <3>1, <3>2
  <2> QED
    BY <1>2, <1>5, <1>6, <2>1 DEF HoldInv
<1>12. \A c \in Bufs : /\ Place(c)' = Place(c)
                       /\ buf'[c].sectorno = buf[c].sectorno
                       /\ buf'[c].valid = buf[c].valid
                       /\ buf'[c].data = buf[c].data
  BY <1>2, <1>4 DEF Place
<1>13. UNCHANGED sectors
  BY <1>2 DEF quiet, cardVars
<1>14. CopyInv'
  <2>1. buf[held].valid /\ buf[held].data = sectors[Place(held)]
        /\ Place(held) \in PhysSectors
    BY <1>1 DEF Live, CallInv
  <2>2. \A c \in Bufs : buf[c].valid =>
          buf[c].data = sectors[Place(c)] /\ Place(c) \in PhysSectors
    BY <2>1 DEF Live, CopyInv
  <2>3. \A c \in Bufs : c = held' \/ buf'[c].valid =>
            buf'[c].sectorno # NoSector
    BY <1>10, <1>12 DEF Live, CopyInv
  <2>4. \A c, d \in Bufs : c # d /\ buf'[c].sectorno = buf'[d].sectorno =>
            buf'[c].sectorno = NoSector
    BY <1>3, <1>12 DEF Live, CopyInv
  <2>5. \A c \in Bufs :
            buf'[c].valid => lru' # <<>> /\ Place(c)' \in PhysSectors
    BY <1>5, <1>12, <2>2
  <2>6. \A c \in Bufs : c # held' /\ buf'[c].valid =>
            buf'[c].data = sectors'[Place(c)']
    BY <1>12, <1>13, <2>2
  <2> QED
    BY <2>3, <2>4, <2>5, <2>6 DEF CopyInv
<1>15. VolumeInv'
  BY <1>1, <1>2, <1>6 DEF Live, VolumeInv, AtBootSector
<1>16. ~Halted'
  BY <1>2 DEF Halted
<1> QED
  BY <1>7, <1>8, <1>9, <1>11, <1>14, <1>15, <1>16 DEF StaysLive, Live


(* What bread hands to its caller: the sector, from memory or just read. *)
LEMMA FillIs ==
  ASSUME Live, pc \in ReadStages
  PROVE  /\ Stage = pc /\ held \in Bufs /\ lru # <<>>
         /\ Fill \in [Bufs -> BufType]
         /\ \A c \in Bufs : c # held => Fill[c] = buf[c]
         /\ Fill[held].sectorno = buf[held].sectorno
         /\ Fill[held].refcnt = buf[held].refcnt
         /\ Fill[held].lock = buf[held].lock
         /\ Fill[held].valid
         /\ Fill[held].data = sectors[Place(held)]
         /\ Place(held) \in PhysSectors
<1>1. Stage = pc /\ Stage \in HoldStages
  BY DEF Stage, ReadStages, HoldStages, ReadLabels, WriteLabels
<1>2. held \in Bufs /\ lru # <<>>
  BY <1>1, HeldIs
<1>3. /\ Place(held) \in PhysSectors
      /\ buf[held].valid => buf[held].data = sectors[Place(held)]
      /\ ~buf[held].valid => answer = sectors[Place(held)]
  BY <1>1 DEF Live, CallInv
<1>4. buf \in [Bufs -> BufType] /\ answer \in Contents
  BY DEF Live, KernelType
<1>5. CASE buf[held].valid
  <2>1. Fill = buf
    BY <1>5 DEF Fill
  <2> QED
    BY <1>1, <1>2, <1>3, <1>4, <1>5, <2>1
<1>6. CASE ~buf[held].valid
  <2> DEFINE x == [buf[held] EXCEPT !.data = answer, !.valid = TRUE]
  <2>1. Fill = [buf EXCEPT ![held] = x]
    BY <1>2, <1>4, <1>6, Zenon DEF Fill, Filled
  <2>2. buf[held] \in BufType
    BY <1>2, <1>4
  <2>3. /\ x \in BufType /\ x.sectorno = buf[held].sectorno /\ x.valid = TRUE
        /\ x.refcnt = buf[held].refcnt /\ x.lock = buf[held].lock
        /\ x.data = answer
    BY <1>4, <2>2 DEF BufType
  <2> HIDE DEF x
  <2> QED
    BY <1>1, <1>2, <1>3, <1>4, <1>6, <2>1, <2>3
<1> QED
  BY <1>5, <1>6

(* The caller of bread looks at the buffer, or changes it, and keeps it. *)
LEMMA UseStep ==
  ASSUME Live, pc \in ReadStages, UNCHANGED <<quiet, lru, storageVars>>,
         NEW d \in Contents, buf' = [Fill EXCEPT ![held].data = d],
         answer' = Junk, job' \in JobType,
         Stage' \in FoundStages \cap HoldStages, AtBootSector,
         \/ pc' \in HoldStages \ ReadStages /\ d = sectors[Place(held)]
         \/ /\ pc' = "wr_cmd" /\ job'.ret = "release" /\ job'.data = d
            /\ d \in Values /\ job'.sector = Place(held)
  PROVE  /\ DeviceType' /\ KernelType' /\ DriverInv' /\ TransferInv'
         /\ CallInv' /\ HoldInv' /\ CopyInv' /\ VolumeInv' /\ 0 \notin chen'
<1>1. /\ Stage = pc /\ held \in Bufs /\ lru # <<>>
      /\ Fill \in [Bufs -> BufType]
      /\ \A c \in Bufs : c # held => Fill[c] = buf[c]
      /\ Fill[held].sectorno = buf[held].sectorno
      /\ Fill[held].refcnt = buf[held].refcnt
      /\ Fill[held].lock = buf[held].lock
      /\ Fill[held].valid
      /\ Place(held) \in PhysSectors
  BY FillIs
<1>2. /\ buf' \in [Bufs -> BufType]
      /\ \A c \in Bufs : c # held => buf'[c] = buf[c]
      /\ buf'[held].sectorno = buf[held].sectorno
      /\ buf'[held].refcnt = buf[held].refcnt
      /\ buf'[held].lock = buf[held].lock
      /\ buf'[held].valid /\ buf'[held].data = d
  <2> DEFINE F == Fill
             x == [F[held] EXCEPT !.data = d]
  <2>1. buf' = [F EXCEPT ![held] = x]
    BY Zenon
  <2>2. F[held] \in BufType
    BY <1>1
  <2> HIDE DEF F
  <2>3. /\ x \in BufType /\ x.sectorno = F[held].sectorno
        /\ x.valid = F[held].valid
        /\ x.refcnt = F[held].refcnt /\ x.lock = F[held].lock /\ x.data = d
    BY <2>2 DEF BufType
  <2>4. /\ F \in [Bufs -> BufType] /\ held \in Bufs
        /\ \A c \in Bufs : c # held => F[c] = buf[c]
        /\ F[held].sectorno = buf[held].sectorno
        /\ F[held].refcnt = buf[held].refcnt
        /\ F[held].lock = buf[held].lock
        /\ F[held].valid
    BY <1>1 DEF F
  <2> HIDE DEF x
  <2> QED
    BY <2>1, <2>3, <2>4
<1>3. /\ Stage \in HoldStages /\ Stage \notin ColdStages
      /\ Stage' \in HoldStages /\ Stage' \notin ColdStages
      /\ Stage' \in FoundStages /\ Stage' # "fat32_init_boot"
      /\ Stage' \in Stages
      /\ pc \notin BootLabels /\ ~InTransfer
      /\ pc' \notin BootLabels /\ ~InTransfer' /\ pc' \notin ReadLabels
      /\ pc' # "disk_init_0"
  BY <1>1 DEF HoldStages, ReadStages, FoundStages, ColdStages, BootLabels,
              InTransfer, ReadLabels, Stages
<1>4. DeviceType' /\ DriverInv' /\ TransferInv' /\ 0 \notin chen'
  BY <1>3, QuietStep
<1>5. UNCHANGED <<sectors, held, me, DBRsec, volume>>
  BY DEF quiet, cardVars, storageVars
<1>6. KernelType'
  BY <1>2, <1>5 DEF Live, KernelType, Contents
<1>7. \A c \in Bufs : Place(c)' = Place(c)
  BY <1>1, <1>2, <1>5 DEF Place
<1>8. Place(held)' = Place(held)
  BY <1>1, <1>5, <1>7 DEF Place
<1>9. CallInv'
  <2>1. pc' \in WriteLabels => pc' = "wr_cmd"
    BY DEF WriteLabels, HoldStages, ReadStages
  <2>2. pc' = "wr_cmd" => pc' \notin HoldStages
    BY DEF HoldStages, ReadStages
  <2> QED
    BY <1>2, <1>3, <1>5, <1>8, <1>1, <2>1, <2>2 DEF CallInv
<1>10. HoldInv'
  <2>1. \A c \in Bufs : Counted(c)'
    BY <1>1, <1>2, <1>5 DEF Live, HoldInv, Counted
  <2> QED
    BY <1>1, <1>2, <1>3, <1>5, <2>1 DEF Live, HoldInv
<1>11. CopyInv'
  <2>1. \A c \in Bufs : c = held' \/ buf'[c].valid =>
            buf'[c].sectorno # NoSector
    BY <1>2, <1>5 DEF Live, CopyInv
  <2>2. \A c, e \in Bufs : c # e /\ buf'[c].sectorno = buf'[e].sectorno =>
            buf'[c].sectorno = NoSector
    <3>1. \A c \in Bufs : buf'[c].sectorno = buf[c].sectorno
      BY <1>1, <1>2
    <3> QED
      BY <1>1, <3>1 DEF Live, CopyInv
  <2>3. \A c \in Bufs :
            buf'[c].valid => lru' # <<>> /\ Place(c)' \in PhysSectors
    BY <1>1, <1>2, <1>7 DEF Live, CopyInv
  <2>4. \A c \in Bufs : c # held' /\ buf'[c].valid =>
            buf'[c].data = sectors'[Place(c)']
    BY <1>2, <1>5, <1>7 DEF Live, CopyInv
  <2> QED
    BY <2>1, <2>2, <2>3, <2>4 DEF CopyInv
<1>12. VolumeInv'
  BY <1>3, <1>5 DEF VolumeInv, AtBootSector
<1> QED
  BY <1>4, <1>6, <1>9, <1>10, <1>11, <1>12

LEMMA FillAsUse ==
  ASSUME Live, pc \in ReadStages
  PROVE  /\ Fill = [Fill EXCEPT ![held].data = sectors[Place(held)]]
         /\ sectors[Place(held)] \in Contents
<1>1. /\ held \in Bufs /\ Fill \in [Bufs -> BufType]
      /\ Fill[held].data = sectors[Place(held)] /\ Place(held) \in PhysSectors
  BY FillIs
<1>2. sectors[Place(held)] \in Contents
  BY <1>1 DEF Live, DeviceType
<1> DEFINE F == Fill
           d == sectors[Place(held)]
<1>3. F \in [Bufs -> BufType] /\ F[held].data = d /\ F[held] \in BufType
  BY <1>1
<1> HIDE DEF F, d
<1>4. [F[held] EXCEPT !.data = d] = F[held]
  BY <1>3 DEF BufType
<1>5. [F EXCEPT ![held] = F[held]] = F
  BY <1>1, <1>3
<1>6. [F EXCEPT ![held].data = d] = F
  BY <1>4, <1>5, Zenon
<1> QED
  BY <1>2, <1>6 DEF F, d

(* Only the boot sectors of the volume pass for one. *)
LEMMA CheckBootLive ==
  ASSUME Live, ~Halted, CheckBoot
  PROVE  StaysLive
<1>1. /\ pc = "fat32_init_boot" /\ pc \in ReadStages
      /\ answer' = Junk /\ UNCHANGED <<quiet, job, lru, storageVars>>
  BY DEF CheckBoot, At, ReadStages
<1>2. UNCHANGED chen /\ 0 \notin chen
  BY <1>1 DEF Live, DriverInv, quiet, hwVars, dmacVars
<1>3. CASE Halted'
  BY <1>2, <1>3 DEF StaysLive
<1>4. CASE ~Halted'
  <2>1. /\ IsFat32(HeldData) /\ buf' = Fill /\ pc' = "fat32_init_release"
    BY <1>4 DEF CheckBoot, Goto, Panic, Halted
  <2>2. /\ Stage = pc /\ Fill[held].data = sectors[Place(held)]
        /\ Place(held) \in PhysSectors
    BY <1>1, FillIs
  <2>3. sectors[Place(held)] \in Boots
    BY <2>1, <2>2 DEF IsFat32, HeldData, Boots
  <2>4. /\ Place(held) - volume \in BootSectors /\ buf[held].sectorno = 0
        /\ volume = VolumeStart => DBRsec \in {0, VolumeStart}
    BY <1>1, <2>2, <2>3 DEF Live, VolumeInv, FoundStages
  <2>5. AtBootSector
    <3>1. DBRsec - volume \in BootSectors
      BY <2>4 DEF Place, Live, KernelType
    <3>2. 0 - VolumeStart \notin BootSectors
      BY StorageAssumption DEF BootSectors
    <3> QED
      BY <2>4, <3>1, <3>2 DEF AtBootSector
  <2>6. Stage' \in FoundStages \cap HoldStages /\ pc' \in HoldStages \ ReadStages
    BY <2>1 DEF Stage, ReadLabels, WriteLabels, FoundStages, HoldStages,
                ReadStages
  <2>7. /\ Fill = [Fill EXCEPT ![held].data = sectors[Place(held)]]
        /\ sectors[Place(held)] \in Contents
    BY <1>1, FillAsUse
  <2>8. job' \in JobType
    BY <1>1 DEF Live, KernelType
  <2> QED
    BY <1>1, <1>4, <2>1, <2>5, <2>6, <2>7, <2>8, UseStep DEF StaysLive, Live
<1> QED
  BY <1>3, <1>4

LEMMA CheckInfoLive ==
  ASSUME Live, ~Halted, CheckInfo
  PROVE  StaysLive
<1>1. /\ pc = "fat32_init_info" /\ pc \in ReadStages
      /\ answer' = Junk /\ UNCHANGED <<quiet, job, lru, storageVars>>
  BY DEF CheckInfo, At, ReadStages
<1>2. UNCHANGED chen /\ 0 \notin chen
  BY <1>1 DEF Live, DriverInv, quiet, hwVars, dmacVars
<1>3. CASE Halted'
  BY <1>2, <1>3 DEF StaysLive
<1>4. CASE ~Halted'
  <2>1. buf' = Fill /\ pc' = "release"
    BY <1>4 DEF CheckInfo, Goto, Panic, Halted
  <2>2. Stage = pc
    BY <1>1, FillIs
  <2>3. AtBootSector
    BY <1>1, <2>2 DEF Live, VolumeInv, FoundStages
  <2>4. Stage' \in FoundStages \cap HoldStages /\ pc' \in HoldStages \ ReadStages
    BY <2>1 DEF Stage, ReadLabels, WriteLabels, FoundStages, HoldStages,
                ReadStages
  <2>5. /\ Fill = [Fill EXCEPT ![held].data = sectors[Place(held)]]
        /\ sectors[Place(held)] \in Contents
    BY <1>1, FillAsUse
  <2>6. job' \in JobType
    BY <1>1 DEF Live, KernelType
  <2> QED
    BY <1>1, <1>4, <2>1, <2>3, <2>4, <2>5, <2>6, UseStep DEF StaysLive, Live
<1> QED
  BY <1>3, <1>4

LEMMA CopyOutLive ==
  ASSUME Live, ~Halted, CopyOut
  PROVE  StaysLive
<1>1. /\ pc = "use" /\ pc \in ReadStages /\ pc' = "release" /\ buf' = Fill
      /\ answer' = Junk /\ UNCHANGED <<quiet, job, lru, storageVars, panicked>>
  BY DEF CopyOut, At, Goto, ReadStages
<1>2. Stage = pc
  BY <1>1, FillIs
<1>3. AtBootSector
  BY <1>1, <1>2 DEF Live, VolumeInv, FoundStages
<1>4. Stage' \in FoundStages \cap HoldStages /\ pc' \in HoldStages \ ReadStages
  BY <1>1 DEF Stage, ReadLabels, WriteLabels, FoundStages, HoldStages,
              ReadStages
<1>5. /\ Fill = [Fill EXCEPT ![held].data = sectors[Place(held)]]
      /\ sectors[Place(held)] \in Contents
  BY <1>1, FillAsUse
<1>6. job' \in JobType /\ ~Halted'
  BY <1>1 DEF Live, KernelType, Halted
<1> QED
  BY <1>1, <1>3, <1>4, <1>5, <1>6, UseStep DEF StaysLive, Live

LEMMA CopyInAndWriteLive ==
  ASSUME Live, ~Halted, CopyInAndWrite
  PROVE  StaysLive
<1>1. /\ pc = "use" /\ pc \in ReadStages
      /\ answer' = Junk /\ UNCHANGED <<quiet, lru, storageVars>>
  BY DEF CopyInAndWrite, At, ReadStages
<1>2. Stage = pc /\ held \in Bufs
  BY <1>1, FillIs
<1>3. sem_hold(buf[held].lock, me)
  BY <1>1, <1>2, HolderHolds DEF HoldStages
<1>4. PICK v \in Values :
        /\ buf' = [Fill EXCEPT ![held].data = v]
        /\ DiskWrite(buf[held].sectorno, v, "release")
  BY <1>3 DEF CopyInAndWrite
<1>5. /\ pc' = "wr_cmd" /\ UNCHANGED panicked
      /\ job' = [op |-> "write", sector |-> Place(held), data |-> v,
                 ret |-> "release"]
  BY <1>4, Zenon DEF DiskWrite, CallWrite, Goto, Place
<1>6. Place(held) \in Nat
  BY <1>1, <1>2, HeldIs DEF HoldStages
<1>7. /\ job' \in JobType /\ job'.ret = "release" /\ job'.data = v
      /\ job'.sector = Place(held)
  <2>1. "release" \in Stages
    BY DEF Stages, HoldStages
  <2> QED
    BY <1>5, <1>6, <2>1 DEF JobType
<1>8. AtBootSector
  BY <1>1, <1>2 DEF Live, VolumeInv, FoundStages
<1>9. Stage' \in FoundStages \cap HoldStages
  BY <1>5, <1>7 DEF Stage, ReadLabels, WriteLabels, FoundStages, HoldStages
<1>10. v \in Contents /\ ~Halted'
  BY <1>5 DEF Contents, Halted
<1> QED
  BY <1>1, <1>4, <1>5, <1>7, <1>8, <1>9, <1>10, UseStep DEF StaysLive, Live


-----------------------------------------------------------------------------
(* The invariant. *)

(* However the card was formatted, the boot sectors on it are the volume's. *)
LEMMA FormattedIs ==
  ASSUME NEW start \in {0, VolumeStart},
         NEW lba \in (IF start = 0 THEN StrayLbas ELSE {0})
  PROVE  /\ Formatted(start, lba) \in [PhysSectors -> Contents]
         /\ \A p \in PhysSectors :
              /\ Formatted(start, lba)[p] \in Boots => p - start \in BootSectors
              /\ p = 0 => Formatted(start, lba)[p] \in
                             Boots \cup {Mbr(VolumeStart)}
<1> DEFINE f == Formatted(start, lba)
           v == CHOOSE v \in Values : TRUE
           top == Max(PhysSectors)
<1>1. \A p \in PhysSectors : f[p] =
        IF p - start \in BootSectors THEN Boot(lba)
        ELSE IF p - start \in InfoSectors THEN FsInfo
        ELSE IF p - start \in DataSectors THEN v
        ELSE IF p = 0 THEN Mbr(start)
        ELSE IF p = top THEN FsInfo
        ELSE Junk
  BY DEF Formatted
<1>2. f = [p \in PhysSectors |-> f[p]]
  BY DEF Formatted
<1>3. v \in Values
  BY StorageAssumption
<1> HIDE DEF f, v, top
<1>4. Boot(lba) \in Boots /\ Boots \subseteq Contents /\ FsInfo \in Contents
      /\ Junk \in Contents /\ v \in Contents /\ Mbr(VolumeStart) \in Contents
  BY <1>3 DEF Boots, Contents
<1>5. /\ FsInfo \notin Boots /\ Mbr(VolumeStart) \notin Boots
  BY DEF FsInfo, Mbr, Boots, Boot
<1>6. v \notin Boots /\ Junk \notin Boots
  BY <1>3, StorageAssumption DEF Boots
<1>7. /\ VolumeStart \in Nat /\ VolumeStart # 0 /\ \A p \in PhysSectors : p \in Nat
      /\ \A p \in DataSectors \cup BootSectors \cup InfoSectors : p \in Nat
      /\ 0 \in BootSectors
  BY StorageAssumption DEF DataSectors, BootSectors, InfoSectors
<1>8. ASSUME NEW p \in PhysSectors
      PROVE  /\ f[p] \in Contents /\ (f[p] \in Boots => p - start \in BootSectors)
             /\ p = 0 => f[p] \in Boots \cup {Mbr(VolumeStart)}
  <2>1. CASE p - start \in BootSectors
    BY <1>1, <1>4, <2>1
  <2>2. CASE p - start \notin BootSectors /\ p # 0
    BY <1>1, <1>4, <1>5, <1>6, <2>2
  <2>3. CASE p - start \notin BootSectors /\ p = 0
    <3>1. start = VolumeStart
      BY <1>7, <2>3
    <3>2. p - start \notin DataSectors /\ p - start \notin InfoSectors
      BY <1>7, <2>3, <3>1
    <3>3. f[p] = Mbr(VolumeStart)
      BY <1>1, <2>3, <3>1, <3>2
    <3> QED
      BY <1>4, <1>5, <3>3
  <2> QED
    BY <2>1, <2>2, <2>3
<1>9. f \in [PhysSectors -> Contents]
  BY <1>2, <1>8
<1> QED
  BY <1>8, <1>9 DEF f

LEMMA StoreInvInit ==
  ASSUME Init
  PROVE  StoreInv
<1>1. /\ chen = {} /\ pc = "main" /\ ~Halted /\ lru = <<>> /\ held = Free
      /\ bounce = Free /\ tx_fifo = Free /\ me = NOBODY /\ DBRsec = 0
      /\ job = NoJob /\ answer = Junk
      /\ is_standard_sd = FALSE
      /\ sdcard_lock = [value |-> 0, pid |-> NOBODY]
      /\ volume \in {0, VolumeStart}
  BY DEF Init, Halted, sem_init
<1>2. spi0 \in SpiType /\ spi0.ssienr = 0
  BY DEF Init, SpiType, SPI_TMODS
<1>3. card \in CardType /\ card.phase = "ready"
  <2>1. PICK k \in {"SDHC", "SDSC"} :
          card = [kind |-> k, mode |-> "off", phase |-> "ready", sector |-> 0,
                  latch |-> Junk, failed |-> FALSE]
    BY DEF Init
  <2> QED
    BY <2>1 DEF CardType, Contents
<1>4. /\ sectors \in [PhysSectors -> Contents]
      /\ \A p \in PhysSectors :
            /\ sectors[p] \in Boots => p - volume \in BootSectors
            /\ p = 0 => sectors[p] \in Boots \cup {Mbr(VolumeStart)}
  <2>1. PICK lba \in (IF volume = 0 THEN StrayLbas ELSE {0}) :
          sectors = Formatted(volume, lba)
    BY DEF Init
  <2> QED
    BY <1>1, <2>1, FormattedIs
<1>5. /\ buf \in [Bufs -> BufType]
      /\ \A b \in Bufs : ~buf[b].valid
  <2>1. 0 \in VolSectors
    BY SectorNumbers
  <2> QED
    BY <2>1 DEF Init, sem_init, BufType, SemType, Contents
<1>6. NoJob \in JobType
  BY DEF NoJob, JobType
<1>7. volume \in Nat
  BY <1>1, StorageAssumption
<1>8. DeviceType
  BY <1>1, <1>2, <1>3, <1>4 DEF DeviceType, SemType
<1>9. KernelType
  BY <1>1, <1>5, <1>6, <1>7 DEF KernelType, Contents
<1>10. /\ Stage = "main" /\ Stage \in ColdStages /\ Stage \in Stages
       /\ Stage \notin HoldStages /\ Stage \notin FoundStages
       /\ pc \in BootLabels /\ ~InTransfer
       /\ pc \notin ReadLabels /\ pc \notin WriteLabels
  BY <1>1 DEF Stage, ColdStages, HoldStages, ReadStages, FoundStages, Stages,
              BootLabels, ReadLabels, WriteLabels, InTransfer
<1>11. DriverInv /\ TransferInv /\ CallInv
  BY <1>1, <1>2, <1>3, <1>10 DEF DriverInv, TransferInv, CallInv
<1>12. HoldInv
  BY <1>1, <1>10 DEF HoldInv
<1>13. CopyInv
  BY <1>1, <1>5, StorageAssumption DEF CopyInv
<1>14. VolumeInv
  BY <1>1, <1>4, <1>10 DEF VolumeInv
<1> QED
  BY <1>1, <1>8, <1>9, <1>11, <1>12, <1>13, <1>14 DEF StoreInv, Live

LEMMA MountLive ==
  ASSUME Live, ~Halted, Mount
  PROVE  StaysLive
<1>1. 0 \in VolSectors /\ 1 \in VolSectors /\ NOBODY \in Tasks \cup {NOBODY}
  BY SectorNumbers
<1>2. CASE MountBoot
  BY <1>1, <1>2, BreadLive DEF MountBoot, At
<1>3. CASE MountInfo
  BY <1>1, <1>3, BreadLive DEF MountInfo, At
<1>4. CASE ReleaseBoot
  BY <1>4, BrelseLive DEF ReleaseBoot, At
<1> QED
  BY <1>2, <1>3, <1>4, CheckBootLive, CheckInfoLive DEF Mount

LEMMA UseSectorLive ==
  ASSUME Live, ~Halted, UseSector
  PROVE  StaysLive
<1>1. PICK t \in Tasks, s \in DataSectors : Bread(s, t, "use")
  BY DEF UseSector
<1>2. pc = "run" /\ s \in VolSectors /\ t \in Tasks \cup {NOBODY}
  BY DEF UseSector, At, DataSectors
<1> QED
  BY <1>1, <1>2, BreadLive

LEMMA ReleaseLive ==
  ASSUME Live, ~Halted, Release
  PROVE  StaysLive
BY BrelseLive DEF Release, At

(* A kernel that has halted takes no step; the hardware comes to rest. *)
LEMMA HaltedStays ==
  ASSUME Halted, 0 \notin chen, Next
  PROVE  Halted' /\ 0 \notin chen'
<1>1. ~Kernel
  BY DEF Kernel, PowerUp, DmacInit, SdInit, SdLowlevelInit, SwitchToSpiMode,
     VerifyOperationCondition, ReadOCR, AppCommand, SetCapacity, CheckBlockSize,
     SetBlockSize, Transfer, ReadSectorCommand, ReadSectorToken, ReadSectorDone,
     WriteSectorCommand, WriteSectorDone, WriteSectorBusy, WriteSectorStatus,
     DiskInit, FindVolume, ReadPartition, Binit, Mount, MountBoot, CheckBoot,
     ReleaseBoot, MountInfo, CheckInfo, UseSector, CopyOut, CopyInAndWrite,
     Release, At
<1>2. Hardware
  BY <1>1 DEF Next
<1> QED
  BY <1>2 DEF Hardware, DmaReceive, DmaSend, ShiftOut, CardProgram, sdVars,
     hwVars, dmacVars, Halted

LEMMA StoreInvNext ==
  ASSUME StoreInv, [Next]_vars
  PROVE  StoreInv'
<1>1. CASE Halted /\ Next
  BY <1>1, HaltedStays DEF StoreInv
<1>2. CASE ~Halted /\ Next
  <2>1. Live
    BY <1>2 DEF StoreInv
  <2>2. StaysLive
    BY <1>2, <2>1, PowerUpLive, DmacInitLive, SdInitLive, TransferLive,
       DiskInitLive, FindVolumeLive, ReadPartitionLive, BinitLive, MountLive,
       UseSectorLive, CopyOutLive, CopyInAndWriteLive, ReleaseLive
    DEF Next, Kernel
  <2> QED
    BY <2>2 DEF StaysLive, StoreInv
<1>3. CASE UNCHANGED vars
  <2>1. /\ UNCHANGED <<chen, spi0, bounce, tx_fifo, card, sectors>>
        /\ UNCHANGED <<is_standard_sd, sdcard_lock, pc, job, answer, panicked>>
        /\ UNCHANGED <<buf, lru, DBRsec, volume, held, me>>
    BY <1>3 DEF vars, dmacVars, spiVars, cardVars, sdVars, bcacheVars,
                storageVars
  <2>2. DeviceType /\ KernelType => DeviceType' /\ KernelType'
    BY <2>1 DEF DeviceType, KernelType
  <2>3. DriverInv => DriverInv'
    BY <2>1 DEF DriverInv, InTransfer
  <2>4. TransferInv => TransferInv'
    BY <2>1 DEF TransferInv, InTransfer
  <2>5. CallInv => CallInv'
    BY <2>1 DEF CallInv, Stage, Place
  <2>6. HoldInv => HoldInv'
    BY <2>1 DEF HoldInv, Counted, Stage
  <2>7. CopyInv /\ VolumeInv => CopyInv' /\ VolumeInv'
    BY <2>1 DEF CopyInv, VolumeInv, AtBootSector, Stage, Place
  <2> QED
    BY <2>1, <2>2, <2>3, <2>4, <2>5, <2>6, <2>7 DEF StoreInv, Live, Halted
<1> QED
  BY <1>1, <1>2, <1>3

(* StoreInv holds in every state, for every card, volume, set of tasks and *)
(* number of buffers.                                                      *)
THEOREM StoreInvCorrect == Spec => []StoreInv
<1>1. Init => StoreInv
  BY StoreInvInit
<1>2. StoreInv /\ [Next]_vars => StoreInv'
  BY StoreInvNext
<1> QED
  BY <1>1, <1>2, PTL DEF Spec

(* The DMA engine only ever works on a heap block that is allocated: the   *)
(* waits of d_spi.c free it after the channel is idle, on every path.      *)
THEOREM DmaBlockLives == Spec => []DmaOnLiveBlock
<1>1. StoreInv => DmaOnLiveBlock
  <2> SUFFICES ASSUME StoreInv, 0 \in chen PROVE bounce # Free
    BY DEF DmaOnLiveBlock, DMAC_CHANNEL0
  <2>1. Live
    BY DEF StoreInv
  <2>2. pc \in {"rd_dma", "wr_dma"}
    BY <2>1 DEF Live, DriverInv
  <2>3. CASE pc = "rd_dma"
    BY <2>1, <2>3 DEF Live, TransferInv
  <2>4. CASE pc = "wr_dma"
    <3>1. job.data \in Values /\ bounce = job.data
      BY <2>1, <2>4 DEF Live, TransferInv, CallInv, WriteLabels
    <3> QED
      BY <3>1, StorageAssumption DEF Contents
  <2> QED
    BY <2>2, <2>3, <2>4
<1> QED
  BY <1>1, StoreInvCorrect, PTL

(* sd_send_cmd never meets a card that is still in a data phase or still   *)
(* programming.                                                            *)
THEOREM CardIsReady == Spec => []CommandsMeetReadyCard
<1>1. StoreInv => CommandsMeetReadyCard
  BY DEF StoreInv, Live, DriverInv, CommandsMeetReadyCard, CommandLabels
<1> QED
  BY <1>1, StoreInvCorrect, PTL

(* The value a sem_wait of the buffer cache or of the driver meets is      *)
(* never 0, so that the missing sleep in sem_wait is never missed.         *)
THEOREM SemaphoresAreExact == Spec => []SemaphoresExact
<1>1. StoreInv => SemaphoresExact
  <2> SUFFICES ASSUME StoreInv, ~Halted, lru # <<>>
               PROVE  /\ \A b \in Bufs : Counted(b)
                      /\ sdcard_lock.value = IF InTransfer THEN 0 ELSE 1
    BY DEF SemaphoresExact, Counted
  <2>1. Live
    BY DEF StoreInv
  <2>2. \A b \in Bufs : Counted(b)
    BY <2>1 DEF Live, HoldInv
  <2>3. Stage \notin ColdStages
    BY <2>1 DEF Live, HoldInv
  <2>4. pc \notin BootLabels
    BY <2>3 DEF Stage, ColdStages, BootLabels, ReadLabels, WriteLabels
  <2> QED
    BY <2>1, <2>2, <2>4 DEF Live, DriverInv
<1> QED
  BY <1>1, StoreInvCorrect, PTL

(* What bread returns from memory is what the card would deliver, and no   *)
(* sector has two buffers.                                                 *)
THEOREM CacheIsCoherent == Spec => []CacheCoherent
<1>1. StoreInv => CacheCoherent
  BY DEF StoreInv, Live, CopyInv, Place, CacheCoherent
<1> QED
  BY <1>1, StoreInvCorrect, PTL

(* Whatever disk_init's uninitialised bytes were, the file system is used  *)
(* from the volume's boot sector on a partitioned card, and from that or   *)
(* its copy on one without a partition table: fat32_init's checks keep it  *)
(* from every other place.                                                 *)
THEOREM BootSectorMounted == Spec => []MountedBootSector
<1>1. StoreInv => MountedBootSector
  BY DEF StoreInv, Live, VolumeInv, MountedBootSector, Stage, FoundStages,
         ReadLabels, WriteLabels
<1> QED
  BY <1>1, StoreInvCorrect, PTL

(* The panics of fs_buf.c: no free buffer, or a caller that does not hold  *)
(* the buffer it writes or releases.                                       *)
NoCachePanic == panicked \notin {"bget", "brelse", "bwrite"}

LEMMA NoCachePanicNext ==
  ASSUME StoreInv, NoCachePanic, [Next]_vars
  PROVE  NoCachePanic'
<1>1. CASE UNCHANGED panicked
  BY <1>1 DEF NoCachePanic
<1>2. CASE Halted
  <2>1. CASE Next
    <3>1. ~Kernel
      BY <1>2 DEF Kernel, PowerUp, DmacInit, SdInit, SdLowlevelInit,
         SwitchToSpiMode, VerifyOperationCondition, ReadOCR, AppCommand,
         SetCapacity, CheckBlockSize, SetBlockSize, Transfer,
         ReadSectorCommand, ReadSectorToken, ReadSectorDone,
         WriteSectorCommand, WriteSectorDone, WriteSectorBusy,
         WriteSectorStatus, DiskInit, FindVolume, ReadPartition, Binit, Mount,
         MountBoot, CheckBoot, ReleaseBoot, MountInfo, CheckInfo, UseSector,
         CopyOut, CopyInAndWrite, Release, At
    <3> QED
      BY <1>1, <2>1, <3>1 DEF Next, Hardware, DmaReceive, DmaSend, ShiftOut,
         CardProgram, sdVars
  <2>2. CASE UNCHANGED vars
    BY <1>1, <2>2 DEF vars, sdVars
  <2> QED
    BY <2>1, <2>2
<1>3. CASE ~Halted /\ Next
  <2>1. Live
    BY <1>3 DEF StoreInv
  <2>2. ASSUME NEW s \in VolSectors, NEW t, NEW ret, Bread(s, t, ret),
               pc \in {"fat32_init", "fat32_init_2", "run"}
        PROVE  NoCachePanic'
    <3>1. Stage \notin HoldStages /\ Stage \notin ColdStages
      BY <2>2 DEF Stage, ReadLabels, WriteLabels, HoldStages, ReadStages,
                  ColdStages, BootLabels
    <3>2. bget(s) # {}
      BY <2>1, <3>1, BgetFinds DEF Live, HoldInv
    <3> QED
      BY <1>1, <2>2, <3>2 DEF Bread, Goto, CallRead
  <2>3. ASSUME NEW ret, Brelse(ret), pc \in {"fat32_init_release", "release"}
        PROVE  NoCachePanic'
    <3>1. Stage \in HoldStages
      BY <2>3 DEF Stage, ReadLabels, WriteLabels, HoldStages, ReadStages
    <3> QED
      BY <1>1, <2>1, <2>3, <3>1, HolderHolds DEF Brelse, Goto
  <2>4. CASE CopyInAndWrite
    <3>1. Stage \in HoldStages
      BY <2>4 DEF CopyInAndWrite, At, Stage, ReadLabels, WriteLabels,
                  HoldStages, ReadStages
    <3>2. sem_hold(buf[held].lock, me)
      BY <2>1, <3>1, HolderHolds
    <3> QED
      BY <1>1, <2>4, <3>2 DEF CopyInAndWrite, DiskWrite, CallWrite, Goto
  <2>5. CASE Mount
    BY <1>1, <2>2, <2>3, <2>5, SectorNumbers
    DEF Mount, MountBoot, ReleaseBoot, MountInfo, CheckBoot, CheckInfo, At,
        Goto, Panic, NoCachePanic
  <2>6. CASE UseSector
    BY <2>2, <2>6 DEF UseSector, DataSectors, At
  <2>7. CASE Release
    BY <2>3, <2>7 DEF Release, At
  <2>8. CASE SdInit
    <3>1. CASE SdLowlevelInit
      BY <1>1, <3>1 DEF SdLowlevelInit, Goto, Panic, NoCachePanic
    <3>2. CASE SwitchToSpiMode
      BY <1>1, <3>2 DEF SwitchToSpiMode, Goto, Panic, NoCachePanic
    <3>3. CASE VerifyOperationCondition
      BY <1>1, <3>3 DEF VerifyOperationCondition, Goto, Panic, NoCachePanic
    <3>4. CASE ReadOCR
      BY <1>1, <3>4 DEF ReadOCR, Goto, Panic, NoCachePanic
    <3>5. CASE AppCommand
      BY <1>1, <3>5 DEF AppCommand, Goto, Panic, NoCachePanic
    <3>6. CASE SetCapacity
      BY <1>1, <3>6 DEF SetCapacity, Goto, Panic, NoCachePanic
    <3>7. CASE CheckBlockSize
      BY <1>1, <3>7 DEF CheckBlockSize, SdReady, Goto, Panic, NoCachePanic
    <3>8. CASE SetBlockSize
      BY <1>1, <3>8 DEF SetBlockSize, SdReady, Goto, Panic, NoCachePanic
    <3> QED
      BY <2>8, <3>1, <3>2, <3>3, <3>4, <3>5, <3>6, <3>7, <3>8 DEF SdInit
  <2>9. CASE Transfer(me)
    <3>1. CASE ReadSectorCommand(me)
      BY <1>1, <3>1 DEF ReadSectorCommand, Goto, Panic, NoCachePanic
    <3>2. CASE ReadSectorToken
      BY <1>1, <3>2 DEF ReadSectorToken, Goto, Panic, NoCachePanic
    <3>3. CASE ReadSectorDone
      BY <1>1, <3>3 DEF ReadSectorDone, Return, Goto, Panic, NoCachePanic
    <3>4. CASE WriteSectorCommand(me)
      BY <1>1, <3>4 DEF WriteSectorCommand, Goto, Panic, NoCachePanic
    <3>5. CASE WriteSectorDone
      BY <1>1, <3>5 DEF WriteSectorDone, Goto, Panic, NoCachePanic
    <3>6. CASE WriteSectorBusy
      BY <1>1, <3>6 DEF WriteSectorBusy, Goto, Panic, NoCachePanic
    <3>7. CASE WriteSectorStatus
      BY <1>1, <3>7 DEF WriteSectorStatus, Return, Goto, Panic, NoCachePanic
    <3> QED
      BY <2>9, <3>1, <3>2, <3>3, <3>4, <3>5, <3>6, <3>7 DEF Transfer
  <2>10. CASE PowerUp \/ DmacInit \/ DiskInit \/ FindVolume \/ ReadPartition
              \/ Binit \/ CopyOut
    BY <1>1, <2>10 DEF PowerUp, DmacInit, DiskInit, FindVolume, ReadPartition,
       Binit, CopyOut, Goto, CallRead
  <2>11. CASE Hardware
    BY <1>1, <2>11 DEF Hardware, DmaReceive, DmaSend, ShiftOut, CardProgram,
       sdVars
  <2> QED
    BY <1>3, <2>4, <2>5, <2>6, <2>7, <2>8, <2>9, <2>10, <2>11 DEF Next, Kernel
<1> QED
  BY <1>2, <1>3, <1>1 DEF vars, sdVars

(* bget always finds a buffer, and whoever writes or releases one holds    *)
(* its semaphore: the panics of the buffer cache are never reached.        *)
THEOREM CacheNeverPanics == Spec => []NoCachePanic
<1>1. Init => NoCachePanic
  BY DEF Init, NoCachePanic
<1>2. StoreInv /\ NoCachePanic /\ [Next]_vars => NoCachePanic'
  BY NoCachePanicNext
<1> QED
  BY <1>1, <1>2, StoreInvCorrect, PTL DEF Spec

-----------------------------------------------------------------------------
(***************************************************************************)
(* The pins.  Six rows of function_config are ever applied to a pad: those *)
(* of the card's lines and the one for an unused pad.                      *)
(***************************************************************************)
SdFunctions == {FUNC_SPI0_SCLK, FUNC_SPI0_D0, FUNC_SPI0_D1,
                FUNC_GPIOHS0 + 7, FUNC_SPI0_SS3}

(* What a pad may be set to: a record like the rows of function_config. *)
Bit == {0, 1}
PadType == [ch_sel : Nat, ds : Nat, oe_en : Bit, oe_inv : Bit, pu : Bit,
            pd : Bit, sl : Bit, ie_en : Bit, ie_inv : Bit, st : Bit]

(* A function has one row of the table, and this is it. *)
LEMMA RowSays ==
  ASSUME NEW first, NEW last, NEW config, NEW row \in Row(first, last, config)
  PROVE  row[1] \in first..last /\ row[2] = config
BY DEF Row

LEMMA RowHas ==
  ASSUME NEW first \in Int, NEW last \in Int, NEW config, NEW f \in first..last
  PROVE  <<f, config>> \in Row(first, last, config)
BY DEF Row

LEMMA RowsOfSd ==
  /\ <<4, SpiData>> \in Rows /\ <<5, SpiData>> \in Rows
  /\ <<15, Output>> \in Rows /\ <<17, Output>> \in Rows
  /\ <<31, Gpio>> \in Rows /\ <<120, Unused>> \in Rows
<1>1. <<4, SpiData>> \in Spi0Data /\ <<5, SpiData>> \in Spi0Data
  BY RowHas DEF Spi0Data
<1>2. <<15, Output>> \in Spi0Control /\ <<17, Output>> \in Spi0Control
  BY RowHas DEF Spi0Control
<1>3. <<31, Gpio>> \in GpioHs0to7
  BY RowHas DEF GpioHs0to7
<1>4. <<120, Unused>> \in Reserved
  BY RowHas DEF Reserved
<1> QED
  BY <1>1, <1>2, <1>3, <1>4 DEF Rows

LEMMA RowsUnique ==
  ASSUME NEW row \in Rows
  PROVE  /\ row[1] \in {4, 5} => row[2] = SpiData
         /\ row[1] \in {15, 17} => row[2] = Output
         /\ row[1] = 31 => row[2] = Gpio
         /\ row[1] = 120 => row[2] = Unused
BY RowSays
DEF Rows, Jtag, Spi0Data, Spi0Control, UartHs, GpioHs0to7,
    GpioHs8to15, GpioHs16to23, GpioHs24to31, Gpio0to7, Uarts,
    Spi1Data, Spi1Control, SpiSlave, I2s0, I2s1, I2s1Out,
    I2s2, Reserved, I2cBus, CmosControl, CmosData, SccbBus,
    Uart1Modem, Uart2Modem, Uart2Out, Uart3Modem, Uart3Out,
    Timers0and1, Timers1and2, Internal1to8, Internal9to14,
    Internal15to18, Debug0to7, Debug8to15, Debug16to23, Debug24to31

LEMMA ConfigIs ==
  ASSUME NEW f \in 0..255, NEW c, <<f, c>> \in Rows,
         \A row \in Rows : row[1] = f => row[2] = c
  PROVE  function_config[f] = [c EXCEPT !.ch_sel = f]
<1> DEFINE r == CHOOSE row \in Rows : row[1] = f
<1>1. r \in Rows /\ r[1] = f
  <2>1. \E row \in Rows : row[1] = f
    OBVIOUS
  <2> QED
    BY <2>1
<1>2. r[2] = c
  BY <1>1
<1>3. f \in 0..(FUNC_MAX - 1)
  BY DEF FUNC_MAX
<1>4. function_config[f] = [r[2] EXCEPT !.ch_sel = f]
  BY <1>3 DEF function_config
<1> HIDE DEF r
<1> QED
  BY <1>2, <1>4

LEMMA PadRecord ==
  ASSUME NEW f \in 0..255, NEW c, c \in {SpiData, Output, Gpio, Unused}
  PROVE  LET e == [c EXCEPT !.ch_sel = f]
         IN e \in PadType /\ e.ch_sel = f /\ e.pu = 0 /\ e.pd = 0
<1>1. Unused \in PadType /\ Unused.pu = 0 /\ Unused.pd = 0
  BY DEF Unused, PadType, Bit
<1>2. Input \in PadType /\ Input.pu = 0 /\ Input.pd = 0
  BY <1>1 DEF Input, PadType, Bit
<1>3. Output \in PadType /\ Output.pu = 0 /\ Output.pd = 0
  BY <1>1 DEF Output, PadType, Bit
<1>4. Gpio \in PadType /\ Gpio.pu = 0 /\ Gpio.pd = 0
  BY <1>2 DEF Gpio, PadType, Bit
<1>5. SpiData \in PadType /\ SpiData.pu = 0 /\ SpiData.pd = 0
  BY <1>4 DEF SpiData, PadType, Bit
<1>6. c \in PadType /\ c.pu = 0 /\ c.pd = 0
  BY <1>1, <1>3, <1>4, <1>5
<1> QED
  BY <1>6 DEF PadType

(* The rows of function_config that the kernel or the boot ROM applies. *)
LEMMA SdConfig ==
  ASSUME NEW f \in SdFunctions \cup {FUNC_RESV0}
  PROVE  /\ function_config[f] \in PadType
         /\ function_config[f].ch_sel = f
         /\ function_config[f].pu = 0 /\ function_config[f].pd = 0
<1>1. f \in {4, 5, 15, 17, 31, 120}
  BY DEF SdFunctions, FUNC_SPI0_SCLK, FUNC_SPI0_D0, FUNC_SPI0_D1, FUNC_GPIOHS0,
         FUNC_SPI0_SS3, FUNC_RESV0
<1>2. PICK c \in {SpiData, Output, Gpio, Unused} :
        <<f, c>> \in Rows /\ \A row \in Rows : row[1] = f => row[2] = c
  BY <1>1, RowsOfSd, RowsUnique
<1>3. f \in 0..255
  BY <1>1
<1>4. function_config[f] = [c EXCEPT !.ch_sel = f]
  BY <1>2, <1>3, ConfigIs
<1> QED
  BY <1>3, <1>4, PadRecord

-----------------------------------------------------------------------------
(* Registers that only ever had the rows above applied to them. *)
PadConfigs == {function_config[f] : f \in SdFunctions \cup {FUNC_RESV0}}

(* Function f is on pad `pad', as its row says, and on no other pad. *)
Routed(r, pad, f) ==
    /\ r[pad] = function_config[f]
    /\ \A i \in Pads : i # pad => r[i].ch_sel # f

(* fpioa_set_function gives the pad the function and takes it from every   *)
(* other; what was routed elsewhere before stays.                          *)
LEMMA SetFunction ==
  ASSUME NEW r \in [Pads -> PadConfigs], NEW pad \in Pads,
         NEW f \in SdFunctions
  PROVE  LET s == fpioa_set_function(r, pad, f)
         IN /\ s \in [Pads -> PadConfigs]
            /\ Routed(s, pad, f)
            /\ \A p \in Pads \ {pad}, g \in SdFunctions \ {f} :
                  Routed(r, p, g) => Routed(s, p, g)
<1> DEFINE s == fpioa_set_function(r, pad, f)
<1>1. f # FUNC_RESV0 /\ FUNC_RESV0 \notin SdFunctions
  BY DEF SdFunctions, FUNC_SPI0_SCLK, FUNC_SPI0_D0, FUNC_SPI0_D1, FUNC_GPIOHS0,
         FUNC_SPI0_SS3, FUNC_RESV0
<1>2. s = [i \in Pads |->
             IF i = pad THEN function_config[f]
             ELSE IF r[i].ch_sel = f THEN function_config[FUNC_RESV0]
             ELSE r[i]]
  BY <1>1 DEF fpioa_set_function, fpioa_set_function_raw
<1> HIDE DEF s
<1>3. s \in [Pads -> PadConfigs]
  BY <1>2 DEF PadConfigs
<1>4. function_config[FUNC_RESV0].ch_sel = FUNC_RESV0
  BY SdConfig
<1>5. \A g \in SdFunctions : function_config[g].ch_sel = g
  BY SdConfig
<1>6. Routed(s, pad, f)
  BY <1>1, <1>2, <1>4 DEF Routed
<1>7. ASSUME NEW p \in Pads \ {pad}, NEW g \in SdFunctions \ {f},
             Routed(r, p, g)
      PROVE  Routed(s, p, g)
  <2>1. s[p] = function_config[g]
    BY <1>2, <1>5, <1>7 DEF Routed
  <2>2. ASSUME NEW i \in Pads, i # p PROVE s[i].ch_sel # g
    BY <1>1, <1>2, <1>4, <1>5, <1>7, <2>2 DEF Routed
  <2> QED
    BY <2>1, <2>2 DEF Routed
<1> QED
  BY <1>3, <1>6, <1>7 DEF s

LEMMA SdPinsAre ==
  /\ DOMAIN SdPins = {26, 27, 28, 29, 32} /\ DOMAIN SdPins \subseteq Pads
  /\ SdPins[27] = 17 /\ SdPins[28] = 4 /\ SdPins[26] = 5 /\ SdPins[32] = 31
  /\ SdPins[29] = 15
  /\ SdFunctions = {17, 4, 5, 31, 15}
BY DEF SdPins, Pads, FPIOA_NUM_IO, SdFunctions, FUNC_SPI0_SCLK, FUNC_SPI0_D0,
       FUNC_SPI0_D1, FUNC_GPIOHS0, FUNC_SPI0_SS3

LEMMA SdPinsDiffer ==
  /\ \A pad \in DOMAIN SdPins : pad \in Pads /\ SdPins[pad] \in SdFunctions
  /\ \A p, q \in DOMAIN SdPins : p # q => SdPins[p] # SdPins[q]
BY SdPinsAre

(* One more line of the card is routed. *)
LEMMA RouteOne ==
  ASSUME NEW r \in [Pads -> PadConfigs], NEW P \in SUBSET DOMAIN SdPins,
         \A p \in P : Routed(r, p, SdPins[p]),
         NEW pad \in DOMAIN SdPins \ P
  PROVE  LET s == fpioa_set_function(r, pad, SdPins[pad])
         IN /\ s \in [Pads -> PadConfigs]
            /\ \A p \in P \cup {pad} : Routed(s, p, SdPins[p])
<1> DEFINE s == fpioa_set_function(r, pad, SdPins[pad])
<1>1. pad \in Pads /\ SdPins[pad] \in SdFunctions
  BY SdPinsDiffer
<1>2. /\ s \in [Pads -> PadConfigs]
      /\ Routed(s, pad, SdPins[pad])
      /\ \A p \in Pads \ {pad}, g \in SdFunctions \ {SdPins[pad]} :
            Routed(r, p, g) => Routed(s, p, g)
  BY <1>1, SetFunction
<1> HIDE DEF s
<1>3. ASSUME NEW p \in P PROVE Routed(s, p, SdPins[p])
  <2>1. /\ p \in Pads \ {pad} /\ SdPins[p] \in SdFunctions \ {SdPins[pad]}
    BY SdPinsDiffer
  <2> QED
    BY <1>2, <2>1
<1> QED
  BY <1>2, <1>3 DEF s

(* After fpioa_pin_init every line of the card is routed. *)
LEMMA PinInitRoutes ==
  ASSUME io \in [Pads -> PadConfigs], fpioa_pin_init
  PROVE  /\ io' \in [Pads -> PadConfigs]
         /\ \A pad \in DOMAIN SdPins : Routed(io', pad, SdPins[pad])
<1> DEFINE Set(r, pad) == fpioa_set_function(r, pad, SdPins[pad])
           Ok(r, P) == /\ r \in [Pads -> PadConfigs]
                       /\ \A p \in P : Routed(r, p, SdPins[p])
           r1 == Set(io, 27)
           r2 == Set(r1, 28)
           r3 == Set(r2, 26)
           r4 == Set(r3, 32)
           r5 == Set(r4, 29)
<1>0. io' = r5
  BY DEF fpioa_pin_init
<1>1. ASSUME NEW r, NEW P \in SUBSET DOMAIN SdPins, Ok(r, P),
             NEW pad \in DOMAIN SdPins \ P
      PROVE  Ok(Set(r, pad), P \cup {pad})
  BY <1>1, RouteOne
<1>2. DOMAIN SdPins = {26, 27, 28, 29, 32}
  BY SdPinsAre
<1>3. Ok(io, {})
  OBVIOUS
<1> HIDE DEF Ok, Set
<1>4. Ok(r1, {27})
  <2>1. {} \cup {27} = {27}
    OBVIOUS
  <2> QED
    BY <1>1, <1>2, <1>3, <2>1
<1> HIDE DEF r1
<1>5. Ok(r2, {27, 28})
  <2>1. {27} \cup {28} = {27, 28}
    OBVIOUS
  <2> QED
    BY <1>1, <1>2, <1>4, <2>1
<1> HIDE DEF r2
<1>6. Ok(r3, {27, 28, 26})
  <2>1. {27, 28} \cup {26} = {27, 28, 26}
    OBVIOUS
  <2> QED
    BY <1>1, <1>2, <1>5, <2>1
<1> HIDE DEF r3
<1>7. Ok(r4, {27, 28, 26, 32})
  <2>1. {27, 28, 26} \cup {32} = {27, 28, 26, 32}
    OBVIOUS
  <2> QED
    BY <1>1, <1>2, <1>6, <2>1
<1> HIDE DEF r4
<1>8. Ok(r5, {27, 28, 26, 32, 29})
  <2>1. {27, 28, 26, 32} \cup {29} = {27, 28, 26, 32, 29}
    OBVIOUS
  <2> QED
    BY <1>1, <1>2, <1>7, <2>1
<1>9. {27, 28, 26, 32, 29} = DOMAIN SdPins
  BY <1>2
<1> QED
  BY <1>0, <1>8, <1>9 DEF Ok

-----------------------------------------------------------------------------
(* Before fpioa_pin_init the pads have rows of the table, as the boot ROM  *)
(* left them; after it the lines of the card are routed, up to the pull    *)
(* that gpiohs_set_drive_mode sets on the chip select.                     *)
PinsInv ==
    /\ pc = "main" => io \in [Pads -> PadConfigs]
    /\ pc # "main" => io \in [Pads -> PadType]
    /\ SdPinsRouted

LEMMA PadConfigsType == PadConfigs \subseteq PadType
BY SdConfig DEF PadConfigs

LEMMA PinsInvInit ==
  ASSUME Init
  PROVE  PinsInv
<1>1. PICK f \in [LeftPads ->
                  {FUNC_RESV0} \cup {SdPins[p] : p \in DOMAIN SdPins}] :
        io = [p \in Pads |-> function_config[
                IF p \in LeftPads THEN f[p] ELSE FUNC_RESV0]]
  BY DEF Init
<1>2. {SdPins[p] : p \in DOMAIN SdPins} \subseteq SdFunctions
  BY SdPinsAre
<1>3. ASSUME NEW p \in Pads PROVE io[p] \in PadConfigs
  BY <1>1, <1>2 DEF PadConfigs
<1>4. io \in [Pads -> PadConfigs]
  BY <1>1, <1>3
<1>5. pc = "main"
  BY DEF Init
<1> QED
  BY <1>4, <1>5 DEF PinsInv, SdPinsRouted

(* fpioa_pin_init establishes it. *)
LEMMA PowerUpPins ==
  ASSUME PinsInv, PowerUp
  PROVE  PinsInv'
<1>1. pc = "main" /\ pc' = "dmac_init" /\ fpioa_pin_init
  BY DEF PowerUp, At, Goto
<1>2. /\ io' \in [Pads -> PadConfigs]
      /\ \A pad \in DOMAIN SdPins : Routed(io', pad, SdPins[pad])
  BY <1>1, PinInitRoutes DEF PinsInv
<1>3. io' \in [Pads -> PadType]
  BY <1>2, PadConfigsType
<1>4. ASSUME NEW pad \in DOMAIN SdPins
      PROVE  LET f == SdPins[pad]
             IN /\ {i \in Pads : io'[i].ch_sel = f} = {pad}
                /\ [io'[pad] EXCEPT !.pd = 0] = function_config[f]
  <2> DEFINE f == SdPins[pad]
  <2>1. f \in SdFunctions /\ pad \in Pads
    BY SdPinsAre
  <2>2. Routed(io', pad, f)
    BY <1>2
  <2> HIDE DEF f
  <2>3. /\ function_config[f] \in PadType /\ function_config[f].ch_sel = f
        /\ function_config[f].pd = 0
    BY <2>1, SdConfig
  <2>4. {i \in Pads : io'[i].ch_sel = f} = {pad}
    BY <2>1, <2>2, <2>3 DEF Routed
  <2>5. [function_config[f] EXCEPT !.pd = 0] = function_config[f]
    BY <2>3 DEF PadType
  <2> QED
    BY <2>2, <2>4, <2>5 DEF Routed, f
<1>5. SdPinsRouted'
  BY <1>4 DEF SdPinsRouted
<1> QED
  BY <1>1, <1>3, <1>5 DEF PinsInv

LEMMA PullsOnly ==
  ASSUME NEW e \in PadType, e.pu = 0
  PROVE  LET d == [e EXCEPT !.pu = 0, !.pd = 1]
         IN /\ d \in PadType /\ d.ch_sel = e.ch_sel
            /\ [d EXCEPT !.pd = 0] = [e EXCEPT !.pd = 0]
<1> DEFINE d == [e EXCEPT !.pu = 0, !.pd = 1]
<1>1. d \in PadType /\ d.ch_sel = e.ch_sel
  BY DEF PadType, Bit
<1>2. [d EXCEPT !.pd = 0] = [e EXCEPT !.pd = 0]
  BY DEF PadType, Bit
<1> QED
  BY <1>1, <1>2

(* sd_lowlevel_init finds the chip select where the board has it, and only *)
(* changes that pad's pulls.                                               *)
LEMMA LowlevelInitPins ==
  ASSUME PinsInv, SdLowlevelInit
  PROVE  PinsInv'
<1>1. pc = "sd_init" /\ pc' = "CMD0" /\ io \in [Pads -> PadType]
  BY DEF SdLowlevelInit, At, Goto, PinsInv
<1>2. /\ {i \in Pads : io[i].ch_sel = 31} = {32}
      /\ [io[32] EXCEPT !.pd = 0] = function_config[31]
  BY <1>1, SdPinsAre DEF PinsInv, SdPinsRouted
<1>3. fpioa_get_io_by_function(io, FUNC_GPIOHS0 + SD_CS) = 32
  <2>1. Min({32}) = 32
    BY DEF Min
  <2>2. FUNC_GPIOHS0 + SD_CS = 31
    BY DEF FUNC_GPIOHS0, SD_CS
  <2>3. fpioa_get_io_by_function(io, 31) = 32
    BY <1>2, <2>1 DEF fpioa_get_io_by_function
  <2> QED
    BY <2>2, <2>3
<1>4. 32 \in Pads
  BY DEF Pads, FPIOA_NUM_IO
<1>5. io' = [io EXCEPT ![32].pu = 0, ![32].pd = 1]
  BY <1>3, <1>4 DEF SdLowlevelInit, gpiohs_set_drive_mode, fpioa_set_io_pull
<1>6. io'[32] = [io[32] EXCEPT !.pu = 0, !.pd = 1]
  BY <1>1, <1>4, <1>5 DEF PadType
<1>7. \A i \in Pads : i # 32 => io'[i] = io[i]
  BY <1>1, <1>5
<1>8. io[32] \in PadType /\ io[32].pu = 0
  <2>1. io[32] \in PadType
    BY <1>1, <1>4
  <2>2. function_config[31].pu = 0
    BY SdConfig, SdPinsAre
  <2> QED
    BY <1>2, <2>1, <2>2 DEF PadType
<1>9. /\ io'[32] \in PadType /\ io'[32].ch_sel = io[32].ch_sel
      /\ [io'[32] EXCEPT !.pd = 0] = [io[32] EXCEPT !.pd = 0]
  BY <1>6, <1>8, PullsOnly
<1>10. io' \in [Pads -> PadType]
  BY <1>1, <1>4, <1>5, <1>7, <1>9
<1>11. ASSUME NEW pad \in DOMAIN SdPins
       PROVE  LET f == SdPins[pad]
              IN /\ {i \in Pads : io'[i].ch_sel = f} = {pad}
                 /\ [io'[pad] EXCEPT !.pd = 0] = function_config[f]
  <2> DEFINE f == SdPins[pad]
  <2>1. /\ {i \in Pads : io[i].ch_sel = f} = {pad}
        /\ [io[pad] EXCEPT !.pd = 0] = function_config[f]
    BY <1>1 DEF PinsInv, SdPinsRouted
  <2> HIDE DEF f
  <2>2. \A i \in Pads : io'[i].ch_sel = io[i].ch_sel
    BY <1>7, <1>9
  <2>3. {i \in Pads : io'[i].ch_sel = f} = {pad}
    BY <2>1, <2>2
  <2>4. pad \in Pads
    BY SdPinsAre
  <2>5. [io'[pad] EXCEPT !.pd = 0] = [io[pad] EXCEPT !.pd = 0]
    BY <1>7, <1>9, <2>4
  <2> QED
    BY <2>1, <2>3, <2>5 DEF f
<1>12. SdPinsRouted'
  BY <1>11 DEF SdPinsRouted
<1> QED
  BY <1>1, <1>10, <1>12 DEF PinsInv

(* No other step touches the pads, and none returns to main. *)
LEMMA OtherSteps ==
  ASSUME StoreInv, Next, ~PowerUp, ~SdLowlevelInit
  PROVE  io' = io /\ (pc' = pc \/ (pc # "main" /\ pc' # "main"))
<1>1. CASE Hardware
  BY <1>1 DEF Hardware, DmaReceive, DmaSend, ShiftOut, CardProgram, sdVars,
     hwVars, fpioaVars
<1>2. CASE DmacInit
  BY <1>2 DEF DmacInit, fpioaVars, Goto, At
<1>3. CASE SdInit
  BY <1>3 DEF SdInit, SwitchToSpiMode, VerifyOperationCondition, ReadOCR,
     AppCommand, SetCapacity, CheckBlockSize, SetBlockSize, Exchange, Goto,
     Panic, SdReady, At
<1>4. CASE Transfer(me)
  <2>1. ~Halted /\ pc \in ReadLabels \cup WriteLabels
    BY <1>4 DEF Transfer, ReadSectorCommand, ReadSectorToken, ReadSectorDone,
       WriteSectorCommand, WriteSectorDone, WriteSectorBusy, WriteSectorStatus,
       At, ReadLabels, WriteLabels
  <2>2. job.ret # "main"
    BY <2>1 DEF StoreInv, Live, CallInv, ReadStages
  <2>3. pc # "main"
    BY <2>1 DEF ReadLabels, WriteLabels
  <2> QED
    BY <1>4, <2>2, <2>3 DEF Transfer, ReadSectorCommand, ReadSectorToken,
       ReadSectorDone, WriteSectorCommand, WriteSectorDone, WriteSectorBusy,
       WriteSectorStatus, DataCommand, Return, Goto, Panic, fpioaVars
<1>5. CASE DiskInit \/ FindVolume \/ ReadPartition \/ Binit
  BY <1>5 DEF DiskInit, FindVolume, ReadPartition, Binit, quiet, hwVars,
     fpioaVars, CallRead, Goto, At
<1>6. CASE Mount \/ UseSector \/ Release
  BY <1>6 DEF Mount, MountBoot, CheckBoot, ReleaseBoot, MountInfo, CheckInfo,
     UseSector, Release, Bread, Brelse, quiet, hwVars, fpioaVars, CallRead,
     Goto, Panic, At
<1>7. CASE CopyOut \/ CopyInAndWrite
  BY <1>7 DEF CopyOut, CopyInAndWrite, DiskWrite, CallWrite, quiet, hwVars,
     fpioaVars, Goto, Panic, At
<1> QED
  BY <1>1, <1>2, <1>3, <1>4, <1>5, <1>6, <1>7 DEF Next, Kernel

LEMMA PinsInvNext ==
  ASSUME StoreInv, PinsInv, [Next]_vars
  PROVE  PinsInv'
<1>1. CASE PowerUp
  BY <1>1, PowerUpPins
<1>2. CASE SdLowlevelInit
  BY <1>2, LowlevelInitPins
<1>3. CASE io' = io /\ (pc' = pc \/ (pc # "main" /\ pc' # "main"))
  BY <1>3 DEF PinsInv, SdPinsRouted
<1>4. CASE UNCHANGED vars
  <2>1. io' = io /\ pc' = pc
    BY <1>4 DEF vars, fpioaVars, sdVars
  <2> QED
    BY <1>3, <2>1
<1> QED
  BY <1>1, <1>2, <1>3, <1>4, OtherSteps

(* Once fpioa_pin_init has run, each line of the card is on its pad and on *)
(* no other, with its function's settings, whatever the boot ROM left on   *)
(* whichever pads: what gpiohs_set_drive_mode and the card's wiring need.  *)
THEOREM PinsStayRouted == Spec => []SdPinsRouted
<1>1. Init => PinsInv
  BY PinsInvInit
<1>2. StoreInv /\ PinsInv /\ [Next]_vars => PinsInv'
  BY PinsInvNext
<1>3. PinsInv => SdPinsRouted
  BY DEF PinsInv
<1> QED
  BY <1>1, <1>2, <1>3, StoreInvCorrect, PTL DEF Spec
=============================================================================
