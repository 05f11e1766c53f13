------------------------------ MODULE Storage ------------------------------
(***************************************************************************)
(* From power-on to a mounted volume and on: main.c brings up the clock    *)
(* for the upper memory, the pins, the DMA controller and the card, looks  *)
(* for the volume (fs_disk.c), mounts it (fat32_init), and from then on    *)
(* the kernel's file system reads and writes sectors through the buffer    *)
(* cache.  The file system works on one buffer at a time: bread, then any  *)
(* number of changes followed by bwrite, then brelse.                      *)
(***************************************************************************)
EXTENDS SdCard, BufferCache

CONSTANTS
    Tasks,          \* pids of the tasks that use the file system
    Values,         \* contents of a data sector
    VolSectors,     \* sectors of the volume, relative to its boot sector
    BkBoot,         \* the sector of the volume with the copy of its boot sector
    VolumeStart,    \* where the volume starts on a partitioned card
    StrayLbas,      \* what offset 0x1C6 of a boot sector may hold
    LeftPads        \* pads the boot ROM may have left in use

VARIABLES
    DBRsec,         \* the first sector of the volume
    volume,         \* external: where the volume really starts
    held,           \* the buffer the thread holds, or Free
    me              \* the task whose call is executed, NOBODY while booting

storageVars == <<DBRsec, volume, held, me>>
vars == <<fpioaVars, sysctlVars, dmacVars, spiVars, cardVars, sdVars,
          bcacheVars, storageVars>>

(* What a sector holds.  A boot sector and a partition table both yield a  *)
(* number at offset 0x1C6; only the table means it.                        *)
Boot(lba) == [kind |-> "FAT32", lba |-> lba]
Mbr(lba) == [kind |-> "MBR", lba |-> lba]
FsInfo == [kind |-> "fsinfo", lba |-> 0]

(* The boot sector and the FSInfo sector behind it are kept twice; the     *)
(* file system uses the others.                                            *)
BootSectors == {0, BkBoot}
InfoSectors == {1, BkBoot + 1}
DataSectors == VolSectors \ (BootSectors \cup InfoSectors)
Contents == Values \cup {Junk, FsInfo} \cup {Boot(l) : l \in StrayLbas \cup {0}}
                   \cup {Mbr(VolumeStart)}

(* A data sector, or one nobody has written, is not taken for a boot       *)
(* sector; `Free', for no buffer and no block, is neither a buffer nor the *)
(* contents of a sector.                                                   *)
ASSUME StorageAssumption ==
    /\ PhysSectors \subseteq Nat
    /\ BkBoot \in Nat /\ BkBoot > 1
    /\ VolSectors \subseteq Nat /\ {0, 1, BkBoot, BkBoot + 1} \subseteq VolSectors
    /\ NoSector \notin VolSectors
    /\ VolumeStart \in Nat \ {0} /\ StrayLbas \subseteq Nat
    /\ Values # {}
    /\ Free \notin Contents /\ Free \notin Bufs
    /\ \A v \in Values \cup {Junk} :
          v \notin {FsInfo, Mbr(VolumeStart)}
                    \cup {Boot(l) : l \in StrayLbas \cup {0}}

(* The card as formatted on another machine: partitioned or not, with both *)
(* copies of the boot and FSInfo sectors.  Its last sector, outside an     *)
(* unpartitioned volume, still holds the FSInfo of an older one.           *)
Formatted(start, lba) ==
    [p \in PhysSectors |->
        IF p - start \in BootSectors THEN Boot(lba)
        ELSE IF p - start \in InfoSectors THEN FsInfo
        ELSE IF p - start \in DataSectors THEN CHOOSE v \in Values : TRUE
        ELSE IF p = 0 THEN Mbr(start)
        ELSE IF p = Max(PhysSectors) THEN FsInfo
        ELSE Junk]

Init ==
    /\ \E f \in [LeftPads -> {FUNC_RESV0} \cup {SdPins[p] : p \in DOMAIN SdPins}] :
        io = [p \in Pads |-> function_config[
                IF p \in LeftPads THEN f[p] ELSE FUNC_RESV0]]
    /\ input_en = {} /\ output_en = {} /\ output_val = {}
    /\ clk_en = {"CPU", "SRAM0", "SRAM1", "APB0", "APB1", "APB2", "ROM",
                 "PLL0", "FPIOA", "SPI0"}
    /\ pll = [p \in Plls |-> [bypass |-> 1, pwrd |-> 0, reset |-> 1]]
    /\ dma_sel = [c \in DmaChannels |-> SSI0_RX_REQ]
    /\ dmac_en = FALSE /\ chen = {}
    /\ channel = [c \in DmaChannels |->
                    dmac_set_channel_param("none", "none", 1, 1)]
    /\ spi0 = [tmod |-> "TRANS_RECV", frf |-> "STANDARD", dfs |-> 7,
               ctrlr1 |-> 0, dmacr |-> {}, ser |-> {}, ssienr |-> 0]
    /\ bounce = Free /\ tx_fifo = Free
    /\ \E k \in {"SDHC", "SDSC"} :
        card = [kind |-> k, mode |-> "off", phase |-> "ready", sector |-> 0,
                latch |-> Junk, failed |-> FALSE]
    /\ volume \in {0, VolumeStart}
    /\ \E lba \in IF volume = 0 THEN StrayLbas ELSE {0} :
        sectors = Formatted(volume, lba)
    /\ is_standard_sd = FALSE /\ sdcard_lock = sem_init(0)
    /\ tries = 0 /\ pc = "main" /\ job = NoJob /\ answer = Junk
    /\ panicked = "no"
    /\ buf = [b \in Bufs |-> [sectorno |-> 0, valid |-> FALSE, refcnt |-> 0,
                              lock |-> sem_init(0), data |-> Junk]]
    /\ lru = <<>>
    /\ DBRsec = 0 /\ held = Free /\ me = NOBODY

-----------------------------------------------------------------------------
(* main(): PLL1 for the upper 2 MB of memory, pins, DMA controller. *)
PowerUp ==
    /\ At("main")
    /\ clk_en' = sysctl_clock_enable(clk_en, "PLL1")
    /\ pll' = sysctl_pll_enable("PLL1")
    /\ fpioa_pin_init
    /\ Goto("dmac_init")
    /\ UNCHANGED <<dma_sel, dmacVars, spiVars, cardVars, is_standard_sd,
                   sdcard_lock, tries, job, answer, bcacheVars, storageVars>>
DmacInit ==
    /\ At("dmac_init")
    /\ dmac_init
    /\ Goto("sd_init")
    /\ UNCHANGED <<fpioaVars, spiVars, cardVars, is_standard_sd, sdcard_lock,
                   tries, job, answer, bcacheVars, storageVars>>

(* Calls of sdcard_read_sector and sdcard_write_sector. *)
CallRead(sector, ret) ==
    /\ job' = [op |-> "read", sector |-> sector, data |-> Free, ret |-> ret]
    /\ Goto("rd_cmd")
CallWrite(sector, data, ret) ==
    /\ job' = [op |-> "write", sector |-> sector, data |-> data, ret |-> ret]
    /\ Goto("wr_cmd")

quiet == <<hwVars, cardVars, is_standard_sd, sdcard_lock, tries>>

(* disk_init: sector 1 is read first. *)
DiskInit ==
    /\ At("disk_init")
    /\ CallRead(1, "disk_init_1")
    /\ UNCHANGED <<quiet, answer, bcacheVars, storageVars>>

(* Two bytes of sector 1 are copied into the four of fi: whatever the      *)
(* upper two hold decides, when the lower ones are the signature, whether  *)
(* sector 0 is taken for a partition table.                                *)
FindVolume ==
    /\ At("disk_init_1")
    /\ \/ /\ CallRead(0, "disk_init_0")
       \/ /\ answer = FsInfo
          /\ Goto("binit") /\ UNCHANGED job
    /\ UNCHANGED <<quiet, answer, bcacheVars, storageVars>>
ReadPartition ==
    /\ At("disk_init_0")
    /\ DBRsec' = answer.lba
    /\ answer' = Junk
    /\ Goto("binit")
    /\ UNCHANGED <<quiet, job, bcacheVars, volume, held, me>>

Binit ==
    /\ At("binit")
    /\ binit(Junk)
    /\ Goto("fat32_init")
    /\ answer' = Junk
    /\ UNCHANGED <<quiet, job, storageVars>>

-----------------------------------------------------------------------------
(* bread(0, s): bget, then disk_read unless the buffer is valid. *)
Bread(s, task, ret) ==
    /\ me' = task
    /\ IF bget(s) = {}
       THEN /\ Panic("bget")
            /\ UNCHANGED <<job, bcacheVars, held>>
       ELSE \E b \in bget(s) :
            /\ buf' = Got(b, s, task)
            /\ held' = b
            /\ IF Got(b, s, task)[b].valid
               THEN Goto(ret) /\ UNCHANGED job
               ELSE CallRead(s + DBRsec, ret)
            /\ UNCHANGED lru
    /\ UNCHANGED <<quiet, answer, DBRsec, volume>>

(* The contents of the held buffer: just read, or cached. *)
Fill == IF buf[held].valid THEN buf ELSE Filled(held, answer)
HeldData == Fill[held].data

(* brelse by the holder.  sem_hold is what a second holder would fail. *)
Brelse(ret) ==
    /\ IF sem_hold(buf[held].lock, me)
       THEN brelse(held) /\ held' = Free /\ me' = NOBODY /\ Goto(ret)
       ELSE Panic("brelse") /\ UNCHANGED <<bcacheVars, held, me>>
    /\ UNCHANGED <<quiet, answer, job, DBRsec, volume>>

MountBoot ==
    /\ At("fat32_init")
    /\ Bread(0, NOBODY, "fat32_init_boot")

(* A mount that takes any sector for a boot sector. *)
IsFat32_Any(data) == TRUE

IsFat32(data) == data \in {Boot(l) : l \in StrayLbas \cup {0}}

(* fat32_init on the boot sector: the volume is FAT32 or the kernel stops. *)
CheckBoot ==
    /\ At("fat32_init_boot")
    /\ IF IsFat32(HeldData)
       THEN buf' = Fill /\ Goto("fat32_init_release")
       ELSE Panic("not_FAT32") /\ UNCHANGED buf
    /\ answer' = Junk
    /\ UNCHANGED <<quiet, job, lru, storageVars>>
ReleaseBoot == At("fat32_init_release") /\ Brelse("fat32_init_2")
MountInfo ==
    /\ At("fat32_init_2")
    /\ Bread(1, NOBODY, "fat32_init_info")
CheckInfo ==
    /\ At("fat32_init_info")
    /\ IF HeldData = FsInfo
       THEN buf' = Fill /\ Goto("release")
       ELSE Panic("wrong_fsinfo") /\ UNCHANGED buf
    /\ answer' = Junk
    /\ UNCHANGED <<quiet, job, lru, storageVars>>

Mount == \/ MountBoot \/ CheckBoot \/ ReleaseBoot \/ MountInfo \/ CheckInfo

(* A task's system call enters the file system. *)
UseSector ==
    /\ At("run")
    /\ \E t \in Tasks, s \in DataSectors : Bread(s, t, "use")

(* read_fat, eread and the like copy out of the buffer ... *)
CopyOut ==
    /\ At("use")
    /\ buf' = Fill
    /\ Goto("release")
    /\ answer' = Junk
    /\ UNCHANGED <<quiet, job, lru, storageVars>>

DiskWrite(sector, data, ret) == CallWrite(sector + DBRsec, data, ret)

(* ... write_fat, ewrite, zero_clus change it and call bwrite. *)
CopyInAndWrite ==
    /\ At("use")
    /\ \E v \in Values :
        LET changed == [Fill EXCEPT ![held].data = v]
        IN IF sem_hold(buf[held].lock, me)
           THEN /\ buf' = changed
                /\ DiskWrite(buf[held].sectorno, v, "release")
           ELSE /\ Panic("bwrite") /\ UNCHANGED <<buf, job>>
    /\ answer' = Junk
    /\ UNCHANGED <<quiet, lru, storageVars>>
Release == At("release") /\ Brelse("run")

-----------------------------------------------------------------------------
Kernel ==
    \/ PowerUp \/ DmacInit
    \/ (SdInit \/ Transfer(me)) /\ UNCHANGED <<bcacheVars, storageVars>>
    \/ DiskInit \/ FindVolume \/ ReadPartition \/ Binit \/ Mount
    \/ UseSector \/ CopyOut \/ CopyInAndWrite \/ Release

Next == Kernel \/ (Hardware /\ UNCHANGED <<bcacheVars, storageVars>>)

(* The processor runs, the DMA engine, the shift register and the card's   *)
(* programming make progress.                                              *)
Fairness == WF_vars(Kernel) /\ WF_vars(Hardware /\ UNCHANGED <<bcacheVars, storageVars>>)
Spec == Init /\ [][Next]_vars /\ Fairness

-----------------------------------------------------------------------------
(***************************************************************************)
(* Once fpioa_pin_init has run, each line of the card is on the pad the    *)
(* board wires it to and on no other, with the electrical settings of its  *)
(* function, whatever the boot ROM left behind: the driver finds its chip  *)
(* select by searching the pads from 0 up.                                 *)
(***************************************************************************)
SdPinsRouted ==
    pc # "main" =>
        \A pad \in DOMAIN SdPins :
            LET f == SdPins[pad]
            IN /\ {i \in Pads : io[i].ch_sel = f} = {pad}
               /\ [io[pad] EXCEPT !.pd = 0] = function_config[f]

(***************************************************************************)
(* A buffer that nobody holds and that is valid is a copy of its sector on *)
(* the card, at the sector's place in the volume, and no sector has two    *)
(* buffers: what a later bread returns from memory is what the card would  *)
(* deliver.  Every write that did not panic is on the card.                *)
(***************************************************************************)
CacheCoherent ==
    ~Halted =>
    /\ \A b \in Bufs : b # held /\ buf[b].valid =>
            buf[b].data = sectors[buf[b].sectorno + DBRsec]
    /\ \A b, c \in Bufs : b # c /\ buf[b].sectorno = buf[c].sectorno =>
            buf[b].sectorno = NoSector \/ lru = <<>>

(***************************************************************************)
(* The semaphores of the cache and of the driver, which cannot block, are  *)
(* never taken by a second holder: a buffer's is 0 while it is held and 1  *)
(* otherwise, the driver's is 0 during a transfer and 1 otherwise, and the *)
(* reference counts agree.                                                 *)
(***************************************************************************)
InTransfer == pc \in {"rd_token", "rd_dma", "wr_dma", "wr_busy", "CMD13"}
SemaphoresExact ==
    ~Halted /\ lru # <<>> =>
    /\ \A b \in Bufs :
            LET n == IF b = held THEN 1 ELSE 0
            IN buf[b].lock.value = 1 - n /\ buf[b].refcnt = n
    /\ sdcard_lock.value = IF InTransfer THEN 0 ELSE 1

(***************************************************************************)
(* On a partitioned card the volume is used from its own boot sector.  On  *)
(* one without a partition table disk_init's half-initialised fi may send  *)
(* the kernel to a partition that is not there; fat32_init's checks of the *)
(* boot and FSInfo sectors then let it go on at no place but the copy of   *)
(* the volume's boot sector.                                               *)
(***************************************************************************)
AtBootSector ==
    /\ DBRsec - volume \in BootSectors
    /\ volume = VolumeStart => DBRsec = volume
MountedBootSector == ~Halted /\ pc \in {"run", "use"} => AtBootSector

(***************************************************************************)
(* Every sector transfer ends: with an answer, or with a panic.            *)
(***************************************************************************)
Pending == pc \in {"rd_cmd", "wr_cmd"} \/ InTransfer
TransfersEnd == Pending ~> (Halted \/ ~Pending)
=============================================================================
