------------------------------- MODULE SdCard -------------------------------
(***************************************************************************)
(* The SD card driver (d_sdcard.c), with the pins, the SPI master and the  *)
(* DMA channel it drives and, outside the program, the card.  One thread   *)
(* of the kernel executes it and never gives the processor away, so its    *)
(* steps end only where the hardware has to act.  A polling loop with a    *)
(* counter is one step that sees the awaited byte or runs out; the loops   *)
(* that repeat a whole command count their tries.                          *)
(***************************************************************************)
EXTENDS Fpioa, Spi, Semaphore

CONSTANTS
    PhysSectors,    \* the sectors of the card, 0..n
    TIMEOUT         \* rounds of a command loop: 0xff or 0xfff in the code

VARIABLES
    card,           \* external: the card's kind, mode and data phase
    sectors,        \* external: what the card holds
    is_standard_sd, \* the driver's idea of the card's addressing
    sdcard_lock,    \* the semaphore around a transfer
    tries,          \* timeout of the command loop under way
    pc,             \* where the thread is
    job,            \* the sector transfer under way
    answer,         \* what the last sector read delivered
    panicked        \* the panic that halted the kernel, or "no"

cardVars == <<card, sectors>>
sdVars == <<is_standard_sd, sdcard_lock, tries, pc, job, answer, panicked>>
hwVars == <<fpioaVars, sysctlVars, dmacVars, spiVars>>

BSIZE == 512
SD_CS == 7          \* the GPIOHS pin wired to the card's chip select
DMAC_CHANNEL0 == 0
NoJob == [op |-> "none", sector |-> 0, data |-> Free, ret |-> "none"]

Halted == panicked # "no"
At(label) == ~Halted /\ pc = label
Goto(label) == pc' = label /\ UNCHANGED panicked
Panic(why) == panicked' = why /\ UNCHANGED pc
Return == Goto(job.ret) /\ job' = NoJob

-----------------------------------------------------------------------------
(* External: the board wires these pads to the card, and the card listens  *)
(* while its chip select is driven low.                                    *)
Wired == /\ \A pad \in {26, 27, 28, 32} : io[pad].ch_sel = SdPins[pad]
         /\ SD_CS \in output_en
Selected(vals) == Wired /\ SD_CS \notin vals

(* External: how the card may answer a command.  "lost" is no answer at    *)
(* all, to a command that the card carried out or did not.                 *)
Normal(cmd) ==
    CASE cmd \in {"CMD0", "CMD8"} -> {"idle"}
      [] cmd = "ACMD41" -> {"idle", "ok"}
      [] cmd \in {"CMD55", "CMD58"} ->
            IF card.mode = "ready" THEN {"ok"} ELSE {"idle"}
      [] cmd = "CMD16" -> {"ok"}
CardMode(cmd, r) ==
    CASE cmd = "CMD0" -> {"idle"}
      [] cmd = "ACMD41" -> IF r = "ok" THEN {"ready"}
                           ELSE IF r = "lost" THEN {card.mode, "ready"}
                           ELSE {card.mode}
      [] OTHER -> {card.mode}

(* A command without data: sd_send_cmd, sd_get_response_R1, the rest of    *)
(* the response, sd_end_cmd.  Chip select goes low and back to high.       *)
Exchange(cmd, r) ==
    /\ r \in (IF Selected(gpiohs_set_pin(output_val, SD_CS, 0))
              THEN Normal(cmd) \cup {"error", "lost"} ELSE {"lost"})
    /\ \E m \in CardMode(cmd, r) : card' = [card EXCEPT !.mode = m]
    /\ output_val' = gpiohs_set_pin(output_val, SD_CS, 1)
    /\ spi0' = AfterPolledSend
    /\ UNCHANGED <<io, input_en, output_en, sysctlVars, dmacVars, bounce,
                   tx_fifo, sectors>>

-----------------------------------------------------------------------------
(* sd_lowlevel_init and the 80 dummy clocks at the start of sd_init. *)
SdLowlevelInit ==
    /\ At("sd_init")
    /\ gpiohs_set_drive_mode(SD_CS, "OUTPUT")
    /\ output_val' = gpiohs_set_pin(output_val, SD_CS, 0)
    /\ spi0' = AfterPolledSend
    /\ Goto("CMD0")
    /\ tries' = TIMEOUT - 1
    /\ UNCHANGED <<sysctlVars, dmacVars, bounce, tx_fifo, cardVars,
                   is_standard_sd, sdcard_lock, job, answer>>

(* switch_to_SPI_mode: CMD0 until the card says idle. *)
SwitchToSpiMode ==
    /\ At("CMD0")
    /\ \E r \in {"idle", "ok", "error", "lost"} :
        /\ Exchange("CMD0", r)
        /\ IF r = "idle" THEN Goto("CMD8") /\ UNCHANGED tries
           ELSE IF tries = 1 THEN Panic("sdcard_init_failed") /\ UNCHANGED tries
           ELSE tries' = tries - 1 /\ Goto("CMD0")
    /\ UNCHANGED <<is_standard_sd, sdcard_lock, job, answer>>

(* verify_operation_condition: CMD8, once. *)
VerifyOperationCondition ==
    /\ At("CMD8")
    /\ \E r \in {"idle", "ok", "error", "lost"} :
        /\ Exchange("CMD8", r)
        /\ IF r = "idle" THEN Goto("OCR") ELSE Panic("sdcard_init_failed")
    /\ tries' = TIMEOUT - 1
    /\ UNCHANGED <<is_standard_sd, sdcard_lock, job, answer>>

(* read_OCR: CMD58 until the card is idle with a valid voltage range. *)
ReadOCR ==
    /\ At("OCR")
    /\ \E r \in {"idle", "ok", "error", "lost"} :
        /\ Exchange("CMD58", r)
        /\ IF r = "idle" THEN Goto("CMD55") /\ tries' = TIMEOUT - 1
           ELSE IF tries = 1 THEN Panic("sdcard_init_failed") /\ UNCHANGED tries
           ELSE tries' = tries - 1 /\ Goto("OCR")
    /\ UNCHANGED <<is_standard_sd, sdcard_lock, job, answer>>

(* set_SDXC_capacity: CMD55 and ACMD41 until the card has left idle.  When *)
(* the answer to a successful ACMD41 is lost, the next CMD55 answers 0     *)
(* instead of 1 and the initialisation fails.                              *)
AppCommand ==
    /\ At("CMD55")
    /\ \E r \in {"idle", "ok", "error", "lost"} :
        /\ Exchange("CMD55", r)
        /\ IF r = "idle" THEN Goto("ACMD41") ELSE Panic("sdcard_init_failed")
    /\ UNCHANGED <<is_standard_sd, sdcard_lock, tries, job, answer>>
SetCapacity ==
    /\ At("ACMD41")
    /\ \E r \in {"idle", "ok", "error", "lost"} :
        /\ Exchange("ACMD41", r)
        /\ IF r = "ok" THEN Goto("CCS") /\ tries' = TIMEOUT
           ELSE IF tries = 1 THEN Panic("sdcard_init_failed") /\ UNCHANGED tries
           ELSE tries' = tries - 1 /\ Goto("CMD55")
    /\ UNCHANGED <<is_standard_sd, sdcard_lock, job, answer>>

(* sem_init at the end of sdcard_init, on the way to disk_init. *)
SdReady == Goto("disk_init") /\ sdcard_lock' = sem_init(1) /\ tries' = 0

(* check_block_size: CMD58 until the card is ready; the capacity bit tells *)
(* a card with block addresses from one with byte addresses.               *)
CheckBlockSize ==
    /\ At("CCS")
    /\ \E r \in {"idle", "ok", "error", "lost"} :
        /\ Exchange("CMD58", r)
        /\ \/ /\ r = "ok" /\ card.kind = "SDHC"
              /\ is_standard_sd' = FALSE
              /\ SdReady
           \/ /\ r = "ok" /\ card.kind = "SDSC"
              /\ Goto("CMD16")
              /\ tries' = TIMEOUT - 1
              /\ UNCHANGED <<is_standard_sd, sdcard_lock>>
           \/ /\ r # "ok"
              /\ IF tries = 1
                 THEN Panic("sdcard_init_failed") /\ UNCHANGED tries
                 ELSE tries' = tries - 1 /\ Goto("CCS")
              /\ UNCHANGED <<is_standard_sd, sdcard_lock>>
    /\ UNCHANGED <<job, answer>>

(* The inner loop of check_block_size: CMD16 until it is accepted. *)
SetBlockSize ==
    /\ At("CMD16")
    /\ \E r \in {"idle", "ok", "error", "lost"} :
        /\ Exchange("CMD16", r)
        /\ IF r = "ok" THEN SdReady /\ is_standard_sd' = TRUE
           ELSE /\ UNCHANGED <<is_standard_sd, sdcard_lock>>
                /\ IF tries = 1
                   THEN Panic("sdcard_init_failed") /\ UNCHANGED tries
                   ELSE tries' = tries - 1 /\ Goto("CMD16")
    /\ UNCHANGED <<job, answer>>

-----------------------------------------------------------------------------
(* The argument of CMD17 and CMD24, and what the card makes of it. *)
Address(sector) == IF is_standard_sd THEN sector * BSIZE ELSE sector
CardSector(address) ==
    IF card.kind = "SDSC" THEN address \div BSIZE ELSE address

(* sd_send_cmd(cmd, address) of a data command: chip select stays low.     *)
(* The card refuses an address it does not have.                           *)
DataCommand(sector, accepted, phase, latch) ==
    /\ accepted => /\ Selected(gpiohs_set_pin(output_val, SD_CS, 0))
                   /\ CardSector(Address(sector)) \in PhysSectors
    /\ card' = IF accepted
               THEN [card EXCEPT !.phase = phase, !.latch = latch,
                        !.sector = CardSector(Address(sector))]
               ELSE card
    /\ output_val' = gpiohs_set_pin(output_val, SD_CS, 0)
    /\ UNCHANGED <<io, input_en, output_en, sectors>>

(* sdcard_read_sector up to the answer to CMD17. *)
ReadSectorCommand(me) ==
    /\ At("rd_cmd")
    /\ \E ok \in BOOLEAN :
        /\ DataCommand(job.sector, ok, "sending",
                       sectors[IF ok THEN CardSector(Address(job.sector)) ELSE 0])
        /\ IF ok
           THEN /\ Goto("rd_token")
                /\ sdcard_lock' = sem_wait(sdcard_lock, me)
           ELSE /\ Panic("fail_to_read")
                /\ sdcard_lock' = sem_signal(sem_wait(sdcard_lock, me))
    /\ spi0' = AfterPolledReceive(1)
    /\ UNCHANGED <<sysctlVars, dmacVars, bounce, tx_fifo, is_standard_sd,
                   tries, job, answer>>

(* Waiting for the start token, then the DMA of the block is started; or   *)
(* the token never comes, which panics with the semaphore taken.           *)
ReadSectorToken ==
    /\ At("rd_token")
    /\ \/ /\ StartReceive(DMAC_CHANNEL0, BSIZE)
          /\ Goto("rd_dma")
       \/ /\ Panic("timeout_reading")
          /\ spi0' = AfterPolledReceive(1)
          /\ UNCHANGED <<sysctlVars, dmacVars, bounce, tx_fifo>>
    /\ UNCHANGED <<fpioaVars, cardVars, is_standard_sd, sdcard_lock, tries,
                   job, answer>>

(* The DMA is over: the block is copied out and freed, the checksum read,  *)
(* the command ended, the semaphore given back.                            *)
ReadSectorDone ==
    /\ At("rd_dma") /\ dmac_is_idle(DMAC_CHANNEL0)
    /\ answer' = bounce
    /\ bounce' = Free
    /\ spi0' = AfterPolledSend
    /\ card' = [card EXCEPT !.phase = "ready", !.latch = Junk,
                            !.sector = 0]
    /\ output_val' = gpiohs_set_pin(output_val, SD_CS, 1)
    /\ sdcard_lock' = sem_signal(sdcard_lock)
    /\ Return
    /\ UNCHANGED <<io, input_en, output_en, sysctlVars, dmacVars, tx_fifo,
                   sectors, is_standard_sd, tries>>

-----------------------------------------------------------------------------
(* sdcard_write_sector up to the start of the block's DMA: CMD24 and, when *)
(* the card takes it, the start token.                                     *)
WriteSectorCommand(me) ==
    /\ At("wr_cmd")
    /\ \E ok \in BOOLEAN :
        /\ DataCommand(job.sector, ok, "receiving", Junk)
        /\ IF ok
           THEN /\ StartSend(DMAC_CHANNEL0, job.data, BSIZE)
                /\ Goto("wr_dma")
                /\ sdcard_lock' = sem_wait(sdcard_lock, me)
           ELSE /\ Panic("fail_to_write")
                /\ sdcard_lock' = sem_signal(sem_wait(sdcard_lock, me))
                /\ spi0' = AfterPolledReceive(1)
                /\ UNCHANGED <<sysctlVars, dmacVars, bounce, tx_fifo>>
    /\ UNCHANGED <<is_standard_sd, tries, job, answer>>

(* DMA over and FIFO shifted out: the interface is switched off, the block *)
(* freed, the checksum sent.  The card answers that it takes the data, or  *)
(* the data response never comes.                                          *)
WriteSectorDone ==
    /\ At("wr_dma") /\ dmac_is_idle(DMAC_CHANNEL0) /\ SpiDrained
    /\ bounce' = Free
    /\ spi0' = AfterPolledReceive(1)
    /\ \/ /\ card' = [card EXCEPT !.phase = "busy"]
          /\ Goto("wr_busy")
          /\ UNCHANGED sdcard_lock
       \/ /\ card' = [card EXCEPT !.phase = "ready"]
          /\ Panic("invalid_response_token")
          /\ sdcard_lock' = sem_signal(sdcard_lock)
    /\ UNCHANGED <<fpioaVars, sysctlVars, dmacVars, tx_fifo, sectors,
                   is_standard_sd, tries, job, answer>>

(* A poll that takes the first answer for the end. *)
StillBusy_Never == FALSE

StillBusy == card.phase = "busy"

(* The card holds its output low while it programs; the loop ends when it  *)
(* lets go, or runs out.                                                   *)
WriteSectorBusy ==
    /\ At("wr_busy")
    /\ \/ /\ ~StillBusy
          /\ Goto("CMD13")
          /\ output_val' = gpiohs_set_pin(output_val, SD_CS, 1)
          /\ spi0' = AfterPolledSend
          /\ UNCHANGED sdcard_lock
       \/ /\ Panic("timeout_response")
          /\ sdcard_lock' = sem_signal(sdcard_lock)
          /\ spi0' = AfterPolledReceive(1)
          /\ UNCHANGED output_val
    /\ UNCHANGED <<io, input_en, output_en, sysctlVars, dmacVars, bounce,
                   tx_fifo, cardVars, is_standard_sd, tries, job, answer>>

(* A status that is not looked at. *)
StatusGood_Trust == TRUE

StatusGood == ~card.failed

(* CMD13: the write counts only when the card reports no error. *)
WriteSectorStatus ==
    /\ At("CMD13")
    /\ sdcard_lock' = sem_signal(sdcard_lock)
    /\ \/ StatusGood /\ Return
       \/ Panic("error_when_writing") /\ UNCHANGED job
    /\ output_val' = gpiohs_set_pin(output_val, SD_CS, 1)
    /\ spi0' = AfterPolledSend
    /\ UNCHANGED <<io, input_en, output_en, sysctlVars, dmacVars, bounce,
                   tx_fifo, cardVars, is_standard_sd, tries, answer>>

-----------------------------------------------------------------------------
(* External: the DMA engine and the shift register move the block from the *)
(* card to memory.  A channel programmed for fewer items than the SPI      *)
(* clocks, or for more, never becomes idle.                                *)
DmaReceive ==
    /\ DmaServes(DMAC_CHANNEL0, SSI0_RX_REQ) /\ SpiRequests("RX")
    /\ channel[DMAC_CHANNEL0].flow = "PRF2MEM"
    /\ channel[DMAC_CHANNEL0].block_ts = spi0.ctrlr1
    /\ card.phase = "sending"
    /\ bounce' = IF bounce = Free THEN Free ELSE card.latch
    /\ chen' = chen \ {DMAC_CHANNEL0}
    /\ UNCHANGED <<fpioaVars, sysctlVars, dmac_en, channel, spi0, tx_fifo,
                   cardVars, sdVars>>

(* External: memory to FIFO, which ends the DMA ... *)
DmaSend ==
    /\ DmaServes(DMAC_CHANNEL0, SSI0_TX_REQ) /\ SpiRequests("TX")
    /\ channel[DMAC_CHANNEL0].flow = "MEM2PRF"
    /\ tx_fifo' = IF bounce = Free THEN Junk ELSE bounce
    /\ chen' = chen \ {DMAC_CHANNEL0}
    /\ UNCHANGED <<fpioaVars, sysctlVars, dmac_en, channel, spi0, bounce,
                   cardVars, sdVars>>

(* External: ... and FIFO to card, for as long as the interface is on. *)
ShiftOut ==
    /\ tx_fifo # Free /\ SpiRequests("TX")
    /\ tx_fifo' = Free
    /\ card' = [card EXCEPT !.latch = tx_fifo]
    /\ UNCHANGED <<fpioaVars, sysctlVars, dmacVars, spi0, bounce, sectors, sdVars>>

(* External: the card programs the block, or fails and says so in its      *)
(* status.                                                                 *)
CardProgram ==
    /\ card.phase = "busy"
    /\ \E ok \in BOOLEAN :
        /\ card' = [card EXCEPT !.phase = "ready", !.failed = ~ok,
                                !.latch = Junk, !.sector = 0]
        /\ sectors' = [sectors EXCEPT ![card.sector] =
                          IF ok THEN card.latch ELSE Junk]
    /\ UNCHANGED <<hwVars, sdVars>>

Hardware == DmaReceive \/ DmaSend \/ ShiftOut \/ CardProgram

SdInit == \/ SdLowlevelInit \/ SwitchToSpiMode \/ VerifyOperationCondition
          \/ ReadOCR \/ AppCommand \/ SetCapacity \/ CheckBlockSize
          \/ SetBlockSize
Transfer(me) == \/ ReadSectorCommand(me) \/ ReadSectorToken \/ ReadSectorDone
                \/ WriteSectorCommand(me) \/ WriteSectorDone
                \/ WriteSectorBusy \/ WriteSectorStatus

-----------------------------------------------------------------------------
(***************************************************************************)
(* The DMA engine only ever works on a heap block that is allocated: the   *)
(* block outlives the transfer, whatever the engine's pace.                *)
(***************************************************************************)
DmaOnLiveBlock == DMAC_CHANNEL0 \in chen => bounce # Free

(***************************************************************************)
(* A command is sent only to a card that has finished with the previous    *)
(* one: no data phase open, nothing being programmed.                      *)
(***************************************************************************)
CommandLabels == {"CMD0", "CMD8", "OCR", "CMD55", "ACMD41", "CCS", "CMD16",
                  "CMD13", "rd_cmd", "wr_cmd"}
CommandsMeetReadyCard ==
    ~Halted /\ pc \in CommandLabels => card.phase = "ready"
=============================================================================
