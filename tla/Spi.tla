--------------------------------- MODULE Spi ---------------------------------
(***************************************************************************)
(* SPI master 0 (d_spi.c).  Polled transfers run to their end on the       *)
(* processor; a DMA transfer is started, served by hardware and waited     *)
(* for.  Every transfer goes through a block of the kernel heap in which   *)
(* each frame takes a 32-bit word.                                         *)
(***************************************************************************)
EXTENDS Dmac

CONSTANTS
    Free, Junk          \* no block allocated; a block nobody has filled

VARIABLES
    spi0,       \* ctrlr0 (as tmod, frf, dfs), ctrlr1, dmacr, ser, ssienr
    bounce,     \* the heap block of the transfer under way: its contents
    tx_fifo     \* what the transmit FIFO still has to shift out

spiVars == <<spi0, bounce, tx_fifo>>

CS3 == 3
SPI_TMODS == {"TRANS_RECV", "TRANS", "RECV", "EEROM"}
SPI0_DR == "SPI0_DR"

-----------------------------------------------------------------------------
(* spi_init(.., SPI_WORK_MODE_0, SPI_FF_STANDARD, bits, 0): off, with      *)
(* ctrlr0 written as a whole (transfer mode 0) and DMA requests masked.    *)
(* ctrlr1 keeps its value.                                                 *)
spi_init(bits) ==
    [spi0 EXCEPT !.tmod = "TRANS_RECV", !.frf = "STANDARD", !.dfs = bits - 1,
                 !.dmacr = {}, !.ser = {}, !.ssienr = 0]

(* spi_get_frame_size, of the dfs field, which holds the length less one. *)
spi_get_frame_size(dfs) == IF dfs < 8 THEN 1 ELSE IF dfs < 16 THEN 2 ELSE 4

(* The registers once spi_send_data_standard or spi_receive_data_standard  *)
(* have returned: both select the slave, run to the end, and switch off.   *)
AfterPolledSend == [spi_init(8) EXCEPT !.tmod = "TRANS"]
AfterPolledReceive(len) ==
    [spi_init(8) EXCEPT !.tmod = "RECV", !.ctrlr1 = len - 1]

(* spi_receive_data_standard_dma up to its wait, without a command phase:  *)
(* receive len bytes, one frame each, into a fresh block.                  *)
StartReceive(ch, len) ==
    LET frames == len \div spi_get_frame_size(spi_init(8).dfs)
    IN /\ bounce' = Junk
       /\ spi0' = [spi_init(8) EXCEPT !.tmod = "RECV", !.ctrlr1 = frames - 1,
                     !.dmacr = {"RX", "TX"}, !.ssienr = 1, !.ser = {CS3}]
       /\ dma_sel' = sysctl_dma_select(ch, SSI0_RX_REQ)
       /\ dmac_set_single_mode(ch, SPI0_DR, "bounce", 1, frames)
       /\ UNCHANGED <<tx_fifo, clk_en, pll>>

(* spi_send_data_standard_dma up to its wait. *)
StartSend(ch, data, len) ==
    LET frames == len \div spi_get_frame_size(spi_init(8).dfs)
    IN /\ bounce' = data
       /\ spi0' = [spi_init(8) EXCEPT !.tmod = "TRANS", !.dmacr = {"TX"},
                     !.ssienr = 1, !.ser = {CS3}]
       /\ dma_sel' = sysctl_dma_select(ch, SSI0_TX_REQ)
       /\ dmac_set_single_mode(ch, "bounce", SPI0_DR, 4, frames)
       /\ UNCHANGED <<tx_fifo, clk_en, pll>>

(* `(sr & 0x05) == 0x04': FIFO empty and the shifter at rest. *)
SpiDrained == tx_fifo = Free

(* The interface is on, selects the slave and requests DMA. *)
SpiRequests(dir) ==
    /\ spi0.ssienr = 1 /\ spi0.ser = {CS3} /\ dir \in spi0.dmacr
    /\ spi0.tmod = (IF dir = "RX" THEN "RECV" ELSE "TRANS")
=============================================================================
