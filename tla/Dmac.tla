-------------------------------- MODULE Dmac --------------------------------
(***************************************************************************)
(* The DMA controller (d_dmac.c).  The engine itself is hardware: what     *)
(* moves the data is an action of the module that knows both ends of the   *)
(* transfer.  Addresses are names: a data register of a peripheral, or a   *)
(* block of memory.                                                        *)
(***************************************************************************)
EXTENDS Sysctl

CONSTANT Registers      \* the addresses that are not memory

VARIABLES
    dmac_en,    \* cfg.dmac_en and cfg.int_en
    chen,       \* the channels whose enable bit is set: not yet idle
    channel     \* tt_fc, sar, dar, msize and block_ts of each channel

dmacVars == <<dmac_en, chen, channel>>

FlowControls == {"MEM2MEM", "MEM2PRF", "PRF2MEM", "PRF2PRF"}

-----------------------------------------------------------------------------
is_memory(address) == address \notin Registers

FlowOf(src, dest) ==
    IF is_memory(src) THEN IF is_memory(dest) THEN "MEM2MEM" ELSE "MEM2PRF"
    ELSE IF is_memory(dest) THEN "PRF2MEM" ELSE "PRF2PRF"

(* dmac_set_channel_param; block_ts holds the number of items less one. *)
dmac_set_channel_param(src, dest, msize, block_size) ==
    [flow |-> FlowOf(src, dest), sar |-> src, dar |-> dest, msize |-> msize,
     block_ts |-> block_size - 1]

(* dmac_init: open the gate, reset, disable everything, enable the         *)
(* controller.  The two loops wait for the controller's own reset.         *)
dmac_init ==
    /\ clk_en' = sysctl_clock_enable(clk_en, "DMA")
    /\ dmac_en' = TRUE
    /\ chen' = {}
    /\ UNCHANGED <<channel, pll, dma_sel>>

(* dmac_set_single_mode: the channel is disabled, programmed, enabled. *)
dmac_set_single_mode(ch, src, dest, msize, block_size) ==
    /\ channel' = [channel EXCEPT ![ch] =
                      dmac_set_channel_param(src, dest, msize, block_size)]
    /\ dmac_en' = TRUE
    /\ chen' = chen \cup {ch}

(* A dmac_wait_done that returns at once. *)
dmac_is_idle_Always(ch) == TRUE

(* dmac_wait_done(ch) and dmac_wait_idle(ch) spin until this holds. *)
dmac_is_idle(ch) == ch \notin chen

(* The engine has all it needs to serve the request ch is routed to. *)
DmaServes(ch, request) ==
    /\ dmac_en /\ ch \in chen /\ "DMA" \in clk_en
    /\ dma_sel[ch] = request
=============================================================================
