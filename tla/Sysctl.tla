------------------------------- MODULE Sysctl -------------------------------
(***************************************************************************)
(* The system controller (d_sysctl.c): clock gates, phase-locked loops and *)
(* the routing of peripheral requests to DMA channels.                     *)
(***************************************************************************)
EXTENDS Integers

VARIABLES
    clk_en,     \* the gates that are open: clk_en_cent, clk_en_peri, pll_out_en
    pll,        \* [bypass, pwrd, reset] of each PLL
    dma_sel     \* dma_sel0, dma_sel1: the request each DMA channel serves

sysctlVars == <<clk_en, pll, dma_sel>>

Plls == {"PLL0", "PLL1", "PLL2"}
DmaChannels == 0..5

(* sysctl_dma_select_t, as far as a driver names it; the receive and the   *)
(* transmit request of SPI n are two apart from those of SPI n + 1.        *)
SSI0_RX_REQ == 0
SSI0_TX_REQ == 1

-----------------------------------------------------------------------------
(* The peripherals behind each APB bridge. *)
Apb0Devices ==
    {"GPIO", "SPI2", "I2S0", "I2S1", "I2S2", "I2C0", "I2C1", "I2C2", "UART1",
     "UART2", "UART3", "FPIOA", "TIMER0", "TIMER1", "TIMER2", "SHA"}
Apb1Devices == {"AES", "WDT0", "WDT1", "OTP", "RTC"}
Apb2Devices == {"SPI0", "SPI1"}
(* What has a gate but no bridge. *)
CentralClocks ==
    Plls \cup {"CPU", "SRAM0", "SRAM1", "APB0", "APB1", "APB2", "ROM", "DMA",
               "AI", "DVP", "FFT", "SPI3"}

Clocks == CentralClocks \cup Apb0Devices \cup Apb1Devices \cup Apb2Devices

(* sysctl_clock_bus_en: the bridge a clock hangs from is opened with it. *)
BusOf(clock) ==
    {b \in {"APB0", "APB1", "APB2"} :
        \/ b = "APB0" /\ clock \in Apb0Devices
        \/ b = "APB1" /\ clock \in Apb1Devices
        \/ b = "APB2" /\ clock \in Apb2Devices}

(* sysctl_clock_enable(clock): the gates afterwards. *)
sysctl_clock_enable(gates, clock) == gates \cup BusOf(clock) \cup {clock}

(* sysctl_pll_enable: no bypass, power on, a reset pulse that ends low. *)
sysctl_pll_enable(p) ==
    [pll EXCEPT ![p] = [bypass |-> 0, pwrd |-> 1, reset |-> 0]]

(* A routing that is never written back. *)
sysctl_dma_select_Drop(channel, select) == dma_sel

(* sysctl_dma_select for a channel that exists (another is refused). *)
sysctl_dma_select(channel, select) == [dma_sel EXCEPT ![channel] = select]
=============================================================================
