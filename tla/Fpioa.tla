------------------------------- MODULE Fpioa -------------------------------
(***************************************************************************)
(* The pin multiplexer (d_fpioa.c) and the GPIOHS port behind it           *)
(* (d_gpiohs.c).  Each of the 48 pads of the chip carries one of 256       *)
(* functions; giving a pad a function copies that function's electrical    *)
(* settings from the table function_config.  The operations are functions  *)
(* from the registers to the registers, so that a caller such as           *)
(* fpioa_pin_init composes them.  A function is its number in              *)
(* fpioa_function_t.  The fields tie_en, tie_val, do_sel, do_inv, di_inv   *)
(* and the reserved ones are 0 in every row but two ties that no code      *)
(* applies (fpioa_init is commented out), and are left out.                *)
(***************************************************************************)
EXTENDS Integers, FiniteSetsExt

VARIABLES
    io,             \* fpioa->io: what each pad is set to
    input_en,       \* gpiohs->input_en, as the set of its pins
    output_en,      \* gpiohs->output_en
    output_val      \* gpiohs->output_val: the pins that are driven high

fpioaVars == <<io, input_en, output_en, output_val>>

FPIOA_NUM_IO == 48
FUNC_MAX == 256
Pads == 0..(FPIOA_NUM_IO - 1)

(* The functions the kernel names. *)
FUNC_SPI0_D0 == 4
FUNC_SPI0_D1 == 5
FUNC_SPI0_SS3 == 15
FUNC_SPI0_SCLK == 17
FUNC_GPIOHS0 == 24
FUNC_RESV0 == 120

-----------------------------------------------------------------------------
(***************************************************************************)
(* The kinds of row in function_config: driving strength ds, output enable *)
(* and its inversion, pulls, slew rate control, input enable and its       *)
(* inversion, Schmitt trigger.                                             *)
(***************************************************************************)
Unused == [ch_sel |-> 0, ds |-> 0, oe_en |-> 0, oe_inv |-> 0, pu |-> 0,
           pd |-> 0, sl |-> 0, ie_en |-> 0, ie_inv |-> 0, st |-> 0]
Input == [Unused EXCEPT !.ie_en = 1, !.st = 1]
Output == [Unused EXCEPT !.ds = 15, !.oe_en = 1]
Gpio == [Input EXCEPT !.ds = 15, !.oe_en = 1]
SpiData == [Gpio EXCEPT !.oe_inv = 1, !.ie_inv = 1]
I2c == [Input EXCEPT !.oe_en = 1, !.pu = 1, !.sl = 1]
Sccb == [I2c EXCEPT !.oe_inv = 1]
PulledInput == [Input EXCEPT !.pu = 1]
PulledBoth == [Gpio EXCEPT !.pu = 1, !.sl = 1]

(* Consecutive functions, each with these settings. *)
Row(first, last, config) == (first..last) \X {config}

Jtag == Row(0, 2, Input) \cup Row(3, 3, Output)   \* JTAG_TCLK, TDI, TMS; TDO
Spi0Data == Row(4, 11, SpiData)   \* SPI0_D0..D7
Spi0Control == Row(12, 15, Output) \cup Row(16, 16, Input) \cup
               Row(17, 17, Output)   \* SPI0_SS0..SS3; ARB; SCLK
\* UARTHS_RX; TX; RESV6, RESV7; CLK_SPI1, CLK_I2C1
UartHs == Row(18, 18, Input) \cup Row(19, 19, Output) \cup
          Row(20, 21, Input) \cup Row(22, 23, Output)
GpioHs0to7 == Row(24, 31, Gpio)   \* GPIOHS0..7
GpioHs8to15 == Row(32, 39, Gpio)   \* GPIOHS8..15
GpioHs16to23 == Row(40, 47, Gpio)   \* GPIOHS16..23
GpioHs24to31 == Row(48, 55, Gpio)   \* GPIOHS24..31
Gpio0to7 == Row(56, 63, Gpio)   \* GPIO0..7
\* UART1, 2, 3: RX; TX
Uarts == Row(64, 64, Input) \cup Row(65, 65, Output) \cup
         Row(66, 66, Input) \cup Row(67, 67, Output) \cup
         Row(68, 68, Input) \cup Row(69, 69, Output)
Spi1Data == Row(70, 77, SpiData)   \* SPI1_D0..D7
Spi1Control == Row(78, 81, Output) \cup Row(82, 82, Input) \cup
               Row(83, 83, Output)   \* SPI1_SS0..SS3; ARB; SCLK
\* SPI_SLAVE_D0; SS, SCLK; I2S0_MCLK, SCLK, WS
SpiSlave == Row(84, 84, SpiData) \cup Row(85, 86, Input) \cup
            Row(87, 89, Output)
\* I2S0_IN_D0..3; OUT_D0..3
I2s0 == Row(90, 93, Input) \cup Row(94, 97, Output)
\* I2S1_MCLK, SCLK, WS; IN_D0..3
I2s1 == Row(98, 100, Output) \cup Row(101, 104, Input)
I2s1Out == Row(105, 111, Output)   \* I2S1_OUT_D0..3; I2S2_MCLK, SCLK, WS
\* I2S2_IN_D0..3; OUT_D0..3
I2s2 == Row(112, 115, Input) \cup Row(116, 119, Output)
Reserved == Row(120, 125, Unused)   \* RESV0..5
I2cBus == Row(126, 131, I2c)   \* I2C0..2: SCLK, SDA
\* CMOS_XCLK, RST, PWDN; VSYNC, HREF, PCLK
CmosControl == Row(132, 134, Output) \cup Row(135, 137, Input)
CmosData == Row(138, 145, Input)   \* CMOS_D0..7
\* SCCB_SCLK, SDA; UART1_CTS, DSR, DCD, RI, SIR_IN
SccbBus == Row(146, 147, Sccb) \cup Row(148, 152, Input)
Uart1Modem == Row(153, 160, Output)   \* UART1_DTR .. DE
\* UART1_RS485_EN; UART2_CTS .. SIR_IN
Uart2Modem == Row(161, 161, Output) \cup Row(162, 166, Input)
Uart2Out == Row(167, 174, Output)   \* UART2_DTR .. DE
\* UART2_RS485_EN; UART3_CTS .. SIR_IN
Uart3Modem == Row(175, 175, Output) \cup Row(176, 180, Input)
Uart3Out == Row(181, 188, Output)   \* UART3_DTR .. DE
\* UART3_RS485_EN; TIMER0_TOGGLE1..4; TIMER1_TOGGLE1..3
Timers0and1 == Row(189, 196, Output)
\* TIMER1_TOGGLE4; TIMER2_TOGGLE1..4; CLK_SPI2, CLK_I2C2; INTERNAL0
Timers1and2 == Row(197, 204, Output)
Internal1to8 == Row(205, 212, Output)   \* INTERNAL1..8
Internal9to14 == Row(213, 216, Input) \cup Row(217, 217, PulledInput) \cup
                 Row(218, 218, PulledBoth)   \* INTERNAL9..12; 13; 14
\* INTERNAL15..17; CONSTANT; INTERNAL18
Internal15to18 == Row(219, 221, Input) \cup Row(222, 222, Unused) \cup
                  Row(223, 223, Input)
Debug0to7 == Row(224, 231, Output)   \* DEBUG0..7
Debug8to15 == Row(232, 239, Output)   \* DEBUG8..15
Debug16to23 == Row(240, 247, Output)   \* DEBUG16..23
Debug24to31 == Row(248, 255, Output)   \* DEBUG24..31

(* The table, as pairs of a function and its settings. *)
Rows ==
    Jtag \cup Spi0Data \cup Spi0Control \cup UartHs \cup GpioHs0to7 \cup
    GpioHs8to15 \cup GpioHs16to23 \cup GpioHs24to31 \cup Gpio0to7 \cup
    Uarts \cup Spi1Data \cup Spi1Control \cup SpiSlave \cup I2s0 \cup
    I2s1 \cup I2s1Out \cup I2s2 \cup Reserved \cup I2cBus \cup
    CmosControl \cup CmosData \cup SccbBus \cup Uart1Modem \cup
    Uart2Modem \cup Uart2Out \cup Uart3Modem \cup Uart3Out \cup
    Timers0and1 \cup Timers1and2 \cup Internal1to8 \cup Internal9to14 \cup
    Internal15to18 \cup Debug0to7 \cup Debug8to15 \cup Debug16to23 \cup
    Debug24to31

function_config ==
    [f \in 0..(FUNC_MAX - 1) |->
        [(CHOOSE row \in Rows : row[1] = f)[2] EXCEPT !.ch_sel = f]]

-----------------------------------------------------------------------------
(* fpioa_set_function_raw(number, function), on the registers r. *)
fpioa_set_function_raw(r, number, function) ==
    [r EXCEPT ![number] = function_config[function]]

(* A set_function that leaves the function's old pads alone. *)
fpioa_set_function_KeepOld(r, number, function) ==
    fpioa_set_function_raw(r, number, function)

(* fpioa_set_function: any other pad that carries the function loses it.   *)
(* FUNC_RESV0 may be on any number of pads.                                *)
fpioa_set_function(r, number, function) ==
    LET cleared ==
            [i \in Pads |->
                IF r[i].ch_sel = function /\ i # number
                THEN function_config[FUNC_RESV0] ELSE r[i]]
    IN fpioa_set_function_raw(IF function = FUNC_RESV0 THEN r ELSE cleared,
                              number, function)

(* fpioa_get_io_by_function: the lowest pad that carries it, or -1. *)
fpioa_get_io_by_function(r, function) ==
    LET found == {i \in Pads : r[i].ch_sel = function}
    IN IF found = {} THEN -1 ELSE Min(found)

(* fpioa_set_io_pull, which ignores a pad that does not exist. *)
fpioa_set_io_pull(r, number, pull) ==
    IF number \notin Pads THEN r
    ELSE [r EXCEPT ![number].pu = IF pull = "UP" THEN 1 ELSE 0,
                   ![number].pd = IF pull = "DOWN" THEN 1 ELSE 0]

(* fpioa_pin_init: the four SPI lines and the chip select of the SD card,  *)
(* which is a plain GPIOHS output.                                         *)
SdPins == [pad \in {26, 27, 28, 29, 32} |->
              CASE pad = 27 -> FUNC_SPI0_SCLK [] pad = 28 -> FUNC_SPI0_D0
                [] pad = 26 -> FUNC_SPI0_D1 [] pad = 32 -> FUNC_GPIOHS0 + 7
                [] pad = 29 -> FUNC_SPI0_SS3]
fpioa_pin_init ==
    LET Set(r, pad) == fpioa_set_function(r, pad, SdPins[pad])
    IN /\ io' = Set(Set(Set(Set(Set(io, 27), 28), 26), 32), 29)
       /\ UNCHANGED <<input_en, output_en, output_val>>

(* gpiohs_set_drive_mode(pin, mode): the pull is set on whatever pad       *)
(* carries the pin, the direction in the port itself.                      *)
gpiohs_set_drive_mode(pin, mode) ==
    LET pad == fpioa_get_io_by_function(io, FUNC_GPIOHS0 + pin)
        pull == CASE mode \in {"INPUT_PULL_DOWN", "OUTPUT"} -> "DOWN"
                  [] mode = "INPUT_PULL_UP" -> "UP"
                  [] OTHER -> "NONE"
    IN /\ io' = fpioa_set_io_pull(io, pad, pull)
       /\ IF mode = "OUTPUT"
          THEN /\ input_en' = input_en \ {pin}
               /\ output_en' = output_en \cup {pin}
          ELSE /\ output_en' = output_en \ {pin}
               /\ input_en' = input_en \cup {pin}

(* gpiohs_set_pin(pin, value): the port's output values after it. *)
gpiohs_set_pin(vals, pin, value) ==
    IF value = 1 THEN vals \cup {pin} ELSE vals \ {pin}
=============================================================================
