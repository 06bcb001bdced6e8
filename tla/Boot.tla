--------------------------------- MODULE Boot ---------------------------------
(***************************************************************************)
(* From reset to the application: startup.c, system_LPC11xx.c, main, the   *)
(* init functions of the drivers, and what spi_setup and the ADC driver    *)
(* set later.  The program is a sequence of register writes, each of which *)
(* may be lost, when the peripheral has no clock or is held in reset; PLL, *)
(* timer and I2C controller go their own way meanwhile, and interrupts are *)
(* taken between any two steps.                                            *)
(*                                                                         *)
(* A definition marked "Fault" is a wrong version of one further down; the *)
(* specification does not use it.                                          *)
(***************************************************************************)
EXTENDS Integers, Sequences, FiniteSets

CONSTANTS
    Configs,    \* settings of the configuration wizard
    Speeds      \* speeds of SPI slaves, in Hz

(* The settings as they are in the source.                                  *)
Shipped == [pllsel |-> 0, pll |-> TRUE, m |-> 4, bypass |-> FALSE, wdt |-> FALSE,
            freqsel |-> 5, divsel |-> 0, mainsel |-> 3, ahbdiv |-> 1]
ASSUME ConfigAssumption == Shipped \in Configs /\ Speeds \subseteq Nat \ {0}

IRC == 12000000
XTAL == 12000000
SPI_PCLK == 48000000
MaxClock == 50000000   \* of the core
PllInputs == 10000000 .. 25000000
NoChannel == -1
SysTick_IRQn == -1
I2C_IRQn == 15

VARIABLES
    cfg,            \* the settings that the program was built with
    pc,             \* the next operation
    regs,           \* registers
    pllInput, mainSource, locked,   \* clock sources in use; the PLL is locked
    ready,          \* objects in memory that have their initial value
    SystemCoreClock,
    pending,        \* interrupts
    busy,           \* an I2C transaction is going on
    asked           \* history: SPI speed asked for, 0 before the first spi_setup

clocks == <<pllInput, mainSource, locked>>
vars == <<cfg, pc, regs, clocks, ready, SystemCoreClock, pending, busy, asked>>
----------------------------------------------------------------------------
(* The vector table, and which handlers are not the weak Dummy_Handler.     *)

Vectors(n, name) == [k \in 1 .. n |-> name]
vector_table ==
    <<"_end_stack", "Reset_Handler", "NMI_Handler", "HardFault_Handler">>
    \o Vectors(7, "0") \o <<"SVC_Handler", "0", "0", "PendSV_Handler",
                            "SysTick_Handler">>
    \o Vectors(13, "WAKEUP_Handler") \o <<"CAN_Handler", "SSP1_Handler", "I2C_Handler">>
    \o Vectors(4, "TIMER_Handler") \o <<"SSP0_Handler", "UART_Handler">>
    \o Vectors(2, "Dummy_Handler") \o <<"ADC_Handler", "WDT_Handler", "BOD_Handler">>
    \o Vectors(1, "Dummy_Handler") \o Vectors(4, "EINT_Handler")

Defined == {"Reset_Handler", "SysTick_Handler", "I2C_Handler"}
Handler(irq) ==
    LET entry == vector_table[16 + irq + 1]
    IN  IF entry \in Defined THEN entry ELSE "Dummy_Handler"

(* What a handler uses.                                                     *)
Uses(handler) ==
    CASE handler = "SysTick_Handler" -> {"msTicks"}
      [] handler = "I2C_Handler" -> {"I2C0.i2c", "I2C0.active_transaction",
                                     "I2C0.transaction_queue"}
----------------------------------------------------------------------------
(* Clocks: what the hardware delivers.                                      *)

Analog == <<500000, 800000, 1100000, 1400000, 1600000, 1800000, 2000000,
            2200000, 2400000, 2600000, 2700000, 2900000, 3100000, 3200000,
            3400000>>
Fclkana(freqsel) == IF freqsel = 0 THEN 400000 ELSE Analog[freqsel]
WdtOsc(freqsel, divsel) == Fclkana(freqsel) \div (2 * divsel + 2)

(* The clock that settings choose, 0 for one that they do not start; they   *)
(* give a clock when the core can run at it, and count milliseconds.        *)
Chosen(c) ==
    LET wdt == IF c.wdt THEN WdtOsc(c.freqsel, c.divsel) ELSE 0
        pllIn == CASE c.pllsel = 0 -> IRC [] c.pllsel = 1 -> XTAL [] c.pllsel = 2 -> wdt
    IN  CASE c.mainsel = 0 -> IRC
          [] c.mainsel = 1 -> pllIn
          [] c.mainsel = 2 -> wdt
          [] c.mainsel = 3 -> IF ~c.pll THEN 0 ELSE IF c.bypass THEN pllIn ELSE pllIn * c.m
Wizard == [pllsel : 0 .. 2, pll : BOOLEAN, m : 1 .. 32, bypass : BOOLEAN, wdt : BOOLEAN,
           freqsel : 0 .. 15, divsel : 0 .. 31, mainsel : 0 .. 3, ahbdiv : 1 .. 255]
ASSUME ClockAssumption ==
    \A c \in Configs :
        c \in Wizard /\ Chosen(c) <= MaxClock /\ Chosen(c) \div c.ahbdiv >= 1000

Powered(block) == block \notin regs["PDRUNCFG"]
Source(sel) ==
    CASE sel = 0 -> IRC
      [] sel = 1 /\ Powered("SYSOSC") -> XTAL
      [] sel = 2 /\ Powered("WDTOSC") ->
            WdtOsc(regs["WDTOSCCTRL"].freqsel, regs["WDTOSCCTRL"].divsel)
      [] OTHER -> 0
PllOut ==
    IF ~Powered("SYSPLL") THEN 0
    ELSE IF regs["SYSPLLCTRL"].bypass THEN Source(pllInput)
    ELSE IF locked THEN Source(pllInput) * regs["SYSPLLCTRL"].m ELSE 0
MainClock ==
    CASE mainSource = 0 -> IRC
      [] mainSource = 1 -> Source(pllInput)
      [] mainSource = 2 -> Source(2)
      [] mainSource = 3 -> PllOut
CoreClock == MainClock \div regs["SYSAHBCLKDIV"]

(* A peripheral has a divider of its own, and with 0 in it no clock.        *)
PeripheralClock(reg) == IF regs[reg] = 0 THEN 0 ELSE MainClock \div regs[reg]
UartClock == PeripheralClock("UARTCLKDIV")
SspClock == PeripheralClock("SSP0CLKDIV")
----------------------------------------------------------------------------
(* Clocks: what the program computes, before and after it runs.             *)

(* __SYSTEM_CLOCK.                                                          *)
MacroWdt == IF cfg.wdt THEN WdtOsc(cfg.freqsel, cfg.divsel) ELSE 1600000 \div 2
MacroPllIn ==
    CASE cfg.pllsel = 0 -> IRC [] cfg.pllsel = 1 -> XTAL [] cfg.pllsel = 2 -> MacroWdt
MacroClock ==
    (CASE cfg.mainsel = 0 -> IRC
       [] cfg.mainsel = 1 -> MacroPllIn
       [] cfg.mainsel = 2 -> MacroWdt
       [] cfg.mainsel = 3 -> IF cfg.pll THEN MacroPllIn * cfg.m ELSE MacroPllIn)
    \div cfg.ahbdiv

ReadWdt == WdtOsc(regs["WDTOSCCTRL"].freqsel, regs["WDTOSCCTRL"].divsel)
ReadPllIn ==
    CASE regs["SYSPLLCLKSEL"] = 0 -> IRC
      [] regs["SYSPLLCLKSEL"] = 1 -> XTAL
      [] regs["SYSPLLCLKSEL"] = 2 -> ReadWdt
SystemCoreClockUpdate ==
    (CASE regs["MAINCLKSEL"] = 0 -> IRC
       [] regs["MAINCLKSEL"] = 1 -> ReadPllIn
       [] regs["MAINCLKSEL"] = 2 -> ReadWdt
       [] regs["MAINCLKSEL"] = 3 -> IF regs["SYSPLLCTRL"].bypass THEN ReadPllIn
                                    ELSE ReadPllIn * regs["SYSPLLCTRL"].m)
    \div regs["SYSAHBCLKDIV"]
----------------------------------------------------------------------------
(* Operations of the program.                                               *)

Write(reg, value) == [op |-> "write", reg |-> reg, value |-> value]
PowerUp(block) == [op |-> "write", reg |-> "PDRUNCFG", value |-> regs["PDRUNCFG"] \ {block}]
OutOfReset(block) ==
    [op |-> "write", reg |-> "PRESETCTRL", value |-> regs["PRESETCTRL"] \union {block}]

(* Fault: without an edge the new selection is not taken.                   *)
JustSet(reg) == <<Write(reg, 1)>>

Toggle(reg) == <<Write(reg, 1), Write(reg, 0), Write(reg, 1)>>
Set(object) == [op |-> "set", object |-> object]
Do(name) == [op |-> name]

AHBCLKCTRL == {"SYS", "ROM", "RAM", "FLASHREG", "FLASHARRAY", "I2C", "GPIO", "CT16B0",
               "CT16B1", "CT32B0", "CT32B1", "SSP0", "UART", "ADC", "IOCON"}

(* Fault: a divider stays as it is after reset, which stops the clock.      *)
NoClock == 0

SSP0CLKDIV_Val == 1
UARTCLKDIV_Val == 1

(* (The loops that wait for an update register to read as it was written    *)
(* end at once.)                                                            *)
SystemInit ==
    <<PowerUp("SYSOSC"), Write("SYSPLLCLKSEL", cfg.pllsel)>> \o Toggle("SYSPLLCLKUEN")
    \o (IF cfg.pll THEN <<Write("SYSPLLCTRL", [m |-> cfg.m, bypass |-> cfg.bypass]),
                          PowerUp("SYSPLL"), Do("wait for lock")>> ELSE <<>>)
    \o (IF cfg.wdt THEN <<Write("WDTOSCCTRL", [freqsel |-> cfg.freqsel, divsel |-> cfg.divsel]),
                          PowerUp("WDTOSC")>> ELSE <<>>)
    \o <<Write("MAINCLKSEL", cfg.mainsel)>> \o Toggle("MAINCLKUEN")
    \o <<Write("SYSAHBCLKDIV", cfg.ahbdiv), Write("SYSAHBCLKCTRL", AHBCLKCTRL),
         Write("SSP0CLKDIV", SSP0CLKDIV_Val), Write("UARTCLKDIV", UARTCLKDIV_Val)>>

SysTick_LOAD_RELOAD_Msk == 16777215
SysTick_Config(ticks) ==
    IF ticks - 1 \notin 0 .. SysTick_LOAD_RELOAD_Msk THEN <<>>
    ELSE <<Write("LOAD", ticks - 1), Write("TICKINT", TRUE)>>

(* FDR = MULVAL << 4 | DIVADDVAL.  LCR = 0x80 opens the divisor latch.      *)
uart_init ==
    <<Write("PIO1_6", 1), Write("PIO1_7", 1), Write("TER", FALSE),
      Write("LCR", "latch"), Write("DLL", 15), Write("DLM", 0), Write("LCR", "5N1"),
      Write("FDR", [mul |-> 15, add |-> 11]), Write("LCR", "8N1"), Write("TER", TRUE)>>

spi_init ==
    <<Write("PIO0_8", 1), Write("PIO0_9", 1), Write("PIO0_6", 2), OutOfReset("SSP0"),
      Write("SSE", FALSE), Write("CPSR", 2), Set("SPI0.ssp"), Write("SSE", TRUE)>>

i2c_init ==
    <<Write("PIO0_4", 1), Write("PIO0_5", 1), OutOfReset("I2C"), Write("I2EN", FALSE),
      Write("SCLL", 60), Write("SCLH", 60), Do("NVIC_ClearPendingIRQ"),
      Write("ISER", {I2C_IRQn}), Write("I2EN", TRUE),
      Set("I2C0.i2c"), Set("I2C0.active_transaction"), Set("I2C0.transaction_queue")>>

(* Fault: the buttons and LEDs come before the bus they are on.             *)
main_early_ui ==
    SystemInit \o <<Do("SystemCoreClockUpdate")>>
    \o SysTick_Config(SystemCoreClock \div 1000)
    \o uart_init \o spi_init \o <<Do("bmw_ui_init"), Do("finish")>> \o i2c_init
    \o <<Write("DIR", {2}), Write("DATA", {2})>>

main ==
    SystemInit \o <<Do("SystemCoreClockUpdate")>>
    \o SysTick_Config(SystemCoreClock \div 1000)
    \o uart_init \o spi_init \o i2c_init
    \o <<Do("bmw_ui_init"), Do("finish")>>
    \o <<Write("DIR", {2}), Write("DATA", {2})>>

Reset_Handler == <<Do("copy .data"), Do("clear .bss")>> \o main

Booted == pc > Len(Reset_Handler)
Now == Reset_Handler[pc]
Next_is(name) == ~Booted /\ Now.op = name
----------------------------------------------------------------------------
(* Reset values.                                                            *)
ResetRegs(uen) ==
    [PDRUNCFG |-> {"ADC", "SYSOSC", "WDTOSC", "SYSPLL"}, PRESETCTRL |-> {},
     SYSPLLCLKSEL |-> 0, SYSPLLCLKUEN |-> uen, MAINCLKSEL |-> 0, MAINCLKUEN |-> uen,
     SYSPLLCTRL |-> [m |-> 1, bypass |-> FALSE],
     WDTOSCCTRL |-> [freqsel |-> 0, divsel |-> 0],
     SYSAHBCLKDIV |-> 1, SSP0CLKDIV |-> 0, UARTCLKDIV |-> 0,
     SYSAHBCLKCTRL |-> {"SYS", "ROM", "RAM", "FLASHREG", "FLASHARRAY", "GPIO", "SSP0"},
     LOAD |-> 0, TICKINT |-> FALSE, ISER |-> {},
     PIO1_6 |-> 0, PIO1_7 |-> 0, PIO0_8 |-> 0, PIO0_9 |-> 0, PIO0_6 |-> 0,
     PIO0_4 |-> 0, PIO0_5 |-> 0,
     LCR |-> "5N1", DLL |-> 1, DLM |-> 0, FDR |-> [mul |-> 1, add |-> 0], TER |-> TRUE,
     SSE |-> FALSE, CPSR |-> 0, SCLL |-> 4, SCLH |-> 4, I2EN |-> FALSE,
     CLKDIV |-> 0, CHANNEL |-> NoChannel, DIR |-> {}, DATA |-> {}]

(* The peripheral that a register is in.                                    *)
Block(reg) ==
    CASE reg \in {"PIO1_6", "PIO1_7", "PIO0_8", "PIO0_9", "PIO0_6", "PIO0_4", "PIO0_5"}
            -> "IOCON"
      [] reg \in {"LCR", "DLL", "DLM", "FDR", "TER"} -> "UART"
      [] reg \in {"SSE", "CPSR"} -> "SSP0"
      [] reg \in {"SCLL", "SCLH", "I2EN"} -> "I2C"
      [] reg \in {"CLKDIV", "CHANNEL"} -> "ADC"
      [] reg \in {"DIR", "DATA"} -> "GPIO"
      [] OTHER -> "SYS"
Works(block) ==
    /\ block \in regs["SYSAHBCLKCTRL"]
    /\ block \in {"SSP0", "I2C"} => block \in regs["PRESETCTRL"]
Reaches(reg) ==
    Works(Block(reg)) /\ (reg \in {"DLL", "DLM"} => regs["LCR"] = "latch")

Init ==
    /\ cfg \in Configs
    /\ pc = 1
    /\ \E uen \in {0, 1} : regs = ResetRegs(uen)
    /\ pllInput = 0 /\ mainSource = 0 /\ locked = FALSE
    /\ ready = {} /\ SystemCoreClock = 0
    /\ pending = {} /\ busy = FALSE /\ asked = 0
----------------------------------------------------------------------------
(* Steps of the program.                                                    *)

Latches(reg) == Now.reg = reg /\ regs[reg] = 0 /\ Now.value = 1

WriteRegister ==
    /\ Next_is("write")
    /\ pc' = pc + 1
    /\ regs' = IF Reaches(Now.reg) THEN [regs EXCEPT ![Now.reg] = Now.value] ELSE regs
    /\ pllInput' = IF Latches("SYSPLLCLKUEN") THEN regs["SYSPLLCLKSEL"] ELSE pllInput
    /\ mainSource' = IF Latches("MAINCLKUEN") THEN regs["MAINCLKSEL"] ELSE mainSource
    /\ locked' = (locked /\ ~Latches("SYSPLLCLKUEN") /\ Now.reg # "SYSPLLCTRL")
    /\ UNCHANGED <<cfg, ready, SystemCoreClock, pending, busy, asked>>

SetObject ==
    /\ Next_is("set") \/ Next_is("clear .bss")
    /\ pc' = pc + 1
    /\ ready' = ready \union {IF Now.op = "set" THEN Now.object ELSE "msTicks"}
    /\ UNCHANGED <<cfg, regs, clocks, SystemCoreClock, pending, busy, asked>>

SetCoreClock ==
    /\ Next_is("copy .data") \/ Next_is("SystemCoreClockUpdate")
    /\ pc' = pc + 1
    /\ SystemCoreClock' = IF Now.op = "copy .data" THEN MacroClock ELSE SystemCoreClockUpdate
    /\ UNCHANGED <<cfg, regs, clocks, ready, pending, busy, asked>>

WaitForLock ==
    /\ Next_is("wait for lock")
    /\ locked
    /\ pc' = pc + 1
    /\ UNCHANGED <<cfg, regs, clocks, ready, SystemCoreClock, pending, busy, asked>>

NVIC_ClearPendingIRQ ==
    /\ Next_is("NVIC_ClearPendingIRQ")
    /\ pc' = pc + 1
    /\ pending' = pending \ {I2C_IRQn}
    /\ UNCHANGED <<cfg, regs, clocks, ready, SystemCoreClock, busy, asked>>

(* bmw_ui_init: one I2C transaction after the other, until the last or      *)
(* until one fails; its result is not looked at.                            *)
StartTransaction ==
    /\ Next_is("bmw_ui_init")
    /\ pc' = pc + 1
    /\ busy' = TRUE
    /\ UNCHANGED <<cfg, regs, clocks, ready, SystemCoreClock, pending, asked>>

TransactionEnds ==
    /\ Next_is("finish")
    /\ ~busy
    /\ \/ pc' = pc + 1 /\ UNCHANGED busy
       \/ busy' = TRUE /\ UNCHANGED pc
    /\ UNCHANGED <<cfg, regs, clocks, ready, SystemCoreClock, pending, asked>>
----------------------------------------------------------------------------
(* The application.                                                         *)

Cpsr(speed) ==
    LET cpsr == SPI_PCLK \div speed
        even == cpsr + (cpsr % 2)
    IN  IF even < 2 THEN 2 ELSE IF even > 254 THEN 254 ELSE even

spi_setup(speed) ==
    /\ Booted
    /\ regs' = IF Works("SSP0") THEN [regs EXCEPT !["SSE"] = TRUE, !["CPSR"] = Cpsr(speed)]
               ELSE regs
    /\ asked' = speed
    /\ UNCHANGED <<cfg, pc, clocks, ready, SystemCoreClock, pending, busy>>

adc_init ==
    /\ Booted
    /\ regs' = IF Works("ADC") THEN [regs EXCEPT !["PDRUNCFG"] = @ \ {"ADC"},
                                     !["CLKDIV"] = 10, !["CHANNEL"] = NoChannel] ELSE regs
    /\ UNCHANGED <<cfg, pc, clocks, ready, SystemCoreClock, pending, busy, asked>>

(* A conversion, after adc_init; CLKDIV is in the same register.            *)
adc_read(ch) ==
    /\ Booted /\ Powered("ADC")
    /\ regs' = IF Works("ADC") /\ ch <= 5
               THEN [regs EXCEPT !["CHANNEL"] = ch, !["CLKDIV"] = @] ELSE regs
    /\ UNCHANGED <<cfg, pc, clocks, ready, SystemCoreClock, pending, busy, asked>>
----------------------------------------------------------------------------
(* The hardware.                                                            *)

Lock ==
    /\ Powered("SYSPLL") /\ ~locked /\ Source(pllInput) \in PllInputs
    /\ locked' = TRUE
    /\ UNCHANGED <<cfg, pc, regs, pllInput, mainSource, ready, SystemCoreClock,
                   pending, busy, asked>>

Raise(irq) ==
    /\ IF irq = SysTick_IRQn THEN regs["TICKINT"] ELSE busy /\ regs["I2EN"]
    /\ irq \notin pending
    /\ pending' = pending \union {irq}
    /\ UNCHANGED <<cfg, pc, regs, clocks, ready, SystemCoreClock, busy, asked>>

(* A handler runs.  That of the I2C may end the transaction.                *)
Take(irq) ==
    /\ irq \in pending /\ (irq = SysTick_IRQn \/ irq \in regs["ISER"])
    /\ pending' = pending \ {irq}
    /\ busy' \in IF irq = I2C_IRQn THEN {busy, FALSE} ELSE {busy}
    /\ UNCHANGED <<cfg, pc, regs, clocks, ready, SystemCoreClock, asked>>

Next ==
    \/ WriteRegister \/ SetObject \/ SetCoreClock \/ WaitForLock \/ NVIC_ClearPendingIRQ
    \/ StartTransaction \/ TransactionEnds
    \/ \E speed \in Speeds : spi_setup(speed)
    \/ adc_init \/ \E ch \in 0 .. 6 : adc_read(ch)
    \/ Lock
    \/ \E irq \in {SysTick_IRQn, I2C_IRQn} : Raise(irq) \/ Take(irq)

Spec == Init /\ [][Next]_vars
----------------------------------------------------------------------------
(* Nothing runs before what it uses is there: not a handler, whenever its   *)
(* interrupt comes, and not the driver that starts a transaction; and no    *)
(* interrupt that main enables ends in the endless loop of Dummy_Handler    *)
(* (startup.c:115-137, main.c:19-27, i2c.c:347-359).                        *)
HandlersReady ==
    [][/\ \A irq \in {SysTick_IRQn, I2C_IRQn} :
             Take(irq) => /\ Handler(irq) # "Dummy_Handler"
                          /\ Uses(Handler(irq)) \subseteq ready
       /\ StartTransaction => Uses("I2C_Handler") \subseteq ready /\ regs["I2EN"]]_vars

Near(a, b) == a - b \in -(b \div 500) .. b \div 500

(* The rates that comments and README give, for the settings as shipped.    *)
(* That of the SPI is the highest one not above the speed asked for that an *)
(* even divisor gives.                                                      *)
UartAsDocumented ==
    /\ regs["LCR"] = "8N1" /\ regs["TER"] /\ regs["PIO1_6"] = 1 /\ regs["PIO1_7"] = 1
    /\ Near(UartClock * regs["FDR"].mul,
            115200 * 16 * (256 * regs["DLM"] + regs["DLL"])
                   * (regs["FDR"].mul + regs["FDR"].add))
I2CAsDocumented ==
    /\ regs["I2EN"] /\ regs["PIO0_4"] = 1 /\ regs["PIO0_5"] = 1
    /\ 400000 * (regs["SCLL"] + regs["SCLH"]) = CoreClock
SpiAsAsked ==
    /\ regs["SSE"] /\ regs["PIO0_8"] = 1 /\ regs["PIO0_9"] = 1 /\ regs["PIO0_6"] = 2
    /\ regs["CPSR"] \in {2 * k : k \in 1 .. 127}
    /\ SspClock = SPI_PCLK
    /\ asked # 0 /\ SPI_PCLK % asked = 0 /\ SPI_PCLK \div asked <= 254
          => /\ SspClock \div regs["CPSR"] <= asked
             /\ regs["CPSR"] = 2 \/ asked * (regs["CPSR"] - 2) < SspClock
AdcAsDocumented ==
    regs["CHANNEL"] # NoChannel => CoreClock \div (regs["CLKDIV"] + 1) <= 4500000

(* The core always has a clock, and never one above 50 MHz, while PLL and   *)
(* oscillators start and sources are switched; SystemCoreClock is then the  *)
(* clock there is, for every setting, and a tick a millisecond of it; and   *)
(* with the settings as shipped every bus runs at the rate documented,      *)
(* counted from the clock of its own that SystemInit gives it               *)
(* (system_LPC11xx.c:441-442), which takes a peripheral that had its clock, *)
(* and was out of reset, when it was set up (system_LPC11xx.c,              *)
(* uart.c:8-47, spi.c:12-84, i2c.c:326-360, adc.c:7-51).                    *)
ClocksAsDocumented ==
    /\ CoreClock \in 1 .. MaxClock
    /\ Booted =>
          /\ SystemCoreClock = CoreClock
          /\ ~cfg.bypass => MacroClock = CoreClock
          /\ regs["TICKINT"] /\ regs["LOAD"] + 1 = CoreClock \div 1000
          /\ cfg = Shipped =>
                UartAsDocumented /\ I2CAsDocumented /\ SpiAsAsked /\ AdcAsDocumented
=============================================================================
