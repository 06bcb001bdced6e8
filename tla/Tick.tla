-------------------------------- MODULE Tick --------------------------------
(***************************************************************************)
(* The millisecond counter of system/tick.c and the program sleeping in    *)
(* delay_ms.  The counter is a uint32_t that wraps; the handler may run    *)
(* between any two steps of the program, between the test of the loop and  *)
(* its __WFI() included, which then misses that tick.                      *)
(*                                                                         *)
(* A definition marked "Fault" is a wrong version of one further down; the *)
(* specification does not use it.                                          *)
(***************************************************************************)
EXTENDS Naturals

CONSTANTS
    Word,       \* 2^32
    MaxDelay    \* the longest delay asked for
ASSUME TickAssumption ==
    /\ Word \in Nat \ {0} /\ MaxDelay \in Nat /\ MaxDelay < Word

VARIABLES
    msTicks,
    delay,      \* "no", "test", "wfi" or "asleep": place in delay_ms
    now, ms,    \* its local variable and its argument
    elapsed     \* history: ticks since delay_ms was called, up to MaxDelay

tickVars == <<msTicks, delay, now, ms, elapsed>>

TickInit ==
    /\ msTicks \in 0 .. Word - 1
    /\ delay = "no" /\ now = 0 /\ ms = 0 /\ elapsed = 0

SysTick_Handler ==
    /\ msTicks' = (msTicks + 1) % Word
    /\ elapsed' = IF delay # "no" /\ elapsed < MaxDelay THEN elapsed + 1 ELSE elapsed
    /\ delay' = IF delay = "asleep" THEN "test" ELSE delay
    /\ UNCHANGED <<now, ms>>

(* Another interrupt ends the sleep too.                                    *)
OtherInterrupt ==
    /\ delay = "asleep"
    /\ delay' = "test"
    /\ UNCHANGED <<msTicks, now, ms, elapsed>>

delay_ms(n) ==
    /\ delay = "no"
    /\ delay' = "test"
    /\ now' = msTicks /\ ms' = n
    /\ elapsed' = 0
    /\ UNCHANGED msTicks

(* Fault: the end of the delay is computed and compared.                    *)
EndsAtStop == msTicks >= (now + ms) % Word

Ends == (msTicks + Word - now) % Word >= ms

(* The locals end with the call.                                            *)
DelayReturns ==
    /\ delay = "test" /\ Ends
    /\ delay' = "no"
    /\ now' = 0 /\ ms' = 0 /\ elapsed' = 0
    /\ UNCHANGED msTicks

DelayGoesOn ==
    /\ delay = "test" /\ ~Ends
    /\ delay' = "wfi"
    /\ UNCHANGED <<msTicks, now, ms, elapsed>>

DelaySleep ==
    /\ delay = "wfi"
    /\ delay' = "asleep"
    /\ UNCHANGED <<msTicks, now, ms, elapsed>>

TickNext ==
    \/ SysTick_Handler \/ OtherInterrupt
    \/ \E n \in 0 .. MaxDelay : delay_ms(n)
    \/ DelayReturns \/ DelayGoesOn \/ DelaySleep

TickSpec == TickInit /\ [][TickNext]_tickVars
----------------------------------------------------------------------------
(* A delay lasts at least as many ticks as it was asked for, wherever the   *)
(* counter stands when it begins and whatever wakes it (tick.c:17-21).      *)
DelayLasts == [][DelayReturns => elapsed >= ms]_tickVars
============================================================================
