----------------------------- MODULE BmwUiProofs -----------------------------
(***************************************************************************)
(* A delay of Tick lasts as long as it should, for every width of the      *)
(* counter, every delay that fits into it, and wherever the counter stands *)
(* when the delay begins.                                                  *)
(*                                                                         *)
(* With it, what BmwUi promises about buttons and LEDs, for any number of  *)
(* them and any bounce that is over before the next look.                  *)
(***************************************************************************)
EXTENDS BmwUi, TLAPS

USE TickAssumption

Since(count, start) == (count + Word - start) % Word

(* Counted ticks are not fewer than the difference that the loop computes,  *)
(* until as many have been counted as a delay may be long.                  *)
TickInv ==
    /\ msTicks \in 0 .. Word - 1 /\ now \in 0 .. Word - 1
    /\ ms \in 0 .. MaxDelay /\ elapsed \in 0 .. MaxDelay
    /\ delay \in {"no", "test", "wfi", "asleep"}
    /\ delay # "no" => Since(msTicks, now) <= elapsed \/ elapsed = MaxDelay
----------------------------------------------------------------------------
LEMMA ModSmall ==
    ASSUME NEW a \in Nat, a < Word
    PROVE  a % Word = a
  BY SMT

LEMMA ModWrap ==
    ASSUME NEW a \in Nat, Word <= a, a < 2 * Word
    PROVE  a % Word = a - Word
  BY SMT

(* The difference, without a modulus.                                       *)
LEMMA SinceDef ==
    ASSUME NEW c \in 0 .. Word - 1, NEW s \in 0 .. Word - 1
    PROVE  /\ Since(c, s) = IF s <= c THEN c - s ELSE c + Word - s
           /\ Since(c, s) \in 0 .. Word - 1
  <1>1. CASE s <= c
    <2>1. c + Word - s \in Nat /\ Word <= c + Word - s /\ c + Word - s < 2 * Word
      BY <1>1
    <2> QED
      BY <1>1, <2>1, ModWrap DEF Since
  <1>2. CASE c < s
    <2>1. c + Word - s \in Nat /\ c + Word - s < Word
      BY <1>2
    <2> QED
      BY <1>2, <2>1, ModSmall DEF Since
  <1> QED
    BY <1>1, <1>2

(* A tick makes it larger by one, or zero again.                            *)
LEMMA SinceTick ==
    ASSUME NEW c \in 0 .. Word - 1, NEW s \in 0 .. Word - 1
    PROVE  /\ (c + 1) % Word \in 0 .. Word - 1
           /\ Since((c + 1) % Word, s) <= Since(c, s) + 1
  <1>1. PICK d \in 0 .. Word - 1 :
              d = (c + 1) % Word /\ (d = c + 1 \/ (d = 0 /\ c = Word - 1))
    <2>1. CASE c + 1 < Word
      BY <2>1, ModSmall
    <2>2. CASE c + 1 = Word
      BY <2>2, ModWrap
    <2> QED
      BY <2>1, <2>2
  <1>2. Since(d, s) = IF s <= d THEN d - s ELSE d + Word - s
    BY SinceDef
  <1>3. Since(c, s) = IF s <= c THEN c - s ELSE c + Word - s
    BY SinceDef
  <1>4. Since(d, s) <= Since(c, s) + 1
    BY <1>1, <1>2, <1>3
  <1> QED
    BY <1>1, <1>4

LEMMA TickInitially == TickInit => TickInv
  BY DEF TickInit, TickInv

LEMMA TickPreserved == TickInv /\ SysTick_Handler => TickInv'
  <1> SUFFICES ASSUME TickInv, SysTick_Handler
               PROVE  TickInv'
    OBVIOUS
  <1>1. /\ msTicks' \in 0 .. Word - 1
        /\ Since(msTicks', now) <= Since(msTicks, now) + 1
    BY SinceTick DEF TickInv, SysTick_Handler
  <1>2. /\ now' = now /\ ms' = ms
        /\ elapsed' \in 0 .. MaxDelay
        /\ delay' \in {"no", "test", "wfi", "asleep"}
        /\ delay' # "no" => delay # "no"
    BY DEF TickInv, SysTick_Handler
  <1>3. Since(msTicks, now) \in 0 .. Word - 1 /\ Since(msTicks', now) \in 0 .. Word - 1
    BY <1>1, SinceDef DEF TickInv
  <1>4. ASSUME delay' # "no"
        PROVE  Since(msTicks', now) <= elapsed' \/ elapsed' = MaxDelay
    <2>1. CASE elapsed < MaxDelay
      BY <1>1, <1>2, <1>3, <1>4, <2>1 DEF TickInv, SysTick_Handler
    <2>2. CASE elapsed = MaxDelay
      BY <1>2, <1>4, <2>2 DEF TickInv, SysTick_Handler
    <2> QED
      BY <2>1, <2>2 DEF TickInv
  <1>5. Since(msTicks, now)' = Since(msTicks', now)
    BY <1>2 DEF Since
  <1> QED
    BY <1>1, <1>2, <1>4, <1>5 DEF TickInv

LEMMA DelayBegins ==
    ASSUME TickInv, NEW n \in 0 .. MaxDelay, delay_ms(n)
    PROVE  TickInv'
  <1>1. Since(msTicks, msTicks) = 0
    BY SinceDef DEF TickInv
  <1>2. Since(msTicks, now)' = Since(msTicks, msTicks)
    BY DEF delay_ms, Since
  <1> QED
    BY <1>1, <1>2 DEF TickInv, delay_ms

LEMMA PausePreserved ==
    TickInv /\ (OtherInterrupt \/ DelayReturns \/ DelayGoesOn \/ DelaySleep) => TickInv'
  <1> SUFFICES ASSUME TickInv,
                      OtherInterrupt \/ DelayReturns \/ DelayGoesOn \/ DelaySleep
               PROVE  TickInv'
    OBVIOUS
  <1>1. CASE OtherInterrupt
    BY <1>1 DEF TickInv, OtherInterrupt, Since
  <1>2. CASE DelayReturns
    BY <1>2 DEF TickInv, DelayReturns, Since
  <1>3. CASE DelayGoesOn
    BY <1>3 DEF TickInv, DelayGoesOn, Since
  <1>4. CASE DelaySleep
    BY <1>4 DEF TickInv, DelaySleep, Since
  <1> QED
    BY <1>1, <1>2, <1>3, <1>4

(* What the loop computes when it ends.                                     *)
LEMMA ReturnLasts == TickInv /\ DelayReturns => elapsed >= ms
  <1> SUFFICES ASSUME TickInv, DelayReturns
               PROVE  elapsed >= ms
    OBVIOUS
  <1>1. Since(msTicks, now) >= ms
    BY DEF DelayReturns, Ends, Since
  <1>2. Since(msTicks, now) \in 0 .. Word - 1
    BY SinceDef DEF TickInv
  <1>3. Since(msTicks, now) <= elapsed \/ elapsed = MaxDelay
    BY DEF TickInv, DelayReturns
  <1> QED
    BY <1>1, <1>2, <1>3 DEF TickInv
----------------------------------------------------------------------------
(* The inductive invariant of delay_ms.                                     *)
THEOREM Inductive == TickSpec => []TickInv
  <1>1. TickInv /\ [TickNext]_tickVars => TickInv'
    <2> SUFFICES ASSUME TickInv, [TickNext]_tickVars
                 PROVE  TickInv'
      OBVIOUS
    <2>1. CASE SysTick_Handler
      BY <2>1, TickPreserved
    <2>2. CASE OtherInterrupt \/ DelayReturns \/ DelayGoesOn \/ DelaySleep
      BY <2>2, PausePreserved
    <2>3. ASSUME NEW n \in 0 .. MaxDelay, delay_ms(n)
          PROVE  TickInv'
      BY <2>3, DelayBegins
    <2>4. CASE UNCHANGED tickVars
      BY <2>4 DEF TickInv, tickVars, Since
    <2> QED
      BY <2>1, <2>2, <2>3, <2>4 DEF TickNext
  <1> QED
    BY <1>1, TickInitially, PTL DEF TickSpec

(* A delay lasts at least as many ticks as it was asked for, for every      *)
(* width of the counter and every delay that fits into it.                  *)
THEOREM DelaysLast == TickSpec => DelayLasts
  <1>1. TickInv /\ [TickNext]_tickVars => [DelayReturns => elapsed >= ms]_tickVars
    BY ReturnLasts
  <1> QED
    BY <1>1, Inductive, PTL DEF TickSpec, DelayLasts
----------------------------------------------------------------------------

USE PinsAssumption

Registers == {"IODIR", "IPOL", "GPINTEN", "DEFVAL", "INTCON", "IOCON", "GPPU", "OLAT"}
ChipOK == chip \in [Registers -> SUBSET (Pins \union {OpenDrain})]

(* How far bmw_ui_init has got.                                             *)
Progress ==
    pc = "init" =>
        /\ ~configured
        /\ step >= 1 => i2c
        /\ step >= 2 => chip["IODIR"] = Buttons
        /\ step >= 3 => chip["IPOL"] = Buttons
        /\ step = Len(InitWrites) + 1 => chip["OLAT"] = Leds

(* What holds once it has succeeded.                                        *)
SetUp ==
    configured =>
        /\ chip["IODIR"] = Buttons /\ chip["IPOL"] = Buttons
        /\ bmw_ui_led_state = asked
        /\ ledOk => chip["OLAT"] = led_state

(* A clean sample was the button's position.                                *)
At(pins, b) == IF b \in pins THEN "down" ELSE "up"
Sampled ==
    /\ \A b \in Buttons : Position(b) \in recent[b]
    /\ configured => \A b \in Buttons :
          before[b] = "clean" => At(button_debounce, b) \in recent[b]

(* A button that has not moved since the previous look bounces no more at   *)
(* the next one; right after bmw_ui_init, there is nothing to flip.         *)
Settles ==
    configured => \A b \in Buttons :
        recent[b] # {"up", "down"} /\ bounce[b] > 0 =>
            \/ b \in button_state <=> b \in button_debounce
            \/ delay # "no" /\ bounce[b] + elapsed <= BounceTime

Pauses == TickInv /\ (delay # "no" => ms = SampleDelay)

IInv ==
    /\ TypeOK /\ ChipOK /\ Progress /\ SetUp /\ EdgesComplete
    /\ Sampled /\ Settles /\ Pauses
----------------------------------------------------------------------------
(* The writes of bmw_ui_init.                                               *)
LEMMA Writes ==
    /\ Len(InitWrites) = 8
    /\ \A i \in 1 .. 8 :
          /\ InitWrites[i][1] \in Registers \union {"GPIO"}
          /\ InitWrites[i][2] \in SUBSET (Pins \union {OpenDrain})
          /\ InitWrites[i][1] = "IODIR" <=> i = 1
          /\ InitWrites[i][1] = "IPOL" <=> i = 2
          /\ InitWrites[i][1] # "OLAT"
          /\ InitWrites[i][1] = "GPIO" <=> i = 8
    /\ InitWrites[1][2] = Buttons /\ InitWrites[2][2] = Buttons
    /\ InitWrites[8][2] = Leds
  BY DEF InitWrites, Pins, Registers

LEMMA WriteKeeps ==
    ASSUME ChipOK, NEW reg \in Registers \union {"GPIO"},
           NEW value \in SUBSET (Pins \union {OpenDrain})
    PROVE  /\ Written(reg, value) \in [Registers -> SUBSET (Pins \union {OpenDrain})]
           /\ \A r \in Registers :
                 Written(reg, value)[r] =
                    IF r = (IF reg = "GPIO" THEN "OLAT" ELSE reg) THEN value ELSE chip[r]
  BY DEF ChipOK, Written, Registers

(* What a read finds of a button that does not bounce.                      *)
LEMMA CleanRead ==
    ASSUME chip["IODIR"] = Buttons, chip["IPOL"] = Buttons,
           NEW b \in Buttons, b \notin Noisy, NEW data \in GpioReads
    PROVE  b \in data <=> b \in pressed
  <1>1. PICK noise \in SUBSET Noisy : data = Differ(Levels(noise), chip["IPOL"])
    BY DEF GpioReads
  <1>2. b \in Levels(noise) <=> b \notin pressed
    BY DEF Levels
  <1> QED
    BY <1>1, <1>2 DEF Differ

LEMMA Initially == Init => IInv
  <1> SUFFICES ASSUME Init
               PROVE  IInv
    OBVIOUS
  <1>1. TypeOK
    <2>1. /\ 0 \in 0 .. Len(InitWrites) + 1 /\ 0 \in 0 .. BounceTime
          /\ 0 \in 0 .. MaxDelay /\ 0 \in 0 .. Word - 1
      BY Writes, BounceAssumption, TickAssumption
    <2>2. /\ pc \in {"init", "app", "lost"} /\ step \in 0 .. Len(InitWrites) + 1
          /\ i2c \in BOOLEAN /\ configured \in BOOLEAN /\ ledOk \in BOOLEAN
      BY <2>1 DEF Init
    <2>3. /\ bounce \in [Buttons -> 0 .. BounceTime]
          /\ before \in [Buttons -> {"clean", "noisy", "failed"}]
          /\ recent \in [Buttons -> SUBSET {"up", "down"}]
      BY <2>1 DEF Init, Position
    <2>4. /\ msTicks \in 0 .. Word - 1 /\ now \in 0 .. Word - 1
          /\ ms \in 0 .. MaxDelay /\ elapsed \in 0 .. MaxDelay
          /\ delay \in {"no", "test", "wfi", "asleep"}
      BY <2>1 DEF Init, TickInit
    <2> QED
      BY <2>2, <2>3, <2>4 DEF Init, TypeOK
  <1>2. ChipOK
    BY DEF Init, ChipOK, PowerOn, Registers
  <1>3. Progress /\ SetUp /\ EdgesComplete
    BY Writes DEF Init, Progress, SetUp, EdgesComplete
  <1>4. Sampled /\ Settles
    BY DEF Init, Sampled, Settles
  <1>5. Pauses
    BY TickInitially DEF Init, TickInit, Pauses
  <1> QED
    BY <1>1, <1>2, <1>3, <1>4, <1>5 DEF IInv
----------------------------------------------------------------------------
(* What an action leaves alone.                                             *)
LEMMA ChipFrame == ChipOK /\ UNCHANGED chip => ChipOK'
  BY DEF ChipOK

LEMMA SetUpFrame ==
    SetUp /\ UNCHANGED <<configured, chip, led_state, asked, ledOk>> => SetUp'
  BY DEF SetUp, bmw_ui_led_state

LEMMA EdgesFrame ==
    EdgesComplete /\ UNCHANGED <<button_state, edges, polls>> => EdgesComplete'
  BY DEF EdgesComplete, edges, polls

LEMMA SampledFrame ==
    Sampled /\ UNCHANGED <<pressed, recent, configured, before, button_debounce>>
       => Sampled'
  BY DEF Sampled, Position, At

LEMMA SettlesFrame ==
    Settles /\ UNCHANGED <<configured, recent, bounce, button_state, button_debounce,
                           delay, elapsed>>
       => Settles'
  BY DEF Settles

LEMMA PausesFrame == Pauses /\ UNCHANGED tickVars => Pauses'
  BY DEF Pauses, TickInv, tickVars, Since

LEMMA UnconfiguredKeeps ==
    Unconfigured => SetUp' /\ Settles'
                    /\ (Sampled /\ UNCHANGED <<pressed, recent>> => Sampled')
  BY DEF Unconfigured, SetUp, Settles, Sampled, Position
----------------------------------------------------------------------------
(* bmw_ui_init, step by step.                                               *)
LEMMA ProbeKeeps ==
    ASSUME IInv, NEW ok \in BOOLEAN, mcp23008_probe(ok)
    PROVE  IInv'
  <1> USE DEF driver, edges, world, leds, polls, tickVars
  <1>1. ChipOK' /\ SetUp' /\ EdgesComplete' /\ Sampled' /\ Settles' /\ Pauses'
    BY ChipFrame, SetUpFrame, EdgesFrame, SampledFrame, SettlesFrame, PausesFrame DEF IInv, mcp23008_probe, InitReturns
  <1>2. TypeOK'
    BY Writes DEF IInv, TypeOK, mcp23008_probe, InitReturns
  <1>3. Progress'
    BY Writes DEF IInv, Progress, mcp23008_probe, InitReturns
  <1> QED
    BY <1>1, <1>2, <1>3 DEF IInv

LEMMA WriteStepKeeps ==
    ASSUME IInv, NEW ok \in BOOLEAN, InitWrite(ok)
    PROVE  IInv'
  <1> USE DEF driver, edges, world, leds, polls, tickVars
  <1>1. EdgesComplete' /\ Sampled' /\ Settles' /\ Pauses'
    BY EdgesFrame, SampledFrame, SettlesFrame, PausesFrame DEF IInv, InitWrite, InitReturns
  <1>2. TypeOK'
    BY Writes DEF IInv, TypeOK, InitWrite, InitReturns
  <1>3. ChipOK'
    <2>1. ChipOK /\ step \in 1 .. 8
      BY Writes DEF IInv, InitWrite
    <2>2. /\ InitWrites[step][1] \in Registers \union {"GPIO"}
          /\ InitWrites[step][2] \in SUBSET (Pins \union {OpenDrain})
      BY Writes, <2>1
    <2>3. \/ chip' = chip
          \/ chip' = Written(InitWrites[step][1], InitWrites[step][2])
      BY DEF InitWrite, RegWrite
    <2>4. Written(InitWrites[step][1], InitWrites[step][2])
             \in [Registers -> SUBSET (Pins \union {OpenDrain})]
      BY <2>1, <2>2, WriteKeeps
    <2> QED
      BY <2>1, <2>3, <2>4 DEF ChipOK
  <1>4. Progress'
    <2>1. ChipOK /\ step \in 1 .. 8 /\ ~configured /\ pc = "init"
      BY Writes DEF IInv, InitWrite, Progress
    <2> DEFINE reg == InitWrites[step][1]  value == InitWrites[step][2]
    <2>2. /\ reg \in Registers \union {"GPIO"}
          /\ value \in SUBSET (Pins \union {OpenDrain})
      BY Writes, <2>1
    <2>3. CASE ~ok
      BY <2>1, <2>3 DEF Progress, InitWrite, InitReturns
    <2>4. CASE ok
      <3>1. chip' = Written(reg, value) /\ step' = step + 1
        BY <2>4 DEF InitWrite, RegWrite
      <3>2. \A r \in Registers :
               chip'[r] = IF r = (IF reg = "GPIO" THEN "OLAT" ELSE reg) THEN value
                          ELSE chip[r]
        <4>1. ChipOK
          BY <2>1
        <4> HIDE DEF reg, value
        <4>2. \A r \in Registers :
                 Written(reg, value)[r] =
                    IF r = (IF reg = "GPIO" THEN "OLAT" ELSE reg) THEN value ELSE chip[r]
          BY <2>2, <4>1, WriteKeeps
        <4> QED
          BY <3>1, <4>2
      <3>3. chip'["IODIR"] = IF step = 1 THEN Buttons ELSE chip["IODIR"]
        BY <2>1, <3>2, Writes DEF Registers
      <3>4. chip'["IPOL"] = IF step = 2 THEN Buttons ELSE chip["IPOL"]
        BY <2>1, <3>2, Writes DEF Registers
      <3>5. step = 8 => chip'["OLAT"] = Leds
        BY <2>1, <3>2, Writes DEF Registers
      <3>6. /\ UNCHANGED <<i2c, configured>> /\ i2c
            /\ step >= 2 => chip["IODIR"] = Buttons
            /\ step >= 3 => chip["IPOL"] = Buttons
        BY <2>1 DEF IInv, Progress, InitWrite
      <3> QED
        BY <2>1, <3>1, <3>3, <3>4, <3>5, <3>6, Writes DEF Progress
    <2> QED
      BY <2>3, <2>4
  <1>5. SetUp'
    BY DEF IInv, Progress, SetUp, InitWrite, InitReturns
  <1> QED
    BY <1>1, <1>2, <1>3, <1>4, <1>5 DEF IInv

LEMMA ReadFailsKeeps ==
    ASSUME IInv, InitReadFails
    PROVE  IInv'
  <1> USE DEF driver, edges, world, leds, polls, tickVars
  <1>1. ChipOK' /\ SetUp' /\ EdgesComplete' /\ Sampled' /\ Settles' /\ Pauses'
    BY ChipFrame, SetUpFrame, EdgesFrame, SampledFrame, SettlesFrame, PausesFrame DEF IInv, InitReadFails, InitReturns
  <1>2. TypeOK'
    BY Writes DEF IInv, TypeOK, InitReadFails, InitReturns
  <1>3. Progress'
    BY DEF Progress, InitReadFails, InitReturns
  <1> QED
    BY <1>1, <1>2, <1>3 DEF IInv

LEMMA InitReadKeeps ==
    ASSUME IInv, InitRead
    PROVE  IInv'
  <1> USE DEF driver, edges, world, leds, polls, tickVars
  <1>1. ChipOK' /\ Pauses'
    BY ChipFrame, PausesFrame DEF IInv, InitRead, InitReturns
  <1>2. TypeOK'
    BY Writes DEF IInv, TypeOK, InitRead, InitReturns, Noisy, Position
  <1>3. Progress'
    BY DEF Progress, InitRead, InitReturns
  <1>4. SetUp'
    <2>1. chip["IODIR"] = Buttons /\ chip["IPOL"] = Buttons /\ chip["OLAT"] = Leds
      BY Writes DEF IInv, Progress, InitRead
    <2>2. chip' = chip /\ led_state' = Leds /\ asked' = {}
      BY DEF InitRead
    <2> QED
      BY <2>1, <2>2 DEF SetUp, bmw_ui_led_state
  <1>5. EdgesComplete'
    BY DEF EdgesComplete, InitRead, InitReturns
  <1>6. Sampled'
    <2>1. chip["IODIR"] = Buttons /\ chip["IPOL"] = Buttons
      BY Writes DEF IInv, Progress, InitRead
    <2>2. PICK data \in GpioReads : button_debounce' = data \intersect Buttons
      BY DEF InitRead
    <2>3. ASSUME NEW b \in Buttons
          PROVE  /\ Position(b)' \in recent'[b]
                 /\ before'[b] = "clean" => At(button_debounce', b) \in recent'[b]
      <3>1. pressed' = pressed /\ recent'[b] = {Position(b)}
        BY DEF InitRead
      <3>2. before'[b] = "clean" => b \notin Noisy
        BY DEF InitRead
      <3>3. before'[b] = "clean" => (b \in button_debounce' <=> b \in pressed)
        BY <2>1, <2>2, <3>2, CleanRead
      <3> QED
        BY <3>1, <3>3 DEF Position, At
    <2> QED
      BY <2>3 DEF Sampled, At
  <1>7. Settles'
    BY DEF Settles, InitRead, InitReturns
  <1> QED
    BY <1>1, <1>2, <1>3, <1>4, <1>5, <1>6, <1>7 DEF IInv

LEMMA InitKeeps ==
    ASSUME IInv, bmw_ui_init
    PROVE  IInv'
  <1> USE DEF driver, edges, world, leds, polls, tickVars
  <1>1. ChipOK' /\ EdgesComplete' /\ Pauses'
    BY ChipFrame, EdgesFrame, PausesFrame DEF IInv, bmw_ui_init, Unconfigured, Ready
  <1>2. TypeOK'
    <2>1. 0 \in 0 .. Len(InitWrites) + 1
      BY Writes
    <2>2. before' \in [Buttons -> {"clean", "noisy", "failed"}]
      BY DEF bmw_ui_init, Unconfigured, Ready
    <2> QED
      BY <2>1, <2>2 DEF IInv, TypeOK, bmw_ui_init, Unconfigured, Ready
  <1>3. Progress'
    BY Writes DEF Progress, bmw_ui_init, Unconfigured, Ready
  <1>4. SetUp'
    BY UnconfiguredKeeps DEF bmw_ui_init, Unconfigured, Ready
  <1>5. Sampled'
    BY UnconfiguredKeeps DEF IInv, bmw_ui_init, Unconfigured, Ready
  <1>6. Settles'
    BY UnconfiguredKeeps DEF bmw_ui_init, Unconfigured, Ready
  <1> QED
    BY <1>1, <1>2, <1>3, <1>4, <1>5, <1>6 DEF IInv

(* LEDs.                                                                    *)
LEMMA LedWriteKeeps ==
    ASSUME IInv, NEW state \in SUBSET Leds, NEW want \in SUBSET Leds, NEW ok \in BOOLEAN,
           configured => Leds \ state = want, LedWrite(state, want, ok)
    PROVE  IInv'
  <1> USE DEF driver, edges, world, leds, polls, tickVars
  <1>1. EdgesComplete' /\ Sampled' /\ Settles' /\ Pauses'
    BY EdgesFrame, SampledFrame, SettlesFrame, PausesFrame DEF IInv, LedWrite, Ready
  <1>2. TypeOK'
    BY DEF IInv, TypeOK, LedWrite, Ready
  <1>3. ChipOK'
    <2>1. chip' = chip \/ chip' = Written("GPIO", state)
      BY DEF LedWrite, RegWrite
    <2>2. Written("GPIO", state) \in [Registers -> SUBSET (Pins \union {OpenDrain})]
      BY WriteKeeps DEF IInv, Pins
    <2> QED
      BY <2>1, <2>2 DEF ChipOK, IInv
  <1>4. Progress'
    BY DEF Progress, LedWrite, Ready
  <1>5. SetUp'
    <2>1. \A r \in Registers : Written("GPIO", state)[r] =
                                   IF r = "OLAT" THEN state ELSE chip[r]
      BY WriteKeeps DEF IInv, Pins
    <2>2. chip' = chip \/ chip' = Written("GPIO", state)
      BY DEF LedWrite, RegWrite
    <2>3. chip'["IODIR"] = chip["IODIR"] /\ chip'["IPOL"] = chip["IPOL"]
      BY <2>1, <2>2 DEF Registers
    <2>4. ledOk' => chip'["OLAT"] = state
      BY <2>1 DEF LedWrite, RegWrite, Registers
    <2>5. /\ configured' = configured /\ led_state' = state
          /\ configured => asked' = want
      BY DEF LedWrite
    <2> QED
      BY <2>3, <2>4, <2>5 DEF IInv, SetUp, bmw_ui_led_state
  <1> QED
    BY <1>1, <1>2, <1>3, <1>4, <1>5 DEF IInv

LEMMA LedsKeep ==
    ASSUME IInv, NEW s \in SUBSET Pins, NEW ok \in BOOLEAN,
           bmw_ui_led_set(s, ok) \/ bmw_ui_led_on(s, ok) \/ bmw_ui_led_off(s, ok)
    PROVE  IInv'
  <1>1. led_state \subseteq Leds /\ asked \subseteq Leds
    BY DEF IInv, TypeOK
  <1>2. configured => asked = Leds \ led_state
    BY DEF IInv, SetUp, bmw_ui_led_state
  <1>3. CASE bmw_ui_led_set(s, ok)
    BY <1>3, LedWriteKeeps DEF bmw_ui_led_set
  <1>4. CASE bmw_ui_led_on(s, ok)
    <2> DEFINE state == led_state \ (s \intersect Leds)
               want == asked \union (s \intersect Leds)
    <2>1. state \in SUBSET Leds /\ want \in SUBSET Leds
      BY <1>1
    <2>2. configured => Leds \ state = want
      BY <1>1, <1>2
    <2>3. LedWrite(state, want, ok)
      BY <1>4 DEF bmw_ui_led_on
    <2> HIDE DEF state, want
    <2> QED
      BY <2>1, <2>2, <2>3, LedWriteKeeps
  <1>5. CASE bmw_ui_led_off(s, ok)
    <2> DEFINE state == led_state \union (s \intersect Leds)
               want == asked \ s
    <2>1. state \in SUBSET Leds /\ want \in SUBSET Leds
      BY <1>1
    <2>2. configured => Leds \ state = want
      BY <1>1, <1>2
    <2>3. LedWrite(state, want, ok)
      BY <1>5 DEF bmw_ui_led_off
    <2> HIDE DEF state, want
    <2> QED
      BY <2>1, <2>2, <2>3, LedWriteKeeps
  <1> QED
    BY <1>3, <1>4, <1>5

(* Buttons.                                                                 *)
LEMMA DebouncedBits ==
    ASSUME TypeOK, NEW data, Debounced(data)
    PROVE  /\ button_debounce' \subseteq Buttons /\ button_state' \subseteq Buttons
           /\ button_posedge_state' \subseteq Buttons
           /\ button_negedge_state' \subseteq Buttons
           /\ \A b \in Buttons :
                 /\ b \in button_debounce' <=> b \in data
                 /\ b \in button_state' <=>
                       IF b \in data <=> b \in button_debounce
                       THEN b \in data ELSE b \in button_state
                 /\ b \in button_posedge_state' <=>
                       \/ b \in button_posedge_state
                       \/ b \notin button_state /\ b \in button_state'
                 /\ b \in button_negedge_state' <=>
                       \/ b \in button_negedge_state
                       \/ b \in button_state /\ b \notin button_state'
  <1>1. /\ button_debounce \subseteq Buttons /\ button_state \subseteq Buttons
        /\ button_posedge_state \subseteq Buttons
        /\ button_negedge_state \subseteq Buttons
    BY DEF TypeOK
  <1>2. /\ button_debounce' \subseteq Buttons /\ button_state' \subseteq Buttons
        /\ \A b \in Buttons :
              /\ b \in button_debounce' <=> b \in data
              /\ b \in button_state' <=>
                    IF b \in data <=> b \in button_debounce
                    THEN b \in data ELSE b \in button_state
    BY <1>1 DEF Debounced, Stable, NextState, Differ
  <1>3. /\ button_posedge_state' = button_posedge_state \union
               (Differ(button_state, button_state') \intersect button_state')
        /\ button_negedge_state' = button_negedge_state \union
               (Differ(button_state, button_state') \ button_state')
    BY DEF Debounced, NewEdges
  <1> QED
    BY <1>1, <1>2, <1>3 DEF Differ

(* A look shows what it read in button_debounce, and an undisturbed one     *)
(* reads the button's position.                                             *)
LEMMA LookBits ==
    ASSUME IInv, NEW ok \in BOOLEAN, bmw_ui_button_debounce(ok)
    PROVE  \A b \in Buttons :
              /\ b \in button_state' <=>
                    IF b \in button_debounce' <=> b \in button_debounce
                    THEN b \in button_debounce' ELSE b \in button_state
              /\ configured /\ before'[b] = "clean" =>
                    (b \in button_debounce' <=> b \in pressed)
  <1>1. PICK data \in IF ok THEN GpioReads ELSE SUBSET Pins : Debounced(data)
    BY DEF bmw_ui_button_debounce
  <1>2. \A b \in Buttons :
           /\ b \in button_debounce' <=> b \in data
           /\ b \in button_state' <=>
                 IF b \in data <=> b \in button_debounce
                 THEN b \in data ELSE b \in button_state
    BY <1>1, DebouncedBits DEF IInv
  <1>3. ASSUME NEW b \in Buttons, configured, before'[b] = "clean"
        PROVE  b \in data <=> b \in pressed
    <2>1. ok /\ b \notin Noisy
      BY <1>3 DEF bmw_ui_button_debounce
    <2>2. chip["IODIR"] = Buttons /\ chip["IPOL"] = Buttons
      BY <1>3 DEF IInv, SetUp
    <2> QED
      BY <1>1, <2>1, <2>2, CleanRead
  <1> QED
    BY <1>2, <1>3

LEMMA DebounceKeeps ==
    ASSUME IInv, NEW ok \in BOOLEAN, bmw_ui_button_debounce(ok)
    PROVE  IInv'
  <1> USE DEF driver, edges, world, leds, polls, tickVars
  <1>1. ChipOK' /\ SetUp'
    BY ChipFrame, SetUpFrame DEF IInv, bmw_ui_button_debounce, Ready
  <1>2. TypeOK'
    <2>1. /\ button_debounce' \subseteq Buttons /\ button_state' \subseteq Buttons
          /\ button_posedge_state' \subseteq Buttons
          /\ button_negedge_state' \subseteq Buttons
      BY DebouncedBits DEF IInv, bmw_ui_button_debounce
    <2>2. /\ before' \in [Buttons -> {"clean", "noisy", "failed"}]
          /\ recent' \in [Buttons -> SUBSET {"up", "down"}]
      BY DEF bmw_ui_button_debounce, Position
    <2>3. /\ msTicks' \in 0 .. Word - 1 /\ now' \in 0 .. Word - 1
          /\ ms' \in 0 .. MaxDelay /\ elapsed' \in 0 .. MaxDelay
          /\ delay' \in {"no", "test", "wfi", "asleep"}
      BY BounceAssumption, TickAssumption DEF IInv, TypeOK, bmw_ui_button_debounce, delay_ms
    <2> QED
      BY <2>1, <2>2, <2>3 DEF IInv, TypeOK, bmw_ui_button_debounce
  <1>3. Progress'
    BY DEF Progress, bmw_ui_button_debounce, Ready
  <1>4. EdgesComplete'
    <2>1. PICK data : Debounced(data)
      BY DEF bmw_ui_button_debounce
    <2>2. TypeOK /\ EdgesComplete /\ UNCHANGED <<atPosedge, atNegedge>>
      BY DEF IInv, bmw_ui_button_debounce
    <2>3. /\ button_state' \subseteq Buttons /\ atNegedge \subseteq Buttons
          /\ \A b \in Buttons :
                /\ b \in button_posedge_state' <=>
                      \/ b \in button_posedge_state
                      \/ b \notin button_state /\ b \in button_state'
                /\ b \in button_negedge_state' <=>
                      \/ b \in button_negedge_state
                      \/ b \in button_state /\ b \notin button_state'
      BY <2>1, <2>2, DebouncedBits DEF TypeOK
    <2> QED
      BY <2>2, <2>3 DEF EdgesComplete
  <1>5. Sampled'
    <2> SUFFICES ASSUME NEW b \in Buttons
                 PROVE  /\ Position(b)' \in recent'[b]
                        /\ configured' /\ before'[b] = "clean" =>
                              At(button_debounce', b) \in recent'[b]
      BY DEF Sampled, At
    <2>1. pressed' = pressed /\ recent'[b] = {Position(b)} /\ configured' = configured
      BY DEF bmw_ui_button_debounce
    <2>2. ASSUME configured, before'[b] = "clean"
          PROVE  b \in button_debounce' <=> b \in pressed
      BY <2>2, LookBits
    <2> QED
      BY <2>1, <2>2 DEF Position, At
  <1>6. Settles'
    <2>1. /\ delay' = "test" /\ elapsed' = 0 /\ bounce' = bounce
      BY DEF bmw_ui_button_debounce, delay_ms
    <2>2. \A b \in Buttons : bounce[b] \in 0 .. BounceTime
      BY DEF IInv, TypeOK
    <2> QED
      BY <2>1, <2>2, BounceAssumption DEF Settles
  <1>7. Pauses'
    <2>1. delay_ms(SampleDelay) /\ SampleDelay \in 0 .. MaxDelay
      BY BounceAssumption DEF bmw_ui_button_debounce
    <2>2. TickInv'
      BY <2>1, DelayBegins DEF IInv, Pauses
    <2> QED
      BY <2>1, <2>2 DEF Pauses, delay_ms
  <1> QED
    BY <1>1, <1>2, <1>3, <1>4, <1>5, <1>6, <1>7 DEF IInv

LEMMA PosedgeKeeps ==
    ASSUME IInv, bmw_ui_button_posedge
    PROVE  IInv'
  <1> USE DEF driver, edges, world, leds, polls, tickVars
  <1>1. ChipOK' /\ SetUp' /\ Sampled' /\ Settles' /\ Pauses'
    BY ChipFrame, SetUpFrame, SampledFrame, SettlesFrame, PausesFrame DEF IInv, bmw_ui_button_posedge, Ready
  <1>2. TypeOK'
    BY DEF IInv, TypeOK, bmw_ui_button_posedge, Ready
  <1>3. Progress'
    BY DEF Progress, bmw_ui_button_posedge, Ready
  <1>4. EdgesComplete'
    BY DEF IInv, EdgesComplete, bmw_ui_button_posedge, Ready
  <1> QED
    BY <1>1, <1>2, <1>3, <1>4 DEF IInv

LEMMA NegedgeKeeps ==
    ASSUME IInv, bmw_ui_button_negedge
    PROVE  IInv'
  <1> USE DEF driver, edges, world, leds, polls, tickVars
  <1>1. ChipOK' /\ SetUp' /\ Sampled' /\ Settles' /\ Pauses'
    BY ChipFrame, SetUpFrame, SampledFrame, SettlesFrame, PausesFrame DEF IInv, bmw_ui_button_negedge, Ready
  <1>2. TypeOK'
    BY DEF IInv, TypeOK, bmw_ui_button_negedge, Ready
  <1>3. Progress'
    BY DEF Progress, bmw_ui_button_negedge, Ready
  <1>4. EdgesComplete'
    BY DEF IInv, EdgesComplete, bmw_ui_button_negedge, Ready
  <1> QED
    BY <1>1, <1>2, <1>3, <1>4 DEF IInv

(* The rest.                                                                *)
LEMMA NullBusKeeps ==
    ASSUME IInv, NullBus
    PROVE  IInv'
  <1> USE DEF driver, edges, world, leds, polls, tickVars
  <1>1. ChipOK' /\ SetUp' /\ EdgesComplete' /\ Sampled' /\ Settles' /\ Pauses'
    BY ChipFrame, SetUpFrame, EdgesFrame, SampledFrame, SettlesFrame, PausesFrame DEF IInv, NullBus, Ready
  <1>2. TypeOK'
    BY DEF IInv, TypeOK, NullBus, Ready
  <1>3. Progress'
    BY DEF Progress, NullBus, Ready
  <1> QED
    BY <1>1, <1>2, <1>3 DEF IInv

LEMMA TestKeeps ==
    ASSUME IInv, test_mcp23008
    PROVE  IInv'
  <1> USE DEF driver, edges, world, leds, polls, tickVars
  <1>1. EdgesComplete' /\ Pauses'
    BY EdgesFrame, PausesFrame DEF IInv, test_mcp23008, Unconfigured, Ready
  <1>2. TypeOK'
    BY DEF IInv, TypeOK, test_mcp23008, Unconfigured, Ready
  <1>3. ChipOK'
    <2>1. PICK dir \in {chip["IODIR"], Buttons}, pol \in {chip["IPOL"], {}},
               latch \in {chip["OLAT"]} \union SUBSET Leds :
             chip' = [chip EXCEPT !["OLAT"] = latch, !["IODIR"] = dir, !["IPOL"] = pol]
      BY DEF test_mcp23008
    <2>2. /\ dir \in SUBSET (Pins \union {OpenDrain})
          /\ pol \in SUBSET (Pins \union {OpenDrain})
          /\ latch \in SUBSET (Pins \union {OpenDrain})
      BY DEF IInv, ChipOK, Registers, Pins
    <2> QED
      BY <2>1, <2>2 DEF IInv, ChipOK, Registers
  <1>4. Progress'
    BY DEF Progress, test_mcp23008, Unconfigured, Ready
  <1>5. SetUp'
    BY UnconfiguredKeeps DEF test_mcp23008, Unconfigured, Ready
  <1>6. Sampled'
    BY UnconfiguredKeeps DEF IInv, test_mcp23008, Unconfigured, Ready
  <1>7. Settles'
    BY UnconfiguredKeeps DEF test_mcp23008, Unconfigured, Ready
  <1> QED
    BY <1>1, <1>2, <1>3, <1>4, <1>5, <1>6, <1>7 DEF IInv

LEMMA ResetKeeps ==
    ASSUME IInv, Reset
    PROVE  IInv'
  <1> USE DEF driver, edges, world, leds, polls, tickVars
  <1>1. TypeOK'
    <2>1. /\ 0 \in 0 .. Len(InitWrites) + 1 /\ 0 \in 0 .. Word - 1
          /\ 0 \in 0 .. MaxDelay
      BY Writes, TickAssumption
    <2>2. before' \in [Buttons -> {"clean", "noisy", "failed"}]
      BY DEF Reset, Unconfigured
    <2> QED
      BY <2>1, <2>2 DEF IInv, TypeOK, Reset, Unconfigured
  <1>2. ChipOK'
    BY DEF IInv, ChipOK, PowerOn, Registers, Reset, Unconfigured
  <1>3. Progress'
    BY Writes DEF Progress, Reset, Unconfigured
  <1>4. SetUp'
    BY UnconfiguredKeeps DEF Reset, Unconfigured
  <1>5. EdgesComplete'
    BY DEF EdgesComplete, Reset, Unconfigured
  <1>6. Sampled'
    BY UnconfiguredKeeps DEF IInv, Reset, Unconfigured
  <1>7. Settles'
    BY UnconfiguredKeeps DEF Reset, Unconfigured
  <1>8. Pauses'
    BY TickInitially, TickAssumption DEF Pauses, TickInv, Reset, Unconfigured
  <1> QED
    BY <1>1, <1>2, <1>3, <1>4, <1>5, <1>6, <1>7, <1>8 DEF IInv

LEMMA MoveKeeps ==
    ASSUME IInv, NEW c \in Buttons, Move(c)
    PROVE  IInv'
  <1> USE DEF driver, edges, world, leds, polls, tickVars
  <1>1. ChipOK' /\ SetUp' /\ EdgesComplete' /\ Pauses'
    BY ChipFrame, SetUpFrame, EdgesFrame, PausesFrame DEF IInv, Move, Differ
  <1>2. TypeOK'
    BY BounceAssumption DEF IInv, TypeOK, Move, Differ
  <1>3. Progress'
    BY DEF IInv, Progress, Move, Differ
  <1>4. Sampled'
    <2>1. \A b \in Buttons : recent'[b] = IF b = c THEN {"up", "down"} ELSE recent[b]
      BY DEF IInv, TypeOK, Move
    <2>2. \A b \in Buttons : b # c => (b \in pressed' <=> b \in pressed)
      BY DEF Move, Differ
    <2>3. UNCHANGED <<configured, before, button_debounce>>
      BY DEF Move
    <2> QED
      BY <2>1, <2>2, <2>3 DEF IInv, Sampled, Position, At
  <1>5. Settles'
    <2>1. \A b \in Buttons :
             /\ recent'[b] = IF b = c THEN {"up", "down"} ELSE recent[b]
             /\ bounce'[b] = IF b = c THEN BounceTime ELSE bounce[b]
      BY DEF IInv, TypeOK, Move
    <2>2. UNCHANGED <<configured, button_state, button_debounce, delay, elapsed>>
      BY DEF Move
    <2> QED
      BY <2>1, <2>2 DEF IInv, Settles
  <1> QED
    BY <1>1, <1>2, <1>3, <1>4, <1>5 DEF IInv

LEMMA TickKeeps ==
    ASSUME IInv, Tick
    PROVE  IInv'
  <1> USE DEF driver, edges, world, leds, polls, tickVars
  <1>1. ChipOK' /\ SetUp' /\ EdgesComplete' /\ Sampled'
    BY ChipFrame, SetUpFrame, EdgesFrame, SampledFrame DEF IInv, Tick, SysTick_Handler
  <1>2. TypeOK'
    <2>1. TickInv'
      BY TickPreserved DEF IInv, Pauses, Tick
    <2>2. bounce' \in [Buttons -> 0 .. BounceTime]
      BY BounceAssumption DEF IInv, TypeOK, Tick
    <2>3. UNCHANGED <<pc, step, i2c, driver, chip, pressed, recent, configured,
                      leds, before, polls>>
      BY DEF Tick
    <2> QED
      BY <2>1, <2>2, <2>3 DEF IInv, TypeOK, TickInv
  <1>3. Progress'
    BY DEF IInv, Progress, Tick, SysTick_Handler
  <1>4. Settles'
    <2> SUFFICES ASSUME configured', NEW b \in Buttons,
                        recent'[b] # {"up", "down"}, bounce'[b] > 0,
                        ~(b \in button_state' <=> b \in button_debounce')
                 PROVE  delay' # "no" /\ bounce'[b] + elapsed' <= BounceTime
      BY DEF Settles
    <2>1. /\ configured /\ recent[b] # {"up", "down"}
          /\ ~(b \in button_state <=> b \in button_debounce)
      BY DEF Tick
    <2>2. /\ bounce[b] \in 0 .. BounceTime /\ elapsed \in 0 .. MaxDelay
          /\ bounce'[b] = IF bounce[b] > 0 THEN bounce[b] - 1 ELSE 0
      BY DEF IInv, TypeOK, Tick
    <2>3. bounce[b] > 0 /\ bounce'[b] = bounce[b] - 1
      BY <2>2, BounceAssumption
    <2>4. delay # "no" /\ bounce[b] + elapsed <= BounceTime
      BY <2>1, <2>3 DEF IInv, Settles
    <2>5. elapsed' = elapsed + 1 /\ delay' # "no"
      BY <2>2, <2>3, <2>4, BounceAssumption, TickAssumption DEF Tick, SysTick_Handler
    <2> QED
      BY <2>2, <2>3, <2>4, <2>5, BounceAssumption, TickAssumption
  <1>5. Pauses'
    BY TickPreserved DEF IInv, Pauses, Tick, SysTick_Handler
  <1> QED
    BY <1>1, <1>2, <1>3, <1>4, <1>5 DEF IInv

LEMMA PauseKeeps ==
    ASSUME IInv, Pause
    PROVE  IInv'
  <1> USE DEF driver, edges, world, leds, polls, tickVars
  <1>1. ChipOK' /\ SetUp' /\ EdgesComplete' /\ Sampled'
    BY ChipFrame, SetUpFrame, EdgesFrame, SampledFrame DEF IInv, Pause, OtherInterrupt, DelayReturns, DelayGoesOn, DelaySleep
  <1>2. TypeOK'
    <2>1. TickInv'
      BY PausePreserved DEF IInv, Pauses, Pause
    <2>2. UNCHANGED <<pc, step, i2c, driver, chip, world, configured, leds, before, polls>>
      BY DEF Pause
    <2> QED
      BY <2>1, <2>2 DEF IInv, TypeOK, TickInv
  <1>3. Progress'
    BY DEF IInv, Progress, Pause, OtherInterrupt, DelayReturns, DelayGoesOn, DelaySleep
  <1>4. Settles'
    <2>1. UNCHANGED <<configured, recent, bounce, button_state, button_debounce>>
      BY DEF Pause
    <2>2. CASE DelayReturns
      <3>1. elapsed >= ms /\ ms = SampleDelay /\ elapsed \in 0 .. MaxDelay
        BY <2>2, ReturnLasts DEF IInv, Pauses, DelayReturns, TickInv
      <3>2. \A b \in Buttons : bounce[b] \in 0 .. BounceTime
        BY DEF IInv, TypeOK
      <3>3. \A b \in Buttons : bounce[b] > 0 => ~(bounce[b] + elapsed <= BounceTime)
        BY <3>1, <3>2, BounceAssumption, TickAssumption
      <3> QED
        BY <2>1, <3>3 DEF IInv, Settles
    <2>3. CASE OtherInterrupt \/ DelayGoesOn \/ DelaySleep
      <3>1. delay' # "no" /\ elapsed' = elapsed
        BY <2>3 DEF OtherInterrupt, DelayGoesOn, DelaySleep
      <3> QED
        BY <2>1, <3>1 DEF IInv, Settles
    <2> QED
      BY <2>2, <2>3 DEF Pause
  <1>5. Pauses'
    <2>1. TickInv'
      BY PausePreserved DEF IInv, Pauses, Pause
    <2>2. UNCHANGED ms \/ delay' = "no"
      BY DEF Pause, OtherInterrupt, DelayReturns, DelayGoesOn, DelaySleep
    <2>3. delay' # "no" => delay # "no"
      BY DEF Pause, OtherInterrupt, DelayReturns, DelayGoesOn, DelaySleep
    <2> QED
      BY <2>1, <2>2, <2>3 DEF IInv, Pauses
  <1> QED
    BY <1>1, <1>2, <1>3, <1>4, <1>5 DEF IInv

----------------------------------------------------------------------------
(* The inductive invariant: what the expander, the remembered LEDs, the     *)
(* samples and the pause have to do with each other.                        *)
THEOREM UiInductive == Spec => []IInv
  <1>1. IInv /\ [Next]_vars => IInv'
    <2> SUFFICES ASSUME IInv, [Next]_vars
                 PROVE  IInv'
      OBVIOUS
    <2>1. ASSUME NEW ok \in BOOLEAN,
                 mcp23008_probe(ok) \/ InitWrite(ok) \/ bmw_ui_button_debounce(ok)
          PROVE  IInv'
      BY <2>1, ProbeKeeps, WriteStepKeeps, DebounceKeeps
    <2>2. CASE InitReadFails \/ InitRead \/ bmw_ui_init
      BY <2>2, ReadFailsKeeps, InitReadKeeps, InitKeeps
    <2>3. ASSUME NEW s \in SUBSET Pins, NEW ok \in BOOLEAN,
                 bmw_ui_led_set(s, ok) \/ bmw_ui_led_on(s, ok) \/ bmw_ui_led_off(s, ok)
          PROVE  IInv'
      BY <2>3, LedsKeep
    <2>4. CASE bmw_ui_button_posedge \/ bmw_ui_button_negedge
      BY <2>4, PosedgeKeeps, NegedgeKeeps
    <2>5. CASE NullBus \/ test_mcp23008 \/ Reset
      BY <2>5, NullBusKeeps, TestKeeps, ResetKeeps
    <2>6. ASSUME NEW b \in Buttons, Move(b)
          PROVE  IInv'
      BY <2>6, MoveKeeps
    <2>7. CASE Tick \/ Pause
      BY <2>7, TickKeeps, PauseKeeps
    <2>8. CASE UNCHANGED vars
      <3> USE <2>8 DEF vars, driver, edges, world, leds, polls, tickVars
      <3>1. TypeOK' /\ Progress'
        BY DEF IInv, TypeOK, Progress
      <3> QED
        BY <3>1, ChipFrame, SetUpFrame, EdgesFrame, SampledFrame, SettlesFrame,
           PausesFrame DEF IInv
    <2> QED
      BY <2>1, <2>2, <2>3, <2>4, <2>5, <2>6, <2>7, <2>8 DEF Next
  <1> QED
    BY <1>1, Initially, PTL DEF Spec

(* Every edge since the latest poll is pending.                             *)
THEOREM EdgesAreComplete == Spec => []EdgesComplete
  <1>1. IInv => EdgesComplete
    BY DEF IInv
  <1> QED
    BY <1>1, UiInductive, PTL

(* The LEDs are the ones asked for, for any set of them.                    *)
THEOREM LedsAreAsAsked == Spec => []LedsAsAsked
  <1>1. IInv => LedsAsAsked
    <2> SUFFICES ASSUME IInv, configured
                 PROVE  bmw_ui_led_state = asked /\ (ledOk => Lit = asked)
      BY DEF LedsAsAsked
    <2>1. /\ chip["IODIR"] = Buttons /\ Leds \ led_state = asked
          /\ ledOk => chip["OLAT"] = led_state
      BY DEF IInv, SetUp, bmw_ui_led_state
    <2>2. ASSUME ledOk
          PROVE  Lit = Leds \ led_state
      BY <2>1, <2>2 DEF Lit
    <2> QED
      BY <2>1, <2>2 DEF bmw_ui_led_state
  <1> QED
    BY <1>1, UiInductive, PTL

(* A held button is seen.                                                   *)
THEOREM HeldIsAlwaysSeen == Spec => HeldIsSeen
  <1> DEFINE Seen ==
        Look /\ configured =>
          \A b \in Buttons :
             before[b] = "clean" /\ before'[b] = "clean" /\ recent[b] = {Position(b)}
                => Shown(b) = Position(b)
  <1>1. IInv /\ [Next]_vars => [Seen]_vars
    <2> SUFFICES ASSUME IInv, Look, configured, NEW b \in Buttons,
                        before[b] = "clean", before'[b] = "clean",
                        recent[b] = {Position(b)}
                 PROVE  Shown(b) = Position(b)
      OBVIOUS
    <2>1. /\ b \in button_debounce' <=> b \in pressed
          /\ b \in button_state' <=>
                IF b \in button_debounce' <=> b \in button_debounce
                THEN b \in button_debounce' ELSE b \in button_state
      BY LookBits DEF Look
    <2>2. b \in button_debounce <=> b \in pressed
      BY DEF IInv, Sampled, At, Position
    <2> QED
      BY <2>1, <2>2 DEF Shown, Position
  <1> HIDE DEF Seen
  <1>2. Spec => [][Seen]_vars
    BY <1>1, UiInductive, PTL DEF Spec
  <1> QED
    BY <1>2 DEF Seen, HeldIsSeen

(* A change shown is real, or two looks in a row were disturbed.            *)
THEOREM FlipsAreReal == Spec => FlipIsReal
  <1> DEFINE Real ==
        Look /\ configured =>
          \A b \in Buttons :
             (b \in button_state) # (b \in button_state') =>
                \/ Shown(b) \in recent[b]
                \/ /\ "failed" \in {before[b], before'[b]}
                   /\ before[b] # "clean" /\ before'[b] # "clean"
  <1>1. IInv /\ [Next]_vars => [Real]_vars
    <2> SUFFICES ASSUME IInv, Look, configured, NEW b \in Buttons,
                        ~(b \in button_state <=> b \in button_state'),
                        Shown(b) \notin recent[b]
                 PROVE  /\ "failed" \in {before[b], before'[b]}
                        /\ before[b] # "clean" /\ before'[b] # "clean"
      OBVIOUS
    <2>1. PICK ok \in BOOLEAN : bmw_ui_button_debounce(ok)
      BY DEF Look
    <2>2. /\ b \in button_state' <=> b \in button_debounce
          /\ b \in button_debounce' <=> b \in button_debounce
      BY <2>1, LookBits
    <2>3. before[b] # "clean"
      BY <2>2 DEF IInv, Sampled, At, Shown
    <2>4. before'[b] # "clean"
      <3>1. before'[b] = "clean" => (b \in button_debounce' <=> b \in pressed)
        BY <2>1, LookBits
      <3> QED
        BY <2>2, <3>1 DEF IInv, Sampled, Position, Shown
    <2>5. ASSUME before'[b] = "noisy"
          PROVE  FALSE
      <3>1. bounce[b] > 0 /\ delay = "no"
        BY <2>1, <2>5 DEF bmw_ui_button_debounce, Noisy, Ready
      <3>2. recent[b] # {"up", "down"}
        BY DEF Shown
      <3>3. b \in button_state <=> b \in button_debounce
        BY <3>1, <3>2 DEF IInv, Settles
      <3> QED
        BY <2>2, <3>3
    <2>6. before'[b] \in {"clean", "noisy", "failed"}
      BY <2>1 DEF bmw_ui_button_debounce
    <2> QED
      BY <2>3, <2>4, <2>5, <2>6
  <1> HIDE DEF Real
  <1>2. Spec => [][Real]_vars
    BY <1>1, UiInductive, PTL DEF Spec
  <1> QED
    BY <1>2 DEF Real, FlipIsReal
=============================================================================
