------------------------------- MODULE BmwUi -------------------------------
(***************************************************************************)
(* Buttons and LEDs: bmw_ui.c, on the I/O expander of driver/mcp23008.c,   *)
(* called by a program that pauses with delay_ms after each look at the    *)
(* buttons (prog_buttons).  An access to the expander may fail; a button   *)
(* that moves bounces for a while; the microcontroller may be reset while  *)
(* the expander keeps its registers.                                       *)
(*                                                                         *)
(* A uint8_t of pins is the set of the pins whose bit is one.  Registers   *)
(* hold such sets.  Buttons pull their pin low, LEDs shine when their pin  *)
(* is an output and low.                                                   *)
(*                                                                         *)
(* A definition marked "Fault" is a wrong version of one further down; the *)
(* specification does not use it.                                          *)
(***************************************************************************)
EXTENDS Tick, Sequences

CONSTANTS
    Buttons,        \* GPIO_MASK_BUTTON
    Leds,           \* GPIO_MASK_LED
    OpenDrain,      \* the bit MCP_IOCON_ODR
    SampleDelay,    \* ms between looks at the buttons, the 50 of prog_buttons
    BounceTime      \* ms that a button bounces

Pins == Buttons \union Leds
ASSUME PinsAssumption == Buttons \intersect Leds = {}
(* A bounce is over before the next look.                                   *)
ASSUME BounceAssumption ==
    /\ BounceTime \in Nat /\ SampleDelay \in 0 .. MaxDelay
    /\ BounceTime < SampleDelay

VARIABLES
    pc,             \* "init", "app" or "lost"
    step,           \* accesses of bmw_ui_init that are done
    i2c,            \* bmw_iox.i2c is not NULL
    led_state, button_debounce, button_state,
    button_posedge_state, button_negedge_state,
    chip,           \* the expander's registers
    pressed,        \* buttons held down
    bounce,         \* ticks each one is going to bounce
    configured,     \* history: the latest bmw_ui_init succeeded, and nobody
                    \*   else has written to the expander
    asked, ledOk,   \* history: LEDs the caller wants; the latest write worked
    before,         \* history: of each button's previous sample, was it
                    \*   "clean", "noisy" or "failed"?
    recent,         \* history: positions a button has been in since then
    atPosedge, atNegedge    \* history: button_state at the latest poll

driver == <<led_state, button_debounce, button_state, button_posedge_state,
            button_negedge_state>>
edges == <<button_posedge_state, button_negedge_state>>
world == <<pressed, bounce, recent>>
leds == <<asked, ledOk>>
polls == <<atPosedge, atNegedge>>
vars == <<pc, step, i2c, driver, chip, world, configured, leds, before, polls,
          tickVars>>

Position(b) == IF b \in pressed THEN "down" ELSE "up"
----------------------------------------------------------------------------
(* The expander.                                                            *)

PowerOn == [r \in {"IODIR", "IPOL", "GPINTEN", "DEFVAL", "INTCON", "IOCON",
                   "GPPU", "OLAT"} |-> IF r = "IODIR" THEN Pins ELSE {}]

(* A write to GPIO goes to the output latch.                                *)
Written(reg, value) == [chip EXCEPT ![IF reg = "GPIO" THEN "OLAT" ELSE reg] = value]

(* When a write fails, the chip may have taken it or not.                   *)
RegWrite(reg, value, ok) ==
    chip' \in IF ok THEN {Written(reg, value)} ELSE {chip, Written(reg, value)}

Differ(a, b) == (a \ b) \union (b \ a)
Noisy == {b \in Buttons : bounce[b] > 0}

(* What a read of GPIO may find: the levels of the pins, inverted where     *)
(* IPOL says so; anything for a bouncing button.                            *)
Levels(noise) ==
    ((Buttons \ pressed) \ Noisy) \union noise \union (chip["OLAT"] \ chip["IODIR"])
GpioReads == {Differ(Levels(noise), chip["IPOL"]) : noise \in SUBSET Noisy}

Lit == {l \in Leds : l \notin chip["IODIR"] /\ l \notin chip["OLAT"]}
----------------------------------------------------------------------------
Init ==
    /\ pc = "init" /\ step = 0 /\ i2c = FALSE
    /\ led_state = {} /\ button_debounce = {} /\ button_state = {}
    /\ button_posedge_state = {} /\ button_negedge_state = {}
    /\ chip = PowerOn
    /\ pressed \in SUBSET Buttons /\ bounce = [b \in Buttons |-> 0]
    /\ configured = FALSE /\ asked = {} /\ ledOk = FALSE
    /\ before = [b \in Buttons |-> "failed"]
    /\ recent = [b \in Buttons |-> {Position(b)}]
    /\ atPosedge = {} /\ atNegedge = {}
    /\ TickInit

Ready == pc = "app" /\ delay = "no"
----------------------------------------------------------------------------
(* bmw_ui_init.                                                             *)

(* Fault: the polarity of the buttons is left as it is after power-on.      *)
NoPolarity ==
    <<<<"IODIR", Buttons>>, <<"IPOL", {}>>, <<"GPINTEN", {}>>,
      <<"DEFVAL", {}>>, <<"INTCON", {}>>, <<"IOCON", {OpenDrain}>>,
      <<"GPPU", {}>>, <<"GPIO", Leds>>>>

InitWrites ==
    <<<<"IODIR", Buttons>>, <<"IPOL", Buttons>>, <<"GPINTEN", {}>>,
      <<"DEFVAL", {}>>, <<"INTCON", {}>>, <<"IOCON", {OpenDrain}>>,
      <<"GPPU", {}>>, <<"GPIO", Leds>>>>

InitReturns == pc' = "app" /\ step' = 0

(* The history begins anew with the next bmw_ui_init.                       *)
Unconfigured ==
    /\ configured' = FALSE /\ asked' = {} /\ ledOk' = FALSE
    /\ before' = [b \in Buttons |-> "failed"]

mcp23008_probe(ok) ==
    /\ pc = "init" /\ step = 0
    /\ i2c' = ok
    /\ IF ok THEN step' = 1 /\ UNCHANGED pc ELSE InitReturns
    /\ UNCHANGED <<driver, chip, world, configured, leds, before, polls, tickVars>>

InitWrite(ok) ==
    /\ pc = "init" /\ step \in 1 .. Len(InitWrites)
    /\ RegWrite(InitWrites[step][1], InitWrites[step][2], ok)
    /\ IF ok THEN step' = step + 1 /\ UNCHANGED pc ELSE InitReturns
    /\ UNCHANGED <<i2c, driver, world, configured, leds, before, polls, tickVars>>

InitReadFails ==
    /\ pc = "init" /\ step = Len(InitWrites) + 1
    /\ InitReturns
    /\ UNCHANGED <<i2c, driver, chip, world, configured, leds, before, polls, tickVars>>

InitRead ==
    /\ pc = "init" /\ step = Len(InitWrites) + 1
    /\ \E data \in GpioReads :
          /\ button_state' = data \intersect Buttons
          /\ button_debounce' = data \intersect Buttons
          /\ atPosedge' = data \intersect Buttons
          /\ atNegedge' = data \intersect Buttons
    /\ led_state' = Leds
    /\ button_posedge_state' = {} /\ button_negedge_state' = {}
    /\ InitReturns
    /\ configured' = TRUE /\ asked' = {} /\ ledOk' = TRUE
    /\ before' = [b \in Buttons |-> IF b \in Noisy THEN "noisy" ELSE "clean"]
    /\ recent' = [b \in Buttons |-> {Position(b)}]
    /\ UNCHANGED <<i2c, chip, pressed, bounce, tickVars>>

(* test_bmw_ui initialises once more.                                       *)
bmw_ui_init ==
    /\ Ready
    /\ pc' = "init" /\ step' = 0
    /\ Unconfigured
    /\ UNCHANGED <<i2c, driver, chip, world, polls, tickVars>>
----------------------------------------------------------------------------
(* LEDs.                                                                    *)

LedWrite(state, want, ok) ==
    /\ Ready /\ i2c
    /\ led_state' = state
    /\ RegWrite("GPIO", led_state', ok)
    /\ asked' = IF configured THEN want ELSE {}
    /\ ledOk' = (ok /\ configured)
    /\ UNCHANGED <<pc, step, i2c, button_debounce, button_state, edges, world,
                   configured, before, polls, tickVars>>

bmw_ui_led_set(s, ok) == LedWrite(Leds \ s, s \intersect Leds, ok)

(* Fault: the argument is not inverted.                                     *)
led_on_uninverted(s, ok) ==
    LedWrite(led_state \intersect s, asked \union (s \intersect Leds), ok)

bmw_ui_led_on(s, ok) ==
    LedWrite(led_state \ (s \intersect Leds), asked \union (s \intersect Leds), ok)
bmw_ui_led_off(s, ok) ==
    LedWrite(led_state \union (s \intersect Leds), asked \ s, ok)

bmw_ui_led_state == Leds \ led_state
----------------------------------------------------------------------------
(* Buttons.                                                                 *)

(* Faults: two equal samples are not waited for; an edge that has not been  *)
(* polled is forgotten at the next look.                                    *)
TakesAtOnce(data) == data \intersect Buttons
Stable(data) == Buttons \ Differ(data, button_debounce)
NextState(data) ==
    ((button_state \ Stable(data)) \union (data \intersect Stable(data))) \intersect Buttons
ForgetsEdges(next) ==
    /\ button_posedge_state' = Differ(button_state, next) \intersect next
    /\ button_negedge_state' = Differ(button_state, next) \ next

NewEdges(next) ==
    /\ button_posedge_state' = button_posedge_state \union
           (Differ(button_state, next) \intersect next)
    /\ button_negedge_state' = button_negedge_state \union
           (Differ(button_state, next) \ next)

Debounced(data) ==
    /\ button_debounce' = ((button_debounce \intersect Stable(data)) \union
                           (data \ Stable(data))) \intersect Buttons
    /\ button_state' = NextState(data)
    /\ NewEdges(NextState(data))

(* A failed read leaves data uninitialised.  prog_buttons then pauses.      *)
bmw_ui_button_debounce(ok) ==
    /\ Ready /\ i2c
    /\ \E data \in IF ok THEN GpioReads ELSE SUBSET Pins : Debounced(data)
    /\ before' = [b \in Buttons |-> IF ~ok \/ ~configured THEN "failed"
                                    ELSE IF b \in Noisy THEN "noisy" ELSE "clean"]
    /\ recent' = [b \in Buttons |-> {Position(b)}]
    /\ delay_ms(SampleDelay)
    /\ UNCHANGED <<pc, step, i2c, led_state, chip, pressed, bounce, configured,
                   leds, polls>>

bmw_ui_button_posedge ==
    /\ Ready
    /\ button_posedge_state' = {}
    /\ atPosedge' = button_state
    /\ UNCHANGED <<pc, step, i2c, led_state, button_debounce, button_state,
                   button_negedge_state, chip, world, configured, leds, before,
                   atNegedge, tickVars>>

bmw_ui_button_negedge ==
    /\ Ready
    /\ button_negedge_state' = {}
    /\ atNegedge' = button_state
    /\ UNCHANGED <<pc, step, i2c, led_state, button_debounce, button_state,
                   button_posedge_state, chip, world, configured, leds, before,
                   atPosedge, tickVars>>
----------------------------------------------------------------------------
(* A call with bmw_iox.i2c = NULL: i2c_start_transaction goes through it.   *)
NullBus ==
    /\ Ready /\ ~i2c
    /\ pc' = "lost"
    /\ UNCHANGED <<step, i2c, driver, chip, world, configured, leds, before,
                   polls, tickVars>>

(* test_mcp23008 sets the expander up for itself, as far as its accesses    *)
(* work, and leaves it so.                                                  *)
test_mcp23008 ==
    /\ Ready
    /\ \E dir \in {chip["IODIR"], Buttons}, pol \in {chip["IPOL"], {}},
          latch \in {chip["OLAT"]} \union SUBSET Leds :
          chip' = [chip EXCEPT !["OLAT"] = latch, !["IODIR"] = dir, !["IPOL"] = pol]
    /\ Unconfigured
    /\ UNCHANGED <<pc, step, i2c, driver, world, polls, tickVars>>

(* Reset_Handler and main; the expander may have lost its power too.        *)
Reset ==
    /\ pc' = "init" /\ step' = 0 /\ i2c' = FALSE
    /\ led_state' = {} /\ button_debounce' = {} /\ button_state' = {}
    /\ button_posedge_state' = {} /\ button_negedge_state' = {}
    /\ chip' \in {chip, PowerOn}
    /\ Unconfigured
    /\ atPosedge' = {} /\ atNegedge' = {}
    /\ msTicks' = 0 /\ delay' = "no" /\ now' = 0 /\ ms' = 0 /\ elapsed' = 0
    /\ UNCHANGED world

(* Somebody presses or releases a button.                                   *)
Move(b) ==
    /\ pressed' = Differ(pressed, {b})
    /\ bounce' = [bounce EXCEPT ![b] = BounceTime]
    /\ recent' = [recent EXCEPT ![b] = {"up", "down"}]
    /\ UNCHANGED <<pc, step, i2c, driver, chip, configured, leds, before, polls,
                   tickVars>>

(* Time passes with the ticks.                                              *)
Tick ==
    /\ SysTick_Handler
    /\ bounce' = [b \in Buttons |-> IF bounce[b] > 0 THEN bounce[b] - 1 ELSE 0]
    /\ UNCHANGED <<pc, step, i2c, driver, chip, pressed, recent, configured,
                   leds, before, polls>>

Pause ==
    /\ OtherInterrupt \/ DelayReturns \/ DelayGoesOn \/ DelaySleep
    /\ UNCHANGED <<pc, step, i2c, driver, chip, world, configured, leds, before, polls>>

Next ==
    \/ \E ok \in BOOLEAN : mcp23008_probe(ok) \/ InitWrite(ok)
    \/ InitReadFails \/ InitRead \/ bmw_ui_init
    \/ \E s \in SUBSET Pins, ok \in BOOLEAN :
          bmw_ui_led_set(s, ok) \/ bmw_ui_led_on(s, ok) \/ bmw_ui_led_off(s, ok)
    \/ \E ok \in BOOLEAN : bmw_ui_button_debounce(ok)
    \/ bmw_ui_button_posedge \/ bmw_ui_button_negedge
    \/ NullBus \/ test_mcp23008 \/ Reset
    \/ \E b \in Buttons : Move(b)
    \/ Tick \/ Pause

Spec == Init /\ [][Next]_vars
----------------------------------------------------------------------------
(* Types, for the proofs.                                                   *)
TypeOK ==
    /\ pc \in {"init", "app", "lost"} /\ step \in 0 .. Len(InitWrites) + 1
    /\ i2c \in BOOLEAN /\ configured \in BOOLEAN /\ ledOk \in BOOLEAN
    /\ led_state \subseteq Leds /\ asked \subseteq Leds
    /\ button_debounce \subseteq Buttons /\ button_state \subseteq Buttons
    /\ button_posedge_state \subseteq Buttons /\ button_negedge_state \subseteq Buttons
    /\ pressed \subseteq Buttons /\ bounce \in [Buttons -> 0 .. BounceTime]
    /\ before \in [Buttons -> {"clean", "noisy", "failed"}]
    /\ recent \in [Buttons -> SUBSET {"up", "down"}]
    /\ atPosedge \subseteq Buttons /\ atNegedge \subseteq Buttons
    /\ msTicks \in 0 .. Word - 1 /\ now \in 0 .. Word - 1
    /\ ms \in 0 .. MaxDelay /\ elapsed \in 0 .. MaxDelay
    /\ delay \in {"no", "test", "wfi", "asleep"}

Look == \E ok \in BOOLEAN : bmw_ui_button_debounce(ok)
Shown(b) == IF b \in button_state' THEN "down" ELSE "up"

(* A change of a button's state is real: the button has been in that        *)
(* position since the previous look.  Only failed reads can feign one, and  *)
(* one alone cannot: the look before or after it must have been disturbed   *)
(* as well (bmw_ui.c:128-149, cli_programs.c:95-103, tick.c:17-21).         *)
FlipIsReal ==
    [][Look /\ configured =>
         \A b \in Buttons :
            (b \in button_state) # (b \in button_state') =>
               \/ Shown(b) \in recent[b]
               \/ /\ "failed" \in {before[b], before'[b]}
                  /\ before[b] # "clean" /\ before'[b] # "clean"]_vars

(* A button held through two undisturbed looks is shown in its position,    *)
(* pressed as one: debouncing does not lose it, and the polarity is right   *)
(* whatever the expander's registers held before bmw_ui_init.               *)
HeldIsSeen ==
    [][Look /\ configured =>
         \A b \in Buttons :
            before[b] = "clean" /\ before'[b] = "clean" /\ recent[b] = {Position(b)}
               => Shown(b) = Position(b)]_vars

(* No change is lost to a program that polls for edges, however many looks  *)
(* lie between its polls: a button that is down now and was not at the      *)
(* latest poll has its edge pending, and likewise one that is up            *)
(* (bmw_ui.c:142-165).                                                      *)
EdgesComplete ==
    /\ button_state \ atPosedge \subseteq button_posedge_state
    /\ atNegedge \ button_state \subseteq button_negedge_state

(* The LEDs remembered are those the caller asked for, and the board shows  *)
(* them unless the latest write has failed; a write that works makes up     *)
(* for those that did not (bmw_ui.c:106-124).                               *)
LedsAsAsked ==
    configured => /\ bmw_ui_led_state = asked
                  /\ ledOk => Lit = asked
============================================================================
