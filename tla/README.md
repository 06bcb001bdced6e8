# A verification development of arm-bmw-sw

`arm-bmw-sw` is the support library and self-test of a small board around an
LPC1114 (Cortex-M0): drivers for I2C, SPI, UART, ADC and a timer, drivers for
an SPI flash and an I/O expander on top of them, a button-and-LED interface, a
command line, and a remote procedure call server with a Python client. There
is no operating system. Concurrency comes from three places: interrupt
handlers that run in the middle of the main program, peripherals and external
chips that go on by themselves, and a peer at the other end of a serial line.
That is where the modules in this directory look.

Source paths are relative to the repository; `io/`, `driver/` and `system/`
are directories of `src/`.

1. [Components](#1-components)
2. [Modules](#2-modules)
3. [Runs](#3-runs)
4. [Fairness](#4-fairness)
5. [Proofs](#5-proofs)
6. [Where code and text disagree](#6-where-code-and-text-disagree)
7. [What is not modelled](#7-what-is-not-modelled)
8. [Plan](#8-plan)

## 1. Components

| Component | State it keeps | Operations | What is hard about it |
|---|---|---|---|
| Pointer queue, `io/queue.c`, `io/lock.h` | a ring of pointers, two indices, `empty`; PRIMASK | `queue_enqueue`, `queue_dequeue` | called by the main program and by an interrupt handler; equal indices mean full or empty |
| I2C master, `io/i2c.c` | per bus: active transaction, retry count, message and byte index, a queue of transactions | `i2c_start_transaction`, `i2c_status_transaction`, `i2c_wait_transaction`, `i2c_transfer`, the handler `i2c_master_sm` | the main program and the handler share the state without a lock; retries; sleeping until an interrupt |
| Register helpers, `io/i2c_reg.c` | none | detect, read, write, read several | the message lists they build must give the bus traffic of their comments |
| SPI master, `io/spi.c` | the two FIFOs of the controller | `spi_setup`, `spi_select`, `spi_deselect`, `spi_transfer` | the controller shifts on its own; 8 entries; one buffer for both directions |
| SPI flash, `driver/sf.c` | `flash->params`; the chip's contents, write enable latch and busy bit | `spi_flash_probe`, `_write`, `_erase`, `_read`, `sf_poll_wip` | page and sector arithmetic; the chip ignores commands while busy; timeouts |
| RPC server, `urpc.c` | one buffer; place inside a frame | `rpc_read_request`, handler dispatch, `rpc_write_response` | bytes may be lost; framing must recover |
| RPC client, `pybmw/urpc.py` | attempt counter; receive buffer of the port | `call` | timeouts and retries against late answers |
| Buttons and LEDs, `bmw_ui.c` | LED state, debounce sample, button state, edge flags | `bmw_ui_init`, `_led_*`, `_button_*` | debouncing over several samples; reads and writes that fail; an expander that outlives a reset |
| I/O expander, `driver/mcp23008.c` | bus and address of the chip | probe, register read, register write | the bus is NULL after a failed probe |
| Timer, `system/tick.c` | millisecond counter | `SysTick_Handler`, `time`, `delay_ms` | the counter wraps; sleeps miss a tick or end early |
| UART, `io/uart.c` | none | `uart_putc`, `uart_getc`, `uart_gets`, `uart_read`, `uart_write` | `uart_gets` edits a bounded line |
| Command line, `ucli.c` | one line buffer, one argument array | `ucli_server`, `cmd_tokenize`, `cmd_dispatch` | splits the line in place; what earlier commands left is still there |
| `debug_printf`, `debug.c` | state of the format string | `debug_printf`, `format32_signed`, `format32_unsigned` | zero, extreme values, padding |
| ADC, `io/adc.c` | channel, divider, power | `adc_init`, `adc_read` | none |
| Startup, `system/startup.c`, `system/system_LPC11xx.c` | memory, clock registers | `Reset_Handler`, `SystemInit`, `SystemCoreClockUpdate` | register writes are lost without clock or in reset; interrupts may come at any time |
| Self test, `app/selftest/` | none | `main`, the programs of the command line, tests, example handlers | order of initialisation; number of arguments; the tests need a person at the board |
| CMSIS and LPC11xx headers | register definitions | `SysTick_Config`, `NVIC_*` | vendored |

How they interact: `i2c_transfer` is used by `io/i2c_reg.c`, which is used by
`driver/mcp23008.c`, which is used by `bmw_ui.c`. `io/i2c.c` keeps its waiting
transactions in an `io/queue.c` ring shared with its interrupt handler.
`driver/sf.c` uses `io/spi.c` and `time()`. `urpc.c`, `ucli.c` and `debug.c`
use `io/uart.c`. `urpc.c` talks to `pybmw/urpc.py` over a serial line. All
sleeping is `__WFI()`: any interrupt, SysTick included, ends it.

What makes each of them correct:

- Queue: behaves as an atomic bounded FIFO whoever is interrupted where.
- I2C master: serves transactions in order, completes each exactly once with a
  true result, never touches a transaction after its completion, and every
  call returns.
- Register helpers: the bus sees the transcript the comment draws.
- SPI master: no byte lost at the receive FIFO, each byte in its place, nothing
  underway at the end.
- SPI flash: only the bytes of the range change, a zero means that they have,
  every call returns.
- RPC: a handler runs only for a request that was sent, a client accepts only
  an answer to its own call, and framing recovers after a loss.
- Buttons and LEDs: a button changes state after two equal samples, each edge
  is reported once, the remembered LEDs are the ones shown.
- Timer: a delay lasts as many ticks as asked, whatever the counter is.
- Command line: never writes outside of its line; the drivers are called for
  the words that the screen shows and for no others.
- `debug_printf`: a printed number is the value, zero and negative ones included.
- Startup: every register write reaches its register, clocks and rates are
  the documented ones, and no handler runs before what it uses is set up.

The file `PROJECT.json` lists the hazards of the code, line by line, with the
properties that are about each.

## 2. Modules

### Fifo and Queue (`io/queue.c`, `io/lock.h`)

`Fifo` is the promise: a bounded sequence with atomic operations and, for each
calling context, the value that its latest operation returned. `Queue` is the
code, one action per statement: `EnqueueLock`, `EnqueueCheck`, `EnqueueStore`,
`EnqueueAdvance`, `EnqueueFlag`, `EnqueueReturn` are `queue_enqueue` from top
to bottom, the `Dequeue` actions `queue_dequeue`. `objects`, `ridx`, `widx` and
`empty` are the fields of `struct queue`; `pc`, `obj` and `ret` are the program
counter, the local variable and the result of each context. A context is the
main program (`thread`) or a handler (`isr`). The handler can be entered
between any two statements of the thread unless `primask` is set, and then runs
to its end (`Runs`, `MayCall`).

The refinement mapping (`Promise`): the FIFO's contents are the slots from
`ridx` on, as many as `Count` says, and an operation takes effect when it moves
its index. `SettledEmpty` is what `empty` is going to be once an operation that
has moved its index reaches its flag update. A result becomes visible to the
FIFO at the moment it is decided (`Outcome`), not at the return.

### I2CService, I2CMaster and I2CWire (`io/i2c.c`, `io/i2c_reg.c`)

`I2CService` is the promise: a first-come first-served service with a sequence
of pending transactions and an outcome for each finished one.

`I2CMaster` is the driver and its environment:

- *The main program.* `Start` to `KickoffArm` are the statements of
  `i2c_start_transaction`, with `i2c_master_dequeue` inlined as it is called
  from there (`KickoffDequeue`, `KickoffStore`, `KickoffReset`, `KickoffArm`);
  `StatusTransaction`, `WaitTransaction` and `Wait` are the other calls. The
  loops around `__WFI()` are `Enqueue` or `Wait`, then `WaitForInterrupt`, then
  sleeping until a handler or `SysTick` runs.
- *The handler.* `SendAddress` to `UnknownStatus` are the branches of
  `i2c_master_sm`, each with everything it calls: `Finish` is the completion of
  a transaction with `DequeueNext`, the handler's use of `i2c_master_dequeue`.
  A handler is one action, because the main program stands still meanwhile.
  Status codes carry their names from the data sheet, as in the code.
- *The controller and the bus.* `BusStart` to `BusFault` follow the flags the
  driver has left in CONSET (`con`) and report a status (`stat`). The slave may
  refuse any address or byte. A read byte is known by its place in the frame,
  so that a wrong place in a buffer can be seen.

`queue_enqueue` and `queue_dequeue` are single steps on a sequence here: that
is what the refinement of module `Queue` entitles to.

`owner` records who may touch a transaction; it is history and no field of the
code. `wire` and `attempts` are history of the bus since the last START and of
the STARTs sent for the active transaction.

`I2CWire` extends it with what the bus must look like: the transcripts of the
comments of `io/i2c_reg.c`, and what each result of a transaction therefore
means.

### Spi (`io/spi.c`)

`Fill`, `FillDone`, `Drain` and `DrainDone` are the two inner loops and the
outer loop of `spi_transfer`; `ShiftOut` and `ShiftIn` are the controller, which
takes a byte from the transmit FIFO, puts it on the wire and stores the answer,
or loses it if the receive FIFO is full. They interleave in every order. The
send and the receive buffer may be the same one or NULL.

### SpiFlash (`driver/sf.c`)

`Write` and `Erase` are the checks at the top of `spi_flash_write` and
`spi_flash_erase`; `WriteEnable`, `Modify`, `PollStatus`, `PollDone`,
`PollTimeout` and `PollAgain` are the loops over pages and sectors with
`sf_poll_wip` inlined. One SPI command is one step: module `Spi` shows that it
arrives in full. The chip (`Command`, `Finish`) ignores every modifying command
while it is busy or not write-enabled, wraps a program around inside its page,
and clears its write enable latch when it finishes. Sums of addresses and
lengths are taken modulo `Word`, as the 32-bit arithmetic of the code is.

A byte of the chip is the set of what was programmed into it since its last
erase, because programming can only clear bits. `spi_flash_read` changes
nothing and is not an action.

### Urpc (`urpc.c`, `pybmw/urpc.py`)

The board and the host read frames alike: they shift bytes in until the last
four are the header, read six more, check the length, read the data and verify
the checksum. `Hunting`, `Latest`, `Read`, `TooLong`, `InFull` and
`ChecksumMatches` are that reading, one byte at a time, as the loop of
`uart_getc` or `self.ser.read` does it; `server` and `client` are the place of
each end in a frame. What an end does when it has read something is its own:

- *The board.* `ServerWaits` takes a byte in, `ServerRefuses` is
  `rpc_read_request` returning an error (the server then says nothing),
  `ServerServes` is the search of the handler, its call and
  `rpc_write_response`, "method not found" included.
- *The host.* `Call`, then `ClientWaits`, `ClientRefuses` (an exception of
  `_rpc_read_response`), `ClientAccepts` with the tests at the end of `call`
  (`Result`) and `ClientTimeout`. `Retry` is the `except` clause with the check
  that follows the loop.
- *The line* loses any byte in either direction (`Lose`). The receive FIFO of
  the board, which overflows while a handler runs, is part of the line.

Abstractions: a byte is tagged with its sort (header, number, half a checksum,
answer), so that what a reader finds in a wrong place is recognised. Half a
checksum that is read as a length is any number. The checksum is ideal: it is
the content that it is computed over, so that no mixture of frames has a
matching one. CRC-16 misses one mixture in 65536; that is not modelled.
Numbers and answers differ from header bytes: a payload that contains a header
is left out. A handler's answer is one byte that tells its executions apart. A
frame is written in one step; the reader at the other end is delayed instead.

`patient` is chosen once: a patient host times out only when nothing is on its
way any more, that is, its timeout exceeds every delay. The host cannot know;
10 s is its default. `sent`, `executed`, `since`, `clean` and `owed` are history:
`clean` says that the latest call began on a quiet line and has lost nothing,
`owed` how many bytes the board could then still take for a frame that an
earlier loss has cut short (`Owed`).

### Tick (`system/tick.c`)

`SysTick_Handler` is the handler; `delay_ms` the call, and `DelayReturns`,
`DelayGoesOn`, `DelaySleep` the steps of its loop: the test, the way to
`__WFI()`, and the sleep. A tick between the test and the sleep does not end
the sleep (`delay = "wfi"` becomes `"asleep"` all the same), and any other
interrupt may end it (`OtherInterrupt`). `elapsed`, history, counts the ticks
since the call; the comparison in `Ends` is the unsigned one of the code.

### BmwUi (`bmw_ui.c`, `driver/mcp23008.c`)

The program of `app/selftest/cli_programs.c:95` in its environment: it looks at
the buttons (`bmw_ui_button_debounce`), pauses with `delay_ms` of `Tick`, and
between looks sets LEDs and polls for edges as it likes. A byte of pins is the
set of its ones; `Differ` is exclusive or, `\` the "and not" of the code.

- `mcp23008_probe`, `InitWrite`, `InitReadFails` and `InitRead` are the accesses
  of `bmw_ui_init` from top to bottom, one step each, since the board may be
  reset between them. `InitWrites` lists the registers in the code's order.
- `LedWrite` and `bmw_ui_button_debounce` are whole calls: nothing else touches
  their variables. Their accesses may fail (`ok`). A write that fails may have
  arrived or not; a read that fails leaves `data` as any byte, as the code does
  not initialise it.
- `NullBus` is the call through the NULL bus after a failed probe, where the
  model ends (`pc = "lost"`).
- `chip` is the expander with the registers that the driver uses; `Levels` is
  what its pins are at and `GpioReads` what a read may find: inverted where the
  polarity register says so, anything for a button that bounces. `Reset`
  restarts the board, with or without the expander losing its power too.
  `test_mcp23008` is the expander's own test, which leaves its own settings.
- `Move` is the person at the button, which then bounces for `BounceTime` ticks.
- `before`, `recent`, `asked`, `ledOk`, `atPosedge`, `atNegedge` and
  `configured` are history: how the previous look went, where each button has
  been since, which LEDs are wanted, and what the program saw at its latest poll.

### DebugPrintf and Console (`debug.c`, `io/uart.c`, `ucli.c`, `cli_programs.c`)

`DebugPrintf` holds the formatted output as functions: `Digits` is the loop of
both conversions, from the end of the buffer; `Step` is the state machine of
`debug_printf`, one character of the format after another. `NumberIn` reads a
text back, and is the reference. The negation of the most negative number
overflows; `wraps` chooses, once, between a build where it wraps (then the
remainders that index the digit table are negative, and characters are unknown)
and one where it does not.

`Console` is the command line: `GetCharacter`, `GetErase` and `GetNewline` are
the branches of `uart_gets`, `Tokenize` is `cmd_tokenize` with what `strtok`
does to the line, and `RunQuick` to `RunServer` are `cmd_dispatch` with the
program called. `prog_test` to `prog_i2c` give the driver calls of a program as
a function of the number of arguments and the strings found through `argv`, in
the state in which the programs find them. `printed` has every number that the
latest command shows, with its conversion and its text: times and readings, the
results of `spi_flash_probe` and of the I2C calls (a driver may return any of
`Results`), the bytes read from the flash (`RunRead`), and addresses, registers
and data of `prog_i2c` (`RunScan`, `RunDetect`, `RunRegister`). `Unpassed` is a
conversion that is given no argument: it shows whatever word it finds. Words
around the numbers are left out. `buf` and `argv` keep what earlier commands
left. `screen` is the terminal: what was echoed, and the cursor. A whole name may
stand for one character of the line.

### Boot (`system/startup.c`, `system/system_LPC11xx.c`, `main.c`, `*_init`)

The program from reset to the application is a sequence of operations
(`Reset_Handler`, made of `SystemInit`, `uart_init`, `spi_init`, `i2c_init` and
`main`), of which each step takes one. A register write
reaches its register only if the peripheral has its clock and is out of reset
(`Reaches`); clock sources are switched at the rising edge of their update
registers (`Latches`), and the PLL locks when it likes. Interrupts are raised
and taken between any two steps; `Handler` finds them through the vector table
and the weak aliases, `Uses` says which objects a handler reads, `ready` which
of these have been set. `CoreClock` is the clock that the hardware delivers to the
core, `UartClock` and `SspClock` what it delivers to UART and SPI, each through a
divider of its own that is 0, no clock, after reset; `SystemCoreClockUpdate` and
`MacroClock` are what the program computes. `spi_setup`,
`adc_init` and `adc_read` may follow once `main` is done.

`Configs` are settings of the configuration wizard of `system_LPC11xx.c`: values
that the checks of that file accept (`Wizard`) and that ask for a clock (`Chosen`)
that exists, is at most 50 MHz and, divided, is fast enough to be counted in
milliseconds (`ClockAssumption`). With a setting that asks for a source it does
not start, `main` never begins; such settings are left out.

### Wrong versions

Each module holds a few definitions marked "Fault": a plausible wrong version
of the definition that follows (a lock that does not lock, a page length that
forgets the offset, a retry that is not counted). The specifications do not use
them. Put in the place of the right one, each makes a named property fail; the
list is under "mutants" in `PROJECT.json`. They are there to show that each
property depends on the code.

## 3. Runs

Passing runs:

| Run | Instance | Question |
|---|---|---|
| `queue_irq` | 2 objects, 3 slots, both contexts call both operations | Is the ring an atomic FIFO, and are the critical sections exclusive, wherever the handler is entered? |
| `i2c_queue` | 3 transactions: write and read, empty write, read of 2 bytes; queue of 1; 1 retry; arbitration losses | Do the main program and the handler share the driver's state safely, and does everything started complete, in order? |
| `i2c_bus` | one transaction at a time, of all shapes of `io/i2c_reg.c` and two longer ones; 3 retries; both faults | Is the traffic what the messages ask for, and are the results true? |
| `spi_transfer` | FIFOs of 3, transfers of 0 to 6 bytes, 2 transfers per selection | Does `spi_transfer` move each byte to its place without overrun, and return? |
| `flash_calls` | pages of 2, sectors of 4, 8 bytes, words of 4 bits; 2 calls with any argument that does not wrap | Do write and erase touch their range only, are zeros true, do the calls return? |
| `urpc_calls` | buffers of 12 bytes, bytes of 6 values; a request with data and an empty one for an unknown id; 2 calls of 2 attempts, 1 byte lost | Is everything that runs on the board asked for, everything returned an answer to it, does every call return, and does a call without losses get through? |
| `ui` | 1 button, 1 LED, a counter of 3 values, looks 2 ticks apart, a bounce of 1 | Do state, edges and LEDs follow the person and the caller, over failures, resets and wraps? |
| `console` | a line of 12 places, 5 arguments; 66 lines; words of 5 bits, bytes of 20 values | Does a command do what the screen shows, whatever was typed before, and does every number printed read as what it stands for? |
| `boot` | the settings as shipped and 6 others, 8 SPI speeds | Are clocks and rates the documented ones, and everything ready when it is used? |

Violation runs, for section 6: `flash_busy`, `flash_wrap`, `console_detect`.

What the properties say is written above each of them in its module; in short:

- `queue_irq`: `ImplementsFifo` is the refinement of `Fifo`;
  `MutualExclusion` says also that PRIMASK is set exactly inside of critical
  sections.
- `i2c_queue`: `HandlerHasTransaction` (the handler's unchecked pointers and
  indices are good whenever it can run), `KickoffUndisturbed` (no interrupt
  during the unlocked kick-off), `NoStrandedTransaction` (nothing waits in the
  queue of an idle driver), `DriverHoldsUnfinished` (the driver holds a pointer
  exactly while it may), `CompletionIsFinal`, `ServesInOrder` (refinement of
  `I2CService`), `EveryCallReturns`, `EveryTransactionCompletes`.
- `i2c_bus`: `WireFollowsTransaction` (what passed over the bus is what the
  messages asked for), `SuccessMeansTransferred`, `ErrorMeansFailure`.
- `spi_transfer`: `ReceiverHasRoom`, `IdleBetweenTransfers`,
  `TransferredInFull`, `TransferReturns`.
- `flash_calls`: `NothingElseTouched`, `ResultIsTrue`, `NoCommandIgnored`,
  `CallReturns`.
- `urpc_calls`: `NothingInvented` (a handler runs only for a request that was
  made, a call returns only what its own handler computed), `ExecutedAsSent` (in
  order and at most once per attempt), `AnswerIsFresh` (a patient host gets an
  answer to this call, not to an earlier one), `CallReturns`, and
  `CleanCallAnswered`: a patient host's call that begins with both lines quiet and
  loses no byte is answered at its first attempt if the board is hunting for a
  header, even with a part of one in hand; if the board is in the middle of a
  frame, it takes what this call sends for the rest of that, and then only so many
  attempts fail as that rest is long, in requests, the last one in part, and the
  call is given up only if it has no more attempts.
- `ui`: `EdgesComplete` (no change of a button is lost to a program that polls,
  whenever it does), `LedsAsAsked` (what is remembered was asked for, and the
  board shows it unless the latest write failed), `FlipIsReal` (a change shown
  has happened, or two looks in a row were disturbed), `HeldIsSeen` (a button
  held through two good looks is shown, pressed as pressed).
- `console`: `ScreenIsCommand` (the calls into the drivers are those that the
  words on the screen mean, unless a character did not fit), `LineInBuffer`, `NumbersPrinted` (every number
  of every program, in its radix, with its sign, padded to its width; excepted are
  the most negative number and the one without an argument).
- `boot`: `ClocksAsDocumented` (the core always has a clock of at most 50 MHz;
  after `main` the program's idea of it is right, and with the settings as
  shipped UART, SPI, I2C and ADC have their documented rates, those of UART and
  SPI counted from the clocks that their own dividers give them), `HandlersReady`
  (no handler and no transaction before its objects; no enabled interrupt ends
  in `Dummy_Handler`).

Bounds, and why they are enough:

- A ring of three slots has full, empty, partly filled and wrapped states and
  a distinct slot for both ends; two objects tell reordering from order.
- Three transactions fill a driver whose queue has one slot: one active, one
  queued, one caller waiting for room (`I2C_QUEUE_SIZE` in the code is larger;
  the case of a full queue needs only to be reached). One retry is enough for
  "tried again" and "no retry left". The shapes are those with no byte, one byte
  and a byte in the middle, in both directions.
- One transaction at a time suffices on the bus: transactions do not share it,
  and what one leaves behind (retry count, indices, flags) is met by the next,
  since the run goes on for ever.
- Transfers of up to twice the FIFO's size make the gap between sent and
  received reach its bound and stay there. Two transfers per selection let a
  stale byte be found. Read-back through the same buffer is included.
- Two pages per sector and two sectors give writes that start and end inside,
  at and across both borders; words of 16 leave room for addresses beyond the
  capacity. Two calls let the second find a busy chip.
- One lost byte is enough to make a reader take the head of the next frame as
  the rest of this one, to shift the length onto a byte of the data or of the
  next checksum, and to provoke a second attempt; the second call then meets
  what is left. Timeouts can spoil both attempts of a call.
- A buffer of `urpc_calls` takes more bytes than a request is long. A lost byte
  can turn a request into a frame with so much data (a 2 that is read as the upper
  half of a length makes it 12), which swallows all of the call's second attempt:
  the call is given up, and the next one, which loses nothing, finds the board in
  the middle of that frame and gets through at its second attempt.
- Buttons do not affect each other, nor do LEDs: the code works bit by bit. The
  theorems hold for any number. With a counter of 3 values and a delay of 2,
  most delays meet the wrap.
- The lines of `console` are all sequences of up to three of a name, a space
  and an erasure, and commands for every program with too few, enough and too
  many arguments, corrected, and longer than the line. Numbers printed in decimal
  are of either sign, zero and the most negative one among them, those in
  hexadecimal have one digit or two; `sf read` prints several pieces of its buffer
  and a part of one. Five bits leave room for two digits in each radix.
- The seven settings of `boot` reach the core's clock in each way there is:
  each source, with PLL, PLL bypassed and without, and divided.

`I2CMaster.MaxPending`, `Spi.MaxLen`, `Spi.MaxTransfers`, `SpiFlash.MaxCalls`,
`Urpc.MaxCalls` and `Urpc.MaxLosses` are bounds of the models and not of the
code.

Deadlock is checked in every run but three: in `urpc_calls` the host stops after
its last call, and the board, as it should, waits for a byte; in `console` and
`console_detect` the program `rpc_server` never returns.

## 4. Fairness

Only liveness properties use it.

- `I2CMaster!Fairness`: the main program does not stop inside of a driver call
  (there is no scheduler to stop it; handlers are finite); a pending interrupt
  is taken (no code masks interrupts for good, which `MutualExclusion`
  shows); SysTick ticks (`app/selftest/main.c:22` starts it before the I2C driver is
  used, and nothing stops it); the bus goes on with what it was told. Nothing
  is assumed of the application: it need not make another call, nor collect a
  result.
- SysTick is essential: both waiting loops test a condition and then execute
  `__WFI()`, and an interrupt served in between is missed. The driver then
  sleeps until the next tick. Without ticks `EveryCallReturns` is false (the
  fault `NoSysTick`).
- `Spi!FairSpec`: the caller polls without being stopped and the controller
  shifts what it has been given.
- `SpiFlash!FairSpec`: the driver is not stopped and the clock runs. The chip
  need not finish: then the calls return because of their timeout.
- `Urpc!FairSpec`: the board reads what arrives (its only loop is the server),
  and the host reads or its timeout passes. Losses are not fair, and nothing
  obliges the host to call.

`BmwUi`, `Console` and `Boot` assume none: what is asked of them is safety. One
assumption about time takes the place of fairness in `BmwUi`: a bounce is over
before the next look (`BounceAssumption`), which the 50 ms of `prog_buttons`
make true for a common button, and the 1 ms of the tests do not.

A slave that holds SCL low for ever stops the bus without an interrupt; no call
of the I2C driver has a timeout, so it would not return. That is outside of the
fairness assumed, and listed as a hazard without a property.

## 5. Proofs

Checked by TLAPS, for all values of the constants that satisfy the assumptions
named in the modules (a ring has at least one slot; transactions have at least
one message and read messages at least one byte; a FIFO has at least one entry;
the flash geometry is made of whole pages and sectors and fits the word; a
request fits the buffer of the board; a delay is shorter than the counter's
period; the buffer of a number holds its binary digits; no NUL is typed; no pin is both button and LED, and a bounce is shorter than the
pause; the clock settings are some that the wizard takes and that give a clock
of at most 50 MHz).

| Module | Theorems | Establish |
|---|---|---|
| `QueueProofs` | `TypeCorrect`, `CriticalSections`, `Refinement` | types, mutual exclusion, and that the ring buffer implements the FIFO |
| `I2CProofs` | `Inductive`, `TypeCorrect`, `HandlerSafe`, `KickoffSafe`, `NoneStranded`, `CompletionStays`, `HoldsExactlyUnfinished`, `Refinement` | all safety properties of `i2c_queue` and that the driver implements `I2CService` |
| | `WireInductive`, `WireFollows`, `SuccessTransferred`, `ErrorFailed` | all properties of `i2c_bus`: what the bus carries, what success and each error code mean, which bytes are stored |
| `SpiProofs` | `Inductive`, `TypeCorrect`, `NoOverrun`, `IdleAfterwards`, `MovesEveryByte` | all safety properties of `spi_transfer` |
| `SpiFlashProofs` | `Inductive`, `TypeCorrect`, `OnlyTheRange`, `ZeroMeansDoneIfIdle`, `CommandsTaken` | all safety properties of `flash_calls` |
| `UrpcProofs` | `Inductive`, `TypeCorrect`, `NoInvention`, `RunsInOrder`, `CleanCalls`, `FewLossesStayFresh` | neither buffer is overrun, nothing runs that was not asked for, nothing is returned that was not computed; handlers run in the order of the requests, at most once per writing, whatever is lost; a call on a quiet line that loses nothing is answered at its first attempt, or, by a board in the middle of a frame, once its attempts have filled that; what a patient host gets is about its call while at most six bytes are lost |
| `BmwUiProofs` | `Inductive`, `DelaysLast`, `UiInductive`, `EdgesAreComplete`, `LedsAreAsAsked`, `HeldIsAlwaysSeen`, `FlipsAreReal` | a delay is never shorter than asked, wherever the counter stands; all properties of `ui` |
| `ConsoleProofs` | `LineStaysInBuffer`, `CallsWhatIsShown`, `PrintsNumbers` | all properties of `console`: the line ends within its buffer; the drivers are called for what the screen shows; a number printed reads as its value |
| `BootProofs` | `SetUp`, `WritesArrive`, `HandlersAreReady`, `ClocksAreAsDocumented` | all properties of `boot`, and that no register write is lost, for every clock setting and every speed of an SPI slave |

The arguments:

- *Queue.* Mutual exclusion is inductive together with: the handler is active
  only while the thread is outside of its critical section
  (`HandlerOutsideLock`). For the refinement one needs what each statement may
  rely on (`EnqueueFacts`, `DequeueFacts`): from the check to the move of the
  index the queue is not full (or not empty), the stored slot holds the
  argument, the object read is the one at `ridx`. Then the moves of the indices
  map to `Enqueue` and `Dequeue`, the checks that fail to the refusals, and all
  else to stuttering; lemmas about `Ring` say what a move does to the contents.
- *I2C master.* The properties are not inductive by themselves: whether an
  interrupt finds a transaction depends on what has become of the START and STOP
  flags. The invariant (`IInv`) adds: while no transaction is active, or one is
  being kicked off, the controller is quiet (it has been asked for nothing, and
  owns the bus only if a STOP is on its way), which statement of the kick-off
  relies on what, and that at most one transaction waits then (`KickoffFacts`);
  that START is still requested during an interrupt only if that interrupt
  reports it (`StartFacts`); that the indices are within the active transaction
  (`IndexFacts`); and that each unfinished transaction is held in exactly one
  place (`CallerFacts`, `HoldFacts`). The refinement maps the enqueue to
  `Start`, the handler's `Finish` to `Complete`, the caller's last look at
  `complete` to `Collect`, and the kick-off, in which a transaction only moves
  from the queue to `active_transaction`, to stuttering.
- *I2C bus.* `WInv` adds to the driver's invariant what it has to do with the
  bus. `WireFacts`: the bytes on the bus are the transcripts of the messages that
  are done and a part of the current one, and how long that part is follows from
  the status code that the controller reports (`Reported`) or from the flags that
  say a START is due. The property alone, that the bus shows some beginning of
  the transcript, does not say where in it the handler is, hence not that its
  next byte is the right one. `BusFacts` ties the controller's idea of reading
  and writing to the message, `AttemptFacts` counts the STARTs of a retried first
  address, `BufferFacts` has the bytes stored equal those received. A transcript
  is a concatenation over all messages (`FlattenSeq`, a recursion), so that its
  length and members are proved by induction (`UptoGrows`, `TranscriptSoFar`).
  Success is then reported at the end of the last message, where the part is the
  whole; each error code is reported with a status that says what the last event
  on the bus was.
- *SPI.* The invariant counts: bytes sent minus bytes read are exactly those in
  the two FIFOs and on the wire (`Underway`), hence the receive FIFO has room.
  `Outbound` says what the transmit side still holds in terms of the buffer as
  it was at the call, which is why a buffer that receives may also send: a place
  is overwritten only after it has been sent. `Inbound` numbers the answers.
- *SPI flash.* `Position` ties the address to the offset (a page program never
  crosses its page, an erase stays on sector borders below its end), `Contents`
  says which bytes are done, `Idleness` that a chip found idle is idle at each
  loop head. The theorems about contents have the hypothesis `NoWraparound`:
  address plus length of every call is less than 2^32. Without it they are false
  (section 6).
- *RPC.* What a frame says is known only from its bytes, and losses shift them.
  The invariant (`Bytes`) therefore speaks of the bytes: each one on the line to
  the board or in its reader is a header byte, a number, or half the checksum of
  a request in `sent`; likewise in the other direction with `executed`. These
  alphabets only grow. A frame is accepted when its first two bytes are the
  checksum of the others, hence the others are those of a request that was
  sent; what a lost byte does to the order does not matter. `Shape` is what each
  reader keeps between bytes.
- *Order of the RPC.* A request is accepted by the first half of its checksum,
  and each writing puts one such half on the line (`OneHalf`). `Ordered` says
  that these halves never overtake each other: those that executions have used
  up, the one the board is reading after, those still on the line. Losing bytes
  removes some and moves none.
- *A clean call.* `Undisturbed` follows one frame to the board (`Asking`) and one
  back (`Answering`), position by position (`HasRead`, `OnLine`). `Hunts` shows
  that whatever a reader has in its window when a frame begins, it finds the
  header at its fourth byte and not before; `ReadsOn` that it neither refuses
  nor accepts early, and has the length right; `LinesBusy` that a patient host
  does not time out meanwhile. A board found in the middle of a frame is followed
  through two more stages. While it takes bytes of the requests for the rest of that
  frame (`Supplying`), what has been supplied and what is still owed add up to no
  more than `owed`, and the frame cannot be accepted any more, because a header
  byte or a half of a checksum is among its contents (`Plausible`). Once it has
  given the frame up (`Passing`), the rest of the request it did so in holds no
  header, and it reads the next request from the start. Each attempt that fails
  has supplied a whole request, hence the bound.
- *Few losses.* The theorem about `AnswerIsFresh` has the hypothesis `FewLosses`:
  the line loses at most six bytes in all. A board that waits for the rest of a
  frame keeps waiting when the host gives the call up, and the next request's
  bytes go into the old frame. `Timely` follows the lines of a patient host:
  nothing is on them when a call begins or an attempt does (`Quiet`), then one
  request (`Asked`), then one response (`Answered`), never both. A reader that
  has found the header of the frame on the line holds some of its bytes, and the
  rest are losses (`Partly`). A reader left over from an earlier frame is
  `Doomed`: what it holds cannot be a frame, because a byte of a header or a
  checksum is out of place (`Plausible`), or it lacks so few bytes that the
  losses left do not remove a request's header, checksum and length ahead of a
  byte that fits. A byte that is not lost then gives it away (`DoomedReads`).
  Six is the most: let a request lose its last byte, which is 0, and all attempts
  be given up; let a later one, which calls method 0, lose its first six bytes.
  Its seventh, the method, completes the earlier request, which the board runs
  and answers, and the host takes that for the answer. TLC finds this behaviour
  with `MaxLosses = 7` and none with 6 (`BufferSize = 1`, `Radix = 2`,
  `MaxRetries = 1`, three calls of a known method 0 with no data or one byte).
- *Delay.* The difference that the loop computes grows by one at a tick or
  starts again from zero when it wraps (`SinceTick`); hence it is never more
  than the ticks counted (`TickInv`), and when it reaches `ms`, so many have
  passed. Wrapping can only make a delay longer, by a whole period.
- *Buttons and LEDs.* `IInv` ties three things together that the properties
  only mention apart. `Progress` and `SetUp`: after a `bmw_ui_init` that
  succeeded, direction and polarity are right whatever they were before, and the
  latch is `led_state` unless the latest write failed. `Sampled`: after a look
  that neither failed nor met a bounce, the sample kept is a position the button
  has been in since. `Settles`, the one about time: a button that has not moved
  since the latest look, but still bounces, does so for no longer than the rest
  of the pause (remaining bounce plus elapsed ticks stay within `BounceTime`),
  so that the next look finds it at rest; there the lemma about delays enters. A
  feigned change needs two equal samples that are both wrong; a clean one is not
  wrong, and two noisy ones in a row mean that the button has moved in between.
  The edges need nothing but themselves.

- *Console.* The line needs only that the erase key stops at the first place and
  a character is taken only before the last (`LineInv`). For the calls,
  `OnScreen` has the line and the cells left of the cursor agree while keys are
  typed (what is right of the cursor, or behind the end in the buffer, may be
  old). The words on the screen are described by where they are (`Layout`:
  stretches without a space, apart from each other, that cover everything else),
  by induction on the length; what `strtok` finds is that layout. Its starts
  are the beginnings of the stretches, counted by a bijection (`RanksAre`), so
  that `argv[k]` points to word `k + 1`, and it cuts behind each word that
  `argv` points to, so that each is the string found there (`WordStays`). The
  programs look at no argument beyond `argc` (`CallsAgree`). For the numbers, the
  loop over digits is followed from its end: a value that is zero after `j`
  halvings needs at most `j` digits in any radix, and they read as the value
  (`DigitsExact`), by induction on `j`; the buffer has as many places as the
  largest value has halvings (`RoomAssumption`: 64 places, 32 bits), one more
  than a negative number needs, which is the place of the sign. `PrintsExact` has
  this for each conversion that a program uses, `PrintedStep` for each program.
  The printing and the reading are folds; `PrintedIs` and `NumberIs` replace them
  by the state after each character, and zeros in front do not change what is read
  (`NumberPadded`).
- *Startup.* The program is a sequence put together from parts, some of which
  depend on the settings, and one of which (`SysTick_Config`) depends on what the
  program itself has computed by then. `Layout` says where each part is
  (`PllEnd`, `SelBegin`, `Upd` and `Dev` are the places that move), and
  `ClockWrites` to `LastWrites` what the operation at each place is. The
  invariant (`IInv`) goes by the place: from which one on a register has which
  value, a source is in use, an object is ready. It needs that writes arrive, and
  that needs the invariant: each part is entered only behind the writes that give
  its peripheral a clock and take it out of reset (`Reached`). Sources are
  switched by rising edges (`Latched`), hence the places at which an update
  register is 0. The main clock is the internal oscillator until the chosen one is
  latched, and by then the PLL has locked (`CoreRuns`). That SystemCoreClock is in
  range is what keeps `SysTick_Config` from refusing, and so the two writes of the
  tick in the program (`TickFits`): without `ClockAssumption` the program would be
  a different one. The hardware computes the clock from registers and
  `SystemCoreClockUpdate` from others; both equal `Chosen` once these have their
  values (`ChosenRuns`, `ChosenRead`). The dividers of UART and SPI are 0 until
  the last two writes of `SystemInit` (`DividersReady`), which come before
  `uart_init`; the rates are those of the main clock divided by them (`BusesRun`).
  Entries of the vector table are found by the lengths of its rows (`VectorTable`). `busy` and a pending I2C interrupt come
  only behind `bmw_ui_init`, which is behind `i2c_init`.

The library's induction theorems take an operator as a parameter, which the
provers cannot instantiate. Where a proof needs induction over positions,
messages or digits, `Induction` states it for a set of numbers, and follows from
the minimum of a well-founded relation; what a recursive function or a fold
computes is then proved in three steps: such a function exists, the one chosen
satisfies the equation, its values are the ones claimed.

Every invariant and every action property that a run checks is the subject of
a theorem. Only model-checked are the liveness properties (`EveryCallReturns`,
`EveryTransactionCompletes`, `TransferReturns`, `CallReturns`): they need fairness
and ENABLED, which the prover does not handle. Two hypotheses go beyond the
assumptions on constants: `NoWraparound` in the theorems about `SpiFlash`, and
`FewLosses` in the one about `AnswerIsFresh`.

## 6. Where code and text disagree

- `driver/sf.c:260`: a write that follows a timeout can find the chip busy. It
  then has its commands ignored and yet returns 0 once the earlier operation is
  over; the tests (`app/selftest/tests/test_spi_flash.c:86`) take 0 for success (run
  `flash_busy`). `ResultIsTrue` therefore supposes an idle chip.
- `driver/sf.c:204` promises to cut an erase off at the capacity;
  `address + len` at line 205 is taken in 32 bits, so that a range that ends
  past 2^32 is not cut and the loop ends at once, with 0 and nothing erased (run
  `flash_wrap`). The calls of `flash_calls` and the theorems leave such ranges
  out.
- `app/selftest/cli_programs.c:218` prints "detect 0x%02x failure" without an
  argument: the address shown is whatever word `va_arg` finds. The message about
  success, `cli_programs.c:216`, passes it (run `console_detect`).

Smaller observations, which the models show and no text contradicts outright:

- A board that lost a byte of a frame waits for the rest of it without a timeout
  (`urpc.c:59-78`), so that the first attempts of the next call, or all of them,
  go into that frame although nothing is lost any more. With a misread length
  and the 10 s of the host that can take long; `CleanCallAnswered` says how long
  at most.
- `io/queue.c:43` gives the occupancy as `(widx - ridx) % capacity`, which is 0 for
  a full ring, whose indices are equal. The code itself never uses the formula: it
  has `empty`.
- "Buttons are active high (due to IPOL setting)", `bmw_ui.c:126`, holds from a
  `bmw_ui_init` until somebody else writes to the expander.
  `app/selftest/tests/test_mcp23008.c:29` does, with polarity 0, so that after
  `test mcp23008` the buttons read inverted until the next `bmw_ui_init`. The
  properties of `ui` therefore begin anew with each `bmw_ui_init`
  (`configured`).
- The most negative number is garbled by `debug.c:29` in a build where the
  negation wraps; `NumbersPrinted` leaves it out. `prog_time` prints an unsigned
  time with `%d`, so that it is negative from the 25th day on.
- `io/spi.c:72` rounds the divider down before it makes it even: a speed that does
  not divide 48 MHz may be exceeded (asked for 20 MHz, it gives 24 MHz).
  `SpiAsAsked` speaks of the speeds that divide it, which are those in the
  repository.

## 7. What is not modelled

- Read messages of no bytes: no caller issues one.
- The identification table of `sf.c`; `spi_flash_read`, which changes no state.
- The identity of data on the wire: a byte is known by where it belongs.
- Other I2C masters, except for the arbitration they win.
- Priorities of interrupts: the handlers of this program share no state with
  each other, and none can interrupt another's step that matters.
- The receive FIFO of the UART as such: an overrun is a lost byte in `Urpc`, and
  `Console` supposes a person who types slower than the board reads.
- The stabilising loop after the oscillator is powered, whose length the source
  chooses by hand; addresses of the linker script; the copying of `.data` and
  the clearing of `.bss` word by word (no interrupt is enabled then).
- Upper case hexadecimal digits, terminal control sequences other than the
  backspace that `uart_gets` echoes.
- The code under `#if 0` in `bmw_ui.c` (interrupt on change).
- The self tests, which need a person at the board, except for what
  `test_mcp23008` leaves behind; register definitions and intrinsics in the
  vendored headers, which contain no behaviour beyond single instructions.
- Late answers are taken for fresh ones: requests carry no number, so that an
  impatient host (one whose timeout a handler or a burst of traffic can exceed)
  may get the answer to an earlier attempt or call. No text of the repository says otherwise,
  hence no run; `AnswerIsFresh` states the condition under which it cannot
  happen, up to the six losses of section 5. Requests longer than the board's buffer are left out: they are refused
  for their length at each attempt.

## 8. Plan

1. Done: `Queue` refining `Fifo`; `I2CMaster` refining `I2CService`, built on
   the former; `I2CWire` on top of it; proofs of both refinements.
2. Done: `Spi` with proofs; `SpiFlash`, built on it, with proofs.
3. Done: `Urpc`, with proofs that nothing is invented, that handlers run in
   order and that clean calls are answered.
4. Done: `Tick`, and `BmwUi` built on it, both with proofs.
5. Done: `Console` on `DebugPrintf`; `Boot` with the bus rates.

6. Done: the transcripts of `I2CWire` for every list of messages, the command
   line and the numbers of `Console`, by induction; `AnswerIsFresh` of `Urpc` for
   as many losses as it holds for.
7. Done: the startup of `Boot` for every setting of its clocks.

Left, in order of worth:

1. `I2CMaster` under `BmwUi`: an access that fails is now any failure; the
   composition would show which results of a transaction cause it.
