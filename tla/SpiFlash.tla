------------------------------ MODULE SpiFlash ------------------------------
(***************************************************************************)
(* The SPI flash driver of driver/sf.c against a flash chip that works on  *)
(* its own: it programs and erases for as long as it needs, and while it   *)
(* does it ignores every command but the reading of its status register.   *)
(*                                                                         *)
(* One SPI command, from spi_select to spi_deselect, is one step: module   *)
(* Spi shows that it arrives in full.  The clock runs on meanwhile.        *)
(*                                                                         *)
(* A byte of the chip is the set of what has been programmed into it since *)
(* it was erased (programming only clears bits, so programs accumulate);   *)
(* the i-th byte of the caller's buffer is i.  It changes when the command *)
(* is accepted: nobody can read it before the chip has finished.           *)
(*                                                                         *)
(* A definition marked "Fault" is a wrong version of one further down; the *)
(* specification does not use it.                                          *)
(***************************************************************************)
EXTENDS Naturals, FiniteSets

CONSTANTS
    PageSize,       \* 256
    SectorSize,     \* params->sector_size
    Capacity,       \* params->capacity
    Word,           \* 2^32: addresses and lengths are uint32_t and size_t
    Calls,          \* <<address, len>> of the calls that are made
    MaxCalls        \* calls of spi_flash_write and spi_flash_erase

ASSUME GeometryAssumption ==
    /\ PageSize \in Nat \ {0} /\ SectorSize \in Nat \ {0}
    /\ Capacity \in Nat \ {0} /\ Capacity < Word /\ Word \in Nat
    /\ SectorSize % PageSize = 0 /\ Capacity % SectorSize = 0
ASSUME CallsAssumption ==
    /\ Calls \subseteq (0 .. Word - 1) \X (0 .. Word - 1)
    /\ MaxCalls \in Nat

VARIABLES
    pc,         \* the driver's next statement
    op,         \* the call: "write", "sector erase" or "chip erase"
    ret,        \* what it returned: "ok", "args" or "timeout"
    address, len, offset, plen, stop,   \* its arguments and locals
    sr,         \* what sf_poll_wip read last: the chip is busy
    expired,    \* sf_poll_wip's timeout has passed
    probed,     \* the last spi_flash_probe was successful: flash->params is set
    mem,        \* the chip's contents
    wel,        \* ... write enable latch
    busy,       \* ... write in progress
    base, count, before, idle,  \* history: arguments, contents, ~busy at the call
    calls

locals == <<address, len, offset, plen, stop>>
chip == <<mem, wel, busy>>
history == <<base, count, before, idle, calls>>
vars == <<pc, op, ret, address, len, offset, plen, stop, sr, expired, probed,
          mem, wel, busy, base, count, before, idle, calls>>

Cell == 0 .. Capacity - 1
Blank == [a \in Cell |-> {}]

Init ==
    /\ pc = "app" /\ op = "none" /\ ret = "ok"
    /\ address = 0 /\ len = 0 /\ offset = 0 /\ plen = 0 /\ stop = 0
    /\ sr = FALSE /\ expired = FALSE /\ probed = FALSE
    /\ mem \in {Blank, [a \in Cell |-> {a + Capacity}]}
    /\ wel = FALSE /\ busy = FALSE
    /\ base = 0 /\ count = 0 /\ before = mem /\ idle = TRUE /\ calls = 0
----------------------------------------------------------------------------
(* The chip.                                                                *)

PageOf(a) == a - (a % PageSize)
SectorOf(a) == a - (a % SectorSize)

(* Program n bytes from buffer place i on; past the end of the page the     *)
(* chip goes on at its beginning.                                           *)
Programmed(m, a, i, n) ==
    [c \in Cell |->
        m[c] \cup {i + k : k \in {j \in 0 .. n - 1 :
                             c = PageOf(a) + (((a % PageSize) + j) % PageSize)}}]

Erased(m, from, to) ==
    [c \in Cell |-> IF from <= c /\ c < to THEN {} ELSE m[c]]

(* A modifying command is carried out by an idle, write-enabled chip and    *)
(* ignored otherwise.                                                       *)
Command(m) ==
    IF busy \/ ~wel
    THEN UNCHANGED chip
    ELSE mem' = m /\ busy' = TRUE /\ UNCHANGED wel

Finish ==
    /\ busy
    /\ busy' = FALSE
    /\ wel' = FALSE
    /\ UNCHANGED <<pc, op, ret, locals, sr, expired, probed, mem, history>>
----------------------------------------------------------------------------
(* The driver.                                                              *)

Goto(s) == pc' = s
Return(value) == pc' = "app" /\ ret' = value

(* A busy chip does not answer the identification command.                  *)
Probe ==
    /\ pc = "app"
    /\ probed' \in IF busy THEN BOOLEAN ELSE {TRUE}
    /\ UNCHANGED <<pc, op, ret, locals, sr, expired, chip, history>>

Call(a, n) ==
    /\ pc = "app" /\ probed /\ calls < MaxCalls
    /\ calls' = calls + 1
    /\ base' = a /\ count' = n /\ before' = mem /\ idle' = ~busy
    /\ UNCHANGED <<sr, expired, probed, chip>>

Write(a, n) ==
    /\ Call(a, n)
    /\ op' = "write"
    /\ IF (a + n) % Word > Capacity
       THEN Return("args") /\ UNCHANGED locals
       ELSE /\ address' = a /\ len' = n /\ offset' = 0
            /\ plen' = 0 /\ stop' = 0
            /\ Goto("loop") /\ UNCHANGED ret

(* Fault: the length of a page is used whatever the address.                *)
PageLengthUnaligned(a) == PageSize

(* To the end of the page.                                                  *)
PageLength(a) == PageSize - (a % PageSize)

(* Fault: the length of an erase is taken as it is.                         *)
SaturatedNever(a, n) == n

(* The length of an erase, cut off at the capacity.                         *)
Saturated(a, n) ==
    IF (a + n) % Word > Capacity
    THEN (n + Word + Capacity - ((a + n) % Word)) % Word
    ELSE n

Erase(a, n) ==
    /\ Call(a, n)
    /\ IF a % SectorSize # 0 \/ n % SectorSize # 0
       THEN op' = "sector erase" /\ Return("args") /\ UNCHANGED locals
       ELSE /\ op' = IF a = 0 /\ n = Capacity THEN "chip erase" ELSE "sector erase"
            /\ address' = a
            /\ len' = Saturated(a, n)
            /\ stop' = (a + Saturated(a, n)) % Word
            /\ offset' = 0 /\ plen' = 0
            /\ Goto("loop") /\ UNCHANGED ret

(* The condition of the loop over pages or sectors, then WREN.              *)
More ==
    /\ op = "write" => offset < len
    /\ op = "sector erase" => address < stop

LoopDone ==
    /\ pc = "loop" /\ ~More
    /\ Return("ok")
    /\ UNCHANGED <<op, locals, sr, expired, probed, chip, history>>

(* Fault: WREN only once for all pages.                                     *)
WriteEnableOnce ==
    /\ pc = "loop" /\ More
    /\ plen' = IF op # "write" THEN 0
               ELSE IF PageLength(address) > len - offset THEN len - offset
               ELSE PageLength(address)
    /\ wel' = (wel \/ (~busy /\ offset = 0))
    /\ Goto("command")
    /\ UNCHANGED <<op, ret, address, len, offset, stop, sr, expired, probed,
                   mem, busy, history>>

WriteEnable ==
    /\ pc = "loop" /\ More
    /\ plen' = IF op # "write" THEN 0
               ELSE IF PageLength(address) > len - offset THEN len - offset
               ELSE PageLength(address)
    /\ wel' = (wel \/ ~busy)
    /\ Goto("command")
    /\ UNCHANGED <<op, ret, address, len, offset, stop, sr, expired, probed,
                   mem, busy, history>>

(* PP, SE or CE; then sf_poll_wip takes the time.                           *)
Modify ==
    /\ pc = "command"
    /\ \/ op = "write" /\ Command(Programmed(mem, address, offset, plen))
       \/ op = "sector erase" /\ Command(Erased(mem, SectorOf(address),
                                                SectorOf(address) + SectorSize))
       \/ op = "chip erase" /\ Command(Blank)
    /\ expired' = FALSE
    /\ Goto("poll")
    /\ UNCHANGED <<op, ret, locals, sr, probed, history>>

PollStatus ==
    /\ pc = "poll"
    /\ sr' = busy
    /\ Goto("polled")
    /\ UNCHANGED <<op, ret, locals, expired, probed, chip, history>>

(* Fault: a timeout ends the polling like an idle chip does.                *)
PollDoneAnyway ==
    /\ pc = "polled" /\ (~sr \/ expired)
    /\ address' = address + (IF op = "write" THEN plen ELSE SectorSize)
    /\ offset' = offset + plen
    /\ IF op = "chip erase" THEN Return("ok") ELSE Goto("loop") /\ UNCHANGED ret
    /\ UNCHANGED <<op, len, plen, stop, sr, expired, probed, chip, history>>

(* The chip is done: on to the next page or sector.                         *)
PollDone ==
    /\ pc = "polled" /\ ~sr
    /\ address' = address + (IF op = "write" THEN plen ELSE SectorSize)
    /\ offset' = offset + plen
    /\ IF op = "chip erase" THEN Return("ok") ELSE Goto("loop") /\ UNCHANGED ret
    /\ UNCHANGED <<op, len, plen, stop, sr, expired, probed, chip, history>>

(* Fault: the polling goes on whatever the time.                            *)
PollForever == FALSE

PollTimeout ==
    /\ pc = "polled" /\ sr /\ expired
    /\ Return("timeout")
    /\ UNCHANGED <<op, locals, sr, expired, probed, chip, history>>

PollAgain ==
    /\ pc = "polled" /\ sr /\ ~expired
    /\ Goto("poll")
    /\ UNCHANGED <<op, ret, locals, sr, expired, probed, chip, history>>

(* The clock passes the timeout.                                            *)
Expire ==
    /\ pc \in {"poll", "polled"} /\ ~expired
    /\ expired' = TRUE
    /\ UNCHANGED <<pc, op, ret, locals, sr, probed, chip, history>>

Driver ==
    \/ LoopDone \/ WriteEnable \/ Modify
    \/ PollStatus \/ PollDone \/ PollTimeout \/ PollAgain

Next ==
    \/ Probe
    \/ \E call \in Calls : Write(call[1], call[2]) \/ Erase(call[1], call[2])
    \/ Driver
    \/ Expire
    \/ Finish

Spec == Init /\ [][Next]_vars

(* The driver is not stopped and the clock runs; the chip need not finish.  *)
FairSpec == Spec /\ WF_vars(Driver) /\ WF_vars(Expire)
----------------------------------------------------------------------------
TypeOK ==
    /\ pc \in {"app", "loop", "command", "poll", "polled"}
    /\ op \in {"none", "write", "sector erase", "chip erase"}
    /\ ret \in {"ok", "args", "timeout"}
    /\ address \in 0 .. Word - 1 /\ len \in 0 .. Word - 1 /\ stop \in 0 .. Capacity
    /\ offset \in 0 .. Capacity /\ plen \in 0 .. PageSize
    /\ sr \in BOOLEAN /\ expired \in BOOLEAN /\ probed \in BOOLEAN
    /\ wel \in BOOLEAN /\ busy \in BOOLEAN /\ idle \in BOOLEAN
    /\ mem \in [Cell -> SUBSET Nat] /\ before \in [Cell -> SUBSET Nat]
    /\ base \in 0 .. Word - 1 /\ count \in 0 .. Word - 1 /\ calls \in 0 .. MaxCalls

(* What the call in `history' should make of the bytes of its range.        *)
InRange(c, n) == base <= c /\ c < base + n
Wanted(c) == IF op = "write" THEN before[c] \cup {c - base} ELSE {}

(* Every byte outside the range of the call keeps its contents, whatever    *)
(* the call returns (sf.c:205-214, 248-258): no page program wraps around   *)
(* and no erase goes beyond its last sector.                                *)
NothingElseTouched ==
    \A c \in Cell :
        /\ ~InRange(c, count) => mem[c] = before[c]
        /\ InRange(c, count) => mem[c] \in {before[c], Wanted(c)}

(* A call that returns 0 has done its work, provided the chip was idle when *)
(* it was made, and a refused call has done nothing.                        *)
ResultIsTrue ==
    pc = "app" /\ op # "none" =>
        /\ ret = "ok" /\ idle =>
              \A c \in Cell : InRange(c, count) => mem[c] = Wanted(c)
        /\ ret = "args" => mem = before

(* No command of a call that found the chip idle is ignored: it has been    *)
(* write-enabled and is not busy when the command arrives (sf.c:195-221,    *)
(* 255-260).                                                                *)
NoCommandIgnored == pc = "command" /\ idle => wel /\ ~busy

(* Every call returns, though the chip may never finish (sf.c:138).         *)
CallReturns == pc # "app" ~> pc = "app"

(* A call that returns 0 has done its work, as the tests expect of every    *)
(* write (test_spi_flash.c:86-92).                                          *)
ZeroMeansDone ==
    pc = "app" /\ op # "none" /\ ret = "ok" =>
        \A c \in Cell : InRange(c, count) => mem[c] = Wanted(c)

(* An erase that reaches beyond the capacity erases up to it, as the        *)
(* comment says (sf.c:204).                                                 *)
EraseSaturates ==
    pc = "app" /\ op = "sector erase" /\ ret = "ok" /\ idle =>
        \A c \in Cell : InRange(c, count) => mem[c] = {}
============================================================================
