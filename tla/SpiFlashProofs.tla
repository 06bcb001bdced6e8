--------------------------- MODULE SpiFlashProofs ---------------------------
(***************************************************************************)
(* What spi_flash_write and spi_flash_erase do to the chip, for every page *)
(* size, sector size, capacity and range whose end is an address.          *)
(***************************************************************************)
EXTENDS SpiFlash, TLAPS

LEMMA Sizes ==
    /\ PageSize \in Nat \ {0} /\ SectorSize \in Nat \ {0}
    /\ Capacity \in Nat \ {0} /\ Word \in Nat /\ Capacity < Word
    /\ MaxCalls \in Nat
  BY GeometryAssumption, CallsAssumption

USE Sizes

(* The parts of TypeOK.                                                     *)
Places ==
    /\ pc \in {"app", "loop", "command", "poll", "polled"}
    /\ op \in {"none", "write", "sector erase", "chip erase"}
    /\ ret \in {"ok", "args", "timeout"}

Numbers ==
    /\ address \in 0 .. Word - 1 /\ len \in 0 .. Word - 1 /\ stop \in 0 .. Capacity
    /\ offset \in 0 .. Capacity /\ plen \in 0 .. PageSize
    /\ base \in 0 .. Word - 1 /\ count \in 0 .. Word - 1 /\ calls \in 0 .. MaxCalls

Others ==
    /\ sr \in BOOLEAN /\ expired \in BOOLEAN /\ probed \in BOOLEAN
    /\ wel \in BOOLEAN /\ busy \in BOOLEAN /\ idle \in BOOLEAN
    /\ mem \in [Cell -> SUBSET Nat] /\ before \in [Cell -> SUBSET Nat]

LEMMA Parts == TypeOK <=> Places /\ Numbers /\ Others
  BY Zenon DEF TypeOK, Places, Numbers, Others

(* The driver's place in the range of the call: writes go on from base +    *)
(* offset and stay on a page, erases go from sector to sector.              *)
Position ==
    pc # "app" =>
        /\ op # "none"
        /\ op = "write" =>
              /\ base + count <= Capacity /\ len = count
              /\ address = base + offset /\ offset <= count
              /\ pc # "loop" => plen <= PageLength(address) /\ offset + plen <= count
        /\ op = "sector erase" =>
              /\ address % SectorSize = 0 /\ stop % SectorSize = 0
              /\ base <= address /\ stop <= base + count
              /\ stop = base + count \/ stop = Capacity
              /\ pc # "loop" => address < stop
              /\ offset = 0 /\ plen = 0
        /\ op = "chip erase" =>
              /\ base = 0 /\ count = Capacity /\ address = 0
              /\ offset = 0 /\ plen = 0

(* The end of what the commands given so far are about.                     *)
Reached ==
    IF pc \notin {"poll", "polled"} THEN address
    ELSE IF op = "write" THEN address + plen
    ELSE IF op = "sector erase" THEN address + SectorSize
    ELSE Capacity

(* Bytes not reached yet are as before the call; the ones reached are as    *)
(* wanted, if the chip was idle at the call.                                *)
Contents ==
    pc # "app" =>
        /\ \A c \in Cell : Reached <= c => mem[c] = before[c]
        /\ idle => \A c \in Cell : base <= c /\ c < Reached => mem[c] = Wanted(c)

(* The chip is idle when a command is due, and when it was seen idle.       *)
Idleness ==
    /\ pc = "loop" /\ idle => ~busy
    /\ NoCommandIgnored
    /\ pc = "polled" /\ ~sr => ~busy

IInv ==
    /\ Places /\ Numbers /\ Others /\ Position /\ Contents /\ Idleness
    /\ NothingElseTouched /\ ResultIsTrue
----------------------------------------------------------------------------
(* Remainders.                                                              *)

LEMMA ModRange == ASSUME NEW x \in Nat, NEW p \in Nat \ {0} PROVE x % p \in 0 .. p - 1
  BY SMT

LEMMA ModSmall == ASSUME NEW x \in Nat, NEW p \in Nat \ {0}, x < p PROVE x % p = x
  BY SMT

LEMMA ModMultiple ==
    ASSUME NEW x \in Nat, NEW p \in Nat \ {0}, x % p = 0
    PROVE  \E k \in Nat : x = k * p
  BY SMT

LEMMA MultipleMod == ASSUME NEW k \in Nat, NEW p \in Nat \ {0} PROVE (k * p) % p = 0
  BY SMT

LEMMA ModSum ==
    ASSUME NEW x \in Nat, NEW y \in Nat, NEW p \in Nat \ {0}, x % p = 0, y % p = 0
    PROVE  (x + y) % p = 0
<1>1. PICK j \in Nat : x = j * p
  BY ModMultiple
<1>2. PICK k \in Nat : y = k * p
  BY ModMultiple
<1>3. x + y = (j + k) * p
  BY <1>1, <1>2, SMT
<1> QED
  BY <1>3, j + k \in Nat, MultipleMod

(* Between two multiples there is room for a whole step.                    *)
LEMMA ModGap ==
    ASSUME NEW x \in Nat, NEW y \in Nat, NEW p \in Nat \ {0},
           x % p = 0, y % p = 0, x < y
    PROVE  x + p <= y
<1>1. PICK j \in Nat : x = j * p
  BY ModMultiple
<1>2. PICK k \in Nat : y = k * p
  BY ModMultiple
<1>3. j < k
  BY <1>1, <1>2, SMT
<1>4. (j + 1) * p <= k * p
  BY <1>3, SMT
<1> QED
  BY <1>1, <1>2, <1>4, SMT

LEMMA SelfMod == ASSUME NEW p \in Nat \ {0} PROVE p % p = 0
  BY SMT
----------------------------------------------------------------------------
LEMMA PageLengthType ==
    ASSUME NEW a \in Nat PROVE PageLength(a) \in 1 .. PageSize
  BY ModRange DEF PageLength

(* The program that the driver sends ends on its page: it does not wrap     *)
(* around.                                                                  *)
LEMMA ProgramsInPlace ==
    ASSUME address \in Nat, offset \in Nat, plen \in Nat,
           plen <= PageLength(address), NEW c \in Cell
    PROVE  Programmed(mem, address, offset, plen)[c] =
               IF address <= c /\ c < address + plen
               THEN mem[c] \cup {offset + (c - address)} ELSE mem[c]
<1> DEFINE r == address % PageSize
<1>1. r \in Nat /\ r < PageSize
  BY ModRange
<1>2. ASSUME NEW j \in 0 .. plen - 1
      PROVE  PageOf(address) + ((r + j) % PageSize) = address + j
  <2>1. r + j \in Nat /\ r + j < PageSize
    BY <1>1 DEF PageLength
  <2>2. (r + j) % PageSize = r + j
    BY <2>1, ModSmall
  <2> QED
    BY <2>1, <2>2, <1>1 DEF PageOf
<1>3. {j \in 0 .. plen - 1 : c = PageOf(address) + ((r + j) % PageSize)}
          = {j \in 0 .. plen - 1 : c = address + j}
  BY <1>2
<1>4. Programmed(mem, address, offset, plen)[c] =
          mem[c] \cup {offset + k : k \in {j \in 0 .. plen - 1 : c = address + j}}
  BY <1>3 DEF Programmed
<1>5. CASE address <= c /\ c < address + plen
  <2>1. {j \in 0 .. plen - 1 : c = address + j} = {c - address}
    BY <1>5 DEF Cell
  <2> QED
    BY <1>4, <1>5, <2>1
<1>6. CASE ~(address <= c /\ c < address + plen)
  <2>1. {j \in 0 .. plen - 1 : c = address + j} = {}
    BY <1>6 DEF Cell
  <2> QED
    BY <1>4, <1>6, <2>1
<1> QED
  BY <1>5, <1>6

LEMMA SectorFits == SectorSize <= Capacity
<1>1. 0 % SectorSize = 0
  BY ModSmall
<1> QED
  BY <1>1, GeometryAssumption, ModGap

LEMMA ErasesSector ==
    ASSUME NEW m, NEW a \in Nat, a % SectorSize = 0, NEW c \in Cell
    PROVE  Erased(m, SectorOf(a), SectorOf(a) + SectorSize)[c] =
               IF a <= c /\ c < a + SectorSize THEN {} ELSE m[c]
<1>1. SectorOf(a) = a
  BY DEF SectorOf
<1> QED
  BY <1>1 DEF Erased
----------------------------------------------------------------------------
LEMMA Initially == Init => IInv
<1> SUFFICES ASSUME Init PROVE IInv
  OBVIOUS
<1>1. mem \in [Cell -> SUBSET Nat]
  BY DEF Init, Blank, Cell
<1>2. Numbers
  BY DEF Init, Numbers
<1>2a. Places
  BY <1>1 DEF Init, Places
<1>2b. Others
  BY <1>1 DEF Init, Others
<1>3. Position /\ Contents /\ Idleness
  BY DEF Init, Position, Contents, Idleness, NoCommandIgnored
<1>4. NothingElseTouched
  BY DEF Init, NothingElseTouched
<1>5. ResultIsTrue
  BY DEF Init, ResultIsTrue
<1> QED
  BY <1>2, <1>2a, <1>2b, <1>3, <1>4, <1>5 DEF IInv

(* A step that leaves the call and the contents alone keeps what is said    *)
(* about the contents.                                                      *)
LEMMA SameContents ==
    ASSUME IInv, UNCHANGED <<mem, before, base, count, op>>
    PROVE  NothingElseTouched' /\ (\A c \in Cell : Wanted(c)' = Wanted(c))
  BY DEF IInv, NothingElseTouched, InRange, Wanted

LEMMA ProbeKeeps == IInv /\ Probe => IInv'
<1> SUFFICES ASSUME IInv, Probe PROVE IInv'
  OBVIOUS
<1> USE DEF Probe, locals, chip, history
<1>1. Numbers'
  BY DEF IInv, Numbers
<1>1a. Places'
  BY Zenon DEF IInv, Places
<1>1b. Others'
  BY Zenon DEF IInv, Others
<1>2. Position' /\ Contents' /\ Idleness'
  BY DEF IInv, Position, PageLength, Contents, Reached, Wanted, Idleness, NoCommandIgnored
<1>3. NothingElseTouched' /\ ResultIsTrue'
  BY DEF IInv, NothingElseTouched, InRange, Wanted, ResultIsTrue
<1> QED
  BY <1>1, <1>1a, <1>1b, <1>2, <1>3 DEF IInv

LEMMA WriteKeeps ==
    ASSUME IInv, NEW a \in 0 .. Word - 1, NEW n \in 0 .. Word - 1, a + n < Word,
           Write(a, n)
    PROVE  IInv'
<1>1. (a + n) % Word = a + n
  BY ModSmall
<1>2. /\ op' = "write" /\ base' = a /\ count' = n /\ before' = mem
      /\ calls < MaxCalls /\ calls' = calls + 1 /\ mem' = mem /\ wel' = wel
      /\ busy' = busy /\ sr' = sr /\ expired' = expired /\ probed' = probed
  BY DEF Write, Call, chip
<1>5. idle' = ~busy
  BY DEF Write, Call
<1>7. op' = "write" /\ base' = a /\ count' = n /\ calls < MaxCalls /\ calls' = calls + 1
  BY <1>2
<1>6. idle' \in BOOLEAN
  BY <1>5, Zenon
<1>3. CASE a + n > Capacity
  <2>1. /\ pc' = "app" /\ ret' = "args" /\ address' = address /\ len' = len
        /\ offset' = offset /\ plen' = plen /\ stop' = stop
    BY <1>1, <1>3 DEF Write, Return, locals
  <2>2. Numbers'
    <3>1. Numbers
      BY DEF IInv
    <3> QED
      BY <1>7, <2>1, <3>1 DEF Numbers
  <2>2a. Places'
    BY <1>2, <1>6, <2>1, Zenon DEF IInv, Places
  <2>2b. Others'
    BY <1>2, <1>6, <2>1, Zenon DEF IInv, Others
  <2>3. Position' /\ Contents'
    BY <2>1 DEF Position, Contents
  <2>4. Idleness'
    BY <2>1 DEF Idleness, NoCommandIgnored
  <2>5. NothingElseTouched' /\ ResultIsTrue'
    BY <1>2, <2>1 DEF NothingElseTouched, ResultIsTrue
  <2> QED
    BY <2>2, <2>2a, <2>2b, <2>3, <2>4, <2>5 DEF IInv
<1>4. CASE a + n <= Capacity
  <2>1. /\ pc' = "loop" /\ address' = a /\ len' = n /\ offset' = 0
        /\ plen' = 0 /\ stop' = 0 /\ ret' = ret
    BY <1>1, <1>4 DEF Write, Goto
  <2>2. Numbers'
    <3>1. Numbers
      BY DEF IInv
    <3> QED
      BY <1>4, <1>7, <2>1, <3>1 DEF Numbers
  <2>2a. Places'
    BY <1>2, <1>4, <1>6, <2>1, Zenon DEF IInv, Places
  <2>2b. Others'
    BY <1>2, <1>4, <1>6, <2>1, Zenon DEF IInv, Others
  <2>3. Position'
    BY <1>2, <1>4, <2>1 DEF Position
  <2>4. Contents'
    <3>1. Reached' = a /\ mem' = before'
      BY <1>2, <2>1 DEF Reached
    <3> QED
      BY <1>2, <3>1 DEF Contents, Cell
  <2>5. Idleness'
    BY <1>2, <1>5, <2>1 DEF Idleness, NoCommandIgnored
  <2>6. NothingElseTouched' /\ ResultIsTrue'
    BY <1>2, <2>1 DEF NothingElseTouched, ResultIsTrue
  <2> QED
    BY <2>2, <2>2a, <2>2b, <2>3, <2>4, <2>5, <2>6 DEF IInv
<1> QED
  BY <1>3, <1>4

LEMMA EraseKeeps ==
    ASSUME IInv, NEW a \in 0 .. Word - 1, NEW n \in 0 .. Word - 1, a + n < Word,
           Erase(a, n)
    PROVE  IInv'
<1>3. idle' = ~busy
  BY DEF Erase, Call
<1>4. idle' \in BOOLEAN
  BY <1>3, Zenon
<1>1. CASE a % SectorSize # 0 \/ n % SectorSize # 0
  <2>1. /\ pc' = "app" /\ ret' = "args" /\ address' = address /\ len' = len
        /\ offset' = offset /\ plen' = plen /\ stop' = stop
        /\ op' = "sector erase" /\ base' = a /\ count' = n /\ before' = mem
        /\ calls < MaxCalls /\ calls' = calls + 1
        /\ mem' = mem /\ wel' = wel /\ busy' = busy
        /\ sr' = sr /\ expired' = expired /\ probed' = probed
    BY <1>1, Zenon DEF Erase, Call, Return, locals, chip
  <2>2. Numbers'
    <3>1. /\ address' = address /\ len' = len
          /\ offset' = offset /\ plen' = plen /\ stop' = stop
          /\ base' = a /\ count' = n /\ calls < MaxCalls /\ calls' = calls + 1
      BY <2>1
    <3> QED
      BY <3>1 DEF IInv, Numbers
  <2>2a. Places'
    BY <2>1, <1>4, Zenon DEF IInv, Places
  <2>2b. Others'
    BY <2>1, <1>4, Zenon DEF IInv, Others
  <2>3. Position' /\ Contents'
    BY <2>1 DEF Position, Contents
  <2>4. Idleness'
    BY <2>1 DEF Idleness, NoCommandIgnored
  <2>5. NothingElseTouched' /\ ResultIsTrue'
    BY <2>1 DEF NothingElseTouched, ResultIsTrue
  <2> QED
    BY <2>2, <2>2a, <2>2b, <2>3, <2>4, <2>5 DEF IInv
<1>2. CASE a % SectorSize = 0 /\ n % SectorSize = 0
  <2>1. (a + n) % Word = a + n
    BY ModSmall
  <2>a. Saturated(a, n) \in Nat
    <3>1. n + Word + Capacity - (a + n) \in Nat
      BY a <= Word
    <3> QED
      BY <2>1, <3>1, ModRange DEF Saturated
  <2>2. PICK s \in Nat : s = (a + Saturated(a, n)) % Word
    BY <2>a, ModRange
  <2>3. /\ s % SectorSize = 0 /\ s <= Capacity /\ s <= a + n
        /\ s = a + n \/ s = Capacity
        /\ Saturated(a, n) \in 0 .. Word - 1
    <3>1. CASE a + n <= Capacity
      <4>1. Saturated(a, n) = n
        BY <2>1, <3>1 DEF Saturated
      <4> QED
        BY <1>2, <2>1, <2>2, <3>1, <4>1, ModSum
    <3>2. CASE a + n > Capacity
      <4>1. Saturated(a, n) = (n + Word + Capacity - (a + n)) % Word
        BY <2>1, <3>2 DEF Saturated
      <4>2. n + Word + Capacity - (a + n) = Word + Capacity - a
        OBVIOUS
      <4>3. CASE a <= Capacity
        <5> DEFINE d == Capacity - a
        <5>1. d \in Nat /\ d < Word
          BY <4>3
        <5>2. (Word + d) % Word = d
          BY <5>1, SMT
        <5>3. Saturated(a, n) = d
          BY <4>1, <4>2, <5>2
        <5>4. (a + d) % Word = Capacity
          BY <4>3, ModSmall
        <5> QED
          BY <2>2, <3>2, <5>1, <5>3, <5>4, GeometryAssumption
      <4>4. CASE a > Capacity
        <5> DEFINE d == Word + Capacity - a
        <5>1. d \in Nat /\ d < Word
          BY <4>4
        <5>2. Saturated(a, n) = d
          BY <4>1, <4>2, <5>1, ModSmall
        <5>3. a + d = Word + Capacity
          OBVIOUS
        <5>4. (Word + Capacity) % Word = Capacity
          BY SMT
        <5> QED
          BY <2>2, <3>2, <5>1, <5>2, <5>3, <5>4, GeometryAssumption
      <4> QED
        BY <4>3, <4>4
    <3> QED
      BY <3>1, <3>2
  <2>4. /\ pc' = "loop" /\ address' = a /\ stop' = s /\ offset' = 0 /\ plen' = 0
        /\ len' = Saturated(a, n) /\ ret' = ret
        /\ op' = IF a = 0 /\ n = Capacity THEN "chip erase" ELSE "sector erase"
    BY <1>2, <2>2 DEF Erase, Goto
  <2>5. /\ base' = a /\ count' = n /\ before' = mem
        /\ calls < MaxCalls /\ calls' = calls + 1 /\ mem' = mem /\ wel' = wel
        /\ busy' = busy /\ sr' = sr /\ expired' = expired /\ probed' = probed
    BY DEF Erase, Call, chip
  <2>6. Numbers'
    <3>1. /\ base' = a /\ count' = n /\ calls < MaxCalls /\ calls' = calls + 1
          /\ address' = a /\ stop' = s /\ offset' = 0 /\ plen' = 0
          /\ len' = Saturated(a, n)
      BY <2>4, <2>5
    <3>2. /\ s <= Capacity /\ Saturated(a, n) \in 0 .. Word - 1
      BY <2>3
    <3> QED
      BY <3>1, <3>2 DEF IInv, Numbers
  <2>6a. Places'
    BY <2>3, <2>4, <2>5, <1>4, Zenon DEF IInv, Places
  <2>6b. Others'
    BY <2>3, <2>4, <2>5, <1>4, Zenon DEF IInv, Others
  <2>7. Position'
    <3>1. op' # "none" /\ op' # "write"
      BY <2>4
    <3>2. op' = "sector erase" =>
             /\ address' % SectorSize = 0 /\ stop' % SectorSize = 0
             /\ base' <= address' /\ stop' <= base' + count'
             /\ stop' = base' + count' \/ stop' = Capacity
      <4>1. /\ address' = a /\ stop' = s /\ base' = a /\ count' = n
        BY <2>4, <2>5
      <4> QED
        <5>1. /\ a % SectorSize = 0 /\ s % SectorSize = 0
              /\ a <= a /\ s <= a + n
              /\ s = a + n \/ s = Capacity
          BY <1>2, <2>3
        <5> QED
          BY <4>1, <5>1, Zenon
    <3>3. op' = "chip erase" => base' = 0 /\ count' = Capacity /\ address' = 0
      BY <2>4, <2>5
    <3> QED
      BY <2>4, <3>1, <3>2, <3>3 DEF Position
  <2>8. Contents'
    <3>1. Reached' = a /\ mem' = before'
      BY <2>4, <2>5 DEF Reached
    <3> QED
      BY <2>5, <3>1 DEF Contents, Cell
  <2>10. Idleness'
    BY <1>3, <2>4, <2>5 DEF Idleness, NoCommandIgnored
  <2>9. NothingElseTouched' /\ ResultIsTrue'
    BY <2>4, <2>5 DEF NothingElseTouched, ResultIsTrue
  <2> QED
    BY <2>6, <2>6a, <2>6b, <2>7, <2>8, <2>9, <2>10 DEF IInv
<1> QED
  BY <1>1, <1>2
LEMMA FinishKeeps == ASSUME IInv, Finish PROVE IInv'
<1>1. /\ UNCHANGED <<pc, op, ret, address, len, offset, plen, stop, sr, expired,
                     probed, mem, base, count, before, idle, calls>>
      /\ busy /\ ~busy' /\ busy' = FALSE /\ wel' = FALSE
  BY DEF Finish, locals, history
<1>2. Places' /\ Numbers'
  BY <1>1 DEF IInv, Places, Numbers
<1>3. Others'
  BY <1>1, Zenon DEF IInv, Others
<1>4. Position' /\ NothingElseTouched'
  BY <1>1 DEF IInv, Position, PageLength, NothingElseTouched, InRange, Wanted
<1>5. Contents' /\ ResultIsTrue'
  BY <1>1 DEF IInv, Contents, Reached, ResultIsTrue, InRange, Wanted
<1>6. Idleness'
  BY <1>1 DEF IInv, Idleness, NoCommandIgnored
<1> QED
  BY <1>2, <1>3, <1>4, <1>5, <1>6 DEF IInv

(* A step of the driver that leaves everything but pc, sr and expired       *)
(* alone, inside the polling loop.                                          *)
LEMMA PollStatusKeeps == ASSUME IInv, PollStatus PROVE IInv'
<1>1. /\ UNCHANGED <<op, ret, address, len, offset, plen, stop, expired, probed,
                     mem, wel, busy, base, count, before, idle, calls>>
      /\ pc = "poll" /\ pc' = "polled" /\ sr' = busy
  BY DEF PollStatus, Goto, locals, chip, history
<1>2. Places' /\ Numbers'
  BY <1>1 DEF IInv, Places, Numbers
<1>3. Others'
  BY <1>1, Zenon DEF IInv, Others
<1>4. Position' /\ NothingElseTouched'
  BY <1>1 DEF IInv, Position, PageLength, NothingElseTouched, InRange, Wanted
<1>5. Contents' /\ ResultIsTrue'
  BY <1>1 DEF IInv, Contents, Reached, ResultIsTrue, InRange, Wanted
<1>6. Idleness'
  BY <1>1 DEF IInv, Idleness, NoCommandIgnored
<1> QED
  BY <1>2, <1>3, <1>4, <1>5, <1>6 DEF IInv

LEMMA PollAgainKeeps == ASSUME IInv, PollAgain PROVE IInv'
<1>1. /\ UNCHANGED <<op, ret, address, len, offset, plen, stop, sr, expired, probed,
                     mem, wel, busy, base, count, before, idle, calls>>
      /\ pc = "polled" /\ pc' = "poll"
  BY DEF PollAgain, Goto, locals, chip, history
<1>2. Places' /\ Numbers'
  BY <1>1 DEF IInv, Places, Numbers
<1>3. Others'
  BY <1>1, Zenon DEF IInv, Others
<1>4. Position' /\ NothingElseTouched'
  BY <1>1 DEF IInv, Position, PageLength, NothingElseTouched, InRange, Wanted
<1>5. Contents' /\ ResultIsTrue'
  BY <1>1 DEF IInv, Contents, Reached, ResultIsTrue, InRange, Wanted
<1>6. Idleness'
  BY <1>1 DEF IInv, Idleness, NoCommandIgnored
<1> QED
  BY <1>2, <1>3, <1>4, <1>5, <1>6 DEF IInv

LEMMA ExpireKeeps == ASSUME IInv, Expire PROVE IInv'
<1>1. /\ UNCHANGED <<pc, op, ret, address, len, offset, plen, stop, sr, probed,
                     mem, wel, busy, base, count, before, idle, calls>>
      /\ expired' = TRUE
  BY DEF Expire, locals, chip, history
<1>2. Places' /\ Numbers'
  BY <1>1 DEF IInv, Places, Numbers
<1>3. Others'
  BY <1>1, Zenon DEF IInv, Others
<1>4. Position' /\ NothingElseTouched'
  BY <1>1 DEF IInv, Position, PageLength, NothingElseTouched, InRange, Wanted
<1>5. Contents' /\ ResultIsTrue'
  BY <1>1 DEF IInv, Contents, Reached, ResultIsTrue, InRange, Wanted
<1>6. Idleness'
  BY <1>1 DEF IInv, Idleness, NoCommandIgnored
<1> QED
  BY <1>2, <1>3, <1>4, <1>5, <1>6 DEF IInv

LEMMA PollTimeoutKeeps == ASSUME IInv, PollTimeout PROVE IInv'
<1>1. /\ UNCHANGED <<op, address, len, offset, plen, stop, sr, expired, probed,
                     mem, wel, busy, base, count, before, idle, calls>>
      /\ pc = "polled" /\ pc' = "app" /\ ret' = "timeout"
  BY DEF PollTimeout, Return, locals, chip, history
<1>2. Places' /\ Numbers'
  BY <1>1 DEF IInv, Places, Numbers
<1>3. Others'
  BY <1>1, Zenon DEF IInv, Others
<1>4. Position' /\ Contents' /\ Idleness' /\ ResultIsTrue'
  BY <1>1 DEF IInv, Position, Contents, Idleness, NoCommandIgnored, ResultIsTrue
<1>5. NothingElseTouched'
  BY <1>1 DEF IInv, NothingElseTouched, InRange, Wanted
<1> QED
  BY <1>2, <1>3, <1>4, <1>5 DEF IInv

LEMMA LoopDoneKeeps == ASSUME IInv, LoopDone PROVE IInv'
<1>1. /\ UNCHANGED <<op, address, len, offset, plen, stop, sr, expired, probed,
                     mem, wel, busy, base, count, before, idle, calls>>
      /\ pc = "loop" /\ pc' = "app" /\ ret' = "ok" /\ ~More
  BY DEF LoopDone, Return, locals, chip, history
<1>2. Places' /\ Numbers'
  BY <1>1 DEF IInv, Places, Numbers
<1>3. Others'
  BY <1>1, Zenon DEF IInv, Others
<1>4. Position' /\ Contents' /\ Idleness'
  BY <1>1 DEF Position, Contents, Idleness, NoCommandIgnored
<1>5. NothingElseTouched'
  BY <1>1 DEF IInv, NothingElseTouched, InRange, Wanted
<1>6. ResultIsTrue'
  <2>1. ASSUME idle, NEW c \in Cell, InRange(c, count)
        PROVE  mem[c] = Wanted(c)
    <3>1. base <= c /\ c < Reached
      <4>1. CASE op = "write"
        BY <1>1, <2>1, <4>1 DEF IInv, Position, Numbers, More, InRange, Reached, Cell
      <4>2. CASE op = "sector erase"
        <5>1. /\ Reached = address /\ ~(address < stop)
              /\ stop = base + count \/ stop = Capacity
          BY <1>1, <4>2 DEF IInv, Position, More, Reached
        <5>2. /\ address \in Nat /\ stop \in Nat /\ base \in Nat /\ count \in Nat
              /\ c \in Nat /\ c < Capacity
          BY DEF IInv, Numbers, Cell
        <5>3. base <= c /\ c < base + count
          BY <2>1 DEF InRange
        <5> QED
          BY <5>1, <5>2, <5>3
      <4> QED
        BY <1>1, <4>1, <4>2 DEF More
    <3> QED
      BY <1>1, <2>1, <3>1 DEF IInv, Contents
  <2> QED
    BY <1>1, <2>1 DEF ResultIsTrue, InRange, Wanted
<1> QED
  BY <1>2, <1>3, <1>4, <1>5, <1>6 DEF IInv
LEMMA WriteEnableKeeps == ASSUME IInv, WriteEnable PROVE IInv'
<1>1. /\ UNCHANGED <<op, ret, address, len, offset, stop, sr, expired, probed,
                     mem, busy, base, count, before, idle, calls>>
      /\ pc = "loop" /\ pc' = "command" /\ More
  BY DEF WriteEnable, Goto, history
<1>2. wel' = (wel \/ ~busy)
  BY DEF WriteEnable
<1>3. plen' = IF op # "write" THEN 0
              ELSE IF PageLength(address) > len - offset THEN len - offset
              ELSE PageLength(address)
  BY DEF WriteEnable
<1>4. PageLength(address) \in 1 .. PageSize
  BY PageLengthType DEF IInv, Numbers
<1>5. /\ plen' \in 0 .. PageSize
      /\ op = "write" => plen' <= PageLength(address) /\ offset + plen' <= count
      /\ op # "write" => plen' = 0
  <2>1. CASE op = "write"
    <3>1. len = count /\ offset < len
      BY <1>1, <2>1 DEF IInv, Position, More
    <3>2. offset \in Nat /\ len \in Nat
      BY DEF IInv, Numbers
    <3> QED
      BY <1>3, <1>4, <2>1, <3>1, <3>2
  <2>2. CASE op # "write"
    BY <1>3, <2>2
  <2> QED
    BY <2>1, <2>2
<1>6. Places'
  BY <1>1 DEF IInv, Places
<1>7. Numbers'
  BY <1>1, <1>5 DEF IInv, Numbers
<1>8. Others'
  <2>1. wel' \in BOOLEAN
    BY <1>2, Zenon
  <2> QED
    BY <1>1, <2>1, Zenon DEF IInv, Others
<1>9. Position'
  BY <1>1, <1>5 DEF IInv, Position, More, PageLength
<1>10. Contents'
  BY <1>1 DEF IInv, Contents, Reached, InRange, Wanted
<1>11. Idleness'
  BY <1>1, <1>2 DEF IInv, Idleness, NoCommandIgnored
<1>12. NothingElseTouched' /\ ResultIsTrue'
  BY <1>1 DEF IInv, NothingElseTouched, InRange, Wanted, ResultIsTrue
<1> QED
  BY <1>6, <1>7, <1>8, <1>9, <1>10, <1>11, <1>12 DEF IInv

LEMMA PollDoneKeeps == ASSUME IInv, PollDone PROVE IInv'
<1>1. /\ UNCHANGED <<op, len, plen, stop, sr, expired, probed,
                     mem, wel, busy, base, count, before, idle, calls>>
      /\ pc = "polled" /\ ~sr
  BY DEF PollDone, chip, history
<1>6. /\ offset' = offset + plen
      /\ op = "write" => address' = address + plen
      /\ op # "write" => address' = address + SectorSize
  BY Zenon DEF PollDone
<1>2. ~busy
  BY <1>1 DEF IInv, Idleness
<1>5. Others' /\ NothingElseTouched'
  <2>1. Others'
    BY <1>1, Zenon DEF IInv, Others
  <2> QED
    BY <1>1, <2>1 DEF IInv, NothingElseTouched, InRange, Wanted
<1>3. CASE op = "chip erase"
  <2>1. pc' = "app" /\ ret' = "ok"
    BY <1>3 DEF PollDone, Return
  <2>2. base = 0 /\ count = Capacity /\ address = 0 /\ offset = 0 /\ plen = 0
    BY <1>1, <1>3 DEF IInv, Position
  <2>3. Reached = Capacity
    BY <1>1, <1>3 DEF Reached
  <2>4. Places'
    BY <1>1, <2>1 DEF IInv, Places
  <2>5. Numbers'
    <3>1. address' = SectorSize /\ offset' = 0
      <4>1. address' = address + SectorSize /\ offset' = offset + plen
        BY <1>3, <1>6
      <4> QED
        BY <2>2, <4>1
    <3> QED
      BY <1>1, <3>1, SectorFits DEF IInv, Numbers
  <2>6. Position' /\ Contents' /\ Idleness'
    BY <2>1 DEF Position, Contents, Idleness, NoCommandIgnored
  <2>7. ResultIsTrue'
    <3>1. ASSUME idle, NEW c \in Cell
          PROVE  mem[c] = Wanted(c)
      BY <1>1, <2>2, <2>3, <3>1 DEF IInv, Contents, Cell
    <3> QED
      BY <1>1, <2>1, <3>1 DEF ResultIsTrue, InRange, Wanted
  <2> QED
    BY <1>5, <2>4, <2>5, <2>6, <2>7 DEF IInv
<1>4. CASE op # "chip erase"
  <2>1. pc' = "loop" /\ ret' = ret
    BY <1>4 DEF PollDone, Goto
  <2>2. Places'
    BY <1>1, <2>1 DEF IInv, Places
  <2>3. ASSUME op = "write"
        PROVE  Numbers' /\ Position' /\ Reached' = Reached
    <3>1. /\ base + count <= Capacity /\ len = count /\ address = base + offset
          /\ offset + plen <= count
      BY <1>1, <2>3 DEF IInv, Position
    <3>2. /\ base \in Nat /\ count \in Nat /\ offset \in Nat /\ plen \in Nat
      BY DEF IInv, Numbers
    <3>3. /\ address' = address + plen /\ address + plen = base + (offset + plen)
          /\ offset' = offset + plen
          /\ address + plen \in 0 .. Word - 1 /\ offset + plen \in 0 .. Capacity
      BY <1>6, <2>3, <3>1, <3>2
    <3>4. Numbers'
      BY <1>1, <3>3 DEF IInv, Numbers
    <3>5. Position'
      BY <1>1, <2>1, <2>3, <3>1, <3>3 DEF Position
    <3>6. Reached' = Reached
      BY <1>1, <2>1, <2>3, <3>3 DEF Reached
    <3> QED
      BY <3>4, <3>5, <3>6
  <2>4. ASSUME op = "sector erase"
        PROVE  Numbers' /\ Position' /\ Reached' = Reached
    <3>1. /\ address % SectorSize = 0 /\ stop % SectorSize = 0 /\ base <= address
          /\ stop <= base + count /\ (stop = base + count \/ stop = Capacity)
          /\ address < stop /\ offset = 0 /\ plen = 0
      BY <1>1, <2>4 DEF IInv, Position
    <3>2. /\ base \in Nat /\ count \in Nat /\ address \in Nat /\ stop \in Nat
          /\ stop <= Capacity
      BY DEF IInv, Numbers
    <3>3. PICK next \in Nat : next = address + SectorSize
      BY <3>2
    <3>4. address' = next /\ offset' = 0
      <4>1. address' = address + SectorSize /\ offset' = offset + plen
        BY <1>6, <2>4
      <4> QED
        BY <4>1, <3>1, <3>3
    <3>5. /\ next <= stop /\ next % SectorSize = 0 /\ base <= next
      <4>1. address + SectorSize <= stop
        BY <3>1, <3>2, ModGap
      <4>2. (address + SectorSize) % SectorSize = 0
        BY <3>1, <3>2, ModSum, SelfMod
      <4> QED
        BY <4>1, <4>2, <3>1, <3>2, <3>3
    <3>6. Numbers'
      BY <1>1, <3>2, <3>4, <3>5 DEF IInv, Numbers
    <3>7. Position'
      BY <1>1, <2>1, <2>4, <3>1, <3>4, <3>5, Zenon DEF Position
    <3>8. Reached' = Reached
      BY <1>1, <2>1, <2>4, <3>3, <3>4 DEF Reached
    <3> QED
      BY <3>6, <3>7, <3>8
  <2>5. Numbers' /\ Position' /\ Reached' = Reached
    <3>1. op \in {"write", "sector erase"}
      BY <1>1, <1>4 DEF IInv, Position, Places
    <3> QED
      BY <3>1, <2>3, <2>4
  <2>6. Contents'
    BY <1>1, <2>5 DEF IInv, Contents, Wanted
  <2>7. Idleness' /\ ResultIsTrue'
    BY <1>1, <1>2, <2>1 DEF IInv, Idleness, NoCommandIgnored, ResultIsTrue
  <2> QED
    BY <1>5, <2>2, <2>5, <2>6, <2>7 DEF IInv
<1> QED
  BY <1>3, <1>4

LEMMA ModifyKeeps == ASSUME IInv, Modify PROVE IInv'
<1>1. /\ UNCHANGED <<op, ret, address, len, offset, plen, stop, sr, probed,
                     base, count, before, idle, calls>>
      /\ pc = "command" /\ pc' = "poll" /\ expired' = FALSE
  BY DEF Modify, Goto, locals, history
<1>2. PICK m : /\ Command(m)
               /\ op = "write" => m = Programmed(mem, address, offset, plen)
               /\ op = "sector erase" =>
                     m = Erased(mem, SectorOf(address), SectorOf(address) + SectorSize)
               /\ op = "chip erase" => m = Blank
  BY Zenon DEF Modify
<1>3. Places' /\ Numbers'
  BY <1>1 DEF IInv, Places, Numbers
<1>4. Position'
  BY <1>1 DEF IInv, Position, PageLength
<1>5. ResultIsTrue'
  BY <1>1 DEF ResultIsTrue
<1>6. Idleness'
  BY <1>1 DEF Idleness, NoCommandIgnored
(* From where to where the command is.                                      *)
<1>7. PICK to \in Nat : to = Reached'
  <2>1. /\ op = "write" => Reached' = address + plen
        /\ op = "sector erase" => Reached' = address + SectorSize
        /\ op # "write" /\ op # "sector erase" => Reached' = Capacity
    BY <1>1 DEF Reached
  <2>2. address \in Nat /\ plen \in Nat
    BY DEF IInv, Numbers
  <2>3. Reached' \in Nat
    <3>1. CASE op = "write"
      BY <2>1, <2>2, <3>1
    <3>2. CASE op = "sector erase"
      <4>1. Reached' = address + SectorSize
        BY <2>1, <3>2
      <4>2. address + SectorSize \in Nat
        BY <2>2
      <4> QED
        BY <4>1, <4>2, Zenon
    <3>3. CASE op # "write" /\ op # "sector erase"
      BY <2>1, <3>3
    <3> QED
      BY <3>1, <3>2, <3>3
  <2> QED
    BY <2>3
<1>8. Reached = address
  BY <1>1 DEF Reached
<1>9. base <= address /\ address <= to /\ to <= base + count
  <2>1. CASE op = "write"
    <3>1. to = address + plen
      BY <1>1, <1>7, <2>1 DEF Reached
    <3>2. address = base + offset /\ offset + plen <= count
      BY <1>1, <2>1 DEF IInv, Position
    <3>3. /\ base \in Nat /\ count \in Nat /\ address \in Nat /\ offset \in Nat
          /\ plen \in Nat
      BY DEF IInv, Numbers
    <3> QED
      BY <3>1, <3>2, <3>3
  <2>2. CASE op = "sector erase"
    <3>1. to = address + SectorSize
      BY <1>1, <1>7, <2>2 DEF Reached
    <3>2. /\ address % SectorSize = 0 /\ stop % SectorSize = 0 /\ base <= address
          /\ stop <= base + count /\ address < stop
      BY <1>1, <2>2 DEF IInv, Position
    <3>3. /\ base \in Nat /\ count \in Nat /\ address \in Nat /\ stop \in Nat
      BY DEF IInv, Numbers
    <3>4. address + SectorSize <= stop
      BY <3>2, <3>3, ModGap
    <3> QED
      BY <3>1, <3>2, <3>3, <3>4
  <2>3. CASE op = "chip erase"
    <3>1. base = 0 /\ count = Capacity /\ address = 0
      BY <1>1, <2>3 DEF IInv, Position
    <3>2. to = Capacity
      BY <1>1, <1>7, <2>3 DEF Reached
    <3> QED
      BY <3>1, <3>2
  <2> QED
    BY <1>1, <2>1, <2>2, <2>3 DEF IInv, Position, Places
<1>10. \A c \in Cell : m[c] = IF address <= c /\ c < to THEN Wanted(c) ELSE mem[c]
  <2> SUFFICES ASSUME NEW c \in Cell
               PROVE  m[c] = IF address <= c /\ c < to THEN Wanted(c) ELSE mem[c]
    OBVIOUS
  <2>1. CASE op = "write"
    <3>1. /\ address = base + offset /\ plen <= PageLength(address)
          /\ to = address + plen
      BY <1>1, <1>7, <2>1 DEF IInv, Position, Reached
    <3>2. /\ base \in Nat /\ offset \in Nat /\ plen \in Nat /\ address \in Nat
          /\ c \in Nat
      BY DEF IInv, Numbers, Cell
    <3>3. m[c] = IF address <= c /\ c < address + plen
                 THEN mem[c] \cup {offset + (c - address)} ELSE mem[c]
      <4>1. plen <= PageLength(address)
        BY <3>1
      <4>2. Programmed(mem, address, offset, plen)[c] =
                IF address <= c /\ c < address + plen
                THEN mem[c] \cup {offset + (c - address)} ELSE mem[c]
        BY <3>2, <4>1, ProgramsInPlace
      <4> QED
        BY <1>2, <2>1, <4>2, Zenon
    <3>4. address <= c => mem[c] = before[c]
      BY <1>1, <1>8 DEF IInv, Contents
    <3>5. offset + (c - address) = c - base
      BY <3>1, <3>2
    <3> QED
      BY <2>1, <3>1, <3>3, <3>4, <3>5 DEF Wanted
  <2>2. CASE op = "sector erase"
    <3>1. address % SectorSize = 0
      BY <1>1, <2>2 DEF IInv, Position
    <3>2. to = address + SectorSize
      BY <1>1, <1>7, <2>2 DEF Reached
    <3>3. address \in Nat
      BY DEF IInv, Numbers
    <3>4. Erased(mem, SectorOf(address), SectorOf(address) + SectorSize)[c] =
              IF address <= c /\ c < address + SectorSize THEN {} ELSE mem[c]
      BY <3>1, <3>3, ErasesSector
    <3>5. Wanted(c) = {}
      BY <2>2 DEF Wanted
    <3> QED
      BY <1>2, <2>2, <3>2, <3>4, <3>5, Zenon
  <2>3. CASE op = "chip erase"
    <3>1. address = 0 /\ to = Capacity
      BY <1>1, <1>7, <2>3 DEF IInv, Position, Reached
    <3> QED
      <4>1. m[c] = {} /\ Wanted(c) = {}
        BY <1>2, <2>3 DEF Wanted, Blank
      <4>2. address <= c /\ c < to
        BY <3>1 DEF Cell
      <4> QED
        BY <4>1, <4>2
  <2> QED
    BY <1>1, <2>1, <2>2, <2>3 DEF IInv, Position, Places
<1>11. m \in [Cell -> SUBSET Nat]
  <2>1. mem \in [Cell -> SUBSET Nat]
    BY DEF IInv, Others
  <2>2. CASE op = "write"
    <3>1. offset \in Nat
      BY DEF IInv, Numbers
    <3>2. \A c \in Cell : \A K : K \subseteq 0 .. plen - 1 =>
              mem[c] \cup {offset + k : k \in K} \subseteq Nat
      BY <2>1, <3>1
    <3>3. Programmed(mem, address, offset, plen) \in [Cell -> SUBSET Nat]
      BY <3>2 DEF Programmed
    <3> QED
      BY <1>2, <2>2, <3>3
  <2>3. CASE op = "sector erase"
    BY <1>2, <2>1, <2>3 DEF Erased
  <2>4. CASE op = "chip erase"
    BY <1>2, <2>4 DEF Blank
  <2> QED
    BY <1>1, <2>2, <2>3, <2>4 DEF IInv, Position, Places
<1>12. CASE UNCHANGED <<mem, wel, busy>> /\ ~idle
  <2>1. Others'
    BY <1>1, <1>12, Zenon DEF IInv, Others
  <2>2. Contents'
    <3>1. ASSUME NEW c \in Cell, to <= c
          PROVE  mem[c] = before[c]
      <4>1. address \in Nat /\ c \in Nat
        BY DEF IInv, Numbers, Cell
      <4>2. address <= c
        BY <1>9, <3>1, <4>1
      <4> QED
        BY <1>1, <1>8, <4>2 DEF IInv, Contents
    <3> QED
      BY <1>1, <1>7, <1>12, <3>1 DEF Contents
  <2>3. NothingElseTouched'
    BY <1>1, <1>12 DEF IInv, NothingElseTouched, InRange, Wanted
  <2> QED
    BY <1>3, <1>4, <1>5, <1>6, <2>1, <2>2, <2>3 DEF IInv
<1>13. CASE mem' = m /\ busy' = TRUE /\ wel' = wel
  <2>1. Others'
    BY <1>1, <1>11, <1>13, Zenon DEF IInv, Others
  <2>2. \A c \in Cell : Wanted(c)' = Wanted(c)
    BY <1>1 DEF Wanted
  <2>3. \A c \in Cell : c \in Nat
    BY DEF Cell
  <2>4. address \in Nat /\ base \in Nat /\ count \in Nat
    BY DEF IInv, Numbers
  <2>5. Contents'
    <3>1. ASSUME NEW c \in Cell, to <= c
          PROVE  mem'[c] = before'[c]
      <4>1. address <= c /\ ~(c < to)
        BY <1>9, <2>3, <2>4, <3>1
      <4>2. mem[c] = before[c]
        BY <1>1, <1>8, <4>1 DEF IInv, Contents
      <4> QED
        BY <1>1, <1>10, <1>13, <4>1, <4>2
    <3>2. ASSUME idle, NEW c \in Cell, base <= c, c < to
          PROVE  mem'[c] = Wanted(c)
      <4>1. CASE address <= c
        BY <1>10, <1>13, <3>2, <4>1
      <4>2. CASE ~(address <= c)
        <5>1. c < address
          BY <2>3, <2>4, <4>2
        <5>2. mem[c] = Wanted(c)
          BY <1>1, <1>8, <3>2, <5>1 DEF IInv, Contents
        <5> QED
          BY <1>10, <1>13, <4>2, <5>2
      <4> QED
        BY <4>1, <4>2
    <3> QED
      BY <1>1, <1>7, <2>2, <3>1, <3>2 DEF Contents
  <2>6. NothingElseTouched'
    <3>1. ASSUME NEW c \in Cell, ~InRange(c, count)
          PROVE  mem'[c] = before[c]
      <4>1. ~(address <= c /\ c < to)
        BY <1>9, <2>3, <2>4, <3>1 DEF InRange
      <4>2. mem[c] = before[c]
        BY <3>1 DEF IInv, NothingElseTouched
      <4> QED
        BY <1>10, <1>13, <4>1, <4>2
    <3>2. ASSUME NEW c \in Cell, InRange(c, count)
          PROVE  mem'[c] \in {before[c], Wanted(c)}
      <4>1. mem[c] \in {before[c], Wanted(c)}
        BY <3>2 DEF IInv, NothingElseTouched
      <4> QED
        BY <1>10, <1>13, <4>1
    <3> QED
      BY <1>1, <2>2, <3>1, <3>2 DEF NothingElseTouched, InRange
  <2> QED
    BY <1>3, <1>4, <1>5, <1>6, <2>1, <2>5, <2>6 DEF IInv
<1>14. \/ UNCHANGED <<mem, wel, busy>> /\ ~idle
       \/ mem' = m /\ busy' = TRUE /\ wel' = wel
  BY <1>1, <1>2 DEF Command, chip, IInv, Idleness, NoCommandIgnored
<1> QED
  BY <1>12, <1>13, <1>14
----------------------------------------------------------------------------
(* The calls whose end is an address.                                       *)
NoWraparound == \A call \in Calls : call[1] + call[2] < Word

LEMMA StutterKeeps == ASSUME IInv, UNCHANGED vars PROVE IInv'
<1>1. UNCHANGED <<pc, op, ret, address, len, offset, plen, stop, sr, expired, probed,
                  mem, wel, busy, base, count, before, idle, calls>>
  BY DEF vars
<1>2. Places' /\ Numbers'
  BY <1>1 DEF IInv, Places, Numbers
<1>3. Others'
  BY <1>1, Zenon DEF IInv, Others
<1>4. Position' /\ NothingElseTouched'
  BY <1>1 DEF IInv, Position, PageLength, NothingElseTouched, InRange, Wanted
<1>5. Contents' /\ ResultIsTrue'
  BY <1>1 DEF IInv, Contents, Reached, ResultIsTrue, InRange, Wanted
<1>6. Idleness'
  BY <1>1 DEF IInv, Idleness, NoCommandIgnored
<1> QED
  BY <1>2, <1>3, <1>4, <1>5, <1>6 DEF IInv

(* The invariant that the theorems below follow from.                       *)
THEOREM Inductive == ASSUME NoWraparound PROVE Spec => []IInv
<1>1. IInv /\ [Next]_vars => IInv'
  <2> SUFFICES ASSUME IInv, [Next]_vars PROVE IInv'
    OBVIOUS
  <2>1. CASE Probe
    BY <2>1, ProbeKeeps
  <2>2. ASSUME NEW call \in Calls, Write(call[1], call[2]) PROVE IInv'
    <3>1. /\ call[1] \in 0 .. Word - 1 /\ call[2] \in 0 .. Word - 1
          /\ call[1] + call[2] < Word
      BY CallsAssumption, NoWraparound DEF NoWraparound
    <3> QED
      BY <2>2, <3>1, WriteKeeps
  <2>3. ASSUME NEW call \in Calls, Erase(call[1], call[2]) PROVE IInv'
    <3>1. /\ call[1] \in 0 .. Word - 1 /\ call[2] \in 0 .. Word - 1
          /\ call[1] + call[2] < Word
      BY CallsAssumption, NoWraparound DEF NoWraparound
    <3> QED
      BY <2>3, <3>1, EraseKeeps
  <2>4. CASE Driver
    BY <2>4, LoopDoneKeeps, WriteEnableKeeps, ModifyKeeps, PollStatusKeeps,
       PollDoneKeeps, PollTimeoutKeeps, PollAgainKeeps DEF Driver
  <2>5. CASE Expire
    BY <2>5, ExpireKeeps
  <2>6. CASE Finish
    BY <2>6, FinishKeeps
  <2>7. CASE UNCHANGED vars
    BY <2>7, StutterKeeps
  <2> QED
    BY <2>1, <2>2, <2>3, <2>4, <2>5, <2>6, <2>7 DEF Next
<1> QED
  BY Initially, <1>1, PTL DEF Spec

(* Addresses, lengths and offsets of the driver stay inside the chip, a     *)
(* page program inside a page (sf.c:204-214, 240-250).                      *)
THEOREM TypeCorrect == ASSUME NoWraparound PROVE Spec => []TypeOK
<1>1. IInv => TypeOK
  BY Parts DEF IInv
<1> QED
  BY <1>1, Inductive, PTL

(* No call changes a byte outside its range (sf.c:205-214, 248-258).        *)
THEOREM OnlyTheRange == ASSUME NoWraparound PROVE Spec => []NothingElseTouched
<1>1. IInv => NothingElseTouched
  BY DEF IInv
<1> QED
  BY <1>1, Inductive, PTL

(* A call that found the chip idle and returns 0 has written or erased      *)
(* every byte of its range, and a refused one none (sf.c:173-267).          *)
THEOREM ZeroMeansDoneIfIdle == ASSUME NoWraparound PROVE Spec => []ResultIsTrue
<1>1. IInv => ResultIsTrue
  BY DEF IInv
<1> QED
  BY <1>1, Inductive, PTL

(* The chip carries out every command of a call that found it idle          *)
(* (sf.c:195-221, 255-260).                                                 *)
THEOREM CommandsTaken == ASSUME NoWraparound PROVE Spec => []NoCommandIgnored
<1>1. IInv => NoCommandIgnored
  BY DEF IInv, Idleness
<1> QED
  BY <1>1, Inductive, PTL
=============================================================================
