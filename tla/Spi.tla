-------------------------------- MODULE Spi --------------------------------
(***************************************************************************)
(* The polling SPI master of io/spi.c: spi_select, any number of           *)
(* spi_transfer calls and spi_deselect, against an SSP controller that     *)
(* shifts bytes on its own, with a transmit and a receive FIFO.            *)
(*                                                                         *)
(* The slave answers the k-th byte since it was selected with <<"in", k>>; *)
(* a caller's buffer holds <<"out", i>> at place i.  A transfer may send   *)
(* from a buffer or send 0xff, and receive into a buffer, the same one     *)
(* included (sf_cmd_rdid and sf_cmd_rdsr do that), or throw bytes away.    *)
(*                                                                         *)
(* A definition marked "Fault" is a wrong version of one further down; the *)
(* specification does not use it.                                          *)
(***************************************************************************)
EXTENDS Naturals, Sequences

CONSTANTS
    FifoSize,       \* entries of each FIFO, the 8 of spi_transfer
    MaxLen,         \* bytes a transfer may have
    MaxTransfers,   \* transfers between select and deselect
    NULL

ASSUME FifoSizeAssumption == FifoSize \in Nat \ {0}
ASSUME BoundsAssumption == MaxLen \in Nat /\ MaxTransfers \in Nat

Buffer == {"a", "b"}
ASSUME NullAssumption == NULL \notin Buffer

VARIABLES
    pc,         \* "app", "fill" or "drain"
    cs,         \* the slave is selected
    len,        \* arguments of the transfer
    txbuf,      \* ... a buffer or NULL
    rxbuf,      \* ... a buffer or NULL
    txi, rxi,
    mem,        \* contents of the buffers
    tx, rx,     \* the FIFOs
    shift,      \* the byte on the wire: a sequence of at most one
    mosi,       \* bytes the slave has received since it was selected
    asked,      \* bytes it should have when the transfer returns
    transfers   \* transfers since it was selected

args == <<len, txbuf, rxbuf>>
ssp == <<tx, rx, shift, mosi>>
vars == <<pc, cs, len, txbuf, rxbuf, txi, rxi, mem, tx, rx, shift, mosi,
          asked, transfers>>

Place == 0 .. MaxLen - 1
Fresh == [i \in Place |-> <<"out", i>>]

Init ==
    /\ pc = "app" /\ cs = FALSE
    /\ len = 0 /\ txbuf = NULL /\ rxbuf = NULL /\ txi = 0 /\ rxi = 0
    /\ mem = [b \in Buffer |-> Fresh]
    /\ tx = <<>> /\ rx = <<>> /\ shift = <<>>
    /\ mosi = <<>> /\ asked = <<>> /\ transfers = 0
----------------------------------------------------------------------------
Select ==
    /\ pc = "app" /\ ~cs
    /\ cs' = TRUE
    /\ UNCHANGED <<pc, args, txi, rxi, mem, ssp, asked, transfers>>

(* The next user of the bus selects its slave after this.                   *)
Deselect ==
    /\ pc = "app" /\ cs
    /\ cs' = FALSE
    /\ mosi' = <<>> /\ asked' = <<>> /\ transfers' = 0
    /\ len' = 0 /\ txbuf' = NULL /\ rxbuf' = NULL /\ txi' = 0 /\ rxi' = 0
    /\ UNCHANGED <<pc, mem, tx, rx, shift>>

Outgoing(b, i) == IF b = NULL THEN <<"0xff">> ELSE mem[b][i]

Transfer(n, t, r) ==
    /\ pc = "app" /\ cs /\ transfers < MaxTransfers
    /\ pc' = "fill"
    /\ len' = n /\ txbuf' = t /\ rxbuf' = r /\ txi' = 0 /\ rxi' = 0
    /\ mem' = [b \in Buffer |-> Fresh]
    /\ asked' = asked \o [i \in 1 .. n |-> IF t = NULL THEN <<"0xff">> ELSE <<"out", i - 1>>]
    /\ transfers' = transfers + 1
    /\ UNCHANGED <<cs, ssp>>

(* Faults: the gap may be one larger; there is no bound on the gap; one     *)
(* byte too many is sent.                                                   *)
MayFillOneMore == Len(tx) < FifoSize /\ txi < len /\ txi - rxi <= FifoSize
MayFillAny == Len(tx) < FifoSize /\ txi < len
MayFillPast == Len(tx) < FifoSize /\ txi <= len /\ txi - rxi < FifoSize

(* The transmit FIFO is not full, bytes are left, and not so many are       *)
(* underway that the receive FIFO could overflow.                           *)
MayFill == Len(tx) < FifoSize /\ txi < len /\ txi - rxi < FifoSize

Fill ==
    /\ pc = "fill"
    /\ MayFill
    /\ tx' = Append(tx, Outgoing(txbuf, txi))
    /\ txi' = txi + 1
    /\ UNCHANGED <<pc, cs, args, rxi, mem, rx, shift, mosi, asked, transfers>>

FillDone ==
    /\ pc = "fill"
    /\ ~MayFill
    /\ pc' = "drain"
    /\ UNCHANGED <<cs, args, txi, rxi, mem, ssp, asked, transfers>>

(* Fault: received bytes are stored at the index of the bytes sent.         *)
DrainAtSent ==
    /\ pc = "drain"
    /\ rx # <<>> /\ rxi < len
    /\ mem' = IF rxbuf = NULL THEN mem
              ELSE [mem EXCEPT ![rxbuf][txi - 1] = Head(rx)]
    /\ rx' = Tail(rx)
    /\ rxi' = rxi + 1
    /\ UNCHANGED <<pc, cs, args, txi, tx, shift, mosi, asked, transfers>>

Drain ==
    /\ pc = "drain"
    /\ rx # <<>> /\ rxi < len
    /\ mem' = IF rxbuf = NULL THEN mem ELSE [mem EXCEPT ![rxbuf][rxi] = Head(rx)]
    /\ rx' = Tail(rx)
    /\ rxi' = rxi + 1
    /\ UNCHANGED <<pc, cs, args, txi, tx, shift, mosi, asked, transfers>>

(* Fault: the loop ends when everything has been sent.                      *)
DrainDoneSent ==
    /\ pc = "drain"
    /\ ~(rx # <<>> /\ rxi < len)
    /\ pc' = IF txi < len THEN "fill" ELSE "app"
    /\ UNCHANGED <<cs, args, txi, rxi, mem, ssp, asked, transfers>>

(* The end of both inner loops and the outer loop's condition.              *)
DrainDone ==
    /\ pc = "drain"
    /\ ~(rx # <<>> /\ rxi < len)
    /\ pc' = IF rxi < len THEN "fill" ELSE "app"
    /\ UNCHANGED <<cs, args, txi, rxi, mem, ssp, asked, transfers>>

Driver == Fill \/ FillDone \/ Drain \/ DrainDone
----------------------------------------------------------------------------
(* The controller.  A byte that arrives when the receive FIFO is full is    *)
(* lost; a slave that is not selected hears nothing.                        *)
ShiftOut ==
    /\ tx # <<>> /\ shift = <<>>
    /\ shift' = <<Head(tx)>>
    /\ tx' = Tail(tx)
    /\ UNCHANGED <<pc, cs, args, txi, rxi, mem, rx, mosi, asked, transfers>>

ShiftIn ==
    /\ shift # <<>>
    /\ rx' = IF Len(rx) < FifoSize THEN Append(rx, <<"in", Len(mosi)>>) ELSE rx
    /\ mosi' = IF cs THEN mosi \o shift ELSE mosi
    /\ shift' = <<>>
    /\ UNCHANGED <<pc, cs, args, txi, rxi, mem, tx, asked, transfers>>

Next ==
    \/ Select \/ Deselect
    \/ \E n \in 0 .. MaxLen, t \in Buffer \cup {NULL}, r \in Buffer \cup {NULL} :
          Transfer(n, t, r)
    \/ Driver
    \/ ShiftOut \/ ShiftIn

Spec == Init /\ [][Next]_vars

(* The caller polls without being stopped, and the controller shifts.       *)
FairSpec == Spec /\ WF_vars(Driver) /\ WF_vars(ShiftOut \/ ShiftIn)
----------------------------------------------------------------------------
Byte == {<<"0xff">>} \cup ({"out", "in"} \X Nat)

Types ==
    /\ pc \in {"app", "fill", "drain"}
    /\ cs \in BOOLEAN
    /\ len \in Nat /\ txi \in Nat /\ rxi \in Nat
    /\ txbuf \in Buffer \cup {NULL} /\ rxbuf \in Buffer \cup {NULL}
    /\ mem \in [Buffer -> [Place -> Byte]]
    /\ tx \in Seq(Byte) /\ rx \in Seq(Byte) /\ shift \in Seq(Byte)
    /\ mosi \in Seq(Byte) /\ asked \in Seq(Byte)
    /\ transfers \in Nat
    /\ len <= MaxLen /\ rxi <= txi /\ txi <= len

(* Every variable has its type, the indices are in order, so that txi - rxi *)
(* does not wrap, and neither FIFO holds more than its depth (spi.c:119).   *)
TypeOK == Types /\ Len(tx) <= FifoSize /\ Len(rx) <= FifoSize

(* No byte is lost at the controller: whenever one is on the wire, the      *)
(* receive FIFO has room for the one that comes back, however long the      *)
(* driver takes to read it (spi.c:118-119).                                 *)
ReceiverHasRoom == shift # <<>> => Len(rx) < FifoSize

(* Nothing is underway when spi_transfer returns, so that spi_deselect      *)
(* needs no look at the busy flag and never cuts a byte off, and no stale   *)
(* byte is found by the next transfer (spi.c:97, 117).                      *)
IdleBetweenTransfers ==
    pc = "app" => tx = <<>> /\ shift = <<>> /\ rx = <<>>

(* When spi_transfer returns, the slave has got the buffer in order, as it  *)
(* was when the call was made, and the receive buffer holds the slave's     *)
(* answers, each in its place, even when both are one buffer.               *)
TransferredInFull ==
    pc = "app" =>
        /\ mosi = asked
        /\ rxbuf # NULL =>
              \A i \in 0 .. len - 1 :
                  mem[rxbuf][i] = <<"in", Len(mosi) - len + i>>

(* Every transfer returns: sending waits for receiving only when there is   *)
(* something to receive.                                                    *)
TransferReturns == pc # "app" ~> pc = "app"
============================================================================
