------------------------------ MODULE SpiProofs ------------------------------
(***************************************************************************)
(* spi_transfer of Spi moves every byte, in place or not, for every FIFO   *)
(* size and every length.                                                  *)
(***************************************************************************)
EXTENDS Spi, SequenceTheorems, TLAPS

USE FifoSizeAssumption, BoundsAssumption, NullAssumption

(* Bytes the slave had when the current transfer began.                     *)
Base == Len(asked) - len

(* What spi_transfer puts at place i of a transfer that sends from t.       *)
Intended(t, i) == IF t = NULL THEN <<"0xff">> ELSE <<"out", i>>

(* Every byte sent and not yet read is in one of the FIFOs or on the wire,  *)
(* and there are at most FifoSize of them.                                  *)
Underway ==
    /\ Len(shift) <= 1
    /\ txi - rxi = Len(tx) + Len(shift) + Len(rx)
    /\ txi - rxi <= FifoSize

(* The slave's bytes, then the one on the wire, then those in the transmit  *)
(* FIFO are the first ones asked for.                                       *)
Outbound ==
    /\ len <= Len(asked)
    /\ Len(mosi) = Base + rxi + Len(rx)
    /\ \A k \in 1 .. Len(mosi) : mosi[k] = asked[k]
    /\ \A k \in 1 .. Len(shift) : shift[k] = asked[Len(mosi) + k]
    /\ \A k \in 1 .. Len(tx) : tx[k] = asked[Len(mosi) + Len(shift) + k]
    /\ \A i \in 0 .. len - 1 : asked[Base + i + 1] = Intended(txbuf, i)

(* The answers read lie in the receive buffer, the next ones in the receive *)
(* FIFO, and no place of the send buffer is overwritten before it is sent.  *)
Inbound ==
    /\ \A k \in 1 .. Len(rx) : rx[k] = <<"in", Base + rxi + k - 1>>
    /\ rxbuf # NULL =>
          \A i \in 0 .. rxi - 1 : mem[rxbuf][i] = <<"in", Base + i>>
    /\ txbuf # NULL =>
          \A i \in txi .. len - 1 : mem[txbuf][i] = <<"out", i>>

(* The driver is between calls only when all bytes are in, and calls only   *)
(* while the slave is selected.                                             *)
Control ==
    /\ pc = "app" => rxi = len
    /\ pc # "app" => cs
    /\ ~cs => asked = <<>>

IInv == Types /\ Underway /\ Outbound /\ Inbound /\ Control

LEMMA Bytes ==
    /\ \A i \in Nat : <<"in", i>> \in Byte /\ <<"out", i>> \in Byte
    /\ <<"0xff">> \in Byte
  BY DEF Byte

LEMMA FreshBytes == Fresh \in [Place -> Byte]
  BY DEF Byte, Fresh, Place

LEMMA NoBytes == <<>> \in Seq(Byte)
  BY EmptySeq

LEMMA InitIInv == Init => IInv
  <1> SUFFICES ASSUME Init PROVE IInv
    OBVIOUS
  <1>1. Types
    <2>1. /\ tx \in Seq(Byte) /\ rx \in Seq(Byte) /\ shift \in Seq(Byte)
          /\ mosi \in Seq(Byte) /\ asked \in Seq(Byte)
      BY NoBytes DEF Init
    <2>2. mem \in [Buffer -> [Place -> Byte]]
      BY FreshBytes DEF Init
    <2>3. len <= MaxLen /\ rxi <= txi /\ txi <= len
      BY DEF Init
    <2>4. cs \in BOOLEAN
      BY DEF Init
    <2> QED
      BY <2>1, <2>2, <2>3, <2>4 DEF Init, Types
  <1> QED
    BY <1>1 DEF Init, IInv, Underway, Outbound, Inbound, Control, Base

LEMMA SelectStep ==
    ASSUME IInv, Select
    PROVE  IInv'
  BY DEF Select, IInv, Types, Underway, Outbound, Inbound, Control, Base,
         Intended, args, ssp

LEMMA DeselectStep ==
    ASSUME IInv, Deselect
    PROVE  IInv'
  <1>1. /\ pc = "app" /\ cs' = FALSE /\ pc' = pc
        /\ mosi' = <<>> /\ asked' = <<>> /\ transfers' = 0
        /\ len' = 0 /\ txbuf' = NULL /\ rxbuf' = NULL /\ txi' = 0 /\ rxi' = 0
        /\ mem' = mem /\ tx' = tx /\ rx' = rx /\ shift' = shift
    BY DEF Deselect
  <1>2. Types /\ Underway /\ Control
    BY DEF IInv
  <1>3. tx = <<>> /\ rx = <<>> /\ shift = <<>>
    BY <1>1, <1>2 DEF Types, Underway, Control
  <1>4. Types'
    <2>1. mosi' \in Seq(Byte) /\ asked' \in Seq(Byte)
      BY <1>1, NoBytes
    <2>2. len' <= MaxLen /\ rxi' <= txi' /\ txi' <= len'
      BY <1>1
    <2> QED
      BY <1>1, <1>2, <2>1, <2>2 DEF Types
  <1>5. Underway' /\ Control'
    BY <1>1, <1>3 DEF Underway, Control
  <1>6. Outbound'
    BY <1>1, <1>3 DEF Outbound, Base
  <1>7. Inbound'
    BY <1>1, <1>3 DEF Inbound
  <1> QED
    BY <1>4, <1>5, <1>6, <1>7 DEF IInv

LEMMA TransferStep ==
    ASSUME IInv,
           NEW n \in 0 .. MaxLen, NEW t \in Buffer \cup {NULL},
           NEW r \in Buffer \cup {NULL}, Transfer(n, t, r)
    PROVE  IInv'
  <1> DEFINE new == [i \in 1 .. n |-> IF t = NULL THEN <<"0xff">> ELSE <<"out", i - 1>>]
  <1>1. /\ pc = "app" /\ cs /\ cs' = cs /\ pc' = "fill"
        /\ len' = n /\ txbuf' = t /\ rxbuf' = r /\ txi' = 0 /\ rxi' = 0
        /\ mem' = [b \in Buffer |-> Fresh]
        /\ asked' = asked \o new
        /\ transfers' = transfers + 1
        /\ tx' = tx /\ rx' = rx /\ shift' = shift /\ mosi' = mosi
    BY DEF Transfer, ssp
  <1>2. Types /\ Underway /\ Outbound /\ Control
    BY DEF IInv
  <1>3. /\ tx = <<>> /\ rx = <<>> /\ shift = <<>> /\ rxi = len
    BY <1>1, <1>2 DEF Types, Underway, Control
  <1>4. new \in Seq(Byte) /\ Len(new) = n
    <2>1. \A i \in 1 .. n : i - 1 \in Nat
      OBVIOUS
    <2>2. \A i \in 1 .. n : new[i] \in Byte
      BY <2>1, Bytes
    <2> QED
      BY <2>2
  <1>5. /\ asked' \in Seq(Byte) /\ Len(asked') = Len(asked) + n
        /\ \A k \in 1 .. Len(asked) : asked'[k] = asked[k]
        /\ \A k \in 1 .. n : asked'[Len(asked) + k] = new[k]
    BY <1>1, <1>2, <1>4, ConcatProperties DEF Types
  <1>6. Types'
    BY <1>1, <1>2, <1>5, FreshBytes DEF Types
  <1>7. Underway' /\ Control'
    BY <1>1, <1>3 DEF Underway, Control
  <1>8. Base' = Len(asked) /\ Len(mosi) = Len(asked)
    BY <1>1, <1>2, <1>3, <1>5 DEF Base, Outbound, Types
  <1>9. Outbound'
    <2>1. \A k \in 1 .. Len(mosi) : mosi[k] = asked'[k]
      BY <1>2, <1>5, <1>8 DEF Outbound
    <2>2. \A i \in 0 .. n - 1 : asked'[Base' + i + 1] = Intended(t, i)
      <3> TAKE i \in 0 .. n - 1
      <3> DEFINE k == i + 1
      <3>1. k \in 1 .. n /\ k - 1 = i /\ Base' + i + 1 = Len(asked) + k
        BY <1>8, <1>2 DEF Types
      <3>2. new[k] = Intended(t, i)
        BY <3>1 DEF Intended
      <3> QED
        BY <3>1, <3>2, <1>5
    <2>3. n <= Len(asked') /\ Len(mosi') = Base' + rxi' + Len(rx')
      BY <1>1, <1>2, <1>3, <1>5, <1>8 DEF Types
    <2>4. Len(shift') = 0 /\ Len(tx') = 0
      BY <1>1, <1>3
    <2>5. /\ \A k \in 1 .. Len(shift') : shift'[k] = asked'[Len(mosi') + k]
          /\ \A k \in 1 .. Len(tx') :
                tx'[k] = asked'[Len(mosi') + Len(shift') + k]
      BY <2>4
    <2> QED
      BY <1>1, <2>1, <2>2, <2>3, <2>5 DEF Outbound
  <1>10. Inbound'
    <2>1. \A b \in Buffer : \A i \in Place : mem'[b][i] = <<"out", i>>
      BY <1>1 DEF Fresh
    <2>2. 0 .. n - 1 \subseteq Place
      BY DEF Place
    <2> QED
      BY <1>1, <1>3, <2>1, <2>2 DEF Inbound
  <1> QED
    BY <1>6, <1>7, <1>9, <1>10 DEF IInv

LEMMA FillStep ==
    ASSUME IInv, Fill
    PROVE  IInv'
  <1>1. /\ pc = "fill" /\ Len(tx) < FifoSize /\ txi < len /\ txi - rxi < FifoSize
        /\ tx' = Append(tx, Outgoing(txbuf, txi)) /\ txi' = txi + 1
        /\ pc' = pc /\ cs' = cs /\ len' = len /\ txbuf' = txbuf /\ rxbuf' = rxbuf
        /\ rxi' = rxi /\ mem' = mem /\ rx' = rx /\ shift' = shift /\ mosi' = mosi
        /\ asked' = asked /\ transfers' = transfers /\ Base' = Base
    BY DEF Fill, MayFill, args, Base
  <1>2. Types /\ Underway /\ Outbound /\ Inbound /\ Control
    BY DEF IInv
  <1>3. /\ len \in Nat /\ txi \in Nat /\ rxi \in Nat /\ rxi <= txi /\ txi < len
        /\ len <= MaxLen /\ tx \in Seq(Byte) /\ Len(tx) \in Nat
        /\ txbuf \in Buffer \cup {NULL} /\ Len(asked) \in Nat /\ Len(mosi) \in Nat
        /\ Len(shift) \in Nat /\ Len(rx) \in Nat
    BY <1>1, <1>2 DEF Types
  <1>4. txi \in Place
    BY <1>3 DEF Place
  <1>5. Outgoing(txbuf, txi) = Intended(txbuf, txi)
    BY <1>2, <1>3 DEF Outgoing, Intended, Inbound
  <1>6. Outgoing(txbuf, txi) \in Byte
    BY <1>3, <1>5, Bytes DEF Intended
  <1>7. Outgoing(txbuf, txi) = asked[Base + txi + 1]
    BY <1>2, <1>3, <1>5 DEF Outbound
  <1>8. /\ tx' \in Seq(Byte) /\ Len(tx') = Len(tx) + 1
        /\ \A k \in 1 .. Len(tx) : tx'[k] = tx[k]
        /\ tx'[Len(tx) + 1] = Outgoing(txbuf, txi)
    BY <1>1, <1>3, <1>6
  <1>9. Types'
    BY <1>1, <1>2, <1>3, <1>8 DEF Types
  <1>10. Underway'
    <2>1. Len(shift) <= 1 /\ txi - rxi = Len(tx) + Len(shift) + Len(rx)
      BY <1>2 DEF Underway
    <2>2. txi + 1 - rxi = Len(tx) + 1 + Len(shift) + Len(rx)
      BY <1>3, <2>1
    <2>3. /\ txi' = txi + 1 /\ rxi' = rxi /\ Len(tx') = Len(tx) + 1
          /\ Len(shift') = Len(shift) /\ Len(rx') = Len(rx)
      BY <1>1, <1>8
    <2>4. txi' - rxi' = Len(tx') + Len(shift') + Len(rx')
      BY <1>3, <2>2, <2>3
    <2>5. txi' - rxi' <= FifoSize
      BY <1>1, <1>3
    <2> QED
      BY <2>1, <2>3, <2>4, <2>5 DEF Underway
  <1>11. Control'
    BY <1>1, <1>2 DEF Control
  <1>12. Outbound'
    <2>1. Len(mosi) + Len(shift) + Len(tx) + 1 = Base + txi + 1
      BY <1>2, <1>3 DEF Outbound, Underway, Base
    <2>2. ASSUME NEW k \in 1 .. Len(tx')
          PROVE  tx'[k] = asked[Len(mosi) + Len(shift) + k]
      <3>1. CASE k = Len(tx) + 1
        <4>1. Len(mosi) + Len(shift) + k = Base + txi + 1
          BY <2>1, <3>1, <1>3
        <4> QED
          BY <4>1, <3>1, <1>7, <1>8
      <3>2. CASE k \in 1 .. Len(tx)
        BY <3>2, <1>2, <1>8 DEF Outbound
      <3> QED
        BY <3>1, <3>2, <1>3, <1>8
    <2> QED
      BY <1>1, <1>2, <2>2 DEF Outbound
  <1>13. Inbound'
    <2>1. \A i \in txi + 1 .. len - 1 : i \in txi .. len - 1
      BY <1>3
    <2> QED
      BY <1>1, <1>2, <2>1 DEF Inbound
  <1> QED
    BY <1>9, <1>10, <1>11, <1>12, <1>13 DEF IInv

LEMMA FillDoneStep ==
    ASSUME IInv, FillDone
    PROVE  IInv'
  BY DEF FillDone, IInv, Types, Underway, Outbound, Inbound, Control, Base,
         args, ssp


LEMMA DrainStep ==
    ASSUME IInv, Drain
    PROVE  IInv'
  <1>1. /\ pc = "drain" /\ rx # <<>> /\ rxi < len
        /\ mem' = IF rxbuf = NULL THEN mem
                  ELSE [mem EXCEPT ![rxbuf][rxi] = Head(rx)]
        /\ rx' = Tail(rx) /\ rxi' = rxi + 1
        /\ pc' = pc /\ cs' = cs /\ len' = len /\ txbuf' = txbuf /\ rxbuf' = rxbuf
        /\ txi' = txi /\ tx' = tx /\ shift' = shift /\ mosi' = mosi
        /\ asked' = asked /\ transfers' = transfers /\ Base' = Base
    BY DEF Drain, args, Base
  <1>2. Types /\ Underway /\ Outbound /\ Inbound /\ Control
    BY DEF IInv
  <1>3. /\ len \in Nat /\ txi \in Nat /\ rxi \in Nat /\ rxi <= txi /\ txi <= len
        /\ len <= MaxLen /\ rx \in Seq(Byte) /\ Len(rx) \in Nat /\ Len(tx) \in Nat
        /\ Len(shift) \in Nat /\ Len(asked) \in Nat /\ len <= Len(asked)
        /\ rxbuf \in Buffer \cup {NULL} /\ mem \in [Buffer -> [Place -> Byte]]
    BY <1>1, <1>2 DEF Types, Outbound
  <1>4. rxi \in Place /\ Base \in Nat
    BY <1>1, <1>3 DEF Place, Base
  <1>5. /\ Len(rx) >= 1 /\ Head(rx) = rx[1] /\ Head(rx) \in Byte
        /\ rx' \in Seq(Byte) /\ Len(rx') = Len(rx) - 1
        /\ \A k \in 1 .. Len(rx) - 1 : rx'[k] = rx[k + 1]
    BY <1>1, <1>3
  <1>6. txi - rxi = Len(tx) + Len(shift) + Len(rx) /\ txi - rxi <= FifoSize
    BY <1>2 DEF Underway
  <1>7. rxi + 1 <= txi
    BY <1>3, <1>5, <1>6
  <1>8. rx[1] = <<"in", Base + rxi>>
    <2>1. 1 \in 1 .. Len(rx) /\ Base + rxi + 1 - 1 = Base + rxi
      BY <1>3, <1>4, <1>5
    <2> QED
      BY <1>2, <2>1 DEF Inbound
  <1>9. mem' \in [Buffer -> [Place -> Byte]]
    BY <1>1, <1>3, <1>4, <1>5
  <1>10. Types'
    BY <1>1, <1>2, <1>3, <1>5, <1>7, <1>9 DEF Types
  <1>11. Underway'
    <2>1. Len(shift) <= 1
      BY <1>2 DEF Underway
    <2>2. txi' - rxi' = Len(tx') + Len(shift') + Len(rx')
      BY <1>1, <1>3, <1>5, <1>6
    <2>3. txi' - rxi' <= FifoSize
      BY <1>1, <1>3, <1>6
    <2> QED
      BY <1>1, <2>1, <2>2, <2>3 DEF Underway
  <1>12. Control'
    BY <1>1, <1>2 DEF Control
  <1>13. Outbound'
    <2>1. Len(mosi) = Base + rxi' + Len(rx')
      BY <1>1, <1>2, <1>3, <1>4, <1>5 DEF Outbound
    <2> QED
      BY <1>1, <1>2, <2>1 DEF Outbound
  <1>14. Inbound'
    <2>1. ASSUME NEW k \in 1 .. Len(rx')
          PROVE  rx'[k] = <<"in", Base + rxi' + k - 1>>
      <3>1. k \in 1 .. Len(rx) - 1 /\ k + 1 \in 1 .. Len(rx)
        BY <1>3, <1>5
      <3>2. rx[k + 1] = <<"in", Base + rxi + (k + 1) - 1>>
        BY <1>2, <3>1 DEF Inbound
      <3>3. Base + rxi + (k + 1) - 1 = Base + rxi' + k - 1
        BY <1>1, <1>3, <1>4
      <3> QED
        BY <1>5, <3>1, <3>2, <3>3
    <2>2. ASSUME rxbuf # NULL
          PROVE  \A i \in 0 .. rxi : mem'[rxbuf][i] = <<"in", Base + i>>
      <3>1. rxbuf \in Buffer
        BY <1>3, <2>2
      <3>2. /\ mem'[rxbuf][rxi] = rx[1]
            /\ \A i \in Place : i # rxi => mem'[rxbuf][i] = mem[rxbuf][i]
        BY <1>1, <1>3, <1>4, <1>5, <2>2, <3>1
      <3>3. \A i \in 0 .. rxi - 1 : i \in Place /\ i # rxi
        BY <1>1, <1>3 DEF Place
      <3>4. \A i \in 0 .. rxi - 1 : mem[rxbuf][i] = <<"in", Base + i>>
        BY <1>2, <2>2 DEF Inbound
      <3>5. \A i \in 0 .. rxi : i = rxi \/ i \in 0 .. rxi - 1
        BY <1>3
      <3> QED
        BY <1>8, <3>2, <3>3, <3>4, <3>5
    <2>3. ASSUME txbuf # NULL
          PROVE  \A i \in txi .. len - 1 : mem'[txbuf][i] = <<"out", i>>
      <3>1. \A i \in txi .. len - 1 : i \in Place /\ i # rxi
        BY <1>3, <1>7 DEF Place
      <3>2. txbuf \in Buffer
        BY <1>2, <2>3 DEF Types
      <3>3. \A i \in Place : i # rxi => mem'[txbuf][i] = mem[txbuf][i]
        BY <1>1, <1>3, <1>4, <3>2
      <3>4. \A i \in txi .. len - 1 : mem[txbuf][i] = <<"out", i>>
        BY <1>2, <2>3 DEF Inbound
      <3> QED
        BY <3>1, <3>3, <3>4
    <2>4. rxi' - 1 = rxi
      BY <1>1, <1>3
    <2> QED
      BY <1>1, <2>1, <2>2, <2>3, <2>4 DEF Inbound
  <1> QED
    BY <1>10, <1>11, <1>12, <1>13, <1>14 DEF IInv

LEMMA DrainDoneStep ==
    ASSUME IInv, DrainDone
    PROVE  IInv'
  <1>1. /\ pc = "drain" /\ pc' = (IF rxi < len THEN "fill" ELSE "app")
        /\ cs' = cs /\ len' = len /\ txbuf' = txbuf /\ rxbuf' = rxbuf
        /\ txi' = txi /\ rxi' = rxi /\ mem' = mem /\ tx' = tx /\ rx' = rx
        /\ shift' = shift /\ mosi' = mosi /\ asked' = asked
        /\ transfers' = transfers /\ Base' = Base
    BY DEF DrainDone, args, ssp, Base
  <1>2. Types /\ Underway /\ Outbound /\ Inbound /\ Control
    BY DEF IInv
  <1>3. Types'
    BY <1>1, <1>2 DEF Types
  <1>4. Underway' /\ Outbound' /\ Inbound'
    BY <1>1, <1>2 DEF Underway, Outbound, Inbound
  <1>5. Control'
    BY <1>1, <1>2 DEF Control, Types
  <1> QED
    BY <1>3, <1>4, <1>5 DEF IInv

LEMMA ShiftOutStep ==
    ASSUME IInv, ShiftOut
    PROVE  IInv'
  <1>1. /\ tx # <<>> /\ shift = <<>> /\ shift' = <<Head(tx)>> /\ tx' = Tail(tx)
        /\ pc' = pc /\ cs' = cs /\ len' = len /\ txbuf' = txbuf /\ rxbuf' = rxbuf
        /\ txi' = txi /\ rxi' = rxi /\ mem' = mem /\ rx' = rx /\ mosi' = mosi
        /\ asked' = asked /\ transfers' = transfers /\ Base' = Base
    BY DEF ShiftOut, args, Base
  <1>2. Types /\ Underway /\ Outbound /\ Inbound /\ Control
    BY DEF IInv
  <1>3. /\ tx \in Seq(Byte) /\ Len(tx) \in Nat /\ Len(rx) \in Nat
        /\ Len(mosi) \in Nat /\ txi \in Nat /\ rxi \in Nat
    BY <1>2 DEF Types
  <1>4. /\ Len(tx) >= 1 /\ Head(tx) = tx[1] /\ Head(tx) \in Byte
        /\ tx' \in Seq(Byte) /\ Len(tx') = Len(tx) - 1
        /\ \A k \in 1 .. Len(tx) - 1 : tx'[k] = tx[k + 1]
    BY <1>1, <1>3
  <1>5. shift' \in Seq(Byte) /\ Len(shift') = 1 /\ shift'[1] = tx[1] /\ Len(shift) = 0
    BY <1>1, <1>4
  <1>6. Types'
    BY <1>1, <1>2, <1>4, <1>5 DEF Types
  <1>7. Underway'
    BY <1>1, <1>2, <1>3, <1>4, <1>5 DEF Underway
  <1>8. Control' /\ Inbound'
    BY <1>1, <1>2 DEF Control, Inbound
  <1>9. Outbound'
    <2>1. \A k \in 1 .. Len(tx) : tx[k] = asked[Len(mosi) + k]
      BY <1>2, <1>3, <1>5 DEF Outbound
    <2>2. tx[1] = asked[Len(mosi) + 1]
      BY <1>3, <1>4, <2>1
    <2>3. ASSUME NEW k \in 1 .. Len(tx')
          PROVE  tx'[k] = asked[Len(mosi) + 1 + k]
      <3>1. k \in 1 .. Len(tx) - 1 /\ k + 1 \in 1 .. Len(tx)
        BY <1>3, <1>4
      <3>2. Len(mosi) + (k + 1) = Len(mosi) + 1 + k
        BY <1>3
      <3> QED
        BY <1>4, <2>1, <3>1, <3>2
    <2>4. \A k \in 1 .. Len(shift') : shift'[k] = asked[Len(mosi) + k]
      BY <1>5, <2>2
    <2> QED
      BY <1>1, <1>2, <1>5, <2>3, <2>4 DEF Outbound
  <1> QED
    BY <1>6, <1>7, <1>8, <1>9 DEF IInv

(* A byte is on the wire only during a call, when the slave is selected and *)
(* the receive FIFO has room.                                               *)
LEMMA OnTheWire ==
    ASSUME IInv, shift # <<>>
    PROVE  Len(shift) = 1 /\ Len(rx) < FifoSize /\ cs
  <1>1. Types /\ Underway /\ Control
    BY DEF IInv
  <1>2. /\ Len(tx) \in Nat /\ Len(rx) \in Nat /\ Len(shift) \in Nat
        /\ txi \in Nat /\ rxi \in Nat /\ len \in Nat /\ txi <= len
        /\ shift \in Seq(Byte)
    BY <1>1 DEF Types
  <1>3. Len(shift) = 1
    <2>1. Len(shift) # 0
      BY <1>2, EmptySeq
    <2>2. Len(shift) <= 1
      BY <1>1 DEF Underway
    <2> DEFINE n == Len(shift)
    <2>3. n \in Nat /\ n # 0 /\ n <= 1
      BY <1>2, <2>1, <2>2
    <2> HIDE DEF n
    <2>4. n = 1
      BY <2>3
    <2> QED
      BY <2>4 DEF n
  <1>4. txi - rxi >= 1 + Len(rx) /\ txi - rxi <= FifoSize
    BY <1>1, <1>2, <1>3 DEF Underway
  <1>5. rxi # len /\ Len(rx) < FifoSize
    BY <1>2, <1>4
  <1> QED
    BY <1>1, <1>3, <1>5 DEF Control, Types

LEMMA ShiftInStep ==
    ASSUME IInv, ShiftIn
    PROVE  IInv'
  <1> DEFINE answer == <<"in", Len(mosi)>>
  <1>1. shift # <<>> /\ Len(shift) = 1 /\ Len(rx) < FifoSize /\ cs
    BY OnTheWire DEF ShiftIn
  <1>2. /\ rx' = Append(rx, answer) /\ mosi' = mosi \o shift /\ shift' = <<>>
        /\ pc' = pc /\ cs' = cs /\ len' = len /\ txbuf' = txbuf /\ rxbuf' = rxbuf
        /\ txi' = txi /\ rxi' = rxi /\ mem' = mem /\ tx' = tx
        /\ asked' = asked /\ transfers' = transfers /\ Base' = Base
    BY <1>1 DEF ShiftIn, args, Base
  <1>3. Types /\ Underway /\ Outbound /\ Inbound /\ Control
    BY DEF IInv
  <1>4. /\ rx \in Seq(Byte) /\ Len(rx) \in Nat /\ Len(tx) \in Nat
        /\ mosi \in Seq(Byte) /\ shift \in Seq(Byte) /\ Len(mosi) \in Nat
        /\ txi \in Nat /\ rxi \in Nat /\ len \in Nat /\ Len(asked) \in Nat
        /\ len <= Len(asked)
    BY <1>3 DEF Types, Outbound
  <1>5. answer \in Byte
    BY <1>4, Bytes
  <1> HIDE DEF answer
  <1>6. /\ rx' \in Seq(Byte) /\ Len(rx') = Len(rx) + 1 /\ rx'[Len(rx) + 1] = answer
        /\ \A k \in 1 .. Len(rx) : rx'[k] = rx[k]
    BY <1>2, <1>4, <1>5
  <1>7. /\ mosi' \in Seq(Byte) /\ Len(mosi') = Len(mosi) + 1
        /\ mosi'[Len(mosi) + 1] = shift[1]
        /\ \A k \in 1 .. Len(mosi) : mosi'[k] = mosi[k]
    <2>1. mosi' \in Seq(Byte) /\ Len(mosi') = Len(mosi) + 1
      <3>1. mosi \o shift \in Seq(Byte) /\ Len(mosi \o shift) = Len(mosi) + Len(shift)
        BY <1>4, ConcatProperties
      <3> QED
        BY <1>1, <1>2, <3>1
    <2>2. Len(mosi) + 1 \in 1 .. Len(mosi) + 1 /\ Len(mosi) + 1 > Len(mosi)
          /\ (Len(mosi) + 1) - Len(mosi) = 1
      BY <1>4
    <2>3. /\ (mosi \o shift)[Len(mosi) + 1] = shift[1]
          /\ \A k \in 1 .. Len(mosi) : (mosi \o shift)[k] = mosi[k]
      <3>1. \A i \in 1 .. Len(mosi) + Len(shift) : (mosi \o shift)[i] =
               IF i <= Len(mosi) THEN mosi[i] ELSE shift[i - Len(mosi)]
        BY <1>4, ConcatProperties
      <3> QED
        BY <1>1, <1>4, <2>2, <3>1
    <2> QED
      BY <1>2, <2>1, <2>3
  <1>8. shift' \in Seq(Byte) /\ Len(shift') = 0
    BY <1>2, NoBytes
  <1>9. Types'
    BY <1>2, <1>3, <1>6, <1>7, <1>8 DEF Types
  <1>10. Underway'
    BY <1>1, <1>2, <1>3, <1>4, <1>6, <1>8 DEF Underway
  <1>11. Control'
    BY <1>2, <1>3 DEF Control
  <1>12. Outbound'
    <2>1. shift[1] = asked[Len(mosi) + 1]
      BY <1>1, <1>3 DEF Outbound
    <2>2. \A k \in 1 .. Len(mosi') : mosi'[k] = asked[k]
      <3> TAKE k \in 1 .. Len(mosi')
      <3>1. k = Len(mosi) + 1 \/ k \in 1 .. Len(mosi)
        BY <1>4, <1>7
      <3> QED
        BY <1>3, <1>7, <2>1, <3>1 DEF Outbound
    <2>3. \A k \in 1 .. Len(tx) : tx[k] = asked[Len(mosi) + 1 + k]
      BY <1>1, <1>3 DEF Outbound
    <2>4. Len(mosi') = Base + rxi + Len(rx')
      BY <1>3, <1>4, <1>6, <1>7 DEF Outbound, Base
    <2>5. \A k \in 1 .. Len(tx') : tx'[k] = asked'[Len(mosi') + Len(shift') + k]
      BY <1>2, <1>4, <1>7, <1>8, <2>3
    <2>6. \A k \in 1 .. Len(shift') : shift'[k] = asked'[Len(mosi') + k]
      BY <1>8
    <2> QED
      BY <1>2, <1>3, <2>2, <2>4, <2>5, <2>6 DEF Outbound
  <1>13. Inbound'
    <2>1. Len(mosi) = Base + rxi + (Len(rx) + 1) - 1
      BY <1>3, <1>4 DEF Outbound, Base
    <2>2. \A k \in 1 .. Len(rx') : rx'[k] = <<"in", Base + rxi + k - 1>>
      <3> TAKE k \in 1 .. Len(rx')
      <3>1. k = Len(rx) + 1 \/ k \in 1 .. Len(rx)
        BY <1>4, <1>6
      <3> QED
        BY <1>3, <1>6, <2>1, <3>1 DEF Inbound, answer
    <2> QED
      BY <1>2, <1>3, <2>2 DEF Inbound
  <1> QED
    BY <1>9, <1>10, <1>11, <1>12, <1>13 DEF IInv

(* IInv holds in every reachable state.                                     *)
THEOREM Inductive == Spec => []IInv
  <1>1. IInv /\ [Next]_vars => IInv'
    <2> SUFFICES ASSUME IInv, [Next]_vars PROVE IInv'
      OBVIOUS
    <2>1. CASE Select
      BY <2>1, SelectStep
    <2>2. CASE Deselect
      BY <2>2, DeselectStep
    <2>3. ASSUME NEW n \in 0 .. MaxLen, NEW t \in Buffer \cup {NULL},
                 NEW r \in Buffer \cup {NULL}, Transfer(n, t, r)
          PROVE  IInv'
      BY <2>3, TransferStep
    <2>4. CASE Driver
      BY <2>4, FillStep, FillDoneStep, DrainStep, DrainDoneStep DEF Driver
    <2>5. CASE ShiftOut
      BY <2>5, ShiftOutStep
    <2>6. CASE ShiftIn
      BY <2>6, ShiftInStep
    <2>7. CASE UNCHANGED vars
      BY <2>7 DEF vars, IInv, Types, Underway, Outbound, Inbound, Control, Base
    <2> QED
      BY <2>1, <2>2, <2>3, <2>4, <2>5, <2>6, <2>7 DEF Next
  <1> QED
    BY InitIInv, <1>1, PTL DEF Spec

(* Every variable keeps its type and the indices their order, so that the   *)
(* unsigned difference txi - rxi never wraps, and no FIFO holds more than   *)
(* its depth (spi.c:119).                                                   *)
THEOREM TypeCorrect == Spec => []TypeOK
  <1>1. ASSUME IInv
        PROVE  TypeOK
    <2>1. Types /\ Underway
      BY <1>1 DEF IInv
    <2>2. txi \in Nat /\ rxi \in Nat
      BY <2>1 DEF Types
    <2>3. Len(tx) \in Nat /\ Len(rx) \in Nat /\ Len(shift) \in Nat
      BY <2>1 DEF Types
    <2>4. Len(tx) <= FifoSize /\ Len(rx) <= FifoSize
      BY <2>1, <2>2, <2>3 DEF Underway
    <2> QED
      BY <2>1, <2>4 DEF TypeOK
  <1> QED
    BY Inductive, <1>1, PTL

(* The receive FIFO never overflows (spi.c:118-119).                        *)
THEOREM NoOverrun == Spec => []ReceiverHasRoom
  <1>1. IInv => ReceiverHasRoom
    BY OnTheWire DEF ReceiverHasRoom
  <1> QED
    BY Inductive, <1>1, PTL

(* The bus is idle whenever the driver is not in a call (spi.c:97, 117).    *)
THEOREM IdleAfterwards == Spec => []IdleBetweenTransfers
  <1>1. ASSUME IInv, pc = "app"
        PROVE  tx = <<>> /\ shift = <<>> /\ rx = <<>>
    <2>1. Types /\ Underway /\ Control
      BY <1>1 DEF IInv
    <2>2. txi - rxi = 0
      BY <1>1, <2>1 DEF Types, Control
    <2>3. Len(tx) = 0 /\ Len(shift) = 0 /\ Len(rx) = 0
      BY <2>1, <2>2 DEF Types, Underway
    <2> QED
      BY <2>1, <2>3 DEF Types
  <1>2. IInv => IdleBetweenTransfers
    BY <1>1 DEF IdleBetweenTransfers
  <1> QED
    BY Inductive, <1>2, PTL

(* A transfer that has returned has sent its buffer and received the        *)
(* slave's answers, every byte in its place (spi.c:108-136).                *)
THEOREM MovesEveryByte == Spec => []TransferredInFull
  <1>1. ASSUME IInv, pc = "app"
        PROVE  /\ mosi = asked
               /\ rxbuf # NULL => \A i \in 0 .. len - 1 :
                     mem[rxbuf][i] = <<"in", Len(mosi) - len + i>>
    <2>1. Types /\ Underway /\ Outbound /\ Inbound /\ Control
      BY <1>1 DEF IInv
    <2>2. rxi = len /\ txi = len /\ Len(rx) = 0
      BY <1>1, <2>1 DEF Types, Underway, Control
    <2>3. Len(mosi) = Len(asked)
      BY <2>1, <2>2 DEF Types, Outbound, Base
    <2>4. mosi = asked
      <3>1. mosi \in Seq(Byte) /\ asked \in Seq(Byte)
        BY <2>1 DEF Types
      <3>2. \A k \in 1 .. Len(mosi) : mosi[k] = asked[k]
        BY <2>1 DEF Outbound
      <3> QED
        BY <2>3, <3>1, <3>2, SeqEqual
    <2>5. Base = Len(mosi) - len
      BY <2>3 DEF Base
    <2> QED
      BY <2>1, <2>2, <2>4, <2>5 DEF Inbound
  <1>2. IInv => TransferredInFull
    BY <1>1 DEF TransferredInFull
  <1> QED
    BY Inductive, <1>2, PTL
=============================================================================
