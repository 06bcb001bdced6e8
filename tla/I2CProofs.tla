------------------------------- MODULE I2CProofs -------------------------------
(***************************************************************************)
(* The safety of the I2C master for every set of transactions, every       *)
(* message shape, every queue size and number of retries, and every fault; *)
(* and what the bus sees, for every list of messages of any length.        *)
(***************************************************************************)
EXTENDS I2CWire, SequenceTheorems, WellFoundedInduction, FiniteSetTheorems, TLAPS

(* The controller will not interrupt until it is told to START.             *)
Quiet == con \cap {"SI", "STA"} = {} /\ (Owned => "STO" \in con)

(* The main program may touch the master structure only while it is quiet,  *)
(* which it is while there is no active transaction and until the one       *)
(* kicked off is armed.                                                     *)
KickoffFacts ==
    /\ active = NULL \/ pc \in {"reset", "arm"} => Quiet
    /\ pc \in {"dequeue", "store"} => active = NULL
    /\ pc \in {"reset", "arm"} => active # NULL
    /\ pc = "store" => transaction_queue = <<>>
    /\ active = NULL => Len(transaction_queue) <= 1

(* START stays requested during an interrupt only while it is being served. *)
StartFacts == {"SI", "STA"} \subseteq con => stat \in {"0x08", "0x10"}

IndexFacts ==
    active # NULL /\ pc # "reset" =>
        msg_index < Count(active) /\ byte_index <= Msg.len

CallerFacts ==
    /\ Submitting => /\ cur \in Transaction
                     /\ owner[cur] = "driver" /\ ~complete[cur]
                     /\ cur # Current
                     /\ \A i \in DOMAIN transaction_queue : transaction_queue[i] # cur
    /\ pc \in {"wait", "wait_wfi", "wait_asleep"} =>
          cur \in Transaction /\ owner[cur] = "driver"

(* The driver holds each unfinished transaction in exactly one place.       *)
HoldFacts ==
    /\ Current # NULL => owner[Current] = "driver" /\ ~complete[Current]
    /\ \A i \in DOMAIN transaction_queue :
          /\ owner[transaction_queue[i]] = "driver"
          /\ ~complete[transaction_queue[i]]
          /\ transaction_queue[i] # Current
    /\ \A i, j \in DOMAIN transaction_queue :
          transaction_queue[i] = transaction_queue[j] => i = j
    /\ \A t \in Unfinished :
          t = Current \/ \E i \in DOMAIN transaction_queue : transaction_queue[i] = t

(* Each transaction has its buffers.                                        *)
BufFacts == buf = [t \in Transaction |-> buf[t]]

IInv ==
    /\ TypeOK
    /\ BufFacts
    /\ KickoffFacts
    /\ NoStrandedTransaction
    /\ StartFacts
    /\ IndexFacts
    /\ CallerFacts
    /\ HoldFacts
----------------------------------------------------------------------------
LEMMA MsgsFacts ==
    ASSUME NEW t \in Transaction
    PROVE  /\ Count(t) \in Nat \ {0}
           /\ \A i \in 1 .. Count(t) : Msgs[t][i].len \in Nat
  <1>1. Msgs[t] \in Seq(Message) /\ Msgs[t] # <<>>
    BY MsgsAssumption
  <1>2. Count(t) \in Nat \ {0}
    BY <1>1, EmptySeq DEF Count
  <1>3. \A i \in 1 .. Count(t) : Msgs[t][i] \in Message
    BY <1>1 DEF Count
  <1> QED
    BY <1>2, <1>3 DEF Message

LEMMA InitIInv == Init => IInv
  <1> SUFFICES ASSUME Init PROVE IInv
    OBVIOUS
  <1> USE DEF Init
  <1>1. TypeOK
    BY QueueSizeAssumption, NumRetriesAssumption
    DEF TypeOK, Locations, Error, Flag, Status
  <1>2. KickoffFacts /\ StartFacts
    BY DEF KickoffFacts, StartFacts, Quiet, Owned
  <1>3. NoStrandedTransaction /\ IndexFacts
    BY DEF NoStrandedTransaction, IndexFacts
  <1>4. CallerFacts
    BY DEF CallerFacts, Submitting
  <1>5. HoldFacts
    BY DEF HoldFacts, Current, Unfinished, Pending, Submitting
  <1>6. BufFacts
    BY DEF BufFacts
  <1> QED
    BY <1>1, <1>2, <1>3, <1>4, <1>5, <1>6 DEF IInv
----------------------------------------------------------------------------
(* What an interrupt does, whatever the status code: it goes on with the    *)
(* active transaction, or finishes it and takes the next.                   *)

Continues ==
    /\ UNCHANGED <<active, transaction_queue, complete, error, attempts>>
    /\ con' \in SUBSET Flag /\ "SI" \notin con'
    /\ retries' \in 0 .. NumRetries
    /\ msg_index' \in Nat /\ byte_index' \in Nat
    /\ msg_index' < Count(active) /\ byte_index' <= Msg'.len

(* A transaction is finished with the STOP requested, unless the bus is not *)
(* ours any more.                                                           *)
Finishes ==
    \E e \in Error, set \in SUBSET {"STO", "AA"}, n \in Nat :
        /\ Finish(e, set, n)
        /\ "STA" \notin con
        /\ stat = "0x38" \/ "STO" \in set

HandlerFrame ==
    /\ "SI" \in con /\ active # NULL /\ pc' = Awake
    /\ UNCHANGED <<cur, obj, owner, wire, stat>>

LEMMA MessageOutcome ==
    ASSUME IInv, HandlerFrame, "STA" \notin con, NEW n \in Nat, FinishMessage(n)
    PROVE  Continues \/ Finishes
  <1>1. CASE msg_index + 1 < Count(active)
    <2>1. /\ active \in Transaction /\ active' = active /\ msg_index \in Nat
          /\ con' = (con \cup {"STA", "AA"}) \ {"SI"}
          /\ msg_index' = msg_index + 1 /\ byte_index' = 0
          /\ con \in SUBSET Flag /\ retries' \in 0 .. NumRetries
          /\ UNCHANGED <<active, transaction_queue, complete, error, attempts>>
      BY <1>1 DEF FinishMessage, SetFlags, IInv, TypeOK, HandlerFrame
    <2>2. Msgs[active][msg_index + 1 + 1].len \in Nat
      BY <1>1, <2>1, MsgsFacts
    <2>3. Msg'.len \in Nat
      BY <2>1, <2>2 DEF Msg
    <2>4. con' \in SUBSET Flag /\ "SI" \notin con'
      BY <2>1 DEF Flag
    <2> QED
      BY <1>1, <2>1, <2>3, <2>4 DEF Continues
  <1>2. CASE ~(msg_index + 1 < Count(active))
    <2>1. Finish("ok", {"STO", "AA"}, n)
      BY <1>2 DEF FinishMessage
    <2> QED
      BY <2>1 DEF Finishes, Error
  <1> QED
    BY <1>1, <1>2

LEMMA HandlerOutcome ==
    ASSUME IInv, Handler
    PROVE  HandlerFrame /\ (Continues \/ Finishes)
  <1>0. /\ TypeOK /\ StartFacts /\ IndexFacts /\ KickoffFacts
    BY DEF IInv
  <1>1. HandlerFrame
    BY DEF Handler, HandlerFrame, Irq, SendAddress, SendByte, MessageSent,
           NackRetry, NackFail, ArbitrationLost, ReceiveByte, MessageReceived,
           UnknownStatus
  <1>2. /\ active \in Transaction
        /\ msg_index \in Nat /\ msg_index < Count(active)
        /\ byte_index \in Nat /\ byte_index <= Msg.len
        /\ con \in SUBSET Flag
        /\ retries \in 0 .. NumRetries
    BY <1>0, <1>1 DEF TypeOK, HandlerFrame, IndexFacts, KickoffFacts, Quiet
  <1>3. Count(active) \in Nat /\ Msg.len \in Nat
    BY <1>2, MsgsFacts DEF Msg
  <1>4. stat \notin {"0x08", "0x10"} => "STA" \notin con
    BY <1>0, <1>1 DEF StartFacts, HandlerFrame
  <1>5. BytesIn \in Nat /\ BytesIn <= Msg.len
    BY <1>2, <1>3 DEF BytesIn, StoresByte
  <1>6. UNCHANGED <<active, msg_index>> => Msg' = Msg /\ Msg'.len = Msg.len
    BY DEF Msg
  <1>7. CASE SendAddress
    BY <1>1, <1>2, <1>6, <1>7 DEF SendAddress, Continues, Flag, master
  <1>8. CASE SendByte
    BY <1>1, <1>2, <1>3, <1>6, <1>8 DEF SendByte, SetFlags, Continues, Flag
  <1>9. CASE MessageSent
    BY <1>1, <1>2, <1>4, <1>9, MessageOutcome DEF MessageSent, Irq
  <1>10. CASE NackRetry
    <2>1. retries' \in 0 .. NumRetries
      BY <1>1, <1>2, <1>10, NumRetriesAssumption DEF NackRetry, MayRetry
    <2> QED
      BY <1>1, <1>2, <1>6, <1>10, <2>1 DEF NackRetry, SetFlags, Continues, Flag
  <1>11. CASE NackFail
    <2>1. "STA" \notin con
      BY <1>4, <1>11 DEF NackFail, Irq
    <2> QED
      BY <1>1, <1>2, <1>11, <2>1 DEF NackFail, Finishes, Error
  <1>12. CASE ArbitrationLost
    <2>1. "STA" \notin con /\ stat = "0x38"
      BY <1>4, <1>12 DEF ArbitrationLost, Irq
    <2> QED
      BY <1>1, <1>2, <1>12, <2>1 DEF ArbitrationLost, Finishes, Error
  <1>13. CASE ReceiveByte
    BY <1>1, <1>2, <1>5, <1>6, <1>13
    DEF ReceiveByte, SetFlags, ClearFlag, Continues, Flag
  <1>14. CASE MessageReceived
    BY <1>1, <1>4, <1>5, <1>14, MessageOutcome DEF MessageReceived, Irq
  <1>15. CASE UnknownStatus
    <2>1. "STA" \notin con
      BY <1>4, <1>15 DEF UnknownStatus, Irq
    <2> QED
      BY <1>1, <1>2, <1>15, <2>1 DEF UnknownStatus, Finishes, Error
  <1> QED
    BY <1>1, <1>7, <1>8, <1>9, <1>10, <1>11, <1>12, <1>13, <1>14, <1>15 DEF Handler

(* What the controller does: it interrupts, which it never does while it is *)
(* quiet, or it sends a STOP and is quiet.                                  *)
BusOutcome ==
    /\ UNCHANGED <<app, transactions, master>>
    /\ con' \in SUBSET Flag /\ stat' \in Status
    /\ "SI" \notin con
    /\ \/ ~Quiet /\ "SI" \in con' /\ ("STA" \in con' => stat' \in {"0x08", "0x10"})
       \/ (Quiet => Quiet') /\ "SI" \notin con'

LEMMA BusSteps ==
    ASSUME TypeOK, Bus
    PROVE  BusOutcome
  <1> USE DEF Flag, Status, Free, TypeOK
  <1>1. CASE BusStop
    BY <1>1 DEF BusStop, BusOutcome, Quiet, Owned
  <1>2. CASE BusStart
    BY <1>2 DEF BusStart, Report, BusOutcome, Quiet
  <1>3. CASE BusRepeatedStart
    BY <1>3 DEF BusRepeatedStart, Report, BusOutcome, Quiet
  <1>4. CASE BusReceive
    BY <1>4 DEF BusReceive, Report, BusOutcome, Quiet, Owned
  <1>5. ASSUME NEW ack \in BOOLEAN, BusAddress(ack) PROVE BusOutcome
    BY <1>5 DEF BusAddress, Report, BusOutcome, Quiet, Owned
  <1>6. ASSUME NEW ack \in BOOLEAN, BusTransmit(ack) PROVE BusOutcome
    BY <1>6 DEF BusTransmit, Report, BusOutcome, Quiet, Owned
  <1>7. ASSUME NEW code \in Faults, BusFault(code) PROVE BusOutcome
    BY <1>7, FaultsAssumption DEF BusFault, BusOutcome, Quiet, Owned
  <1> QED
    BY <1>1, <1>2, <1>3, <1>4, <1>5, <1>6, <1>7 DEF Bus
----------------------------------------------------------------------------
(* A sequence, its head and its tail, and its elements.                     *)
LEMMA QueueTail ==
    ASSUME NEW S, NEW q \in Seq(S), q # <<>>
    PROVE  /\ Head(q) \in S /\ Tail(q) \in Seq(S) /\ Len(Tail(q)) = Len(q) - 1
           /\ Head(q) = q[1] /\ 1 \in DOMAIN q
           /\ \A i \in DOMAIN Tail(q) : Tail(q)[i] = q[i + 1] /\ i + 1 \in DOMAIN q
           /\ \A i \in DOMAIN q : i = 1 \/ (i - 1 \in DOMAIN Tail(q) /\ Tail(q)[i - 1] = q[i])
  BY HeadTailProperties, LenProperties

LEMMA QueueAppend ==
    ASSUME NEW S, NEW q \in Seq(S), NEW t \in S
    PROVE  /\ Append(q, t) \in Seq(S) /\ Len(Append(q, t)) = Len(q) + 1
           /\ Append(q, t) # <<>>
           /\ \A i \in DOMAIN q : i \in DOMAIN Append(q, t) /\ Append(q, t)[i] = q[i]
           /\ Append(q, t)[Len(q) + 1] = t /\ Len(q) + 1 \in DOMAIN Append(q, t)
           /\ \A i \in DOMAIN Append(q, t) : i \in DOMAIN q \/ i = Len(q) + 1
  BY AppendProperties, LenProperties

LEMMA QueueHead ==
    ASSUME TypeOK, transaction_queue # <<>>
    PROVE  /\ Head(transaction_queue) \in Transaction
           /\ Head(transaction_queue) # NULL
           /\ Tail(transaction_queue) \in Seq(Transaction)
           /\ Len(Tail(transaction_queue)) = Len(transaction_queue) - 1
           /\ Len(transaction_queue) \in Nat
  <1>1. transaction_queue \in Seq(Transaction)
    BY DEF TypeOK
  <1>2. /\ Head(transaction_queue) \in Transaction
        /\ Tail(transaction_queue) \in Seq(Transaction)
        /\ Len(Tail(transaction_queue)) = Len(transaction_queue) - 1
    BY <1>1, QueueTail
  <1> QED
    BY <1>1, <1>2, NullAssumption, LenProperties

LEMMA NextTypeOK ==
    ASSUME IInv, [Next]_vars
    PROVE  TypeOK'
  <1> USE DEF TypeOK, Locations, Error, Flag, app, transactions, master, controller, bus
  <1>0. TypeOK /\ CallerFacts
    BY DEF IInv
  <1>1. ASSUME NEW t \in Transaction, Start(t) PROVE TypeOK'
    BY <1>0, <1>1 DEF Start
  <1>2. ASSUME NEW t \in Transaction, StatusTransaction(t) PROVE TypeOK'
    BY <1>0, <1>2 DEF StatusTransaction, Release
  <1>3. ASSUME NEW t \in Transaction, WaitTransaction(t) PROVE TypeOK'
    BY <1>0, <1>3 DEF WaitTransaction
  <1>4. ASSUME Enqueue PROVE TypeOK'
    BY <1>0, <1>4, QueueSizeAssumption, QueueAppend DEF Enqueue, CallerFacts, Submitting
  <1>5. ASSUME Check PROVE TypeOK'
    BY <1>0, <1>5 DEF Check, Return
  <1>6. ASSUME KickoffDequeue PROVE TypeOK'
    <2>1. /\ transaction_queue' \in Seq(Transaction)
          /\ Len(transaction_queue') <= QueueSize
          /\ obj' \in Transaction \cup {NULL}
      <3>1. CASE transaction_queue = <<>>
        BY <1>0, <1>6, <3>1 DEF KickoffDequeue
      <3>2. CASE transaction_queue # <<>>
        <4>1. Len(Tail(transaction_queue)) <= QueueSize
          BY <1>0, <3>2, QueueHead, QueueSizeAssumption
        <4> QED
          BY <1>0, <1>6, <3>2, <4>1, QueueHead DEF KickoffDequeue
      <3> QED
        BY <3>1, <3>2
    <2> QED
      BY <1>0, <1>6, <2>1 DEF KickoffDequeue
  <1>7. ASSUME KickoffStore PROVE TypeOK'
    BY <1>0, <1>7 DEF KickoffStore, Return
  <1>8. ASSUME KickoffReset PROVE TypeOK'
    BY <1>0, <1>8, NumRetriesAssumption DEF KickoffReset
  <1>9. ASSUME KickoffArm PROVE TypeOK'
    BY <1>0, <1>9 DEF KickoffArm, Return
  <1>10. ASSUME Wait PROVE TypeOK'
    BY <1>0, <1>10 DEF Wait, Return, Release
  <1>11. ASSUME WaitForInterrupt PROVE TypeOK'
    BY <1>0, <1>11 DEF WaitForInterrupt
  <1>12. ASSUME SysTick PROVE TypeOK'
    BY <1>0, <1>12 DEF SysTick, Awake
  <1>13. ASSUME HandlerFrame, Continues PROVE TypeOK'
    BY <1>0, <1>13 DEF HandlerFrame, Continues, Awake
  <1>14. ASSUME HandlerFrame, Finishes PROVE TypeOK'
    <2>1. PICK e \in Error, set \in SUBSET {"STO", "AA"}, n \in Nat : Finish(e, set, n)
      BY <1>14 DEF Finishes
    <2>2. con' \in SUBSET Flag
      BY <1>0, <2>1 DEF Finish, DequeueNext, SetFlags
    <2>3. /\ active' \in Transaction \cup {NULL}
          /\ transaction_queue' \in Seq(Transaction)
          /\ Len(transaction_queue') <= QueueSize
          /\ retries' \in 0 .. NumRetries /\ msg_index' \in Nat /\ byte_index' \in Nat
      <3>1. CASE transaction_queue = <<>>
        BY <1>0, <2>1, <3>1 DEF Finish, DequeueNext
      <3>2. CASE transaction_queue # <<>>
        <4>1. Len(Tail(transaction_queue)) <= QueueSize
          BY <1>0, <3>2, QueueHead, QueueSizeAssumption
        <4>2. /\ active' = Head(transaction_queue)
              /\ transaction_queue' = Tail(transaction_queue)
              /\ retries' = NumRetries /\ msg_index' = 0 /\ byte_index' = 0
          BY <2>1, <3>2 DEF Finish, DequeueNext
        <4> QED
          BY <1>0, <3>2, <4>1, <4>2, QueueHead, NumRetriesAssumption
      <3> QED
        BY <3>1, <3>2
    <2>4. complete' \in [Transaction -> BOOLEAN] /\ error' \in [Transaction -> Error]
      BY <1>0, <2>1 DEF Finish
    <2> QED
      BY <1>0, <1>14, <2>2, <2>3, <2>4 DEF HandlerFrame, Awake
  <1>15. ASSUME BusOutcome PROVE TypeOK'
    BY <1>0, <1>15 DEF BusOutcome
  <1>16. ASSUME UNCHANGED vars PROVE TypeOK'
    BY <1>0, <1>16 DEF vars
  <1> QED
    BY <1>1, <1>2, <1>3, <1>4, <1>5, <1>6, <1>7, <1>8, <1>9, <1>10, <1>11, <1>12,
       <1>13, <1>14, <1>15, <1>16, HandlerOutcome, BusSteps DEF IInv, Next, Running

LEMMA NextKickoff ==
    ASSUME IInv, [Next]_vars
    PROVE  KickoffFacts'
  <1> USE DEF KickoffFacts, Quiet, Owned, app, transactions, master, controller, bus
  <1>0. /\ TypeOK /\ KickoffFacts /\ NoStrandedTransaction /\ StartFacts
    BY DEF IInv
  <1>1. ASSUME NEW t \in Transaction, Start(t) PROVE KickoffFacts'
    BY <1>0, <1>1 DEF Start
  <1>2. ASSUME NEW t \in Transaction, StatusTransaction(t) PROVE KickoffFacts'
    BY <1>0, <1>2 DEF StatusTransaction, Release
  <1>3. ASSUME NEW t \in Transaction, WaitTransaction(t) PROVE KickoffFacts'
    BY <1>0, <1>3 DEF WaitTransaction
  <1>4. ASSUME Enqueue PROVE KickoffFacts'
    <2>1. CASE active # NULL
      BY <1>0, <1>4, <2>1 DEF Enqueue
    <2>2. CASE active = NULL
      <3>1. transaction_queue = <<>>
        BY <1>0, <1>4, <2>2 DEF Enqueue, NoStrandedTransaction
      <3>2. Len(Append(transaction_queue, cur)) = 1
        BY <3>1
      <3>3. Len(transaction_queue) = 0
        BY <3>1
      <3>4. Len(transaction_queue') <= 1
        <4>1. \/ transaction_queue' = Append(transaction_queue, cur)
              \/ transaction_queue' = transaction_queue
          BY <1>4 DEF Enqueue
        <4>2. CASE transaction_queue' = Append(transaction_queue, cur)
          BY <3>2, <4>2
        <4>3. CASE transaction_queue' = transaction_queue
          BY <3>3, <4>3
        <4> QED
          BY <4>1, <4>2, <4>3
      <3> QED
        BY <1>0, <1>4, <2>2, <3>4 DEF Enqueue
    <2> QED
      BY <2>1, <2>2
  <1>5. ASSUME Check PROVE KickoffFacts'
    BY <1>0, <1>5 DEF Check, Return
  <1>6. ASSUME KickoffDequeue PROVE KickoffFacts'
    <2>1. transaction_queue' = <<>>
      <3>1. CASE transaction_queue = <<>>
        BY <1>6, <3>1 DEF KickoffDequeue
      <3>2. CASE transaction_queue # <<>>
        <4>1. /\ transaction_queue' = Tail(transaction_queue)
              /\ Tail(transaction_queue) \in Seq(Transaction)
              /\ Len(Tail(transaction_queue)) <= 0
          BY <1>0, <1>6, <3>2, QueueHead DEF KickoffDequeue
        <4> QED
          BY <4>1, EmptySeq, LenProperties
      <3> QED
        BY <3>1, <3>2
    <2> QED
      BY <1>0, <1>6, <2>1 DEF KickoffDequeue
  <1>7. ASSUME KickoffStore PROVE KickoffFacts'
    BY <1>0, <1>7 DEF KickoffStore, Return
  <1>8. ASSUME KickoffReset PROVE KickoffFacts'
    BY <1>0, <1>8 DEF KickoffReset
  <1>9. ASSUME KickoffArm PROVE KickoffFacts'
    BY <1>0, <1>9 DEF KickoffArm, Return
  <1>10. ASSUME Wait PROVE KickoffFacts'
    BY <1>0, <1>10 DEF Wait, Return, Release
  <1>11. ASSUME WaitForInterrupt PROVE KickoffFacts'
    BY <1>0, <1>11 DEF WaitForInterrupt
  <1>12. ASSUME SysTick PROVE KickoffFacts'
    BY <1>0, <1>12 DEF SysTick, Awake
  <1>13. ASSUME HandlerFrame, Continues PROVE KickoffFacts'
    BY <1>0, <1>13 DEF HandlerFrame, Continues, Awake
  <1>14. ASSUME HandlerFrame, Finishes PROVE KickoffFacts'
    <2>1. PICK e \in Error, set \in SUBSET {"STO", "AA"}, n \in Nat :
            Finish(e, set, n) /\ "STA" \notin con /\ (stat = "0x38" \/ "STO" \in set)
      BY <1>14 DEF Finishes
    <2>2. pc' \notin {"dequeue", "store", "reset", "arm"}
      BY <1>0, <1>14 DEF HandlerFrame, Awake
    <2>3. CASE transaction_queue = <<>>
      BY <1>0, <1>14, <2>1, <2>2, <2>3
      DEF HandlerFrame, Finish, DequeueNext, SetFlags
    <2>4. CASE transaction_queue # <<>>
      <3>1. active' # NULL
        BY <1>0, <2>1, <2>4, QueueHead DEF Finish, DequeueNext
      <3> QED
        BY <2>2, <3>1
    <2> QED
      BY <2>3, <2>4
  <1>15. ASSUME BusOutcome PROVE KickoffFacts'
    BY <1>0, <1>15 DEF BusOutcome
  <1>16. ASSUME UNCHANGED vars PROVE KickoffFacts'
    BY <1>0, <1>16 DEF vars
  <1> QED
    BY <1>1, <1>2, <1>3, <1>4, <1>5, <1>6, <1>7, <1>8, <1>9, <1>10, <1>11, <1>12,
       <1>13, <1>14, <1>15, <1>16, HandlerOutcome, BusSteps DEF IInv, Next, Running

LEMMA NextStranded ==
    ASSUME IInv, [Next]_vars
    PROVE  NoStrandedTransaction'
  <1> USE DEF NoStrandedTransaction, KickoffFacts, app, transactions, master, controller, bus
  <1>0. /\ TypeOK /\ KickoffFacts /\ NoStrandedTransaction
    BY DEF IInv
  <1>1. ASSUME NEW t \in Transaction, Start(t) PROVE NoStrandedTransaction'
    BY <1>0, <1>1 DEF Start
  <1>2. ASSUME NEW t \in Transaction, StatusTransaction(t) PROVE NoStrandedTransaction'
    BY <1>0, <1>2 DEF StatusTransaction, Release
  <1>3. ASSUME NEW t \in Transaction, WaitTransaction(t) PROVE NoStrandedTransaction'
    BY <1>0, <1>3 DEF WaitTransaction
  <1>4. ASSUME Enqueue PROVE NoStrandedTransaction'
    BY <1>0, <1>4 DEF Enqueue
  <1>5. ASSUME Check PROVE NoStrandedTransaction'
    BY <1>0, <1>5 DEF Check, Return
  <1>6. ASSUME KickoffDequeue PROVE NoStrandedTransaction'
    <2>1. CASE transaction_queue = <<>>
      BY <1>6, <2>1 DEF KickoffDequeue
    <2>2. CASE transaction_queue # <<>>
      <3>1. /\ transaction_queue' = Tail(transaction_queue)
            /\ Tail(transaction_queue) \in Seq(Transaction)
            /\ Len(Tail(transaction_queue)) <= 0
        BY <1>0, <1>6, <2>2, QueueHead DEF KickoffDequeue
      <3> QED
        BY <3>1, EmptySeq, LenProperties
    <2> QED
      BY <2>1, <2>2
  <1>7. ASSUME KickoffStore PROVE NoStrandedTransaction'
    BY <1>0, <1>7 DEF KickoffStore, Return
  <1>8. ASSUME KickoffReset PROVE NoStrandedTransaction'
    BY <1>0, <1>8 DEF KickoffReset
  <1>9. ASSUME KickoffArm PROVE NoStrandedTransaction'
    BY <1>0, <1>9 DEF KickoffArm, Return
  <1>10. ASSUME Wait PROVE NoStrandedTransaction'
    BY <1>0, <1>10 DEF Wait, Return, Release
  <1>11. ASSUME WaitForInterrupt PROVE NoStrandedTransaction'
    BY <1>0, <1>11 DEF WaitForInterrupt
  <1>12. ASSUME SysTick PROVE NoStrandedTransaction'
    BY <1>0, <1>12 DEF SysTick, Awake
  <1>13. ASSUME HandlerFrame, Continues PROVE NoStrandedTransaction'
    BY <1>0, <1>13 DEF HandlerFrame, Continues, Awake
  <1>14. ASSUME HandlerFrame, Finishes PROVE NoStrandedTransaction'
    <2>1. PICK e \in Error, set \in SUBSET {"STO", "AA"}, n \in Nat : Finish(e, set, n)
      BY <1>14 DEF Finishes
    <2> QED
      BY <1>0, <2>1, QueueHead DEF Finish, DequeueNext
  <1>15. ASSUME BusOutcome PROVE NoStrandedTransaction'
    BY <1>0, <1>15 DEF BusOutcome
  <1>16. ASSUME UNCHANGED vars PROVE NoStrandedTransaction'
    BY <1>0, <1>16 DEF vars
  <1> QED
    BY <1>1, <1>2, <1>3, <1>4, <1>5, <1>6, <1>7, <1>8, <1>9, <1>10, <1>11, <1>12,
       <1>13, <1>14, <1>15, <1>16, HandlerOutcome, BusSteps DEF IInv, Next, Running

LEMMA NextStart ==
    ASSUME IInv, [Next]_vars
    PROVE  StartFacts'
  <1> USE DEF StartFacts, app, transactions, master, controller, bus
  <1>0. /\ TypeOK /\ KickoffFacts /\ StartFacts
    BY DEF IInv
  <1>1. ASSUME NEW t \in Transaction, Start(t) PROVE StartFacts'
    BY <1>0, <1>1 DEF Start
  <1>2. ASSUME NEW t \in Transaction, StatusTransaction(t) PROVE StartFacts'
    BY <1>0, <1>2 DEF StatusTransaction, Release
  <1>3. ASSUME NEW t \in Transaction, WaitTransaction(t) PROVE StartFacts'
    BY <1>0, <1>3 DEF WaitTransaction
  <1>4. ASSUME Enqueue PROVE StartFacts'
    BY <1>0, <1>4 DEF Enqueue
  <1>5. ASSUME Check PROVE StartFacts'
    BY <1>0, <1>5 DEF Check, Return
  <1>6. ASSUME KickoffDequeue PROVE StartFacts'
    BY <1>0, <1>6 DEF KickoffDequeue
  <1>7. ASSUME KickoffStore PROVE StartFacts'
    BY <1>0, <1>7 DEF KickoffStore, Return
  <1>8. ASSUME KickoffReset PROVE StartFacts'
    BY <1>0, <1>8 DEF KickoffReset
  <1>9. ASSUME KickoffArm PROVE StartFacts'
    BY <1>0, <1>9 DEF KickoffArm, KickoffFacts, Quiet
  <1>10. ASSUME Wait PROVE StartFacts'
    BY <1>0, <1>10 DEF Wait, Return, Release
  <1>11. ASSUME WaitForInterrupt PROVE StartFacts'
    BY <1>0, <1>11 DEF WaitForInterrupt
  <1>12. ASSUME SysTick PROVE StartFacts'
    BY <1>0, <1>12 DEF SysTick, Awake
  <1>13. ASSUME HandlerFrame, Continues PROVE StartFacts'
    BY <1>0, <1>13 DEF HandlerFrame, Continues, Awake
  <1>14. ASSUME HandlerFrame, Finishes PROVE StartFacts'
    BY <1>0, <1>14 DEF HandlerFrame, Finishes, Finish, DequeueNext, SetFlags, Awake
  <1>15. ASSUME BusOutcome PROVE StartFacts'
    BY <1>0, <1>15 DEF BusOutcome
  <1>16. ASSUME UNCHANGED vars PROVE StartFacts'
    BY <1>0, <1>16 DEF vars
  <1> QED
    BY <1>1, <1>2, <1>3, <1>4, <1>5, <1>6, <1>7, <1>8, <1>9, <1>10, <1>11, <1>12,
       <1>13, <1>14, <1>15, <1>16, HandlerOutcome, BusSteps DEF IInv, Next, Running

(* A transaction has a first message, and no byte of it is done yet.        *)
LEMMA FirstMessage ==
    ASSUME NEW t \in Transaction
    PROVE  0 < Count(t) /\ 0 <= Msgs[t][0 + 1].len
  <1>1. Count(t) \in Nat \ {0} /\ 1 \in 1 .. Count(t)
    BY MsgsFacts
  <1>2. Msgs[t][1].len \in Nat
    BY <1>1, MsgsFacts
  <1> QED
    BY <1>1, <1>2

LEMMA NextIndex ==
    ASSUME IInv, [Next]_vars
    PROVE  IndexFacts'
  <1> USE DEF IndexFacts, Msg, app, transactions, master, controller, bus
  <1>0. /\ TypeOK /\ KickoffFacts /\ IndexFacts
    BY DEF IInv
  <1>1. ASSUME NEW t \in Transaction, Start(t) PROVE IndexFacts'
    BY <1>0, <1>1 DEF Start
  <1>2. ASSUME NEW t \in Transaction, StatusTransaction(t) PROVE IndexFacts'
    BY <1>0, <1>2 DEF StatusTransaction, Release
  <1>3. ASSUME NEW t \in Transaction, WaitTransaction(t) PROVE IndexFacts'
    BY <1>0, <1>3 DEF WaitTransaction
  <1>4. ASSUME Enqueue PROVE IndexFacts'
    BY <1>0, <1>4 DEF Enqueue
  <1>5. ASSUME Check PROVE IndexFacts'
    BY <1>0, <1>5 DEF Check, Return
  <1>6. ASSUME KickoffDequeue PROVE IndexFacts'
    BY <1>0, <1>6 DEF KickoffDequeue
  <1>7. ASSUME KickoffStore PROVE IndexFacts'
    BY <1>0, <1>7 DEF KickoffStore, Return
  <1>8. ASSUME KickoffReset PROVE IndexFacts'
    <2>1. active' \in Transaction /\ msg_index' = 0 /\ byte_index' = 0
      BY <1>0, <1>8 DEF KickoffReset, KickoffFacts, TypeOK
    <2> QED
      BY <2>1, FirstMessage
  <1>9. ASSUME KickoffArm PROVE IndexFacts'
    BY <1>0, <1>9 DEF KickoffArm, Return
  <1>10. ASSUME Wait PROVE IndexFacts'
    BY <1>0, <1>10 DEF Wait, Return, Release
  <1>11. ASSUME WaitForInterrupt PROVE IndexFacts'
    BY <1>0, <1>11 DEF WaitForInterrupt
  <1>12. ASSUME SysTick PROVE IndexFacts'
    BY <1>0, <1>12 DEF SysTick, Awake
  <1>13. ASSUME HandlerFrame, Continues PROVE IndexFacts'
    BY <1>0, <1>13 DEF HandlerFrame, Continues, Awake
  <1>14. ASSUME HandlerFrame, Finishes PROVE IndexFacts'
    <2>1. PICK e \in Error, set \in SUBSET {"STO", "AA"}, n \in Nat : Finish(e, set, n)
      BY <1>14 DEF Finishes
    <2>2. CASE transaction_queue = <<>>
      BY <2>1, <2>2 DEF Finish, DequeueNext
    <2>3. CASE transaction_queue # <<>>
      <3>1. active' \in Transaction /\ msg_index' = 0 /\ byte_index' = 0
        BY <1>0, <2>1, <2>3, QueueHead DEF Finish, DequeueNext
      <3> QED
        BY <3>1, FirstMessage
    <2> QED
      BY <2>2, <2>3
  <1>15. ASSUME BusOutcome PROVE IndexFacts'
    BY <1>0, <1>15 DEF BusOutcome
  <1>16. ASSUME UNCHANGED vars PROVE IndexFacts'
    BY <1>0, <1>16 DEF vars
  <1> QED
    BY <1>1, <1>2, <1>3, <1>4, <1>5, <1>6, <1>7, <1>8, <1>9, <1>10, <1>11, <1>12,
       <1>13, <1>14, <1>15, <1>16, HandlerOutcome, BusSteps DEF IInv, Next, Running
----------------------------------------------------------------------------
LEMMA NextCaller ==
    ASSUME IInv, [Next]_vars
    PROVE  CallerFacts'
  <1> USE DEF TypeOK, KickoffFacts, CallerFacts, HoldFacts, Current, Submitting, app, transactions, master, controller, bus
  <1>0. TypeOK /\ KickoffFacts /\ CallerFacts /\ HoldFacts
    BY DEF IInv
  <1>1. ASSUME NEW t \in Transaction, Start(t) PROVE CallerFacts'
    BY <1>0, <1>1, NullAssumption DEF Start
  <1>2. ASSUME NEW t \in Transaction, StatusTransaction(t) PROVE CallerFacts'
    BY <1>0, <1>2 DEF StatusTransaction, Release
  <1>3. ASSUME NEW t \in Transaction, WaitTransaction(t) PROVE CallerFacts'
    BY <1>0, <1>3 DEF WaitTransaction
  <1>4. ASSUME Enqueue PROVE CallerFacts'
    BY <1>0, <1>4 DEF Enqueue
  <1>5. ASSUME Check PROVE CallerFacts'
    BY <1>0, <1>5 DEF Check, Return
  <1>6. ASSUME KickoffDequeue PROVE CallerFacts'
    BY <1>0, <1>6 DEF KickoffDequeue
  <1>7. ASSUME KickoffStore PROVE CallerFacts'
    BY <1>0, <1>7 DEF KickoffStore, Return
  <1>8. ASSUME KickoffReset PROVE CallerFacts'
    BY <1>0, <1>8 DEF KickoffReset
  <1>9. ASSUME KickoffArm PROVE CallerFacts'
    BY <1>0, <1>9 DEF KickoffArm, Return
  <1>10. ASSUME Wait PROVE CallerFacts'
    BY <1>0, <1>10 DEF Wait, Return, Release
  <1>11. ASSUME WaitForInterrupt PROVE CallerFacts'
    BY <1>0, <1>11 DEF WaitForInterrupt
  <1>12. ASSUME SysTick PROVE CallerFacts'
    BY <1>0, <1>12 DEF SysTick, Awake
  <1>13. ASSUME HandlerFrame, Continues PROVE CallerFacts'
    BY <1>0, <1>13 DEF HandlerFrame, Continues, Awake
  <1>14. ASSUME HandlerFrame, Finishes PROVE CallerFacts'
    <2>1. PICK e \in Error, set \in SUBSET {"STO", "AA"}, n \in Nat : Finish(e, set, n)
      BY <1>14 DEF Finishes
    <2>2. /\ owner' = owner /\ cur' = cur /\ active # NULL /\ Current = active
          /\ pc' = Awake /\ pc' # "store"
          /\ \A t \in Transaction : t # active => complete'[t] = complete[t]
      BY <1>0, <1>14, <2>1 DEF HandlerFrame, Finish, Awake
    <2>3. CASE transaction_queue = <<>>
      BY <1>0, <2>1, <2>2, <2>3, NullAssumption DEF Finish, DequeueNext, Awake
    <2>4. CASE transaction_queue # <<>>
      <3>1. /\ active' = transaction_queue[1] /\ 1 \in DOMAIN transaction_queue
            /\ \A i \in DOMAIN transaction_queue' :
                  /\ i + 1 \in DOMAIN transaction_queue
                  /\ transaction_queue'[i] = transaction_queue[i + 1]
        BY <1>0, <2>1, <2>4, QueueTail DEF Finish, DequeueNext
      <3> QED
        BY <1>0, <2>2, <3>1 DEF Awake
    <2> QED
      BY <2>3, <2>4
  <1>15. ASSUME BusOutcome PROVE CallerFacts'
    BY <1>0, <1>15 DEF BusOutcome
  <1>16. ASSUME UNCHANGED vars PROVE CallerFacts'
    BY <1>0, <1>16 DEF vars
  <1> QED
    BY <1>1, <1>2, <1>3, <1>4, <1>5, <1>6, <1>7, <1>8, <1>9, <1>10, <1>11, <1>12,
       <1>13, <1>14, <1>15, <1>16, HandlerOutcome, BusSteps DEF IInv, Next, Running

LEMMA NextHold ==
    ASSUME IInv, [Next]_vars
    PROVE  HoldFacts'
  <1> USE DEF TypeOK, KickoffFacts, CallerFacts, HoldFacts, Current, Unfinished, Pending, Submitting, app, transactions, master, controller, bus
  <1>0. TypeOK /\ KickoffFacts /\ CallerFacts /\ HoldFacts
    BY DEF IInv
  <1>1. ASSUME NEW t \in Transaction, Start(t) PROVE HoldFacts'
    BY <1>0, <1>1 DEF Start
  <1>2. ASSUME NEW t \in Transaction, StatusTransaction(t) PROVE HoldFacts'
    BY <1>0, <1>2 DEF StatusTransaction, Release
  <1>3. ASSUME NEW t \in Transaction, WaitTransaction(t) PROVE HoldFacts'
    BY <1>0, <1>3 DEF WaitTransaction
  <1>4. ASSUME Enqueue PROVE HoldFacts'
    <2>1. /\ pc = "enqueue" /\ pc' \in {"check", "enqueue_wfi"}
          /\ UNCHANGED <<cur, obj, owner, complete, active>>
          /\ Current' = Current
      BY <1>4 DEF Enqueue
    <2>2. CASE Len(transaction_queue) < QueueSize
      <3> DEFINE q == transaction_queue
      <3>1. q' = Append(q, cur) /\ q \in Seq(Transaction) /\ cur \in Transaction
        BY <1>0, <1>4, <2>2 DEF Enqueue
      <3>2. /\ \A i \in DOMAIN q : i \in DOMAIN q' /\ q'[i] = q[i]
            /\ Len(q) + 1 \in DOMAIN q' /\ q'[Len(q) + 1] = cur
            /\ \A i \in DOMAIN q' : i \in DOMAIN q \/ i = Len(q) + 1
        BY <3>1, QueueAppend
      <3>3. pc' = "check"
        BY <1>4, <2>2 DEF Enqueue
      <3> QED
        BY <1>0, <2>1, <3>1, <3>2, <3>3
    <2>3. CASE ~(Len(transaction_queue) < QueueSize)
      BY <1>0, <1>4, <2>1, <2>3 DEF Enqueue
    <2> QED
      BY <2>2, <2>3
  <1>5. ASSUME Check PROVE HoldFacts'
    BY <1>0, <1>5 DEF Check, Return
  <1>6. ASSUME KickoffDequeue PROVE HoldFacts'
    <2>1. /\ pc = "dequeue" /\ pc' = "store" /\ active = NULL /\ Current = NULL
          /\ UNCHANGED <<cur, owner, complete, active>>
          /\ Unfinished' = Unfinished
      BY <1>0, <1>6 DEF KickoffDequeue
    <2>2. CASE transaction_queue = <<>>
      BY <1>0, <1>6, <2>1, <2>2 DEF KickoffDequeue
    <2>3. CASE transaction_queue # <<>>
      <3>1. /\ obj' = transaction_queue[1] /\ 1 \in DOMAIN transaction_queue
            /\ obj' \in Transaction /\ obj' # NULL
            /\ transaction_queue' = Tail(transaction_queue)
        BY <1>0, <1>6, <2>3, QueueHead, QueueTail DEF KickoffDequeue
      <3>2. \A i \in DOMAIN transaction_queue : i = 1
        BY <1>0, <2>1, QueueHead, LenProperties
      <3>3. DOMAIN transaction_queue' = {}
        <4>1. Len(Tail(transaction_queue)) <= 0
          BY <1>0, <2>1, <2>3, QueueHead
        <4> QED
          BY <1>0, <2>3, <3>1, <4>1, QueueHead, LenProperties
      <3>4. Current' = obj'
        BY <2>1, <3>1
      <3>5. owner'[obj'] = "driver" /\ ~complete'[obj']
        BY <1>0, <2>1, <3>1
      <3>6. \A t \in Unfinished' : t = obj'
        BY <1>0, <2>1, <3>1, <3>2, NullAssumption
      <3> HIDE DEF HoldFacts, CallerFacts, KickoffFacts, TypeOK, Current, Unfinished
      <3> QED
        BY <3>3, <3>4, <3>5, <3>6 DEF HoldFacts
    <2> QED
      BY <2>2, <2>3
  <1>7. ASSUME KickoffStore PROVE HoldFacts'
    BY <1>0, <1>7 DEF KickoffStore, Return
  <1>8. ASSUME KickoffReset PROVE HoldFacts'
    BY <1>0, <1>8 DEF KickoffReset
  <1>9. ASSUME KickoffArm PROVE HoldFacts'
    BY <1>0, <1>9 DEF KickoffArm, Return
  <1>10. ASSUME Wait PROVE HoldFacts'
    BY <1>0, <1>10 DEF Wait, Return, Release
  <1>11. ASSUME WaitForInterrupt PROVE HoldFacts'
    BY <1>0, <1>11 DEF WaitForInterrupt
  <1>12. ASSUME SysTick PROVE HoldFacts'
    BY <1>0, <1>12 DEF SysTick, Awake
  <1>13. ASSUME HandlerFrame, Continues PROVE HoldFacts'
    BY <1>0, <1>13 DEF HandlerFrame, Continues, Awake
  <1>14. ASSUME HandlerFrame, Finishes PROVE HoldFacts'
    <2>1. PICK e \in Error, set \in SUBSET {"STO", "AA"}, n \in Nat : Finish(e, set, n)
      BY <1>14 DEF Finishes
    <2>2. /\ active \in Transaction /\ Current = active
          /\ UNCHANGED <<cur, owner, obj>>
          /\ pc # "store" /\ pc' # "store" /\ Current' = active'
          /\ Submitting' = Submitting
          /\ complete'[active]
          /\ \A t \in Transaction : t # active => complete'[t] = complete[t]
      BY <1>0, <1>14, <2>1 DEF HandlerFrame, Finish, Awake
    <2>3. Unfinished' \subseteq Unfinished \ {active}
      BY <1>0, <2>2
    <2>4. CASE transaction_queue = <<>>
      <3>1. active' = NULL /\ transaction_queue' = <<>>
        BY <2>1, <2>4 DEF Finish, DequeueNext
      <3> QED
        BY <1>0, <2>2, <2>3, <2>4, <3>1
    <2>5. CASE transaction_queue # <<>>
      <3> DEFINE q == transaction_queue
      <3>1. /\ active' = q[1] /\ 1 \in DOMAIN q /\ q[1] # NULL
            /\ DOMAIN q \subseteq Nat /\ DOMAIN q' \subseteq Nat \ {0}
            /\ \A i \in DOMAIN q' : i + 1 \in DOMAIN q /\ q'[i] = q[i + 1]
            /\ \A i \in DOMAIN q : i = 1 \/ (i - 1 \in DOMAIN q' /\ q'[i - 1] = q[i])
            /\ \A i \in DOMAIN q : q[i] \in Transaction
        <4>1. q \in Seq(Transaction) /\ q' = Tail(q) /\ active' = Head(q)
          BY <1>0, <2>1, <2>5 DEF Finish, DequeueNext
        <4>2. Tail(q) \in Seq(Transaction)
          BY <4>1, <2>5, QueueTail
        <4> QED
          BY <1>0, <2>5, <4>1, <4>2, QueueHead, QueueTail, LenProperties
      <3>2. owner'[active'] = "driver" /\ ~complete'[active']
        BY <1>0, <2>2, <3>1
      <3>3. \A i \in DOMAIN q' : /\ owner'[q'[i]] = "driver" /\ ~complete'[q'[i]]
                                 /\ q'[i] # active'
        BY <1>0, <2>2, <3>1
      <3>4. \A i, j \in DOMAIN q' : q'[i] = q'[j] => i = j
        BY <1>0, <3>1
      <3>5. \A t \in Unfinished' : t = active' \/ \E i \in DOMAIN q' : q'[i] = t
        BY <1>0, <2>2, <2>3, <3>1
      <3> QED
        BY <2>2, <3>2, <3>3, <3>4, <3>5
    <2> QED
      BY <2>4, <2>5
  <1>15. ASSUME BusOutcome PROVE HoldFacts'
    BY <1>0, <1>15 DEF BusOutcome
  <1>16. ASSUME UNCHANGED vars PROVE HoldFacts'
    BY <1>0, <1>16 DEF vars
  <1> QED
    BY <1>1, <1>2, <1>3, <1>4, <1>5, <1>6, <1>7, <1>8, <1>9, <1>10, <1>11, <1>12,
       <1>13, <1>14, <1>15, <1>16, HandlerOutcome, BusSteps DEF IInv, Next, Running

(* The handler writes only to the buffers of the active transaction.        *)
LEMMA HandlerBuf ==
    ASSUME BufFacts, Handler
    PROVE  BufFacts' /\ \A t \in Transaction : t # active => buf'[t] = buf[t]
  <1>1. CASE buf' = buf
    BY <1>1 DEF BufFacts
  <1>2. CASE buf' # buf
    <2>1. \E x : buf' = [buf EXCEPT ![active] = x]
      BY <1>2 DEF Handler, SendAddress, SendByte, MessageSent, NackRetry, NackFail,
                  ArbitrationLost, ReceiveByte, MessageReceived, UnknownStatus, StoreByte
    <2> QED
      BY <2>1 DEF BufFacts
  <1> QED
    BY <1>1, <1>2

LEMMA NextBuf ==
    ASSUME IInv, [Next]_vars
    PROVE  BufFacts'
  <1>0. BufFacts
    BY DEF IInv
  <1>1. CASE UNCHANGED buf
    BY <1>0, <1>1 DEF BufFacts
  <1>2. ASSUME NEW t \in Transaction, Release(t) PROVE BufFacts'
    BY <1>0, <1>2 DEF BufFacts, Release
  <1>3. CASE Wait
    <2>1. CASE complete[cur]
      <3>1. PICK t \in Transaction : t = cur
        BY <1>3 DEF Wait, IInv, CallerFacts
      <3>2. Release(t)
        BY <1>3, <2>1, <3>1 DEF Wait, Release
      <3> QED
        BY <1>2, <3>2
    <2>2. CASE ~complete[cur]
      BY <1>1, <1>3, <2>2 DEF Wait, transactions
    <2> QED
      BY <2>1, <2>2
  <1>4. CASE Handler
    BY <1>0, <1>4, HandlerBuf
  <1>5. ASSUME NEW t \in Transaction, Start(t) \/ WaitTransaction(t) PROVE UNCHANGED buf
    BY <1>5 DEF Start, WaitTransaction, transactions
  <1>6. ASSUME NEW t \in Transaction, StatusTransaction(t) PROVE BufFacts'
    BY <1>2, <1>6 DEF StatusTransaction
  <1>7. CASE Running /\ ~Wait
    BY <1>1, <1>7 DEF Running, Enqueue, Check, KickoffDequeue, KickoffStore,
       KickoffReset, KickoffArm, WaitForInterrupt, transactions
  <1>8. CASE SysTick
    BY <1>1, <1>8 DEF SysTick, transactions
  <1>9. CASE Bus
    BY <1>1, <1>9, BusSteps DEF IInv, BusOutcome, transactions
  <1>10. CASE UNCHANGED vars
    BY <1>1, <1>10 DEF vars
  <1> QED
    BY <1>1, <1>3, <1>4, <1>5, <1>6, <1>7, <1>8, <1>9, <1>10 DEF Next

THEOREM Inductive == Spec => []IInv
  <1>1. IInv /\ [Next]_vars => IInv'
    BY NextTypeOK, NextKickoff, NextStranded, NextStart, NextIndex, NextCaller,
       NextHold, NextBuf DEF IInv
  <1> QED
    BY InitIInv, <1>1, PTL DEF Spec

(* No variable leaves its type; the queue array is never overrun.           *)
THEOREM TypeCorrect == Spec => []TypeOK
  BY Inductive, PTL DEF IInv

(* The handler never dereferences a null active_transaction nor indexes     *)
(* past its messages or their buffers.                                      *)
THEOREM HandlerSafe == Spec => []HandlerHasTransaction
  <1>1. IInv => HandlerHasTransaction
    BY DEF IInv, KickoffFacts, IndexFacts, Quiet, HandlerHasTransaction
  <1> QED
    BY <1>1, Inductive, PTL

(* No interrupt comes while the main program kicks a transaction off.       *)
THEOREM KickoffSafe == Spec => []KickoffUndisturbed
  <1>1. IInv => KickoffUndisturbed
    BY DEF IInv, KickoffFacts, Quiet, KickoffUndisturbed
  <1> QED
    BY <1>1, Inductive, PTL

(* No transaction is left in the queue of an idle driver.                   *)
THEOREM NoneStranded == Spec => []NoStrandedTransaction
  BY Inductive, PTL DEF IInv

(* Between its completion and the caller's return neither the error code    *)
(* nor the buffers of a transaction change.                                 *)
THEOREM CompletionStays == Spec => CompletionIsFinal
  <1> DEFINE A == \A t \in Transaction :
                     complete[t] /\ complete'[t] /\ owner'[t] = "driver" =>
                         error'[t] = error[t] /\ buf'[t] = buf[t]
  <1>1. IInv /\ [Next]_vars => A
    <2> SUFFICES ASSUME IInv, [Next]_vars, NEW t \in Transaction,
                        complete[t], complete'[t], owner'[t] = "driver"
                 PROVE  error'[t] = error[t] /\ buf'[t] = buf[t]
      OBVIOUS
    <2>0. TypeOK /\ BufFacts /\ HoldFacts /\ KickoffFacts
      BY DEF IInv
    <2>1. CASE UNCHANGED <<error, buf>>
      BY <2>1
    <2>2. ASSUME NEW u \in Transaction, Release(u)
          PROVE  error'[t] = error[t] /\ buf'[t] = buf[t]
      BY <2>0, <2>2 DEF Release, TypeOK, BufFacts
    <2>3. ASSUME NEW u \in Transaction, Start(u)
          PROVE  error'[t] = error[t] /\ buf'[t] = buf[t]
      BY <2>0, <2>3 DEF Start, TypeOK
    <2>4. CASE Wait
      <3>1. CASE complete[cur]
        <4>1. PICK u \in Transaction : u = cur
          BY <2>4 DEF Wait, IInv, CallerFacts
        <4>2. Release(u)
          BY <2>4, <3>1, <4>1 DEF Wait, Release
        <4> QED
          BY <2>2, <4>2
      <3>2. CASE ~complete[cur]
        BY <2>1, <2>4, <3>2 DEF Wait, transactions
      <3> QED
        BY <3>1, <3>2
    <2>5. CASE Handler
      <3>1. HandlerFrame /\ (Continues \/ Finishes)
        BY <2>5, HandlerOutcome
      <3>2. t # active
        BY <2>0, <3>1 DEF HandlerFrame, HoldFacts, Current, KickoffFacts
      <3>3. buf'[t] = buf[t]
        BY <2>0, <2>5, <3>2, HandlerBuf
      <3>4. error'[t] = error[t]
        BY <2>0, <3>1, <3>2 DEF Continues, Finishes, Finish, TypeOK
      <3> QED
        BY <3>3, <3>4
    <2>6. ASSUME NEW u \in Transaction, StatusTransaction(u) \/ WaitTransaction(u)
          PROVE  error'[t] = error[t] /\ buf'[t] = buf[t]
      BY <2>1, <2>2, <2>6 DEF StatusTransaction, WaitTransaction, transactions
    <2>7. CASE Running /\ ~Wait
      BY <2>1, <2>7 DEF Running, Enqueue, Check, KickoffDequeue, KickoffStore,
         KickoffReset, KickoffArm, WaitForInterrupt, transactions
    <2>8. CASE SysTick
      BY <2>1, <2>8 DEF SysTick, transactions
    <2>9. CASE Bus
      BY <2>0, <2>1, <2>9, BusSteps DEF BusOutcome, transactions
    <2>10. CASE UNCHANGED vars
      BY <2>1, <2>10 DEF vars
    <2> QED
      BY <2>3, <2>4, <2>5, <2>6, <2>7, <2>8, <2>9, <2>10 DEF Next
  <1> QED
    BY <1>1, Inductive, PTL DEF Spec, CompletionIsFinal
----------------------------------------------------------------------------
(* What is in flight, as a sequence.                                        *)

LEMMA ConsFacts ==
    ASSUME NEW S, NEW a \in S, NEW q \in Seq(S)
    PROVE  /\ <<a>> \o q \in Seq(S) /\ Len(<<a>> \o q) = 1 + Len(q)
           /\ Head(<<a>> \o q) = a
           /\ Tail(<<a>> \o q) = q
           /\ <<a>> \o q # <<>>
           /\ (<<a>> \o q)[1] = a
           /\ \A i \in 1 .. Len(q) : (<<a>> \o q)[i + 1] = q[i]
  <1>1. <<a>> \in Seq(S) /\ Len(<<a>>) = 1 /\ <<a>>[1] = a
    OBVIOUS
  <1>2. <<a>> \o q \in Seq(S) /\ Len(<<a>> \o q) = 1 + Len(q)
    BY <1>1, ConcatProperties, LenProperties
  <1>3. (<<a>> \o q)[1] = a
    BY <1>1, ConcatProperties, LenProperties
  <1>4. \A i \in 1 .. Len(q) : (<<a>> \o q)[i + 1] = q[i]
    BY <1>1, ConcatProperties, LenProperties
  <1>5. <<a>> \o q # <<>>
    BY <1>2, EmptySeq, LenProperties
  <1>6. Tail(<<a>> \o q) = q
    <2>1. /\ Tail(<<a>> \o q) \in Seq(S)
          /\ Len(Tail(<<a>> \o q)) = Len(q)
          /\ \A i \in 1 .. Len(q) : Tail(<<a>> \o q)[i] = (<<a>> \o q)[i + 1]
      BY <1>2, <1>5, HeadTailProperties, LenProperties
    <2> QED
      BY <1>4, <2>1, SeqEqual
  <1> QED
    BY <1>2, <1>3, <1>4, <1>5, <1>6

LEMMA HeadThenTail ==
    ASSUME NEW S, NEW q \in Seq(S), q # <<>>
    PROVE  <<Head(q)>> \o Tail(q) = q
  <1>1. /\ Head(q) \in S /\ Tail(q) \in Seq(S) /\ Len(Tail(q)) = Len(q) - 1
        /\ Head(q) = q[1]
        /\ \A i \in 1 .. Len(q) - 1 : Tail(q)[i] = q[i + 1]
    BY HeadTailProperties, LenProperties
  <1>2. <<Head(q)>> \o Tail(q) \in Seq(S) /\ Len(<<Head(q)>> \o Tail(q)) = Len(q)
    BY <1>1, ConsFacts, LenProperties
  <1>3. \A i \in 1 .. Len(q) : (<<Head(q)>> \o Tail(q))[i] = q[i]
    <2> TAKE i \in 1 .. Len(q)
    <2>1. CASE i = 1
      BY <1>1, <2>1, ConsFacts
    <2>2. CASE i # 1
      <3> DEFINE k == i - 1
      <3>1. k \in 1 .. Len(Tail(q)) /\ k + 1 = i
        BY <1>1, <2>2, LenProperties
      <3> HIDE DEF k
      <3>2. (<<Head(q)>> \o Tail(q))[k + 1] = Tail(q)[k]
        BY <1>1, <3>1, ConsFacts
      <3> QED
        BY <1>1, <3>1, <3>2
    <2> QED
      BY <2>1, <2>2
  <1> QED
    BY <1>2, <1>3, SeqEqual

LEMMA ConsAppend ==
    ASSUME NEW S, NEW a \in S, NEW q \in Seq(S), NEW x \in S
    PROVE  <<a>> \o Append(q, x) = Append(<<a>> \o q, x)
  BY ConcatProperties, AppendProperties, LenProperties

(* InFlight without and with a current transaction.                         *)
LEMMA InFlightCases ==
    ASSUME TypeOK
    PROVE  /\ transaction_queue \in Seq(Transaction)
           /\ Current \in Transaction \cup {NULL}
           /\ Current = NULL => InFlight = transaction_queue
           /\ Current # NULL => InFlight = <<Current>> \o transaction_queue
           /\ InFlight \in Seq(Transaction)
  <1>1. transaction_queue \in Seq(Transaction) /\ Current \in Transaction \cup {NULL}
    BY DEF TypeOK, Current
  <1>2. <<>> \o transaction_queue = transaction_queue
    BY <1>1, ConcatEmptySeq
  <1>3. Current # NULL => <<Current>> \o transaction_queue \in Seq(Transaction)
    BY <1>1, ConsFacts
  <1> QED
    BY <1>1, <1>2, <1>3 DEF InFlight

LEMMA HoldsUnfinished == IInv => DriverHoldsUnfinished
  <1> SUFFICES ASSUME IInv PROVE DriverHoldsUnfinished
    OBVIOUS
  <1> DEFINE q == transaction_queue
  <1>0. TypeOK /\ HoldFacts /\ CallerFacts
    BY DEF IInv
  <1>1. /\ q \in Seq(Transaction) /\ DOMAIN q = 1 .. Len(q) /\ Len(q) \in Nat
        /\ \A i \in DOMAIN q : q[i] \in Transaction
    BY <1>0, LenProperties DEF TypeOK
  <1>2. \A i \in DOMAIN q : q[i] \in Unfinished
    BY <1>0, <1>1 DEF HoldFacts, CallerFacts, Unfinished, Pending
  <1>3. CASE Current = NULL
    <2>1. InFlight = q
      BY <1>0, <1>3, InFlightCases
    <2>2. \A t \in Unfinished : \E i \in DOMAIN q : q[i] = t
      BY <1>0, <1>3, NullAssumption DEF HoldFacts, Unfinished, Pending
    <2>3. \A i, j \in DOMAIN q : q[i] = q[j] => i = j
      BY <1>0 DEF HoldFacts
    <2> QED
      BY <1>2, <2>1, <2>2, <2>3 DEF DriverHoldsUnfinished
  <1>4. CASE Current # NULL
    <2>1. Current \in Transaction /\ InFlight = <<Current>> \o q
      BY <1>0, <1>4, InFlightCases
    <2>2. /\ DOMAIN InFlight = 1 .. Len(q) + 1
          /\ InFlight[1] = Current
          /\ \A i \in 1 .. Len(q) : InFlight[i + 1] = q[i]
      BY <1>1, <2>1, ConsFacts, LenProperties
    <2>3. \A i \in DOMAIN InFlight : i = 1 \/ (i - 1 \in DOMAIN q /\ InFlight[i] = q[i - 1])
      <3> TAKE i \in DOMAIN InFlight
      <3>1. CASE i = 1
        BY <3>1
      <3>2. CASE i # 1
        <4> DEFINE k == i - 1
        <4>1. k \in 1 .. Len(q) /\ k + 1 = i
          BY <1>1, <2>2, <3>2
        <4> HIDE DEF k
        <4>2. InFlight[k + 1] = q[k]
          BY <2>2, <4>1
        <4>3. k \in DOMAIN q /\ InFlight[i] = q[k]
          BY <1>1, <4>1, <4>2
        <4> QED
          BY <4>3 DEF k
      <3> QED
        BY <3>1, <3>2
    <2>4. Current \in Unfinished
      BY <1>0, <1>4, <2>1 DEF HoldFacts, CallerFacts, Unfinished, Pending
    <2>5. \A i, j \in DOMAIN InFlight : InFlight[i] = InFlight[j] => i = j
      <3>1. /\ \A i \in DOMAIN q : q[i] # Current
            /\ \A i, j \in DOMAIN q : q[i] = q[j] => i = j
        BY <1>0 DEF HoldFacts
      <3> QED
        BY <2>2, <2>3, <3>1
    <2>6. {InFlight[i] : i \in DOMAIN InFlight} \subseteq Unfinished
      BY <1>2, <2>2, <2>3, <2>4
    <2>7. ASSUME NEW t \in Unfinished
          PROVE  \E i \in DOMAIN InFlight : InFlight[i] = t
      <3>1. t = Current \/ \E i \in DOMAIN q : q[i] = t
        BY <1>0 DEF HoldFacts
      <3>2. CASE t = Current
        BY <1>1, <2>2, <3>2
      <3>3. ASSUME NEW i \in DOMAIN q, q[i] = t
            PROVE  \E k \in DOMAIN InFlight : InFlight[k] = t
        <4>1. i + 1 \in DOMAIN InFlight /\ InFlight[i + 1] = t
          BY <1>1, <2>2, <3>3
        <4> QED
          BY <4>1
      <3> QED
        BY <3>1, <3>2, <3>3
    <2> QED
      BY <2>5, <2>6, <2>7 DEF DriverHoldsUnfinished
  <1> QED
    BY <1>3, <1>4

(* The driver holds a pointer to a transaction exactly while it is          *)
(* unfinished, and only one.                                                *)
THEOREM HoldsExactlyUnfinished == Spec => []DriverHoldsUnfinished
  BY HoldsUnfinished, Inductive, PTL
----------------------------------------------------------------------------
(* The refinement: the steps of the driver that matter to its callers.      *)

Outcomes ==
    [t \in Transaction |->
        IF owner[t] = "driver" /\ complete[t] THEN error[t] ELSE NULL]

(* Where nothing in flight changes, neither does the service's view.        *)
Unseen == UNCHANGED <<InFlight, Outcomes>>

LEMMA StartUnseen ==
    ASSUME IInv, NEW t \in Transaction, Start(t)
    PROVE  Unseen
  <1>0. TypeOK
    BY DEF IInv
  <1>1. InFlight' = InFlight
    BY DEF Start, InFlight, Current, master
  <1>2. \A u \in Transaction :
           (owner'[u] = "driver" /\ complete'[u]) <=> (owner[u] = "driver" /\ complete[u])
    BY <1>0 DEF Start, TypeOK
  <1>3. \A u \in Transaction : owner[u] = "driver" => error'[u] = error[u]
    BY <1>0 DEF Start, TypeOK
  <1>4. Outcomes' = Outcomes
    BY <1>2, <1>3 DEF Outcomes
  <1> QED
    BY <1>1, <1>4 DEF Unseen

LEMMA WaitUnseen ==
    ASSUME NEW t \in Transaction, WaitTransaction(t)
    PROVE  Unseen
  BY DEF WaitTransaction, Unseen, InFlight, Outcomes, Current, transactions, master

LEMMA KickoffUnseen ==
    ASSUME IInv, Check \/ KickoffStore \/ KickoffReset \/ KickoffArm
    PROVE  Unseen
  <1>0. TypeOK /\ KickoffFacts
    BY DEF IInv
  <1>1. UNCHANGED <<owner, complete, error, transaction_queue>>
    BY DEF Check, KickoffStore, KickoffReset, KickoffArm, transactions, master
  <1>2. Current' = Current
    <2>1. CASE KickoffStore
      BY <1>0, <2>1 DEF KickoffStore, KickoffFacts, Current, Return
    <2>2. CASE Check \/ KickoffReset \/ KickoffArm
      BY <2>2 DEF Check, KickoffReset, KickoffArm, Current, Return, master
    <2> QED
      BY <2>1, <2>2
  <1> QED
    BY <1>1, <1>2 DEF Unseen, InFlight, Outcomes

LEMMA OthersUnseen ==
    ASSUME IInv,
           \/ WaitForInterrupt \/ SysTick \/ BusOutcome
           \/ HandlerFrame /\ Continues
    PROVE  Unseen
  <1>1. UNCHANGED <<owner, complete, error, transaction_queue>>
    BY DEF WaitForInterrupt, SysTick, BusOutcome, HandlerFrame, Continues,
           transactions, master
  <1>2. Current' = Current
    BY DEF WaitForInterrupt, SysTick, BusOutcome, HandlerFrame, Continues, Awake,
           Current, app, master
  <1> QED
    BY <1>1, <1>2 DEF Unseen, InFlight, Outcomes

LEMMA KickoffDequeueUnseen ==
    ASSUME IInv, KickoffDequeue
    PROVE  Unseen
  <1>0. TypeOK /\ KickoffFacts
    BY DEF IInv
  <1>1. Current = NULL /\ active' = NULL /\ pc' = "store"
    BY <1>0 DEF KickoffDequeue, KickoffFacts, Current
  <1>2. InFlight = transaction_queue
    BY <1>0, <1>1, InFlightCases
  <1>3. InFlight' = transaction_queue
    <2>1. CASE transaction_queue = <<>>
      <3>1. Current' = NULL /\ transaction_queue' = <<>>
        BY <1>1, <2>1 DEF KickoffDequeue, Current
      <3>2. InFlight' = <<>> \o <<>>
        BY <3>1 DEF InFlight
      <3> QED
        BY <2>1, <3>2
    <2>2. CASE transaction_queue # <<>>
      <3>1. /\ Current' = Head(transaction_queue) /\ Current' # NULL
            /\ transaction_queue' = Tail(transaction_queue)
        BY <1>0, <1>1, <2>2, QueueHead DEF KickoffDequeue, Current
      <3>2. InFlight' = <<Head(transaction_queue)>> \o Tail(transaction_queue)
        BY <3>1 DEF InFlight
      <3> QED
        BY <1>0, <2>2, <3>2, HeadThenTail DEF TypeOK
    <2> QED
      BY <2>1, <2>2
  <1>4. Outcomes' = Outcomes
    BY DEF KickoffDequeue, Outcomes, transactions
  <1> QED
    BY <1>2, <1>3, <1>4 DEF Unseen

LEMMA EnqueueRefines ==
    ASSUME IInv, Enqueue
    PROVE  Unseen \/ \E t \in Transaction : Service!Start(t)
  <1> DEFINE q == transaction_queue
  <1>0. TypeOK /\ HoldFacts /\ CallerFacts
    BY DEF IInv
  <1>1. /\ cur \in Transaction /\ ~complete[cur] /\ cur # Current
        /\ \A i \in DOMAIN q : q[i] # cur
    BY <1>0 DEF Enqueue, CallerFacts, Submitting
  <1>2. /\ UNCHANGED <<owner, complete, error>>
        /\ Current' = Current
    BY DEF Enqueue, Current, transactions
  <1>3. Outcomes' = Outcomes
    BY <1>2 DEF Outcomes
  <1>4. q \in Seq(Transaction) /\ Len(q) \in Nat /\ DOMAIN q = 1 .. Len(q)
    BY <1>0, LenProperties DEF TypeOK
  <1>5. CASE Len(q) < QueueSize
    <2>1. q' = Append(q, cur)
      BY <1>5 DEF Enqueue
    <2>2. Outcomes[cur] = NULL
      BY <1>1 DEF Outcomes
    <2>3. CASE Current = NULL
      <3>1. InFlight = q
        BY <1>0, <2>3, InFlightCases
      <3>2. InFlight' = Append(q, cur)
        <4>1. InFlight' = <<>> \o Append(q, cur)
          BY <1>2, <2>1, <2>3 DEF InFlight
        <4>2. Append(q, cur) \in Seq(Transaction)
          BY <1>1, <1>4, AppendProperties
        <4> QED
          BY <4>1, <4>2, ConcatEmptySeq
      <3>3. Len(InFlight) < QueueSize + 1
        BY <1>4, <1>5, <3>1, QueueSizeAssumption
      <3>4. \A i \in DOMAIN InFlight : InFlight[i] # cur
        BY <1>1, <3>1
      <3>5. Service!Start(cur)
        BY <1>3, <2>2, <3>1, <3>2, <3>3, <3>4 DEF Service!Start, Outcomes
      <3> QED
        BY <1>1, <3>5
    <2>4. CASE Current # NULL
      <3>1. Current \in Transaction /\ InFlight = <<Current>> \o q
        BY <1>0, <2>4, InFlightCases
      <3>2. InFlight' = Append(InFlight, cur)
        <4>1. InFlight' = <<Current>> \o Append(q, cur)
          BY <1>2, <2>1, <2>4 DEF InFlight
        <4> QED
          BY <1>1, <1>4, <3>1, <4>1, ConsAppend
      <3>3. /\ InFlight \in Seq(Transaction) /\ Len(InFlight) = Len(q) + 1
            /\ InFlight[1] = Current
            /\ \A i \in 1 .. Len(q) : InFlight[i + 1] = q[i]
        BY <1>4, <3>1, ConsFacts
      <3>4. Len(InFlight) < QueueSize + 1
        BY <1>4, <1>5, <3>3, QueueSizeAssumption
      <3>5. \A i \in DOMAIN InFlight : InFlight[i] # cur
        <4> TAKE i \in DOMAIN InFlight
        <4>1. CASE i = 1
          BY <1>1, <3>3, <4>1
        <4>2. CASE i # 1
          <5> DEFINE k == i - 1
          <5>1. k \in 1 .. Len(q) /\ k + 1 = i
            BY <1>4, <3>3, <4>2, LenProperties
          <5> HIDE DEF k
          <5> QED
            BY <1>1, <1>4, <3>3, <5>1
        <4> QED
          BY <4>1, <4>2
      <3>6. Service!Start(cur)
        BY <1>3, <2>2, <3>2, <3>4, <3>5 DEF Service!Start, Outcomes
      <3> QED
        BY <1>1, <3>6
    <2> QED
      BY <2>3, <2>4
  <1>6. CASE ~(Len(q) < QueueSize)
    <2>1. q' = q
      BY <1>6 DEF Enqueue
    <2> QED
      BY <1>2, <1>3, <2>1 DEF Unseen, InFlight
  <1> QED
    BY <1>5, <1>6

(* The caller's return collects the outcome.                                *)
LEMMA ReleaseRefines ==
    ASSUME IInv, NEW t \in Transaction, owner[t] = "driver", complete[t], Release(t),
           pc # "store", pc' # "store", UNCHANGED <<active, transaction_queue>>
    PROVE  Service!Collect(t)
  <1>0. TypeOK
    BY DEF IInv
  <1>1. InFlight' = InFlight
    BY DEF InFlight, Current
  <1>2. Outcomes[t] # NULL
    <2>1. Outcomes[t] = error[t] /\ error[t] \in Error
      BY <1>0 DEF Outcomes, TypeOK
    <2> QED
      BY <2>1, NoErrorAssumption
  <1>3. Outcomes' = [Outcomes EXCEPT ![t] = NULL]
    <2> DEFINE f == [u \in Transaction |->
                        IF owner'[u] = "driver" /\ complete'[u] THEN error'[u] ELSE NULL]
    <2>1. \A u \in Transaction : f[u] = [Outcomes EXCEPT ![t] = NULL][u]
      BY <1>0 DEF Outcomes, Release, TypeOK
    <2>2. f = [Outcomes EXCEPT ![t] = NULL]
      BY <2>1 DEF Outcomes
    <2> QED
      BY <2>2 DEF Outcomes
  <1> QED
    BY <1>1, <1>2, <1>3 DEF Service!Collect, Outcomes

LEMMA WaitRefines ==
    ASSUME IInv, Wait
    PROVE  Unseen \/ \E t \in Transaction : Service!Collect(t)
  <1>0. TypeOK /\ cur \in Transaction /\ owner[cur] = "driver"
    BY DEF IInv, CallerFacts, Wait
  <1>1. CASE complete[cur]
    <2>0. PICK t \in Transaction : t = cur
      BY <1>0
    <2>1. /\ Release(t) /\ pc # "store" /\ pc' # "store"
          /\ UNCHANGED <<active, transaction_queue>>
      BY <1>1, <2>0 DEF Wait, Return, Release, master
    <2>2. t \in Transaction /\ owner[t] = "driver" /\ complete[t]
      BY <1>0, <1>1, <2>0
    <2>3. Service!Collect(t)
      BY <2>1, <2>2, ReleaseRefines
    <2> QED
      BY <2>2, <2>3
  <1>2. CASE ~complete[cur]
    BY <1>2 DEF Wait, Unseen, InFlight, Outcomes, Current, transactions, master
  <1> QED
    BY <1>1, <1>2

LEMMA FinishRefines ==
    ASSUME IInv, HandlerFrame, Finishes
    PROVE  Service!Serve
  <1> DEFINE q == transaction_queue
  <1>0. TypeOK /\ KickoffFacts /\ HoldFacts
    BY DEF IInv
  <1>1. PICK e \in Error, set \in SUBSET {"STO", "AA"}, n \in Nat : Finish(e, set, n)
    BY DEF Finishes
  <1>2. /\ active \in Transaction /\ Current = active /\ active # NULL
        /\ owner' = owner /\ owner[active] = "driver"
        /\ pc' # "store" /\ Current' = active' /\ q \in Seq(Transaction)
    BY <1>0 DEF HandlerFrame, Awake, KickoffFacts, HoldFacts, Current, TypeOK
  <1>3. /\ InFlight # <<>> /\ Head(InFlight) = active /\ Tail(InFlight) = q
    BY <1>0, <1>2, InFlightCases, ConsFacts
  <1>4. InFlight' = q
    <2>1. CASE q = <<>>
      <3>1. active' = NULL /\ q' = <<>>
        BY <1>1, <2>1 DEF Finish, DequeueNext
      <3>2. InFlight' = <<>> \o <<>>
        BY <1>2, <3>1 DEF InFlight
      <3> QED
        BY <2>1, <3>2
    <2>2. CASE q # <<>>
      <3>1. active' = Head(q) /\ active' # NULL /\ q' = Tail(q)
        BY <1>0, <1>1, <2>2, QueueHead DEF Finish, DequeueNext
      <3>2. InFlight' = <<Head(q)>> \o Tail(q)
        BY <1>2, <3>1 DEF InFlight
      <3> QED
        BY <1>2, <2>2, <3>2, HeadThenTail
    <2> QED
      BY <2>1, <2>2
  <1>5. Outcomes' = [Outcomes EXCEPT ![active] = e]
    <2> DEFINE f == [u \in Transaction |->
                        IF owner'[u] = "driver" /\ complete'[u] THEN error'[u] ELSE NULL]
    <2>1. complete' = [complete EXCEPT ![active] = TRUE] /\ error' = [error EXCEPT ![active] = e]
      BY <1>1 DEF Finish
    <2>2. \A u \in Transaction : f[u] = [Outcomes EXCEPT ![active] = e][u]
      BY <1>0, <1>2, <2>1 DEF Outcomes, TypeOK
    <2>3. f = [Outcomes EXCEPT ![active] = e]
      BY <2>2 DEF Outcomes
    <2> QED
      BY <2>3 DEF Outcomes
  <1>6. Service!Complete(e)
    BY <1>3, <1>4, <1>5 DEF Service!Complete, Outcomes
  <1>7. e \in Service!Error
    BY DEF Error, Service!Error
  <1> QED
    BY <1>6, <1>7 DEF Service!Serve

(* The interrupt-driven driver implements the first-come first-served       *)
(* service of I2CService, for any transactions, queue size, retries and     *)
(* faults.                                                                  *)
THEOREM Refinement == Spec => ServesInOrder
  <1>1. Init => Service!Init
    <2> SUFFICES ASSUME Init PROVE Service!Init
      OBVIOUS
    <2>1. InFlight = <<>>
      BY DEF Init, InFlight, Current
    <2>2. Outcomes = [t \in Transaction |-> NULL]
      BY DEF Init, Outcomes
    <2> QED
      BY <2>1, <2>2 DEF Service!Init, Outcomes
  <1>2. IInv /\ [Next]_vars => [Service!Next]_(Service!vars)
    <2> SUFFICES ASSUME IInv, [Next]_vars PROVE [Service!Next]_(Service!vars)
      OBVIOUS
    <2>1. Unseen => UNCHANGED Service!vars
      BY DEF Unseen, Outcomes, Service!vars
    <2>2. ASSUME NEW t \in Transaction, Start(t) \/ WaitTransaction(t)
          PROVE  Unseen
      BY <2>2, StartUnseen, WaitUnseen
    <2>3. ASSUME NEW t \in Transaction, StatusTransaction(t)
          PROVE  Service!Next
      <3>1. Service!Collect(t)
        BY <2>3, ReleaseRefines DEF StatusTransaction, app, master
      <3> QED
        BY <3>1 DEF Service!Next
    <2>4. CASE Running
      BY <2>1, <2>4, EnqueueRefines, KickoffUnseen, KickoffDequeueUnseen, WaitRefines,
         OthersUnseen DEF Running, Service!Next
    <2>5. CASE SysTick
      BY <2>1, <2>5, OthersUnseen
    <2>6. CASE Handler
      BY <2>1, <2>6, HandlerOutcome, OthersUnseen, FinishRefines DEF Service!Next
    <2>7. CASE Bus
      BY <2>1, <2>7, BusSteps, OthersUnseen DEF IInv
    <2>8. CASE UNCHANGED vars
      <3>1. Unseen
        BY <2>8 DEF vars, Unseen, InFlight, Current, Outcomes
      <3> QED
        BY <2>1, <3>1
    <2> QED
      BY <2>1, <2>2, <2>3, <2>4, <2>5, <2>6, <2>7, <2>8 DEF Next
  <1> QED
    BY <1>1, <1>2, Inductive, PTL DEF Spec, ServesInOrder, Service!Spec
-----------------------------------------------------------------------------
(* What the bus sees.                                                       *)

(* Induction over the natural numbers, for a set.                           *)
LEMMA Induction ==
    ASSUME NEW S, 0 \in S, \A n \in Nat : n \in S => n + 1 \in S
    PROVE  \A n \in Nat : n \in S
  <1> DEFINE Missing == Nat \ S
  <1>1. SUFFICES ASSUME Missing # {} PROVE FALSE
    OBVIOUS
  <1>2. PICK x \in Missing : \A y \in Missing : ~(<<y, x>> \in {ss \in Nat \X Nat : ss[1] < ss[2]})
    <2>1. IsWellFoundedOn({ss \in Nat \X Nat : ss[1] < ss[2]}, Nat)
      BY NatLessThanWellFounded DEF OpToRel
    <2> QED
     BY <2>1, <1>1, WFMin
  <1>3. \A y \in Missing : ~(y < x)
    BY <1>2
  <1>4. x # 0 /\ x - 1 \in Nat /\ x - 1 < x
    OBVIOUS
  <1>5. x - 1 \in S
    BY <1>3, <1>4
  <1> QED
    BY <1>4, <1>5

(* FlattenSeq, whose recursion runs over the positions of a sequence: f[i]  *)
(* joins the first i members of s.                                          *)
Joins(f, s, n) ==
    \A i \in 1 .. n : f[i] = IF i = 1 THEN s[i] ELSE f[i - 1] \o s[i]

LEMMA JoinsExists ==
    ASSUME NEW S, NEW s \in Seq(Seq(S))
    PROVE  \A n \in Nat : n <= Len(s) => \E f \in [1 .. n -> Seq(S)] : Joins(f, s, n)
  <1> DEFINE Has == {n \in Nat : n <= Len(s) => \E f \in [1 .. n -> Seq(S)] : Joins(f, s, n)}
  <1>1. 0 \in Has
    <2>1. [i \in 1 .. 0 |-> <<>>] \in [1 .. 0 -> Seq(S)] /\ Joins([i \in 1 .. 0 |-> <<>>], s, 0)
      BY DEF Joins
    <2> QED
      BY <2>1
  <1>2. ASSUME NEW n \in Nat, n \in Has
        PROVE  n + 1 \in Has
    <2>1. ASSUME n + 1 <= Len(s)
          PROVE  \E g \in [1 .. n + 1 -> Seq(S)] : Joins(g, s, n + 1)
      <3>1. PICK f \in [1 .. n -> Seq(S)] : Joins(f, s, n)
        BY <1>2, <2>1
      <3> DEFINE new == IF n = 0 THEN s[1] ELSE f[n] \o s[n + 1]
                 g == [i \in 1 .. n + 1 |-> IF i <= n THEN f[i] ELSE new]
      <3>2. s[n + 1] \in Seq(S) /\ s[1] \in Seq(S)
        BY <2>1
      <3>3. new \in Seq(S)
        BY <3>2
      <3>4. g \in [1 .. n + 1 -> Seq(S)]
        BY <3>3
      <3> HIDE DEF new
      <3>5. /\ \A i \in 1 .. n : g[i] = f[i]
            /\ g[n + 1] = new
        OBVIOUS
      <3> USE DEF new
      <3>6. ASSUME NEW i \in 1 .. n + 1
            PROVE  g[i] = IF i = 1 THEN s[i] ELSE g[i - 1] \o s[i]
        <4> HIDE DEF g
        <4>1. CASE i <= n
          <5>1. /\ i \in 1 .. n
                /\ i # 1 => i - 1 \in 1 .. n
            BY <4>1
          <5> QED
            BY <3>1, <3>5, <5>1 DEF Joins
        <4>2. CASE i = n + 1
          <5>1. CASE n = 0
            <6>1. g[1] = s[1] /\ i = 1
              BY <3>5, <4>2, <5>1
            <6> QED
              BY <6>1
          <5>2. CASE n # 0
            <6>1. n \in 1 .. n /\ i - 1 = n /\ i # 1
              BY <4>2, <5>2
            <6>2. g[i - 1] = f[n] /\ g[i] = f[n] \o s[i]
              BY <3>5, <4>2, <5>2, <6>1
            <6> QED
              BY <6>1, <6>2
          <5> QED
            BY <5>1, <5>2
        <4> QED
          BY <4>1, <4>2
      <3> QED
        BY <3>4, <3>6 DEF Joins
    <2> QED
      BY <2>1
  <1>3. \A n \in Nat : n \in Has
    <2> HIDE DEF Has
    <2> QED
      BY <1>1, <1>2, Induction
  <1> QED
    BY <1>3

LEMMA JoinsUnique ==
    ASSUME NEW s, NEW f, NEW g, NEW m \in Nat, Joins(f, s, m), Joins(g, s, m)
    PROVE  \A i \in 1 .. m : f[i] = g[i]
  <1> DEFINE Same == {n \in Nat : n \in 1 .. m => f[n] = g[n]}
  <1>1. 0 \in Same
    OBVIOUS
  <1>2. ASSUME NEW n \in Nat, n \in Same
        PROVE  n + 1 \in Same
    <2>1. ASSUME n + 1 \in 1 .. m
          PROVE  f[n + 1] = g[n + 1]
      <3>1. /\ f[n + 1] = IF n + 1 = 1 THEN s[n + 1] ELSE f[(n + 1) - 1] \o s[n + 1]
            /\ g[n + 1] = IF n + 1 = 1 THEN s[n + 1] ELSE g[(n + 1) - 1] \o s[n + 1]
        BY <2>1 DEF Joins
      <3>2. (n + 1) - 1 = n /\ (n + 1 = 1 \/ n \in 1 .. m)
        BY <2>1
      <3> QED
        BY <1>2, <2>1, <3>1, <3>2
    <2> QED
      BY <2>1
  <1>3. \A n \in Nat : n \in Same
    <2> HIDE DEF Same
    <2> QED
      BY <1>1, <1>2, Induction
  <1> QED
    BY <1>3

LEMMA FlattenIs ==
    ASSUME NEW S, NEW s \in Seq(Seq(S)), s # <<>>,
           NEW g \in [1 .. Len(s) -> Seq(S)], Joins(g, s, Len(s))
    PROVE  FlattenSeq(s) = g[Len(s)]
  <1> DEFINE f == CHOOSE f : f = [i \in 1 .. Len(s) |-> IF i = 1 THEN s[i] ELSE f[i - 1] \o s[i]]
  <1>1. g = [i \in 1 .. Len(s) |-> IF i = 1 THEN s[i] ELSE g[i - 1] \o s[i]]
    BY DEF Joins
  <1>2. f = [i \in 1 .. Len(s) |-> IF i = 1 THEN s[i] ELSE f[i - 1] \o s[i]]
    BY <1>1
  <1>3. FlattenSeq(s) = f[Len(s)]
    BY DEF FlattenSeq
  <1> HIDE DEF f
  <1>4. Joins(f, s, Len(s))
    BY <1>2 DEF Joins
  <1>5. f[Len(s)] = g[Len(s)]
    BY <1>4, JoinsUnique
  <1> QED
    BY <1>3, <1>5

LEMMA AppendFacts ==
    ASSUME NEW T, NEW s \in Seq(T), NEW e \in T
    PROVE  /\ Append(s, e) \in Seq(T) /\ Append(s, e) # <<>>
           /\ Len(s) \in Nat /\ Len(Append(s, e)) = Len(s) + 1
           /\ \A i \in 1 .. Len(s) : Append(s, e)[i] = s[i]
           /\ Append(s, e)[Len(s) + 1] = e
  OBVIOUS

(* A last member more.                                                      *)
LEMMA FlattenAppend ==
    ASSUME NEW S, NEW s \in Seq(Seq(S)), NEW e \in Seq(S)
    PROVE  /\ FlattenSeq(s) \in Seq(S)
           /\ FlattenSeq(Append(s, e)) = FlattenSeq(s) \o e
  <1> DEFINE r == Append(s, e)
  <1>1. PICK n \in Nat : n = Len(s)
    OBVIOUS
  <1>2. /\ r \in Seq(Seq(S)) /\ r # <<>> /\ n \in Nat /\ Len(r) = n + 1
        /\ \A i \in 1 .. n : r[i] = s[i]
        /\ r[n + 1] = e
    BY <1>1, AppendFacts
  <1> HIDE DEF r
  <1>3. PICK g \in [1 .. n + 1 -> Seq(S)] : Joins(g, r, n + 1)
    <2>1. r \in Seq(Seq(S))
      BY <1>2
    <2>2. \E g \in [1 .. Len(r) -> Seq(S)] : Joins(g, r, Len(r))
      BY <2>1, JoinsExists
    <2> QED
      BY <1>2, <2>2
  <1>4. FlattenSeq(r) = g[n + 1]
    BY <1>2, <1>3, FlattenIs
  <1>5. CASE s = <<>>
    <2>1. n = 0
      BY <1>1, <1>5
    <2>2. FlattenSeq(s) = <<>>
      BY <1>5 DEF FlattenSeq
    <2>3. FlattenSeq(r) = e
      BY <1>2, <1>3, <1>4, <2>1 DEF Joins
    <2> QED
      BY <2>2, <2>3 DEF r
  <1>6. CASE s # <<>>
    <2> DEFINE f == [i \in 1 .. n |-> g[i]]
    <2>1. /\ n \in 1 .. n /\ n + 1 \in 1 .. n + 1 /\ n + 1 # 1 /\ (n + 1) - 1 = n
          /\ \A i \in 1 .. n : i \in 1 .. n + 1 /\ (i # 1 => i - 1 \in 1 .. n)
      BY <1>1, <1>6
    <2>2. f \in [1 .. n -> Seq(S)] /\ Joins(f, s, n)
      BY <1>2, <1>3, <2>1 DEF Joins
    <2>3. FlattenSeq(s) = g[n]
      <3>1. f[n] = g[n] /\ s # <<>>
        BY <1>1, <1>6, <2>1
      <3> HIDE DEF f
      <3> QED
        BY <1>1, <2>2, <3>1, FlattenIs
    <2>4. g[n + 1] = g[n] \o e
      BY <1>2, <1>3, <2>1 DEF Joins
    <2> QED
      BY <1>3, <1>4, <2>1, <2>3, <2>4 DEF r
  <1> QED
    BY <1>5, <1>6
----------------------------------------------------------------------------
(* Transcripts.                                                             *)

Events ==
    {<<"S">>, <<"Sr">>} \cup ({"A"} \X BOOLEAN \X BOOLEAN)
        \cup ({"W", "R"} \X Nat \X Nat \X BOOLEAN)

(* The events of the first m messages, and how many they are.               *)
Upto(t, m) == FlattenSeq([i \in 1 .. m |-> FrameTranscript(t, i)])
Offset(t, m) == Len(Upto(t, m))

LEMMA MessageType ==
    ASSUME NEW t \in Transaction
    PROVE  /\ Count(t) \in Nat /\ Count(t) > 0
           /\ \A i \in 1 .. Count(t) :
                 /\ Msgs[t][i].len \in Nat
                 /\ Msgs[t][i].read \in BOOLEAN
                 /\ Msgs[t][i].read => Msgs[t][i].len > 0
  <1>1. Msgs[t] \in Seq(Message) /\ Msgs[t] # <<>>
    BY MsgsAssumption
  <1>2. Count(t) \in Nat /\ Count(t) > 0
    BY <1>1 DEF Count
  <1>3. \A i \in 1 .. Count(t) : Msgs[t][i] \in Message
    BY <1>1 DEF Count
  <1> QED
    BY <1>2, <1>3 DEF Message

(* A sequence of two, and more.                                             *)
LEMMA TwoAndMore ==
    ASSUME NEW S, NEW a \in S, NEW b \in S, NEW n \in Nat, NEW f \in [1 .. n -> S]
    PROVE  /\ <<a, b>> \o f \in Seq(S)
           /\ Len(<<a, b>> \o f) = 2 + n
           /\ (<<a, b>> \o f)[1] = a /\ (<<a, b>> \o f)[2] = b
           /\ \A k \in 1 .. n : (<<a, b>> \o f)[2 + k] = f[k]
  <1>1. f \in Seq(S) /\ Len(f) = n
    OBVIOUS
  <1>2. <<a, b>> \in Seq(S) /\ Len(<<a, b>>) = 2
    OBVIOUS
  <1> QED
    BY <1>1, <1>2

LEMMA FrameFacts ==
    ASSUME NEW t \in Transaction, NEW i \in 1 .. Count(t)
    PROVE  /\ FrameTranscript(t, i) \in Seq(Events)
           /\ Len(FrameTranscript(t, i)) = 2 + Msgs[t][i].len
           /\ FrameTranscript(t, i)[1] = IF i = 1 THEN <<"S">> ELSE <<"Sr">>
           /\ FrameTranscript(t, i)[2] = <<"A", Msgs[t][i].read, TRUE>>
           /\ \A k \in 1 .. Msgs[t][i].len :
                 FrameTranscript(t, i)[2 + k] =
                    IF Msgs[t][i].read THEN <<"R", i - 1, k - 1, k < Msgs[t][i].len>>
                                       ELSE <<"W", i - 1, k - 1, TRUE>>
  <1> DEFINE m == Msgs[t][i]
             a == IF i = 1 THEN <<"S">> ELSE <<"Sr">>
             b == <<"A", m.read, TRUE>>
             f == [k \in 1 .. m.len |-> IF m.read THEN <<"R", i - 1, k - 1, k < m.len>>
                                                  ELSE <<"W", i - 1, k - 1, TRUE>>]
  <1>1. m.len \in Nat /\ m.read \in BOOLEAN
    BY MessageType
  <1>2. FrameTranscript(t, i) = <<a, b>> \o f
    BY DEF FrameTranscript
  <1> HIDE DEF m
  <1>3. a \in Events /\ b \in Events
    BY <1>1 DEF Events
  <1>4. f \in [1 .. m.len -> Events]
    <2>1. ASSUME NEW k \in 1 .. m.len
          PROVE  /\ <<"R", i - 1, k - 1, k < m.len>> \in Events
                 /\ <<"W", i - 1, k - 1, TRUE>> \in Events
      <3>1. i - 1 \in Nat /\ k - 1 \in Nat /\ (k < m.len) \in BOOLEAN
        BY <1>1
      <3> QED
        BY <3>1 DEF Events
    <2> QED
      BY <2>1
  <1> HIDE DEF a, b, f
  <1>5. /\ <<a, b>> \o f \in Seq(Events)
        /\ Len(<<a, b>> \o f) = 2 + m.len
        /\ (<<a, b>> \o f)[1] = a /\ (<<a, b>> \o f)[2] = b
        /\ \A k \in 1 .. m.len : (<<a, b>> \o f)[2 + k] = f[k]
    BY <1>1, <1>3, <1>4, TwoAndMore
  <1>6. /\ FrameTranscript(t, i) \in Seq(Events)
        /\ Len(FrameTranscript(t, i)) = 2 + m.len
        /\ FrameTranscript(t, i)[1] = a /\ FrameTranscript(t, i)[2] = b
        /\ \A k \in 1 .. m.len : FrameTranscript(t, i)[2 + k] = f[k]
    BY <1>2, <1>5
  <1>7. \A k \in 1 .. m.len : f[k] = IF m.read THEN <<"R", i - 1, k - 1, k < m.len>>
                                               ELSE <<"W", i - 1, k - 1, TRUE>>
    BY DEF f
  <1> QED
    BY <1>6, <1>7 DEF a, b, m

LEMMA UptoNone ==
    ASSUME NEW t
    PROVE  Upto(t, 0) = <<>>
  <1>1. [i \in 1 .. 0 |-> FrameTranscript(t, i)] = <<>>
    OBVIOUS
  <1> QED
    BY <1>1 DEF Upto, FlattenSeq

LEMMA UptoNext ==
    ASSUME NEW t \in Transaction, NEW m \in Nat, m < Count(t)
    PROVE  /\ Upto(t, m) \in Seq(Events)
           /\ Upto(t, m + 1) = Upto(t, m) \o FrameTranscript(t, m + 1)
  <1> DEFINE F(i) == FrameTranscript(t, i)
             s == [i \in 1 .. m |-> F(i)]
  <1>1. \A i \in 1 .. m + 1 : F(i) \in Seq(Events)
    <2>1. \A i \in 1 .. m + 1 : i \in 1 .. Count(t)
      BY MessageType
    <2> QED
      BY <2>1, FrameFacts
  <1> HIDE DEF F
  <1> DEFINE T == Seq(Events)
  <1>2. s \in Seq(T) /\ F(m + 1) \in T /\ Append(s, F(m + 1)) = [i \in 1 .. m + 1 |-> F(i)]
    <2> HIDE DEF T
    <2>1. \A i \in 1 .. m + 1 : F(i) \in T
      BY <1>1 DEF T
    <2>2. s \in Seq(T) /\ Len(s) = m /\ F(m + 1) \in T
      BY <2>1
    <2> QED
      BY <2>1, <2>2
  <1>3. /\ FlattenSeq(s) \in Seq(Events)
        /\ FlattenSeq(Append(s, F(m + 1))) = FlattenSeq(s) \o F(m + 1)
    <2> HIDE DEF s
    <2> QED
      BY <1>2, FlattenAppend
  <1> QED
    BY <1>2, <1>3 DEF Upto, F

LEMMA Joined ==
    ASSUME NEW S, NEW u \in Seq(S), NEW v \in Seq(S)
    PROVE  /\ Len(u \o v) = Len(u) + Len(v)
           /\ \A k \in 1 .. Len(u) : (u \o v)[k] = u[k]
           /\ \A k \in 1 .. Len(v) : (u \o v)[Len(u) + k] = v[k]
  OBVIOUS

(* One message more: what it adds, and that it changes nothing before.      *)
LEMMA UptoStep ==
    ASSUME NEW t \in Transaction, NEW m \in Nat, m < Count(t)
    PROVE  /\ Offset(t, m) \in Nat
           /\ Offset(t, m + 1) = Offset(t, m) + 2 + Msgs[t][m + 1].len
           /\ \A k \in 1 .. Offset(t, m) : Upto(t, m + 1)[k] = Upto(t, m)[k]
           /\ \A k \in 1 .. 2 + Msgs[t][m + 1].len :
                 Upto(t, m + 1)[Offset(t, m) + k] = FrameTranscript(t, m + 1)[k]
  <1> DEFINE u == Upto(t, m)
             f == FrameTranscript(t, m + 1)
             n == Msgs[t][m + 1].len
  <1>1. m + 1 \in 1 .. Count(t)
    BY MessageType
  <1>2. u \in Seq(Events) /\ Upto(t, m + 1) = u \o f
    BY UptoNext
  <1>3. f \in Seq(Events) /\ Len(f) = 2 + n /\ n \in Nat
    BY <1>1, FrameFacts, MessageType
  <1> HIDE DEF u, f, n
  <1>4. /\ Len(u \o f) = Len(u) + Len(f)
        /\ \A k \in 1 .. Len(u) : (u \o f)[k] = u[k]
        /\ \A k \in 1 .. Len(f) : (u \o f)[Len(u) + k] = f[k]
        /\ Len(u) \in Nat
    <2>1. u \in Seq(Events) /\ f \in Seq(Events)
      BY <1>2, <1>3
    <2>2. Len(u) \in Nat
      BY <2>1
    <2> QED
      BY <2>1, <2>2, Joined
  <1>5. \A k \in 1 .. 2 + n : (u \o f)[Len(u) + k] = f[k]
    BY <1>3, <1>4
  <1>6. Len(u \o f) = Len(u) + 2 + n
    <2>1. Len(u \o f) = Len(u) + (2 + n)
      BY <1>3, <1>4
    <2> QED
      BY <1>3, <1>4, <2>1
  <1> QED
    BY <1>2, <1>4, <1>5, <1>6 DEF Offset, u, f, n

LEMMA UptoGrows ==
    ASSUME NEW t \in Transaction
    PROVE  \A n \in Nat : n <= Count(t) =>
              \A m \in 0 .. n :
                 /\ Offset(t, m) \in Nat /\ Offset(t, n) \in Nat
                 /\ Offset(t, m) <= Offset(t, n)
                 /\ \A k \in 1 .. Offset(t, m) : Upto(t, n)[k] = Upto(t, m)[k]
  <1> DEFINE Keeps(n) ==
                n <= Count(t) =>
                  \A m \in 0 .. n :
                     /\ Offset(t, m) \in Nat /\ Offset(t, n) \in Nat
                     /\ Offset(t, m) <= Offset(t, n)
                     /\ \A k \in 1 .. Offset(t, m) : Upto(t, n)[k] = Upto(t, m)[k]
             All == {n \in Nat : Keeps(n)}
  <1>1. 0 \in All
    <2>1. Offset(t, 0) = 0
      BY UptoNone DEF Offset
    <2> QED
      BY <2>1
  <1>2. ASSUME NEW n \in Nat, n \in All
        PROVE  n + 1 \in All
    <2>1. SUFFICES ASSUME n + 1 <= Count(t), NEW m \in 0 .. n + 1
                   PROVE  /\ Offset(t, m) \in Nat /\ Offset(t, n + 1) \in Nat
                          /\ Offset(t, m) <= Offset(t, n + 1)
                          /\ \A k \in 1 .. Offset(t, m) : Upto(t, n + 1)[k] = Upto(t, m)[k]
      OBVIOUS
    <2>2. Keeps(n) /\ n < Count(t) /\ n <= Count(t)
      BY <1>2, <2>1, MessageType
    <2>3. /\ Offset(t, n) \in Nat
          /\ Offset(t, n + 1) = Offset(t, n) + 2 + Msgs[t][n + 1].len
          /\ \A k \in 1 .. Offset(t, n) : Upto(t, n + 1)[k] = Upto(t, n)[k]
      BY <2>2, UptoStep
    <2>4. Msgs[t][n + 1].len \in Nat
      BY <2>1, MessageType
    <2>5. CASE m = n + 1
      BY <2>3, <2>4, <2>5
    <2>6. CASE m \in 0 .. n
      <3>1. /\ Offset(t, m) \in Nat
            /\ Offset(t, m) <= Offset(t, n)
            /\ \A k \in 1 .. Offset(t, m) : Upto(t, n)[k] = Upto(t, m)[k]
        BY <2>2, <2>6
      <3> QED
        BY <2>3, <2>4, <3>1
    <2> QED
      BY <2>5, <2>6
  <1>3. \A n \in Nat : n \in All
    <2> HIDE DEF All
    <2> QED
      BY <1>1, <1>2, Induction
  <1> QED
    BY <1>3

(* Where message m + 1 is in the transcript of its transaction.             *)
LEMMA Positions ==
    ASSUME NEW t \in Transaction, NEW m \in Nat, m < Count(t)
    PROVE  /\ Offset(t, m) \in Nat
           /\ m = 0 => Offset(t, m) = 0
           /\ Msgs[t][m + 1].len \in Nat /\ Msgs[t][m + 1].read \in BOOLEAN
           /\ Offset(t, m + 1) = Offset(t, m) + 2 + Msgs[t][m + 1].len
           /\ Len(Transcript(t)) \in Nat
           /\ Offset(t, m + 1) <= Len(Transcript(t))
           /\ m + 1 = Count(t) => Offset(t, m + 1) = Len(Transcript(t))
           /\ Transcript(t)[Offset(t, m) + 1] = IF m = 0 THEN <<"S">> ELSE <<"Sr">>
           /\ Transcript(t)[Offset(t, m) + 2] = <<"A", Msgs[t][m + 1].read, TRUE>>
           /\ \A k \in 1 .. Msgs[t][m + 1].len :
                 Transcript(t)[Offset(t, m) + 2 + k] =
                    IF Msgs[t][m + 1].read
                    THEN <<"R", m, k - 1, k < Msgs[t][m + 1].len>>
                    ELSE <<"W", m, k - 1, TRUE>>
           /\ \A k \in 1 .. Offset(t, m) : Transcript(t)[k] = Upto(t, m)[k]
  <1> DEFINE T == Transcript(t)
             n == Msgs[t][m + 1].len
             f == FrameTranscript(t, m + 1)
             o == Offset(t, m)
             c == Count(t)
  <1>1. c \in Nat /\ m + 1 \in 1 .. c /\ m + 1 \in 0 .. c /\ m \in 0 .. c /\ (m + 1) - 1 = m
        /\ (m + 1 = 1 <=> m = 0)
    BY MessageType
  <1>2. T = Upto(t, c) /\ Len(T) = Offset(t, c)
    BY DEF Transcript, Upto, Offset
  <1>3. n \in Nat /\ Msgs[t][m + 1].read \in BOOLEAN
    BY <1>1, MessageType
  <1>4. /\ o \in Nat
        /\ Offset(t, m + 1) = o + 2 + n
        /\ \A k \in 1 .. o : Upto(t, m + 1)[k] = Upto(t, m)[k]
        /\ \A k \in 1 .. 2 + n : Upto(t, m + 1)[o + k] = f[k]
    BY UptoStep
  <1>5. /\ Offset(t, c) \in Nat
        /\ Offset(t, m + 1) <= Offset(t, c)
        /\ \A k \in 1 .. Offset(t, m + 1) : Upto(t, c)[k] = Upto(t, m + 1)[k]
        /\ \A k \in 1 .. Offset(t, m) : Upto(t, c)[k] = Upto(t, m)[k]
    BY <1>1, UptoGrows
  <1>6. \A k \in 1 .. 2 + n : o + k \in 1 .. Offset(t, m + 1) /\ T[o + k] = f[k]
    <2> HIDE DEF n, o, T
    <2> QED
      BY <1>2, <1>3, <1>4, <1>5
  <1>7. /\ f[1] = IF m = 0 THEN <<"S">> ELSE <<"Sr">>
        /\ f[2] = <<"A", Msgs[t][m + 1].read, TRUE>>
        /\ \A k \in 1 .. n :
                 f[2 + k] = IF Msgs[t][m + 1].read THEN <<"R", m, k - 1, k < n>>
                                                   ELSE <<"W", m, k - 1, TRUE>>
    <2>1. /\ f[1] = IF m + 1 = 1 THEN <<"S">> ELSE <<"Sr">>
          /\ f[2] = <<"A", Msgs[t][m + 1].read, TRUE>>
          /\ \A k \in 1 .. n :
                   f[2 + k] = IF Msgs[t][m + 1].read THEN <<"R", (m + 1) - 1, k - 1, k < n>>
                                                     ELSE <<"W", (m + 1) - 1, k - 1, TRUE>>
      BY <1>1, FrameFacts
    <2> HIDE DEF f, n
    <2> QED
      BY <1>1, <2>1
  <1>8. /\ T[o + 1] = f[1] /\ T[o + 2] = f[2]
        /\ \A k \in 1 .. n : T[o + 2 + k] = f[2 + k]
    <2> HIDE DEF n, o, T, f
    <2>1. 1 \in 1 .. 2 + n /\ 2 \in 1 .. 2 + n
      BY <1>3
    <2>2. \A k \in 1 .. n : 2 + k \in 1 .. 2 + n /\ o + (2 + k) = o + 2 + k
      BY <1>3, <1>4
    <2> QED
      BY <1>6, <2>1, <2>2
  <1>9. m = 0 => o = 0
    BY UptoNone DEF Offset
  <1> HIDE DEF n, o, T, f, c
  <1>10. m + 1 = c => Offset(t, m + 1) = Len(T)
    BY <1>2
  <1>11. Len(T) \in Nat /\ Offset(t, m + 1) <= Len(T)
    BY <1>2, <1>5
  <1>12. \A k \in 1 .. o : T[k] = Upto(t, m)[k]
    BY <1>2, <1>5 DEF o
  <1> QED
    BY <1>3, <1>4, <1>7, <1>8, <1>9, <1>10, <1>11, <1>12 DEF n, o, T, f, c
----------------------------------------------------------------------------
(* Events.                                                                  *)

LEMMA FrontAppend ==
    ASSUME NEW S, NEW s \in Seq(S), NEW a \in S
    PROVE  Front(Append(s, a)) = s
  <1>1. /\ Append(s, a) \in Seq(S) /\ Len(Append(s, a)) = Len(s) + 1
        /\ \A i \in 1 .. Len(s) : Append(s, a)[i] = s[i]
    BY AppendFacts
  <1> DEFINE r == Append(s, a)
  <1>2. PICK n \in Nat : n = Len(s)
    OBVIOUS
  <1>3. r \in Seq(S) /\ Len(r) - 1 = n /\ \A i \in 1 .. n : r[i] = s[i]
    BY <1>1, <1>2
  <1> HIDE DEF r
  <1>4. SubSeq(r, 1, n) = s
    BY <1>2, <1>3
  <1> QED
    BY <1>3, <1>4 DEF Front, r

LEMMA ThreeOf ==
    ASSUME NEW S, NEW a \in S, NEW b \in S, NEW c \in S
    PROVE  Append(<<a, b>>, c) = <<a, b, c>>
  <1>1. Append(<<a, b>>, c) \in Seq(S) /\ <<a, b, c>> \in Seq(S)
    OBVIOUS
  <1>2. Len(Append(<<a, b>>, c)) = Len(<<a, b, c>>)
    OBVIOUS
  <1>3. \A i \in 1 .. Len(<<a, b, c>>) : Append(<<a, b>>, c)[i] = <<a, b, c>>[i]
    OBVIOUS
  <1> QED
    BY <1>1, <1>2, <1>3, SeqEqual

LEMMA FourOf ==
    ASSUME NEW S, NEW a \in S, NEW b \in S, NEW c \in S, NEW d \in S
    PROVE  Append(<<a, b, c>>, d) = <<a, b, c, d>>
  <1>1. Append(<<a, b, c>>, d) \in Seq(S) /\ <<a, b, c, d>> \in Seq(S)
    OBVIOUS
  <1>2. Len(Append(<<a, b, c>>, d)) = Len(<<a, b, c, d>>)
    OBVIOUS
  <1>3. \A i \in 1 .. Len(<<a, b, c, d>>) : Append(<<a, b, c>>, d)[i] = <<a, b, c, d>>[i]
    OBVIOUS
  <1> QED
    BY <1>1, <1>2, <1>3, SeqEqual

LEMMA StartEvents ==
    /\ ~Refused(<<"S">>) /\ ~Refused(<<"Sr">>)
    /\ Asked(<<"S">>) = <<"S">> /\ Asked(<<"Sr">>) = <<"Sr">>
  <1>1. <<"S">>[1] = "S" /\ <<"Sr">>[1] = "Sr"
    OBVIOUS
  <1> QED
    BY <1>1 DEF Refused, Asked

LEMMA AddressEvents ==
    ASSUME NEW r, NEW ack \in BOOLEAN
    PROVE  /\ Append(<<"A", r>>, ack) = <<"A", r, ack>>
           /\ Refused(<<"A", r, ack>>) <=> ~ack
           /\ Asked(<<"A", r, ack>>) = <<"A", r>>
  <1>1. Append(<<"A", r>>, ack) = <<"A", r, ack>>
    <2> DEFINE S == {"A", r, ack}
    <2>1. "A" \in S /\ r \in S /\ ack \in S
      OBVIOUS
    <2> HIDE DEF S
    <2> QED
      BY <2>1, ThreeOf
  <1>2. Refused(<<"A", r, ack>>) <=> ~ack
    BY DEF Refused, Last
  <1>3. Asked(<<"A", r, ack>>) = <<"A", r>>
    <2> DEFINE S == {"A", r, ack}
    <2>1. <<"A", r>> \in Seq(S) /\ ack \in S
      OBVIOUS
    <2>2. Front(Append(<<"A", r>>, ack)) = <<"A", r>>
      <3> HIDE DEF S
      <3> QED
        BY <2>1, FrontAppend
    <2> QED
      BY <1>1, <2>2 DEF Asked
  <1> QED
    BY <1>1, <1>2, <1>3

LEMMA WriteEvents ==
    ASSUME NEW m, NEW b, NEW ack \in BOOLEAN
    PROVE  /\ Append(<<"W", m, b>>, ack) = <<"W", m, b, ack>>
           /\ Refused(<<"W", m, b, ack>>) <=> ~ack
           /\ Asked(<<"W", m, b, ack>>) = <<"W", m, b>>
  <1>1. Append(<<"W", m, b>>, ack) = <<"W", m, b, ack>>
    <2> DEFINE S == {"W", m, b, ack}
    <2>1. "W" \in S /\ m \in S /\ b \in S /\ ack \in S
      OBVIOUS
    <2> HIDE DEF S
    <2> QED
      BY <2>1, FourOf
  <1>2. Refused(<<"W", m, b, ack>>) <=> ~ack
    BY DEF Refused, Last
  <1>3. Asked(<<"W", m, b, ack>>) = <<"W", m, b>>
    <2> DEFINE S == {"W", m, b, ack}
    <2>1. <<"W", m, b>> \in Seq(S) /\ ack \in S
      OBVIOUS
    <2>2. Front(Append(<<"W", m, b>>, ack)) = <<"W", m, b>>
      <3> HIDE DEF S
      <3> QED
        BY <2>1, FrontAppend
    <2> QED
      BY <1>1, <2>2 DEF Asked
  <1> QED
    BY <1>1, <1>2, <1>3

LEMMA ReadEvents ==
    ASSUME NEW m, NEW b, NEW ack
    PROVE  /\ ~Refused(<<"R", m, b, ack>>)
           /\ Asked(<<"R", m, b, ack>>) = <<"R", m, b, ack>>
  <1>1. <<"R", m, b, ack>>[1] = "R"
    OBVIOUS
  <1> QED
    BY <1>1 DEF Refused, Asked

LEMMA AckedEvents ==
    ASSUME NEW r, NEW m, NEW b
    PROVE  /\ ~Refused(<<"A", r, TRUE>>) /\ <<"A", r, TRUE>>[1] = "A"
           /\ ~Refused(<<"W", m, b, TRUE>>) /\ <<"W", m, b, TRUE>>[1] = "W"
  BY DEF Refused, Last

Starts(s, n) == {k \in 1 .. n : s[k][1] \in {"S", "Sr"}}

(* What message m + 1 adds to the transcript.                               *)
LEMMA MessageEvents ==
    ASSUME NEW t \in Transaction, NEW m \in Nat, m < Count(t)
    PROVE  /\ Transcript(t)[Offset(t, m) + 1][1] \in {"S", "Sr"}
           /\ \A k \in Offset(t, m) + 1 .. Offset(t, m + 1) : ~Refused(Transcript(t)[k])
           /\ \A k \in Offset(t, m) + 2 .. Offset(t, m + 1) :
                 Transcript(t)[k][1] \notin {"S", "Sr"}
           /\ \A k \in Offset(t, m) + 1 .. Offset(t, m + 1) :
                 Transcript(t)[k][1] = "R" =>
                    /\ k > Offset(t, m) + 2
                    /\ Transcript(t)[k][2] = m
           /\ Msgs[t][m + 1].read =>
                 \A k \in Offset(t, m) + 3 .. Offset(t, m + 1) : Transcript(t)[k][1] = "R"
  <1> DEFINE T == Transcript(t)
             o == Offset(t, m)
             n == Msgs[t][m + 1].len
             r == Msgs[t][m + 1].read
  <1>1. /\ o \in Nat /\ n \in Nat /\ r \in BOOLEAN
        /\ Offset(t, m + 1) = o + 2 + n
        /\ T[o + 1] = IF m = 0 THEN <<"S">> ELSE <<"Sr">>
        /\ T[o + 2] = <<"A", r, TRUE>>
        /\ \A k \in 1 .. n : T[o + 2 + k] = IF r THEN <<"R", m, k - 1, k < n>>
                                                 ELSE <<"W", m, k - 1, TRUE>>
    BY Positions
  <1> HIDE DEF T, o, n, r
  <1>2. /\ T[o + 1][1] \in {"S", "Sr"} /\ T[o + 1][1] # "R"
        /\ ~Refused(T[o + 1])
    BY <1>1, StartEvents
  <1>3. /\ T[o + 2][1] = "A"
        /\ ~Refused(T[o + 2])
    BY <1>1, AckedEvents
  <1>4. ASSUME NEW k \in 1 .. n
        PROVE  /\ ~Refused(T[o + 2 + k])
               /\ T[o + 2 + k][1] \in {"R", "W"}
               /\ T[o + 2 + k][1] = "R" => T[o + 2 + k][2] = m
               /\ r => T[o + 2 + k][1] = "R"
    <2>1. CASE r
      <3>1. T[o + 2 + k] = <<"R", m, k - 1, k < n>>
        BY <1>1, <2>1
      <3> QED
        BY <3>1, ReadEvents
    <2>2. CASE ~r
      <3>1. T[o + 2 + k] = <<"W", m, k - 1, TRUE>>
        BY <1>1, <2>2
      <3> QED
        BY <2>2, <3>1, AckedEvents
    <2> QED
      BY <2>1, <2>2
  <1>5. ASSUME NEW k \in o + 1 .. o + 2 + n
        PROVE  k = o + 1 \/ k = o + 2 \/ (k - (o + 2) \in 1 .. n /\ o + 2 + (k - (o + 2)) = k)
    BY <1>1
  <1>6. ASSUME NEW k \in o + 3 .. o + 2 + n
        PROVE  /\ ~Refused(T[k])
               /\ T[k][1] \in {"R", "W"}
               /\ T[k][1] = "R" => T[k][2] = m
               /\ r => T[k][1] = "R"
    <2> DEFINE j == k - (o + 2)
    <2>1. j \in 1 .. n /\ o + 2 + j = k
      BY <1>1
    <2> HIDE DEF j
    <2>2. /\ ~Refused(T[o + 2 + j])
          /\ T[o + 2 + j][1] \in {"R", "W"}
          /\ T[o + 2 + j][1] = "R" => T[o + 2 + j][2] = m
          /\ r => T[o + 2 + j][1] = "R"
      BY <1>4, <2>1
    <2> QED
      BY <2>1, <2>2
  <1>7. \A k \in o + 1 .. o + 2 + n : k = o + 1 \/ k = o + 2 \/ k \in o + 3 .. o + 2 + n
    BY <1>1
  <1>8. \A k \in o + 2 .. o + 2 + n : k = o + 2 \/ k \in o + 3 .. o + 2 + n
    BY <1>1
  <1>9. \A k \in o + 1 .. o + 2 + n : ~Refused(T[k])
    BY <1>2, <1>3, <1>6, <1>7
  <1>10. \A k \in o + 2 .. o + 2 + n : T[k][1] \notin {"S", "Sr"}
    BY <1>3, <1>6, <1>8
  <1>11. \A k \in o + 1 .. o + 2 + n : T[k][1] = "R" => k > o + 2 /\ T[k][2] = m
    <2>1. \A k \in o + 3 .. o + 2 + n : k > o + 2
      BY <1>1
    <2> QED
      BY <1>2, <1>3, <1>6, <1>7, <2>1
  <1>12. r => \A k \in o + 3 .. o + 2 + n : T[k][1] = "R"
    BY <1>6
  <1> QED
    BY <1>1, <1>2, <1>9, <1>10, <1>11, <1>12 DEF T, o, r, n

LEMMA TranscriptSoFar ==
    ASSUME NEW t \in Transaction
    PROVE  \A m \in Nat : m <= Count(t) =>
              /\ Offset(t, m) \in Nat
              /\ IsFiniteSet(Starts(Transcript(t), Offset(t, m)))
              /\ Cardinality(Starts(Transcript(t), Offset(t, m))) = m
              /\ \A k \in 1 .. Offset(t, m) :
                    /\ ~Refused(Transcript(t)[k])
                    /\ Transcript(t)[k][1] = "R" =>
                          Transcript(t)[k][2] \in Nat /\ Transcript(t)[k][2] < m
  <1> DEFINE T == Transcript(t)
             So(m) == m <= Count(t) =>
                        /\ Offset(t, m) \in Nat
                        /\ IsFiniteSet(Starts(T, Offset(t, m)))
                        /\ Cardinality(Starts(T, Offset(t, m))) = m
                        /\ \A k \in 1 .. Offset(t, m) :
                              /\ ~Refused(T[k])
                              /\ T[k][1] = "R" => T[k][2] \in Nat /\ T[k][2] < m
             All == {m \in Nat : So(m)}
  <1> HIDE DEF T
  <1>1. 0 \in All
    <2>1. Offset(t, 0) = 0
      BY UptoNone DEF Offset
    <2>2. Starts(T, 0) = {}
      BY DEF Starts
    <2> QED
      BY <2>1, <2>2, FS_EmptySet
  <1>2. ASSUME NEW m \in Nat, m \in All
        PROVE  m + 1 \in All
    <2>1. SUFFICES ASSUME m + 1 <= Count(t)
                   PROVE  So(m + 1)
      OBVIOUS
    <2> DEFINE o == Offset(t, m)
               p == Offset(t, m + 1)
    <2>2. m < Count(t) /\ m <= Count(t)
      BY <2>1, MessageType
    <2>3. /\ o \in Nat
          /\ IsFiniteSet(Starts(T, o)) /\ Cardinality(Starts(T, o)) = m
          /\ \A k \in 1 .. o : /\ ~Refused(T[k])
                               /\ T[k][1] = "R" => T[k][2] \in Nat /\ T[k][2] < m
      BY <1>2, <2>2
    <2>4. p \in Nat /\ p > o
      <3>1. /\ Offset(t, m + 1) = Offset(t, m) + 2 + Msgs[t][m + 1].len
            /\ Msgs[t][m + 1].len \in Nat
        BY <2>2, Positions
      <3> QED
        BY <2>3, <3>1
    <2>5. /\ T[o + 1][1] \in {"S", "Sr"}
          /\ \A k \in o + 1 .. p : ~Refused(T[k])
          /\ \A k \in o + 2 .. p : T[k][1] \notin {"S", "Sr"}
          /\ \A k \in o + 1 .. p : T[k][1] = "R" => T[k][2] = m
      BY <2>2, MessageEvents DEF T
    <2> HIDE DEF o, p
    <2>6. Starts(T, p) = Starts(T, o) \cup {o + 1} /\ o + 1 \notin Starts(T, o)
      BY <2>3, <2>4, <2>5 DEF Starts
    <2>7. IsFiniteSet(Starts(T, p)) /\ Cardinality(Starts(T, p)) = m + 1
      BY <2>3, <2>6, FS_AddElement
    <2>8. \A k \in 1 .. p : k \in 1 .. o \/ k \in o + 1 .. p
      BY <2>3, <2>4
    <2>9. \A k \in 1 .. p : /\ ~Refused(T[k])
                            /\ T[k][1] = "R" => T[k][2] \in Nat /\ T[k][2] < m + 1
      BY <2>3, <2>5, <2>8
    <2> QED
      BY <2>4, <2>7, <2>9 DEF p
  <1>3. \A m \in Nat : m \in All
    <2> HIDE DEF All
    <2> QED
      BY <1>1, <1>2, Induction
  <1> QED
    BY <1>3 DEF T

(* How the controller counts, see Frame and FrameByte.                      *)
StartsIn(w) == Cardinality({k \in DOMAIN w : w[k][1] \in {"S", "Sr"}})
BytesOf(w, m) == Cardinality({k \in DOMAIN w : w[k][1] = "R" /\ w[k][2] = m})

(* A byte of message m + 1 is counted right: the controller knows it by the *)
(* STARTs and by the bytes of this message before it.                       *)
LEMMA Counted ==
    ASSUME NEW t \in Transaction, NEW m \in Nat, m < Count(t), Msgs[t][m + 1].read,
           NEW j \in 0 .. Msgs[t][m + 1].len, NEW S, NEW w \in Seq(S),
           Len(w) = Offset(t, m) + (2 + j),
           \A k \in 1 .. Len(w) : w[k] = Transcript(t)[k]
    PROVE  StartsIn(w) - 1 = m /\ BytesOf(w, m) = j
  <1> DEFINE T == Transcript(t)
             o == Offset(t, m)
             p == Offset(t, m + 1)
             n == Msgs[t][m + 1].len
  <1>1. o \in Nat /\ n \in Nat /\ p = o + 2 + n
    BY Positions
  <1>2. /\ T[o + 1][1] \in {"S", "Sr"}
        /\ \A k \in o + 2 .. p : T[k][1] \notin {"S", "Sr"}
        /\ \A k \in o + 1 .. p : T[k][1] = "R" => k > o + 2 /\ T[k][2] = m
        /\ \A k \in o + 3 .. p : T[k][1] = "R"
    BY MessageEvents
  <1>3. /\ IsFiniteSet(Starts(T, o))
        /\ Cardinality(Starts(T, o)) = m
        /\ \A k \in 1 .. o : T[k][1] = "R" => T[k][2] \in Nat /\ T[k][2] < m
    <2>1. m <= Count(t)
      BY MessageType
    <2> QED
      BY <2>1, TranscriptSoFar
  <1>4. PICK q \in Nat : q = o + 2 + j
    BY <1>1
  <1>5. /\ q \in Nat /\ o + 2 <= q /\ q <= p /\ q - (o + 2) = j
    BY <1>1, <1>4
  <1>6. /\ DOMAIN w = 1 .. q
        /\ \A k \in 1 .. q : w[k] = T[k]
    BY <1>1, <1>4
  <1> HIDE DEF T, o, p, n
  <1>7. {k \in DOMAIN w : w[k][1] \in {"S", "Sr"}} = Starts(T, o) \cup {o + 1}
    <2>1. \A k \in 1 .. q : w[k][1] \in {"S", "Sr"} <=> T[k][1] \in {"S", "Sr"}
      BY <1>6
    <2>2. \A k \in 1 .. q : k \in 1 .. o \/ k = o + 1 \/ k \in o + 2 .. p
      BY <1>1, <1>5
    <2>3. \A k \in 1 .. o : k \in 1 .. q
      BY <1>1, <1>5
    <2>4. o + 1 \in 1 .. q
      BY <1>1, <1>5
    <2> QED
      BY <1>2, <1>6, <2>1, <2>2, <2>3, <2>4 DEF Starts
  <1>8. o + 1 \notin Starts(T, o)
    BY <1>1 DEF Starts
  <1>9. Cardinality({k \in DOMAIN w : w[k][1] \in {"S", "Sr"}}) = m + 1
    BY <1>3, <1>7, <1>8, FS_AddElement
  <1>10. {k \in DOMAIN w : w[k][1] = "R" /\ w[k][2] = m} = o + 3 .. q
    <2>1. \A k \in 1 .. q : (w[k][1] = "R" /\ w[k][2] = m) <=> (T[k][1] = "R" /\ T[k][2] = m)
      BY <1>6
    <2>2. \A k \in 1 .. q : k \in 1 .. o \/ k \in o + 1 .. p
      BY <1>1, <1>5
    <2>3. \A k \in 1 .. q : T[k][1] = "R" /\ T[k][2] = m => k > o + 2
      BY <1>2, <1>3, <2>2
    <2>4. \A k \in o + 3 .. q : k \in 1 .. q /\ k \in o + 3 .. p /\ k \in o + 1 .. p
      BY <1>1, <1>5
    <2>5. \A k \in o + 3 .. q : k \in 1 .. q /\ T[k][1] = "R" /\ T[k][2] = m
      BY <1>2, <2>4
    <2>6. \A k \in 1 .. q : k > o + 2 => k \in o + 3 .. q
      BY <1>1, <1>5
    <2> QED
      BY <1>6, <2>1, <2>3, <2>5, <2>6
  <1>11. Cardinality(o + 3 .. q) = j
    <2>1. o + 3 \in Int /\ q \in Int
      BY <1>1
    <2>2. Cardinality(o + 3 .. q) = IF o + 3 > q THEN 0 ELSE q - (o + 3) + 1
      BY <2>1, FS_Interval
    <2> QED
      BY <1>1, <1>5, <2>2
  <1>12. Cardinality({k \in DOMAIN w : w[k][1] = "R" /\ w[k][2] = m}) = j
    BY <1>10, <1>11
  <1>13. StartsIn(w) = m + 1 /\ BytesOf(w, m) = j
    BY <1>9, <1>12 DEF StartsIn, BytesOf
  <1> QED
    BY <1>13
----------------------------------------------------------------------------
(* The bytes read of the messages before message m + 1, and the first b     *)
(* bytes of this one if it is read.                                         *)
Bytes(i, n) == {<<i - 1, k - 1, <<"R", i - 1, k - 1>>>> : k \in 1 .. n}
Stored(t, m, b) ==
    UNION {Bytes(i, IF i = m + 1 THEN b ELSE Msgs[t][i].len) :
              i \in {j \in 1 .. m + 1 : Msgs[t][j].read}}

LEMMA StoredElements ==
    ASSUME NEW t, NEW m, NEW b, NEW x
    PROVE  x \in Stored(t, m, b) <=>
              \E i \in 1 .. m + 1 :
                 /\ Msgs[t][i].read
                 /\ x \in Bytes(i, IF i = m + 1 THEN b ELSE Msgs[t][i].len)
  BY DEF Stored

LEMMA StoredFacts ==
    ASSUME NEW t \in Transaction, NEW m \in Nat, m < Count(t), NEW b \in Nat
    PROVE  /\ Stored(t, 0, 0) = {}
           /\ ~Msgs[t][m + 1].read => Stored(t, m, b) = Stored(t, m, 0)
           /\ Msgs[t][m + 1].read =>
                 Stored(t, m, b + 1) = Stored(t, m, b) \cup {<<m, b, <<"R", m, b>>>>}
           /\ Stored(t, m + 1, 0) = Stored(t, m, Msgs[t][m + 1].len)
           /\ m + 1 = Count(t) => Stored(t, m, Msgs[t][m + 1].len) = Delivered(t)
  <1>1. \A i : Bytes(i, 0) = {}
    BY DEF Bytes
  <1>2. Stored(t, 0, 0) = {}
    <2>1. \A x : x \notin Stored(t, 0, 0)
      <3>1. \A i \in 1 .. 0 + 1 : i = 0 + 1
        OBVIOUS
      <3> QED
        BY <1>1, <3>1, StoredElements
    <2> QED
      BY <2>1
  <1>3. ASSUME ~Msgs[t][m + 1].read
        PROVE  Stored(t, m, b) = Stored(t, m, 0)
    <2>1. \A x : x \in Stored(t, m, b) <=> x \in Stored(t, m, 0)
      BY <1>3, StoredElements
    <2> QED
      BY <2>1
  <1>4. ASSUME Msgs[t][m + 1].read
        PROVE  Stored(t, m, b + 1) = Stored(t, m, b) \cup {<<m, b, <<"R", m, b>>>>}
    <2>1. Bytes(m + 1, b + 1) = Bytes(m + 1, b) \cup {<<m, b, <<"R", m, b>>>>}
      <3>1. 1 .. b + 1 = 1 .. b \cup {b + 1} /\ (m + 1) - 1 = m /\ (b + 1) - 1 = b
        OBVIOUS
      <3> QED
        BY <3>1 DEF Bytes
    <2>2. m + 1 \in 1 .. m + 1
      OBVIOUS
    <2>3. \A x : x \in Stored(t, m, b + 1) <=>
                    x \in Stored(t, m, b) \/ x = <<m, b, <<"R", m, b>>>>
      BY <1>4, <2>1, <2>2, StoredElements
    <2> QED
      BY <2>3
  <1>5. Stored(t, m + 1, 0) = Stored(t, m, Msgs[t][m + 1].len)
    <2>1. \A i \in 1 .. m + 1 : i \in 1 .. (m + 1) + 1 /\ i # (m + 1) + 1
      OBVIOUS
    <2>2. \A i \in 1 .. (m + 1) + 1 : i \in 1 .. m + 1 \/ i = (m + 1) + 1
      OBVIOUS
    <2>3. ASSUME NEW x
          PROVE  x \in Stored(t, m + 1, 0) <=> x \in Stored(t, m, Msgs[t][m + 1].len)
      <3>1. x \in Stored(t, m + 1, 0) <=>
              \E i \in 1 .. m + 1 : Msgs[t][i].read /\ x \in Bytes(i, Msgs[t][i].len)
        BY <1>1, <2>1, <2>2, StoredElements
      <3>2. x \in Stored(t, m, Msgs[t][m + 1].len) <=>
              \E i \in 1 .. m + 1 : Msgs[t][i].read /\ x \in Bytes(i, Msgs[t][i].len)
        BY StoredElements
      <3> QED
        BY <3>1, <3>2
    <2> QED
      BY <2>3
  <1>6. ASSUME m + 1 = Count(t)
        PROVE  Stored(t, m, Msgs[t][m + 1].len) = Delivered(t)
    <2>1. ASSUME NEW x
          PROVE  x \in Stored(t, m, Msgs[t][m + 1].len) <=> x \in Delivered(t)
      <3>1. x \in Stored(t, m, Msgs[t][m + 1].len) <=>
              \E i \in 1 .. m + 1 : Msgs[t][i].read /\ x \in Bytes(i, Msgs[t][i].len)
        BY StoredElements
      <3>2. x \in Delivered(t) <=>
              \E i \in 1 .. Count(t) : Msgs[t][i].read /\ x \in Bytes(i, Msgs[t][i].len)
        BY DEF Delivered, Bytes
      <3> QED
        BY <1>6, <3>1, <3>2
    <2> QED
      BY <2>1
  <1> QED
    BY <1>2, <1>3, <1>4, <1>5, <1>6

----------------------------------------------------------------------------
(* The inductive invariant.                                                 *)

(* w is the transcript of t up to its message m + 1 and j events of this;   *)
(* or it is so but for the last event.                                      *)
SentAt(w, t, m, j) ==
    /\ Len(w) = Offset(t, m) + j
    /\ \A k \in 1 .. Len(w) : w[k] = Transcript(t)[k]
SentButAt(w, t, m, j, event) ==
    /\ Len(w) = Offset(t, m) + j
    /\ \A k \in 1 .. Len(w) - 1 : w[k] = Transcript(t)[k]
    /\ w[Len(w)] = event
Sent(j) == SentAt(wire, active, msg_index, j)
SentBut(j, event) == SentButAt(wire, active, msg_index, j, event)

(* The controller waits for the handler: its status says how far the bus    *)
(* is, and the indices agree.                                               *)
Reported ==
    \/ stat = "0x08" /\ msg_index = 0 /\ byte_index = 0 /\ Sent(1)
    \/ stat = "0x10" /\ msg_index > 0 /\ byte_index = 0 /\ Sent(1)
    \/ stat = "0x18" /\ ~Msg.read /\ byte_index = 0 /\ Sent(2)
    \/ stat = "0x20" /\ ~Msg.read /\ byte_index = 0 /\ SentBut(2, <<"A", FALSE, FALSE>>)
    \/ stat = "0x28" /\ ~Msg.read /\ byte_index > 0 /\ Sent(2 + byte_index)
    \/ /\ stat = "0x30" /\ ~Msg.read /\ byte_index > 0
       /\ SentBut(2 + byte_index, <<"W", msg_index, byte_index - 1, FALSE>>)
    \/ stat = "0x40" /\ Msg.read /\ byte_index = 0 /\ Sent(2)
    \/ stat = "0x48" /\ Msg.read /\ byte_index = 0 /\ SentBut(2, <<"A", TRUE, FALSE>>)
    \/ /\ stat = "0x50" /\ Msg.read /\ byte_index + 1 < Msg.len
       /\ dat = <<"R", msg_index, byte_index>> /\ Sent(3 + byte_index)
    \/ /\ stat = "0x58" /\ Msg.read /\ byte_index + 1 = Msg.len
       /\ dat = <<"R", msg_index, byte_index>> /\ Sent(3 + byte_index)

(* The handler has told the controller what comes next.                     *)
Told ==
    \/ "STA" \in con /\ msg_index > 0 /\ byte_index = 0 /\ Sent(0)
    \/ /\ "STA" \notin con /\ stat \in {"0x08", "0x10"}
       /\ byte_index = 0 /\ dat = <<"A", Msg.read>> /\ Sent(1)
    \/ /\ "STA" \notin con /\ stat \in {"0x18", "0x28"} /\ ~Msg.read
       /\ byte_index > 0 /\ dat = <<"W", msg_index, byte_index - 1>> /\ Sent(1 + byte_index)
    \/ /\ "STA" \notin con /\ stat \in {"0x40", "0x50"} /\ Msg.read /\ byte_index < Msg.len
       /\ ("AA" \in con <=> byte_index + 1 # Msg.len) /\ Sent(2 + byte_index)

WireFacts ==
    wire # <<>> /\ "STO" \notin con =>
        active # NULL /\ (IF "SI" \in con THEN Reported ELSE Told)

BusFacts ==
    /\ wire \in Seq(Events)
    /\ wire = <<>> <=> stat \in {"0xF8", "0x38", "0x00"}
    /\ "SI" \in con => "STO" \notin con /\ stat # "0xF8"
    /\ stat = "0x00" => con \cap {"SI", "STO"} # {}

(* The START of the first message is requested and not yet sent.            *)
FirstStart == "STA" \in con /\ "SI" \notin con /\ (Owned => "STO" \in con)

AttemptFacts ==
    /\ FirstStart \/ pc = "arm" => msg_index = 0 /\ byte_index = 0
    /\ pc = "arm" => retries = NumRetries
    /\ attempts \in Nat
    /\ attempts = IF active = NULL \/ pc \in {"reset", "arm"} THEN 0
                  ELSE NumRetries - retries + (IF FirstStart THEN 0 ELSE 1)

BufferFacts ==
    \A t \in Transaction :
        IF t = active /\ pc # "reset" THEN buf[t] = Stored(t, msg_index, byte_index)
        ELSE owner[t] = "app" \/ ~complete[t] => buf[t] = {}

WInv == IInv /\ WireFacts /\ BusFacts /\ AttemptFacts /\ BufferFacts
----------------------------------------------------------------------------
LEMMA SentNext ==
    ASSUME NEW t \in Transaction, NEW m \in Nat, m < Count(t), NEW j \in Nat,
           NEW w \in Seq(Events), NEW e \in Events, SentAt(w, t, m, j)
    PROVE  /\ Transcript(t)[Offset(t, m) + j + 1] = e =>
                 SentAt(Append(w, e), t, m, j + 1)
           /\ SentButAt(Append(w, e), t, m, j + 1, e)
           /\ Append(w, e) \in Seq(Events) /\ Append(w, e) # <<>>
  <1> DEFINE r == Append(w, e)
             o == Offset(t, m)
             T == Transcript(t)
  <1>1. o \in Nat
    BY Positions
  <1>2. PICK n \in Nat : n = o + j
    BY <1>1
  <1>3. Len(w) = n /\ \A k \in 1 .. n : w[k] = T[k]
    BY <1>2 DEF SentAt
  <1>4. /\ r \in Seq(Events) /\ r # <<>>
        /\ Len(r) = Len(w) + 1
        /\ \A k \in 1 .. Len(w) : r[k] = w[k]
        /\ r[Len(w) + 1] = e
    BY AppendFacts
  <1> HIDE DEF r, T, o
  <1>5. /\ Len(r) = n + 1 /\ r[n + 1] = e
        /\ \A k \in 1 .. n : r[k] = T[k]
    BY <1>3, <1>4
  <1>6. Len(r) = o + (j + 1) /\ o + j + 1 = n + 1
    BY <1>1, <1>2, <1>5
  <1>7. Len(r) - 1 = n /\ \A k \in 1 .. n + 1 : k \in 1 .. n \/ k = n + 1
    BY <1>5
  <1>8. T[n + 1] = e => \A k \in 1 .. Len(r) : r[k] = T[k]
    BY <1>5, <1>7
  <1>9. (\A k \in 1 .. Len(r) - 1 : r[k] = T[k]) /\ r[Len(r)] = e
    BY <1>5, <1>7
  <1> QED
    BY <1>4, <1>6, <1>8, <1>9 DEF SentAt, SentButAt, r, T, o

LEMMA SentMessage ==
    ASSUME NEW t \in Transaction, NEW m \in Nat, m < Count(t), NEW w, NEW j \in Nat,
           SentAt(w, t, m, j), j = 2 + Msgs[t][m + 1].len
    PROVE  SentAt(w, t, m + 1, 0) /\ Len(w) = Offset(t, m + 1)
  <1>1. /\ Offset(t, m) \in Nat /\ Msgs[t][m + 1].len \in Nat
        /\ Offset(t, m + 1) = Offset(t, m) + 2 + Msgs[t][m + 1].len
    BY Positions
  <1>2. Offset(t, m) + j = Offset(t, m + 1) + 0 /\ Offset(t, m) + j = Offset(t, m + 1)
    BY <1>1
  <1> QED
    BY <1>2 DEF SentAt

----------------------------------------------------------------------------
(* What the handler finds.                                                  *)
LEMMA HandlerFinds ==
    ASSUME WInv, Handler
    PROVE  /\ HandlerFrame
           /\ "SI" \in con /\ "STO" \notin con /\ pc \notin {"reset", "arm", "store"}
           /\ active \in Transaction /\ active # NULL
           /\ msg_index \in Nat /\ msg_index < Count(active)
           /\ Count(active) \in Nat
           /\ byte_index \in Nat /\ byte_index <= Msg.len
           /\ Msg.len \in Nat /\ Msg.read \in BOOLEAN /\ (Msg.read => Msg.len > 0)
           /\ Msg = Msgs[active][msg_index + 1]
           /\ stat \notin {"0x08", "0x10"} => "STA" \notin con
           /\ wire # <<>> => Reported
           /\ wire = <<>> => stat \in {"0x38", "0x00"}
           /\ owner[active] = "driver" /\ ~complete[active]
  <1>1. /\ TypeOK /\ StartFacts /\ IndexFacts /\ KickoffFacts /\ HoldFacts
        /\ BusFacts /\ WireFacts
    BY DEF IInv, WInv
  <1>2. HandlerFrame
    BY HandlerOutcome DEF WInv
  <1>3. "SI" \in con /\ "STO" \notin con /\ pc \notin {"reset", "arm", "store"}
    BY <1>1, <1>2 DEF HandlerFrame, BusFacts, KickoffFacts, Quiet
  <1>4. active \in Transaction /\ active # NULL /\ msg_index \in Nat /\ byte_index \in Nat
    BY <1>1, <1>2 DEF HandlerFrame, TypeOK
  <1>5. msg_index < Count(active) /\ byte_index <= Msg.len
    BY <1>1, <1>3, <1>4 DEF IndexFacts
  <1>6. /\ Count(active) \in Nat
        /\ Msg.len \in Nat /\ Msg.read \in BOOLEAN /\ (Msg.read => Msg.len > 0)
    <2>1. Count(active) \in Nat
      BY <1>4, MessageType
    <2>2. msg_index + 1 \in 1 .. Count(active)
      BY <1>4, <1>5, <2>1
    <2> QED
      BY <1>4, <2>1, <2>2, MessageType DEF Msg
  <1>7. stat \notin {"0x08", "0x10"} => "STA" \notin con
    BY <1>1, <1>3 DEF StartFacts
  <1>8. (wire # <<>> => Reported) /\ (wire = <<>> => stat \in {"0x38", "0x00"})
    BY <1>1, <1>3 DEF WireFacts, BusFacts
  <1>9. owner[active] = "driver" /\ ~complete[active]
    BY <1>1, <1>3, <1>4 DEF HoldFacts, Current
  <1>10. Msg = Msgs[active][msg_index + 1]
    BY DEF Msg
  <1> QED
    BY <1>2, <1>3, <1>4, <1>5, <1>6, <1>7, <1>8, <1>9, <1>10

(* When the handler is done with a message, all of it went over the bus.    *)
LEMMA MessageDone ==
    ASSUME WInv, MessageSent \/ MessageReceived
    PROVE  /\ SentAt(wire, active, msg_index + 1, 0)
           /\ Len(wire) = Offset(active, msg_index + 1)
           /\ MessageSent => ~Msg.read /\ byte_index = Msg.len
           /\ MessageReceived =>
                 /\ Msg.read /\ BytesIn = Msg.len
                 /\ byte_index + 1 = Msg.len
                 /\ StoresByte /\ dat = <<"R", msg_index, byte_index>>
  <1>1. Handler
    BY DEF Handler
  <1>2. /\ active \in Transaction /\ msg_index \in Nat /\ msg_index < Count(active)
        /\ byte_index \in Nat /\ byte_index <= Msg.len /\ Msg.len \in Nat
        /\ (Msg.read => Msg.len > 0)
        /\ Msg = Msgs[active][msg_index + 1]
        /\ wire # <<>> => Reported
        /\ wire = <<>> => stat \in {"0x38", "0x00"}
    BY <1>1, HandlerFinds
  <1>3. CASE MessageSent
    <2>1. stat \in {"0x18", "0x28"} /\ byte_index >= Msg.len
      BY <1>3 DEF MessageSent, Irq
    <2>2. ~Msg.read /\ byte_index = Msg.len /\ Sent(2 + byte_index)
      BY <1>2, <2>1 DEF Reported
    <2>3. SentAt(wire, active, msg_index + 1, 0) /\ Len(wire) = Offset(active, msg_index + 1)
      <3>1. PICK j \in Nat : j = 2 + byte_index
        BY <1>2
      <3>2. SentAt(wire, active, msg_index, j) /\ j = 2 + Msgs[active][msg_index + 1].len
        BY <1>2, <2>2, <3>1 DEF Sent
      <3> QED
        BY <1>2, <3>2, SentMessage
    <2>4. ~MessageReceived
      BY <2>1 DEF MessageReceived, Irq
    <2> QED
      BY <2>2, <2>3, <2>4
  <1>4. CASE MessageReceived
    <2>1. /\ stat \in {"0x40", "0x50", "0x58"}
          /\ stat # "0x58" => BytesIn >= Msg.len
      BY <1>4 DEF MessageReceived, Irq
    <2>2. Reported
      BY <1>2, <2>1
    <2>3. stat # "0x40"
      BY <1>2, <2>1, <2>2 DEF Reported, BytesIn, StoresByte
    <2>4. stat # "0x50"
      BY <1>2, <2>1, <2>2 DEF Reported, BytesIn, StoresByte
    <2>5. /\ Msg.read /\ byte_index + 1 = Msg.len /\ Sent(3 + byte_index)
          /\ stat = "0x58" /\ dat = <<"R", msg_index, byte_index>>
      BY <2>1, <2>2, <2>3, <2>4 DEF Reported
    <2>6. StoresByte /\ BytesIn = Msg.len
      BY <1>2, <2>5 DEF StoresByte, BytesIn
    <2>7. SentAt(wire, active, msg_index + 1, 0) /\ Len(wire) = Offset(active, msg_index + 1)
      <3>1. PICK j \in Nat : j = 3 + byte_index
        BY <1>2
      <3>2. SentAt(wire, active, msg_index, j) /\ j = 2 + Msgs[active][msg_index + 1].len
        BY <1>2, <2>5, <3>1 DEF Sent
      <3> QED
        BY <1>2, <3>2, SentMessage
    <2>8. ~MessageSent
      BY <2>5 DEF MessageSent, Irq
    <2> QED
      BY <2>5, <2>6, <2>7, <2>8
  <1> QED
    BY <1>3, <1>4

(* FinishMessage goes on, or asks for the STOP.                             *)
LEMMA FinishMessageFlags ==
    ASSUME NEW n, FinishMessage(n)
    PROVE  \/ /\ msg_index + 1 < Count(active)
              /\ active' = active /\ msg_index' = msg_index + 1 /\ byte_index' = 0
              /\ "STA" \in con' /\ con' = (con \cup {"STA", "AA"}) \ {"SI"}
              /\ UNCHANGED <<retries, complete, attempts>>
           \/ ~(msg_index + 1 < Count(active)) /\ "STO" \in con'
  BY DEF FinishMessage, Finish, DequeueNext, SetFlags

LEMMA HandlerWire ==
    ASSUME WInv, Handler
    PROVE  WireFacts' /\ BusFacts'
  <1>1. /\ HandlerFrame
        /\ "SI" \in con /\ "STO" \notin con
        /\ active \in Transaction /\ active # NULL
        /\ msg_index \in Nat /\ msg_index < Count(active)
        /\ byte_index \in Nat /\ byte_index <= Msg.len
        /\ Msg.len \in Nat /\ Msg.read \in BOOLEAN /\ (Msg.read => Msg.len > 0)
        /\ Msg = Msgs[active][msg_index + 1]
        /\ stat \notin {"0x08", "0x10"} => "STA" \notin con
        /\ wire # <<>> => Reported
        /\ wire = <<>> => stat \in {"0x38", "0x00"}
    BY HandlerFinds
  <1>2. wire' = wire /\ stat' = stat
    BY <1>1 DEF HandlerFrame
  <1>3. BusFacts'
    <2>1. BusFacts
      BY DEF WInv
    <2>2. "SI" \notin con'
      BY HandlerOutcome DEF WInv, Continues, Finishes, Finish, DequeueNext, SetFlags
    <2>3. stat = "0x00" => "STO" \in con'
      BY DEF Handler, SendAddress, SendByte, MessageSent, NackRetry, NackFail,
             ArbitrationLost, ReceiveByte, MessageReceived, UnknownStatus, Irq,
             Finish, DequeueNext, SetFlags
    <2> QED
      BY <1>2, <2>1, <2>2, <2>3 DEF BusFacts
  <1>4. SUFFICES ASSUME wire # <<>>, "STO" \notin con'
                 PROVE  active' # NULL /\ "SI" \notin con' /\ Told'
    <2>1. "SI" \notin con'
      BY HandlerOutcome DEF WInv, Continues, Finishes, Finish, DequeueNext, SetFlags
    <2> QED
      BY <1>2, <1>3, <2>1 DEF WireFacts
  <1>5. Reported
    BY <1>1, <1>4
  <1>6. "SI" \notin con'
    BY HandlerOutcome DEF WInv, Continues, Finishes, Finish, DequeueNext, SetFlags
  <1>7. active' = active /\ msg_index' = msg_index => Msg' = Msg
    BY DEF Msg
  <1>8. CASE SendAddress
    <2>1. /\ stat \in {"0x08", "0x10"}
          /\ UNCHANGED <<active, msg_index, byte_index, wire, stat>>
          /\ dat' = <<"A", Msg.read>> /\ "STA" \notin con'
      BY <1>8 DEF SendAddress, Irq, master
    <2>2. byte_index = 0 /\ Sent(1)
      BY <1>5, <2>1 DEF Reported
    <2> QED
      BY <1>1, <1>6, <1>7, <2>1, <2>2 DEF Told, Sent
  <1>9. CASE SendByte
    <2>1. /\ stat \in {"0x18", "0x28"}
          /\ UNCHANGED <<active, msg_index, wire, stat>>
          /\ byte_index' = byte_index + 1
          /\ dat' = <<"W", msg_index, byte_index>> /\ "STA" \notin con'
      BY <1>1, <1>9 DEF SendByte, Irq, SetFlags
    <2>2. Sent(2 + byte_index) /\ ~Msg.read
      BY <1>1, <1>5, <2>1 DEF Reported
    <2>3. byte_index' > 0 /\ byte_index' - 1 = byte_index /\ 1 + byte_index' = 2 + byte_index
      BY <1>1, <2>1
    <2>4. Sent(1 + byte_index)'
      <3>1. SentAt(wire, active, msg_index, 1 + byte_index')
        BY <2>2, <2>3 DEF Sent
      <3> QED
        BY <2>1, <3>1 DEF Sent
    <2>5. dat' = <<"W", msg_index', byte_index' - 1>>
      BY <2>1, <2>3
    <2> QED
      BY <1>1, <1>6, <1>7, <2>1, <2>2, <2>3, <2>4, <2>5 DEF Told
  <1>10. ASSUME NEW n, FinishMessage(n), MessageSent \/ MessageReceived
        PROVE  active' # NULL /\ "SI" \notin con' /\ Told'
    <2>1. SentAt(wire, active, msg_index + 1, 0)
      BY <1>10, MessageDone
    <2>2. /\ active' = active /\ msg_index' = msg_index + 1 /\ byte_index' = 0
          /\ "STA" \in con'
      BY <1>4, <1>10, FinishMessageFlags
    <2>3. Sent(0)'
      BY <1>2, <2>1, <2>2 DEF Sent
    <2>4. msg_index' > 0
      BY <1>1, <2>2
    <2> QED
      BY <1>1, <1>6, <2>2, <2>3, <2>4 DEF Told
  <1>11. CASE MessageSent
    <2>1. FinishMessage(byte_index)
      BY <1>11 DEF MessageSent
    <2> QED
      BY <1>10, <1>11, <2>1
  <1>12. CASE NackRetry \/ NackFail \/ UnknownStatus
    BY <1>4, <1>12 DEF NackRetry, NackFail, UnknownStatus, SetFlags, Finish, DequeueNext
  <1>13. CASE ArbitrationLost
    BY <1>5, <1>13 DEF ArbitrationLost, Irq, Reported
  <1>14. CASE ReceiveByte
    <2>1. /\ stat \in {"0x40", "0x50"}
          /\ UNCHANGED <<active, msg_index, wire, stat>>
          /\ byte_index' = BytesIn /\ BytesIn < Msg.len
          /\ con' = IF BytesIn + 1 = Msg.len THEN con \ {"AA", "SI"}
                    ELSE (con \cup {"AA"}) \ {"SI"}
      BY <1>14 DEF ReceiveByte, Irq, SetFlags, ClearFlag
    <2>2. "STA" \notin con' /\ ("AA" \in con' <=> BytesIn + 1 # Msg.len)
      BY <1>1, <2>1
    <2>3. Msg.read /\ SentAt(wire, active, msg_index, 2 + BytesIn)
      <3>1. CASE stat = "0x40"
        <4>1. byte_index = 0 /\ Sent(2) /\ Msg.read
          BY <1>5, <3>1 DEF Reported
        <4>2. 2 + BytesIn = 2
          BY <3>1, <4>1 DEF BytesIn, StoresByte
        <4> QED
          BY <4>1, <4>2 DEF Sent
      <3>2. CASE stat = "0x50"
        <4>1. Sent(3 + byte_index) /\ Msg.read /\ byte_index + 1 < Msg.len
          BY <1>5, <3>2 DEF Reported
        <4>2. 2 + BytesIn = 3 + byte_index
          BY <1>1, <3>2, <4>1 DEF BytesIn, StoresByte
        <4> QED
          BY <4>1, <4>2 DEF Sent
      <3> QED
        BY <2>1, <3>1, <3>2
    <2>4. Sent(2 + byte_index)'
      BY <2>1, <2>3 DEF Sent
    <2> QED
      BY <1>1, <1>6, <1>7, <2>1, <2>2, <2>3, <2>4 DEF Told
  <1>15. CASE MessageReceived
    <2>1. FinishMessage(BytesIn)
      BY <1>15 DEF MessageReceived
    <2> QED
      BY <1>10, <1>15, <2>1
  <1> QED
    BY <1>8, <1>9, <1>11, <1>12, <1>13, <1>14, <1>15 DEF Handler

(* What the controller finds that goes on with a transaction.               *)
LEMMA BusFinds ==
    ASSUME WInv, wire # <<>>, "STO" \notin con, "SI" \notin con
    PROVE  /\ Told
           /\ active \in Transaction /\ active # NULL
           /\ msg_index \in Nat /\ msg_index < Count(active)
           /\ byte_index \in Nat /\ byte_index <= Msg.len
           /\ Msg.len \in Nat /\ Msg.read \in BOOLEAN
           /\ Msg = Msgs[active][msg_index + 1]
           /\ wire \in Seq(Events)
           /\ Offset(active, msg_index) \in Nat
           /\ pc # "reset"
  <1>1. TypeOK /\ IndexFacts /\ KickoffFacts /\ BusFacts /\ WireFacts
    BY DEF IInv, WInv
  <1>2. Told /\ active # NULL /\ wire \in Seq(Events) /\ Owned
    BY <1>1 DEF WireFacts, BusFacts, Owned
  <1>3. active \in Transaction /\ msg_index \in Nat /\ byte_index \in Nat
    BY <1>1, <1>2 DEF TypeOK
  <1>4. pc # "reset"
    BY <1>1, <1>2 DEF KickoffFacts, Quiet
  <1>5. msg_index < Count(active) /\ byte_index <= Msg.len
    BY <1>1, <1>2, <1>4 DEF IndexFacts
  <1>6. Msg.len \in Nat /\ Msg.read \in BOOLEAN
    <2>1. msg_index + 1 \in 1 .. Count(active)
      BY <1>3, <1>5, MessageType
    <2> QED
      BY <1>3, <2>1, MessageType DEF Msg
  <1>7. Msg = Msgs[active][msg_index + 1] /\ Offset(active, msg_index) \in Nat
    BY <1>3, <1>5, Positions DEF Msg
  <1> QED
    BY <1>2, <1>3, <1>4, <1>5, <1>6, <1>7

(* A report of the controller, in the middle of a transaction.              *)
LEMMA ReportFacts ==
    ASSUME NEW code, NEW event, Report(code, event), BusFacts,
           event \in Events, code \notin {"0xF8", "0x38", "0x00"}, "STO" \notin con,
           active # NULL, Reported'
    PROVE  WireFacts' /\ BusFacts'
  <1>1. /\ stat' = code /\ con' = con \cup {"SI"} /\ wire' = Append(wire, event)
        /\ active' = active
    BY DEF Report, master
  <1>2. wire' \in Seq(Events) /\ wire' # <<>>
    <2>1. wire \in Seq(Events)
      BY DEF BusFacts
    <2> QED
      BY <1>1, <2>1, AppendFacts
  <1> QED
    BY <1>1, <1>2 DEF WireFacts, BusFacts

LEMMA BusStartWire ==
    ASSUME WInv, BusStart
    PROVE  WireFacts' /\ BusFacts'
  <1>1. /\ TypeOK /\ KickoffFacts /\ BusFacts /\ AttemptFacts
    BY DEF WInv, IInv
  <1>2. /\ "STA" \in con /\ "SI" \notin con /\ "STO" \notin con /\ ~Owned
        /\ Report("0x08", <<"S">>)
    BY DEF BusStart, Free
  <1>3. wire = <<>> /\ active \in Transaction /\ active # NULL
    BY <1>1, <1>2 DEF BusFacts, Owned, KickoffFacts, Quiet, TypeOK
  <1>4. msg_index = 0 /\ byte_index = 0
    BY <1>1, <1>2 DEF AttemptFacts, FirstStart
  <1>5. <<"S">> \in Events
    BY DEF Events
  <1>6. /\ Offset(active, 0) = 0
        /\ Transcript(active)[1] = <<"S">>
    <2>1. /\ Offset(active, 0) = 0
          /\ Transcript(active)[Offset(active, 0) + 1] = <<"S">>
      BY <1>3, MessageType, Positions
    <2> QED
      BY <2>1
  <1>7. wire' = << <<"S">> >> /\ active' = active /\ msg_index' = 0 /\ byte_index' = 0
    BY <1>2, <1>3, <1>4 DEF Report, master
  <1>8. Sent(1)'
    <2>1. SentAt(wire', active, 0, 1)
      BY <1>6, <1>7 DEF SentAt
    <2> QED
      BY <1>7, <2>1 DEF Sent
  <1>9. Reported'
    BY <1>2, <1>7, <1>8 DEF Reported, Report
  <1> QED
    BY <1>1, <1>2, <1>3, <1>5, <1>9, ReportFacts

LEMMA BusRepeatedStartWire ==
    ASSUME WInv, BusRepeatedStart
    PROVE  WireFacts' /\ BusFacts'
  <1>1. BusFacts
    BY DEF WInv
  <1>2. /\ "STA" \in con /\ "SI" \notin con /\ "STO" \notin con /\ Owned
        /\ Report("0x10", <<"Sr">>)
    BY DEF BusRepeatedStart, Free
  <1>3. wire # <<>>
    BY <1>1, <1>2 DEF BusFacts, Owned
  <1>4. /\ Told /\ active \in Transaction /\ active # NULL
        /\ msg_index \in Nat /\ msg_index < Count(active)
        /\ wire \in Seq(Events) /\ Offset(active, msg_index) \in Nat
    BY <1>2, <1>3, BusFinds
  <1>5. msg_index > 0 /\ byte_index = 0 /\ SentAt(wire, active, msg_index, 0)
    BY <1>2, <1>4 DEF Told, Sent
  <1>6. <<"Sr">> \in Events
    BY DEF Events
  <1>7. Transcript(active)[Offset(active, msg_index) + 0 + 1] = <<"Sr">>
    <2>1. Transcript(active)[Offset(active, msg_index) + 1] =
             IF msg_index = 0 THEN <<"S">> ELSE <<"Sr">>
      BY <1>4, Positions
    <2>2. Offset(active, msg_index) + 0 + 1 = Offset(active, msg_index) + 1 /\ msg_index # 0
      BY <1>4, <1>5
    <2> QED
      BY <2>1, <2>2
  <1>8. SentAt(Append(wire, <<"Sr">>), active, msg_index, 0 + 1)
    BY <1>4, <1>5, <1>6, <1>7, SentNext
  <1>9. Reported'
    <2>1. UNCHANGED <<active, msg_index, byte_index>> /\ wire' = Append(wire, <<"Sr">>)
          /\ stat' = "0x10"
      BY <1>2 DEF Report, master
    <2>2. Sent(1)'
      BY <1>8, <2>1 DEF Sent
    <2> QED
      BY <1>5, <2>1, <2>2 DEF Reported
  <1> QED
    BY <1>1, <1>2, <1>4, <1>6, <1>9, ReportFacts

LEMMA BusAddressWire ==
    ASSUME WInv, NEW ack \in BOOLEAN, BusAddress(ack)
    PROVE  WireFacts' /\ BusFacts'
  <1>1. BusFacts
    BY DEF WInv
  <1> DEFINE code == IF dat[2] THEN (IF ack THEN "0x40" ELSE "0x48")
                               ELSE (IF ack THEN "0x18" ELSE "0x20")
  <1>2. /\ "STA" \notin con /\ "SI" \notin con /\ "STO" \notin con
        /\ stat \in {"0x08", "0x10"}
        /\ Report(code, Append(dat, ack))
    BY DEF BusAddress, Free
  <1>3. wire # <<>>
    BY <1>1, <1>2 DEF BusFacts
  <1>4. /\ Told /\ active \in Transaction /\ active # NULL
        /\ msg_index \in Nat /\ msg_index < Count(active)
        /\ Msg.read \in BOOLEAN /\ Msg = Msgs[active][msg_index + 1]
        /\ wire \in Seq(Events) /\ Offset(active, msg_index) \in Nat
    BY <1>2, <1>3, BusFinds
  <1>5. byte_index = 0 /\ dat = <<"A", Msg.read>> /\ SentAt(wire, active, msg_index, 1)
    BY <1>2, <1>4 DEF Told, Sent
  <1> DEFINE r == Msg.read
             event == <<"A", r, ack>>
  <1>6. Append(dat, ack) = event /\ dat[2] = r
    BY <1>5, AddressEvents
  <1>7. event \in Events
    BY <1>4 DEF Events
  <1>8. Transcript(active)[Offset(active, msg_index) + 1 + 1] = <<"A", r, TRUE>>
    <2>1. Transcript(active)[Offset(active, msg_index) + 2] = <<"A", r, TRUE>>
      BY <1>4, Positions
    <2>2. Offset(active, msg_index) + 1 + 1 = Offset(active, msg_index) + 2
      BY <1>4
    <2> QED
      BY <2>1, <2>2
  <1>9. /\ ack => SentAt(Append(wire, event), active, msg_index, 1 + 1)
        /\ SentButAt(Append(wire, event), active, msg_index, 1 + 1, event)
    <2>1. ack => Transcript(active)[Offset(active, msg_index) + 1 + 1] = event
      BY <1>8
    <2> HIDE DEF event
    <2> QED
      BY <1>4, <1>5, <1>7, <2>1, SentNext
  <1>10. /\ stat' = code /\ UNCHANGED <<active, msg_index, byte_index>> /\ Msg' = Msg
         /\ wire' = Append(wire, event)
    BY <1>2, <1>6 DEF Report, master, Msg
  <1>11. /\ ack => Sent(2)'
         /\ ~ack => SentBut(2, <<"A", r, FALSE>>)'
    <2>1. ~ack => event = <<"A", r, FALSE>>
      OBVIOUS
    <2>2. ack => Sent(2)'
      BY <1>9, <1>10 DEF Sent
    <2>3. SentBut(2, event)'
      <3>1. SentButAt(wire', active', msg_index', 2, event)
        BY <1>9, <1>10
      <3>2. event' = event
        BY <1>10
      <3> HIDE DEF event
      <3> QED
        BY <3>1, <3>2 DEF SentBut
    <2>4. ~ack => SentBut(2, <<"A", r, FALSE>>)'
      BY <2>1, <2>3, <1>10 DEF SentBut
    <2> QED
      BY <2>2, <2>4
  <1>12. Reported'
    <2>1. code = IF r THEN (IF ack THEN "0x40" ELSE "0x48")
                      ELSE (IF ack THEN "0x18" ELSE "0x20")
      BY <1>6
    <2>2. CASE ack
      BY <1>4, <1>5, <1>10, <1>11, <2>1, <2>2 DEF Reported
    <2>3. CASE ~ack /\ r
      <3>1. SentBut(2, <<"A", TRUE, FALSE>>)'
        BY <1>10, <1>11, <2>3 DEF SentBut
      <3> QED
        BY <1>4, <1>5, <1>10, <2>1, <2>3, <3>1 DEF Reported
    <2>4. CASE ~ack /\ ~r
      <3>1. SentBut(2, <<"A", FALSE, FALSE>>)'
        BY <1>4, <1>10, <1>11, <2>4 DEF SentBut
      <3> QED
        BY <1>4, <1>5, <1>10, <2>1, <2>4, <3>1 DEF Reported
    <2> QED
      BY <2>2, <2>3, <2>4
  <1>13. code \notin {"0xF8", "0x38", "0x00"}
    OBVIOUS
  <1>14. Report(code, event)
    BY <1>2, <1>6
  <1> QED
    <2> HIDE DEF code, event
    <2> QED
      BY <1>1, <1>2, <1>4, <1>7, <1>12, <1>13, <1>14, ReportFacts

LEMMA BusTransmitWire ==
    ASSUME WInv, NEW ack \in BOOLEAN, BusTransmit(ack)
    PROVE  WireFacts' /\ BusFacts'
  <1>1. BusFacts
    BY DEF WInv
  <1> DEFINE code == IF ack THEN "0x28" ELSE "0x30"
  <1>2. /\ "STA" \notin con /\ "SI" \notin con /\ "STO" \notin con
        /\ stat \in {"0x18", "0x28"}
        /\ Report(code, Append(dat, ack))
    BY DEF BusTransmit, Free
  <1>3. wire # <<>>
    BY <1>1, <1>2 DEF BusFacts
  <1>4. /\ Told /\ active \in Transaction /\ active # NULL
        /\ msg_index \in Nat /\ msg_index < Count(active)
        /\ byte_index \in Nat /\ byte_index <= Msg.len /\ Msg.len \in Nat
        /\ Msg.read \in BOOLEAN /\ Msg = Msgs[active][msg_index + 1]
        /\ wire \in Seq(Events) /\ Offset(active, msg_index) \in Nat
    BY <1>2, <1>3, BusFinds
  <1>5. /\ ~Msg.read /\ byte_index > 0 /\ dat = <<"W", msg_index, byte_index - 1>>
        /\ SentAt(wire, active, msg_index, 1 + byte_index)
    BY <1>2, <1>4 DEF Told, Sent
  <1> DEFINE event == <<"W", msg_index, byte_index - 1, ack>>
             o == Offset(active, msg_index)
             T == Transcript(active)
  <1>6. Append(dat, ack) = event
    BY <1>5, WriteEvents
  <1>7. event \in Events
    BY <1>4, <1>5 DEF Events
  <1>8. T[o + (1 + byte_index) + 1] = <<"W", msg_index, byte_index - 1, TRUE>>
    <2>1. \A k \in 1 .. Msg.len : T[o + 2 + k] = <<"W", msg_index, k - 1, TRUE>>
      BY <1>4, <1>5, Positions
    <2>2. byte_index \in 1 .. Msg.len
      BY <1>4, <1>5
    <2>3. o + (1 + byte_index) + 1 = o + 2 + byte_index
      BY <1>4
    <2> HIDE DEF o, T
    <2> QED
      BY <2>1, <2>2, <2>3
  <1>9. PICK j \in Nat : j = 1 + byte_index
    BY <1>4
  <1>10. /\ ack => SentAt(Append(wire, event), active, msg_index, j + 1)
         /\ SentButAt(Append(wire, event), active, msg_index, j + 1, event)
    <2>1. ack => T[o + j + 1] = event
      BY <1>8, <1>9
    <2>2. SentAt(wire, active, msg_index, j)
      BY <1>5, <1>9
    <2> HIDE DEF event
    <2> QED
      BY <1>4, <1>7, <2>1, <2>2, SentNext
  <1>11. /\ stat' = code /\ UNCHANGED <<active, msg_index, byte_index>> /\ Msg' = Msg
         /\ wire' = Append(wire, event)
    BY <1>2, <1>6 DEF Report, master, Msg
  <1>12. j + 1 = 2 + byte_index
    BY <1>4, <1>9
  <1>13. CASE ack
    <2>1. Sent(2 + byte_index)'
      BY <1>10, <1>11, <1>12, <1>13 DEF Sent
    <2>2. Reported'
      BY <1>5, <1>11, <1>13, <2>1 DEF Reported
    <2>3. Report(code, event) /\ code \notin {"0xF8", "0x38", "0x00"}
      BY <1>2, <1>6
    <2> HIDE DEF code, event
    <2> QED
      BY <1>1, <1>2, <1>4, <1>7, <2>2, <2>3, ReportFacts
  <1>14. CASE ~ack
    <2>1. event = <<"W", msg_index, byte_index - 1, FALSE>>
      BY <1>14
    <2>2. SentBut(2 + byte_index, <<"W", msg_index, byte_index - 1, FALSE>>)'
      <3>1. SentButAt(wire', active', msg_index', 2 + byte_index', event)
        BY <1>10, <1>11, <1>12
      <3> QED
        BY <1>11, <2>1, <3>1 DEF SentBut
    <2>3. Reported'
      BY <1>5, <1>11, <1>14, <2>2 DEF Reported
    <2>4. Report(code, event) /\ code \notin {"0xF8", "0x38", "0x00"}
      BY <1>2, <1>6
    <2> HIDE DEF code, event
    <2> QED
      BY <1>1, <1>2, <1>4, <1>7, <2>3, <2>4, ReportFacts
  <1> QED
    BY <1>13, <1>14

LEMMA BusReceiveWire ==
    ASSUME WInv, BusReceive
    PROVE  WireFacts' /\ BusFacts'
  <1>1. BusFacts
    BY DEF WInv
  <1> DEFINE code == IF "AA" \in con THEN "0x50" ELSE "0x58"
             ack == "AA" \in con
  <1>2. /\ "STA" \notin con /\ "SI" \notin con /\ "STO" \notin con
        /\ stat \in {"0x40", "0x50"}
        /\ dat' = <<"R", Frame, FrameByte>>
        /\ Report(code, <<"R", Frame, FrameByte, ack>>)
    BY DEF BusReceive, Free
  <1>3. wire # <<>>
    BY <1>1, <1>2 DEF BusFacts
  <1>4. /\ Told /\ active \in Transaction /\ active # NULL
        /\ msg_index \in Nat /\ msg_index < Count(active)
        /\ byte_index \in Nat /\ byte_index <= Msg.len /\ Msg.len \in Nat
        /\ Msg.read \in BOOLEAN /\ Msg = Msgs[active][msg_index + 1]
        /\ wire \in Seq(Events) /\ Offset(active, msg_index) \in Nat
    BY <1>2, <1>3, BusFinds
  <1>5. /\ Msg.read /\ byte_index < Msg.len /\ (ack <=> byte_index + 1 # Msg.len)
        /\ SentAt(wire, active, msg_index, 2 + byte_index)
    BY <1>2, <1>4 DEF Told, Sent
  <1>6. Frame = msg_index /\ FrameByte = byte_index
    <2>1. /\ byte_index \in 0 .. Msgs[active][msg_index + 1].len
          /\ Len(wire) = Offset(active, msg_index) + (2 + byte_index)
          /\ \A k \in 1 .. Len(wire) : wire[k] = Transcript(active)[k]
          /\ Msgs[active][msg_index + 1].read
      BY <1>4, <1>5 DEF SentAt
    <2>2. StartsIn(wire) - 1 = msg_index /\ BytesOf(wire, msg_index) = byte_index
      BY <1>4, <2>1, Counted
    <2>3. Frame = msg_index
      BY <2>2 DEF Frame, StartsIn
    <2> QED
      BY <2>2, <2>3 DEF FrameByte, BytesOf
  <1> DEFINE event == <<"R", msg_index, byte_index, ack>>
             o == Offset(active, msg_index)
             T == Transcript(active)
  <1>7. event \in Events
    <2>1. ack \in BOOLEAN
      OBVIOUS
    <2> HIDE DEF ack
    <2> QED
      BY <1>4, <2>1 DEF Events
  <1>8. T[o + (2 + byte_index) + 1] = event
    <2>1. \A k \in 1 .. Msg.len : T[o + 2 + k] = <<"R", msg_index, k - 1, k < Msg.len>>
      BY <1>4, <1>5, Positions
    <2>2. byte_index + 1 \in 1 .. Msg.len /\ (byte_index + 1) - 1 = byte_index
      BY <1>4, <1>5
    <2>3. o + (2 + byte_index) + 1 = o + 2 + (byte_index + 1)
      BY <1>4
    <2>4. (byte_index + 1 < Msg.len) = ack
      BY <1>4, <1>5
    <2> HIDE DEF o, T, ack
    <2>5. T[o + 2 + (byte_index + 1)] =
             <<"R", msg_index, (byte_index + 1) - 1, byte_index + 1 < Msg.len>>
      BY <2>1, <2>2
    <2> QED
      BY <2>2, <2>3, <2>4, <2>5
  <1>9. PICK j \in Nat : j = 2 + byte_index
    BY <1>4
  <1>10. SentAt(Append(wire, event), active, msg_index, j + 1)
    <2>1. T[o + j + 1] = event
      BY <1>8, <1>9
    <2>2. SentAt(wire, active, msg_index, j)
      BY <1>5, <1>9
    <2> HIDE DEF event
    <2> QED
      BY <1>4, <1>7, <2>1, <2>2, SentNext
  <1>11. /\ stat' = code /\ UNCHANGED <<active, msg_index, byte_index>> /\ Msg' = Msg
         /\ wire' = Append(wire, event)
         /\ dat' = <<"R", msg_index, byte_index>>
    BY <1>2, <1>6 DEF Report, master, Msg
  <1>12. j + 1 = 3 + byte_index
    BY <1>4, <1>9
  <1>13. Sent(3 + byte_index)'
    BY <1>10, <1>11, <1>12 DEF Sent
  <1>14. Reported'
    BY <1>4, <1>5, <1>11, <1>13 DEF Reported
  <1>15. Report(code, event) /\ code \notin {"0xF8", "0x38", "0x00"}
    BY <1>2, <1>6
  <1> QED
    <2> HIDE DEF code, event
    <2> QED
      BY <1>1, <1>2, <1>4, <1>7, <1>14, <1>15, ReportFacts

LEMMA BusWire ==
    ASSUME WInv, Bus
    PROVE  WireFacts' /\ BusFacts'
  <1>1. BusFacts /\ WireFacts
    BY DEF WInv
  <1>2. CASE BusStop
    <2>1. /\ wire' = <<>> /\ stat' = "0xF8" /\ "SI" \notin con'
      BY <1>2 DEF BusStop
    <2>2. wire' \in Seq(Events)
      BY <2>1
    <2> QED
      BY <2>1, <2>2 DEF WireFacts, BusFacts
  <1>3. ASSUME NEW code \in Faults, BusFault(code) PROVE WireFacts' /\ BusFacts'
    <2>1. /\ wire' = <<>> /\ stat' \in {"0x00", "0x38"} /\ "SI" \in con' /\ "STO" \notin con'
      BY <1>3, FaultsAssumption DEF BusFault, Free
    <2>2. wire' \in Seq(Events)
      BY <2>1
    <2> QED
      BY <2>1, <2>2 DEF WireFacts, BusFacts
  <1> QED
    BY <1>2, <1>3, BusStartWire, BusRepeatedStartWire, BusReceiveWire, BusAddressWire,
       BusTransmitWire DEF Bus

(* Nothing the bus or the handler has to do with changes.                   *)
LEMMA SameWire ==
    ASSUME WInv, UNCHANGED <<active, msg_index, byte_index, con, stat, dat, wire>>
    PROVE  WireFacts' /\ BusFacts'
  <1>1. BusFacts /\ WireFacts
    BY DEF WInv
  <1>2. BusFacts'
    BY <1>1 DEF BusFacts
  <1>3. Msg' = Msg
    BY DEF Msg
  <1>4. \A j : Sent(j)' <=> Sent(j)
    BY DEF Sent
  <1>5. Told => Told'
    BY <1>3 DEF Told, Sent
  <1>6. Reported => Reported'
    BY <1>3 DEF Reported, Sent, SentBut
  <1> QED
    BY <1>1, <1>2, <1>5, <1>6 DEF WireFacts

LEMMA NextWire ==
    ASSUME WInv, [Next]_vars
    PROVE  WireFacts' /\ BusFacts'
  <1> USE DEF app, transactions, master, controller, bus
  <1>1. ASSUME NEW t \in Transaction, Start(t) \/ StatusTransaction(t) \/ WaitTransaction(t)
        PROVE  WireFacts' /\ BusFacts'
    BY <1>1, SameWire DEF Start, StatusTransaction, WaitTransaction
  <1>2. CASE Enqueue \/ Check \/ KickoffDequeue \/ Wait \/ WaitForInterrupt \/ SysTick
    BY <1>2, SameWire DEF Enqueue, Check, KickoffDequeue, Wait, WaitForInterrupt, SysTick
  <1>3. CASE KickoffStore \/ KickoffReset \/ KickoffArm
    <2>1. /\ UNCHANGED <<stat, dat, wire>>
          /\ con' = con \/ con' = con \cup {"STA"}
      BY <1>3 DEF KickoffStore, KickoffReset, KickoffArm
    <2>2. BusFacts /\ Quiet
      BY <1>3 DEF WInv, IInv, KickoffFacts, KickoffStore, KickoffReset, KickoffArm
    <2>3. wire # <<>> => "STO" \in con
      BY <2>2 DEF BusFacts, Quiet, Owned
    <2> QED
      BY <2>1, <2>2, <2>3 DEF WireFacts, BusFacts, Quiet
  <1>4. CASE UNCHANGED vars
    BY <1>4, SameWire DEF vars
  <1> QED
    BY <1>1, <1>2, <1>3, <1>4, HandlerWire, BusWire DEF Next, Running

----------------------------------------------------------------------------
LEMMA NextAttempts ==
    ASSUME WInv, [Next]_vars
    PROVE  AttemptFacts'
  <1> USE DEF app, transactions, master, controller, bus
  <1>1. /\ TypeOK /\ KickoffFacts /\ StartFacts /\ NoStrandedTransaction
        /\ BusFacts /\ AttemptFacts /\ WireFacts
    BY DEF WInv, IInv
  <1>2. ASSUME UNCHANGED <<active, msg_index, byte_index, retries, con, stat, attempts>>,
               pc' \in {"reset", "arm"} <=> pc \in {"reset", "arm"}, pc' = "arm" => pc = "arm"
        PROVE  AttemptFacts'
    BY <1>1, <1>2 DEF AttemptFacts, FirstStart, Owned
  <1>3. ASSUME NEW t \in Transaction, Start(t) \/ StatusTransaction(t) \/ WaitTransaction(t)
        PROVE  AttemptFacts'
    BY <1>2, <1>3 DEF Start, StatusTransaction, WaitTransaction
  <1>4. CASE Enqueue \/ Check \/ KickoffDequeue \/ Wait \/ WaitForInterrupt \/ SysTick
    BY <1>2, <1>4 DEF Enqueue, Check, KickoffDequeue, Wait, WaitForInterrupt, SysTick,
                      Return, Awake
  <1>5. CASE KickoffStore
    BY <1>1, <1>5 DEF KickoffStore, Return, AttemptFacts, KickoffFacts, FirstStart, Quiet
  <1>6. CASE KickoffReset
    BY <1>1, <1>6 DEF KickoffReset, AttemptFacts
  <1>7. CASE KickoffArm
    <2>1. FirstStart'
      BY <1>1, <1>7 DEF KickoffArm, FirstStart, KickoffFacts, Quiet, Owned
    <2>2. /\ msg_index' = 0 /\ byte_index' = 0 /\ retries' = NumRetries /\ attempts' = 0
          /\ pc' = "app" /\ active' # NULL
      BY <1>1, <1>7 DEF KickoffArm, Return, AttemptFacts, KickoffFacts
    <2> QED
      BY <2>1, <2>2, NumRetriesAssumption DEF AttemptFacts
  <1>8. CASE Handler
    <2>1. /\ HandlerFrame /\ "SI" \in con /\ "STO" \notin con
          /\ pc \notin {"reset", "arm", "store"}
          /\ active \in Transaction /\ active # NULL
          /\ msg_index \in Nat /\ byte_index \in Nat
          /\ stat \notin {"0x08", "0x10"} => "STA" \notin con
      BY <1>8, HandlerFinds
    <2>2. /\ pc' \notin {"reset", "arm"} /\ stat' = stat
      BY <2>1 DEF HandlerFrame, Awake
    <2>3. attempts = NumRetries - retries + 1 /\ attempts \in Nat /\ retries \in Nat
      BY <1>1, <2>1, NumRetriesAssumption DEF AttemptFacts, FirstStart, TypeOK
    <2>4. ASSUME UNCHANGED <<active, retries, attempts>>, "STA" \notin con'
          PROVE  AttemptFacts'
      BY <2>1, <2>2, <2>3, <2>4 DEF AttemptFacts, FirstStart
    <2>5. ASSUME NEW e, NEW set, NEW n, Finish(e, set, n),
                 "STA" \notin con, "STA" \notin set, stat = "0x38" \/ "STO" \in set
          PROVE  AttemptFacts'
      <3>1. attempts' = 0 /\ DequeueNext(set, n)
        BY <2>5 DEF Finish
      <3>2. CASE transaction_queue = <<>>
        <4>1. active' = NULL /\ "STA" \notin con'
          BY <2>5, <3>1, <3>2 DEF DequeueNext, SetFlags
        <4> QED
          BY <2>2, <3>1, <4>1 DEF AttemptFacts, FirstStart
      <3>3. CASE transaction_queue # <<>>
        <4>1. /\ active' = Head(transaction_queue)
              /\ retries' = NumRetries /\ msg_index' = 0 /\ byte_index' = 0
              /\ con' = (con \cup (set \cup {"STA"})) \ {"SI"}
          BY <3>1, <3>3 DEF DequeueNext, SetFlags
        <4>2. FirstStart'
          BY <2>2, <2>5, <4>1 DEF FirstStart, Owned
        <4> QED
          BY <2>2, <3>1, <4>1, <4>2, NumRetriesAssumption DEF AttemptFacts
      <3> QED
        BY <3>2, <3>3
    <2>6. ASSUME NEW n, FinishMessage(n), MessageSent \/ MessageReceived
          PROVE  AttemptFacts'
      <3>1. /\ stat \in {"0x18", "0x28", "0x40", "0x50", "0x58"}
        BY <2>6 DEF MessageSent, MessageReceived, Irq
      <3>2. CASE msg_index + 1 < Count(active)
        <4>1. /\ UNCHANGED <<active, retries, attempts>>
              /\ con' = (con \cup {"STA", "AA"}) \ {"SI"}
          BY <2>6, <3>2 DEF FinishMessage, SetFlags
        <4>2. ~FirstStart'
          BY <2>1, <2>2, <3>1, <4>1 DEF FirstStart, Owned
        <4> QED
          BY <2>1, <2>2, <2>3, <4>1, <4>2 DEF AttemptFacts
      <3>3. CASE ~(msg_index + 1 < Count(active))
        <4>1. Finish("ok", {"STO", "AA"}, n) /\ "STA" \notin con
          BY <2>1, <2>6, <3>1, <3>3 DEF FinishMessage
        <4> QED
          BY <2>5, <4>1
      <3> QED
        BY <3>2, <3>3
    <2>7. CASE SendAddress
      BY <2>4, <2>7 DEF SendAddress
    <2>8. CASE SendByte
      <3>1. "STA" \notin con
        BY <2>1, <2>8 DEF SendByte, Irq
      <3> QED
        BY <2>4, <2>8, <3>1 DEF SendByte, SetFlags
    <2>9. CASE MessageSent
      BY <2>6, <2>9 DEF MessageSent
    <2>10. CASE NackRetry
      <3>1. /\ UNCHANGED <<active, msg_index, byte_index, attempts>>
            /\ retries' = retries - 1
            /\ msg_index = 0 /\ byte_index = 0
            /\ con' = (con \cup {"STO", "STA", "AA"}) \ {"SI"}
        BY <2>10 DEF NackRetry, MayRetry, SetFlags
      <3>2. FirstStart'
        BY <3>1 DEF FirstStart
      <3> QED
        BY <2>1, <2>2, <2>3, <3>1, <3>2, NumRetriesAssumption DEF AttemptFacts
    <2>11. CASE NackFail
      <3>1. "STA" \notin con
        BY <2>1, <2>11 DEF NackFail, Irq
      <3> QED
        BY <2>5, <2>11, <3>1 DEF NackFail
    <2>12. CASE ArbitrationLost
      <3>1. "STA" \notin con /\ stat = "0x38"
        BY <2>1, <2>12 DEF ArbitrationLost, Irq
      <3> QED
        BY <2>5, <2>12, <3>1 DEF ArbitrationLost
    <2>13. CASE ReceiveByte
      <3>1. "STA" \notin con
        BY <2>1, <2>13 DEF ReceiveByte, Irq
      <3> QED
        BY <2>4, <2>13, <3>1 DEF ReceiveByte, SetFlags, ClearFlag
    <2>14. CASE MessageReceived
      BY <2>6, <2>14 DEF MessageReceived
    <2>15. CASE UnknownStatus
      <3>1. "STA" \notin con
        BY <2>1, <2>15 DEF UnknownStatus, Irq
      <3> QED
        BY <2>5, <2>15, <3>1 DEF UnknownStatus
    <2> QED
      BY <1>8, <2>7, <2>8, <2>9, <2>10, <2>11, <2>12, <2>13, <2>14, <2>15 DEF Handler
  <1>9. CASE Bus
    <2>1. UNCHANGED <<pc, active, msg_index, byte_index, retries>>
      BY <1>1, <1>9, BusSteps DEF BusOutcome
    <2>2. CASE BusStop
      <3>1. FirstStart' <=> FirstStart
        BY <2>2 DEF BusStop, FirstStart, Owned
      <3>2. attempts' = attempts
        BY <2>2 DEF BusStop
      <3> QED
        BY <1>1, <2>1, <3>1, <3>2 DEF AttemptFacts
    <2>3. CASE BusStart
      <3>1. FirstStart /\ active # NULL /\ pc \notin {"reset", "arm"}
        BY <1>1, <2>3 DEF BusStart, Free, FirstStart, KickoffFacts, Quiet
      <3>2. ~FirstStart' /\ attempts' = attempts + 1
        BY <2>3 DEF BusStart, Report, FirstStart
      <3> QED
        BY <1>1, <2>1, <3>1, <3>2, NumRetriesAssumption DEF AttemptFacts, TypeOK
    <2>4. CASE ~BusStop /\ ~BusStart
      <3>1. ~FirstStart
        BY <1>9, <2>4 DEF Bus, BusRepeatedStart, BusReceive, BusAddress, BusTransmit,
                          BusFault, Free, FirstStart
      <3>2. "SI" \in con' /\ attempts' = attempts
        BY <1>9, <2>4 DEF Bus, BusRepeatedStart, BusReceive, BusAddress, BusTransmit,
                          BusFault, Report
      <3> QED
        BY <1>1, <2>1, <3>1, <3>2 DEF AttemptFacts, FirstStart
    <2> QED
      BY <2>2, <2>3, <2>4
  <1>10. CASE UNCHANGED vars
    BY <1>2, <1>10 DEF vars
  <1> QED
    BY <1>3, <1>4, <1>5, <1>6, <1>7, <1>8, <1>9, <1>10 DEF Next, Running

----------------------------------------------------------------------------
(* What the handler leaves in the buffers of the active transaction: the    *)
(* bytes received so far, all of them when the transaction is over without  *)
(* error.                                                                   *)
LEMMA HandlerStores ==
    ASSUME WInv, Handler
    PROVE  /\ active' = active /\ attempts' = attempts /\ complete' = complete =>
                 buf'[active] = Stored(active, msg_index', byte_index')
           /\ \A n : FinishMessage(n) /\ (MessageSent \/ MessageReceived) =>
                 buf'[active] = Stored(active, msg_index, Msg.len)
  <1>1. /\ active \in Transaction /\ active # NULL
        /\ pc \notin {"reset", "arm", "store"}
        /\ msg_index \in Nat /\ msg_index < Count(active)
        /\ byte_index \in Nat /\ byte_index <= Msg.len
        /\ Msg.len \in Nat /\ Msg.read \in BOOLEAN
        /\ Msg = Msgs[active][msg_index + 1]
        /\ wire # <<>> => Reported
        /\ wire = <<>> => stat \in {"0x38", "0x00"}
    BY HandlerFinds
  <1>2. buf[active] = Stored(active, msg_index, byte_index)
    BY <1>1 DEF WInv, BufferFacts
  <1>3. BufFacts
    BY DEF WInv, IInv
  <1>4. /\ ~Msg.read => \A b \in Nat : Stored(active, msg_index, b) = Stored(active, msg_index, 0)
        /\ Msg.read =>
              Stored(active, msg_index, byte_index + 1) =
                 Stored(active, msg_index, byte_index) \cup
                    {<<msg_index, byte_index, <<"R", msg_index, byte_index>>>>}
        /\ Stored(active, msg_index + 1, 0) = Stored(active, msg_index, Msg.len)
    BY <1>1, StoredFacts
  <1>5. ASSUME StoreByte, stat \in {"0x40", "0x50", "0x58"}
        PROVE  buf'[active] = Stored(active, msg_index, BytesIn) /\ BytesIn \in Nat
    <2>1. Reported
      BY <1>1, <1>5
    <2>2. CASE StoresByte
      <3>1. stat \in {"0x50", "0x58"}
        BY <2>2 DEF StoresByte
      <3>2. dat = <<"R", msg_index, byte_index>> /\ Msg.read
        BY <2>1, <3>1 DEF Reported
      <3>3. buf'[active] = buf[active] \cup {<<msg_index, byte_index, dat>>}
        BY <1>1, <1>3, <1>5, <2>2 DEF StoreByte, BufFacts
      <3>4. BytesIn = byte_index + 1
        BY <2>2 DEF BytesIn
      <3> QED
        BY <1>1, <1>2, <1>4, <3>2, <3>3, <3>4
    <2>3. CASE ~StoresByte
      BY <1>1, <1>2, <1>5, <2>3 DEF StoreByte, BytesIn
    <2> QED
      BY <2>2, <2>3
  <1>6. CASE MessageSent
    <2>1. /\ ~Msg.read /\ buf' = buf /\ FinishMessage(byte_index)
          /\ byte_index = Msg.len
      BY <1>6, MessageDone DEF MessageSent
    <2>2. buf'[active] = Stored(active, msg_index, Msg.len)
      BY <1>2, <2>1
    <2>3. active' = active /\ complete' = complete /\ attempts' = attempts =>
             msg_index' = msg_index + 1 /\ byte_index' = 0
      <3>1. CASE msg_index + 1 < Count(active)
        BY <2>1, <3>1 DEF FinishMessage
      <3>2. CASE ~(msg_index + 1 < Count(active))
        <4>1. complete' = [complete EXCEPT ![active] = TRUE]
          BY <2>1, <3>2 DEF FinishMessage, Finish
        <4>2. ~complete[active] /\ complete \in [Transaction -> BOOLEAN]
          BY <1>6, HandlerFinds DEF WInv, IInv, TypeOK
        <4> QED
          BY <1>1, <4>1, <4>2
      <3> QED
        BY <3>1, <3>2
    <2> QED
      BY <1>4, <2>2, <2>3
  <1>7. CASE MessageReceived
    <2>1. /\ StoreByte /\ FinishMessage(BytesIn)
          /\ BytesIn = Msg.len /\ stat \in {"0x40", "0x50", "0x58"}
      BY <1>7, MessageDone DEF MessageReceived, Irq
    <2>2. buf'[active] = Stored(active, msg_index, Msg.len)
      BY <1>5, <2>1
    <2>3. active' = active /\ complete' = complete /\ attempts' = attempts =>
             msg_index' = msg_index + 1 /\ byte_index' = 0
      <3>1. CASE msg_index + 1 < Count(active)
        BY <2>1, <3>1 DEF FinishMessage
      <3>2. CASE ~(msg_index + 1 < Count(active))
        <4>1. complete' = [complete EXCEPT ![active] = TRUE]
          BY <2>1, <3>2 DEF FinishMessage, Finish
        <4>2. ~complete[active] /\ complete \in [Transaction -> BOOLEAN]
          BY <1>7, HandlerFinds DEF WInv, IInv, TypeOK
        <4> QED
          BY <1>1, <4>1, <4>2
      <3> QED
        BY <3>1, <3>2
    <2> QED
      BY <1>4, <2>2, <2>3
  <1>8. ASSUME NEW e, NEW set, NEW n, Finish(e, set, n), ~MessageSent, ~MessageReceived
        PROVE  complete' # complete
    <2>1. ~complete[active] /\ complete \in [Transaction -> BOOLEAN]
      BY HandlerFinds DEF WInv, IInv, TypeOK
    <2> QED
      BY <1>1, <1>8, <2>1 DEF Finish
  <1>9. CASE SendAddress \/ NackRetry
    <2>1. UNCHANGED <<buf, msg_index, byte_index>> /\ ~MessageSent /\ ~MessageReceived
      BY <1>9 DEF SendAddress, NackRetry, master, MessageSent, MessageReceived, Irq
    <2> QED
      BY <1>2, <2>1
  <1>10. CASE SendByte
    <2>1. UNCHANGED <<buf, msg_index>> /\ byte_index' = byte_index + 1
          /\ stat \in {"0x18", "0x28"} /\ byte_index < Msg.len
      BY <1>10 DEF SendByte, Irq
    <2>2. ~Msg.read
      BY <1>1, <2>1 DEF Reported
    <2>3. ~MessageSent /\ ~MessageReceived
      BY <1>1, <2>1 DEF MessageSent, MessageReceived, Irq
    <2>4. Stored(active, msg_index, byte_index + 1) = Stored(active, msg_index, byte_index)
      BY <1>1, <1>4, <2>2
    <2> QED
      BY <1>2, <2>1, <2>3, <2>4
  <1>11. CASE ReceiveByte /\ ~MessageReceived
    <2>1. StoreByte /\ byte_index' = BytesIn /\ msg_index' = msg_index
          /\ stat \in {"0x40", "0x50"}
      BY <1>11 DEF ReceiveByte, Irq
    <2>2. ~MessageSent
      BY <2>1 DEF MessageSent, Irq
    <2> QED
      BY <1>5, <1>11, <2>1, <2>2
  <1>12. CASE (NackFail \/ ArbitrationLost \/ UnknownStatus) /\ ~MessageSent /\ ~MessageReceived
    BY <1>8, <1>12 DEF NackFail, ArbitrationLost, UnknownStatus
  <1> QED
    BY <1>6, <1>7, <1>9, <1>10, <1>11, <1>12 DEF Handler

LEMMA NextBuffers ==
    ASSUME WInv, [Next]_vars
    PROVE  BufferFacts'
  <1> USE DEF app, transactions, master, controller, bus
  <1>1. /\ TypeOK /\ BufFacts /\ KickoffFacts /\ HoldFacts /\ CallerFacts /\ BufferFacts
        /\ AttemptFacts
    BY DEF WInv, IInv
  <1>2. ASSUME UNCHANGED <<active, msg_index, byte_index, owner, complete, buf>>,
               pc' = "reset" <=> pc = "reset"
        PROVE  BufferFacts'
    BY <1>1, <1>2 DEF BufferFacts
  <1>3. ASSUME NEW t \in Transaction, Release(t), complete[t], t # active \/ pc = "reset",
               UNCHANGED <<active, msg_index, byte_index>>, pc' = "reset" <=> pc = "reset"
        PROVE  BufferFacts'
    BY <1>1, <1>3 DEF BufferFacts, BufFacts, Release, TypeOK
  <1>4. ASSUME NEW t \in Transaction, Start(t)
        PROVE  BufferFacts'
    <2>1. /\ owner[t] = "app" /\ pc = "app" /\ pc' = "enqueue"
          /\ UNCHANGED <<buf, active, msg_index, byte_index>>
          /\ \A u \in Transaction : u # t => owner'[u] = owner[u] /\ complete'[u] = complete[u]
      BY <1>1, <1>4 DEF Start, TypeOK
    <2>2. t # active
      BY <1>1, <2>1, NullAssumption DEF HoldFacts, Current
    <2> QED
      BY <1>1, <2>1, <2>2 DEF BufferFacts
  <1>5. ASSUME NEW t \in Transaction, StatusTransaction(t)
        PROVE  BufferFacts'
    <2>1. t # active
      BY <1>1, <1>5, NullAssumption DEF StatusTransaction, HoldFacts, Current
    <2> QED
      BY <1>3, <1>5, <2>1 DEF StatusTransaction
  <1>6. ASSUME NEW t \in Transaction, WaitTransaction(t)
        PROVE  BufferFacts'
    BY <1>2, <1>6 DEF WaitTransaction
  <1>7. CASE Wait
    <2>1. CASE complete[cur]
      <3>1. PICK t \in Transaction : t = cur
        BY <1>1, <1>7 DEF Wait, CallerFacts
      <3>2. Release(t) /\ complete[t] /\ pc = "wait" /\ pc' = "app"
            /\ UNCHANGED <<active, msg_index, byte_index>>
        BY <1>7, <2>1, <3>1 DEF Wait, Return, Release
      <3>3. t # active
        BY <1>1, <3>2, NullAssumption DEF HoldFacts, Current
      <3> QED
        BY <1>3, <3>2, <3>3
    <2>2. CASE ~complete[cur]
      BY <1>2, <1>7, <2>2 DEF Wait
    <2> QED
      BY <2>1, <2>2
  <1>8. CASE Enqueue \/ Check \/ KickoffDequeue \/ WaitForInterrupt \/ SysTick \/ KickoffArm
    BY <1>2, <1>8 DEF Enqueue, Check, KickoffDequeue, WaitForInterrupt, SysTick, KickoffArm,
                      Return, Awake
  <1>9. CASE KickoffStore
    <2>1. /\ active = NULL /\ UNCHANGED <<owner, complete, buf>>
          /\ active' = NULL \/ pc' = "reset"
      BY <1>1, <1>9 DEF KickoffStore, KickoffFacts
    <2> QED
      BY <1>1, <2>1, NullAssumption DEF BufferFacts
  <1>10. CASE KickoffReset
    <2>1. /\ active \in Transaction /\ ~complete[active] /\ pc = "reset" /\ pc' = "arm"
          /\ UNCHANGED <<active, owner, complete, buf>>
          /\ msg_index' = 0 /\ byte_index' = 0
      BY <1>1, <1>10 DEF KickoffReset, KickoffFacts, TypeOK, HoldFacts, Current
    <2>2. Stored(active, 0, 0) = {}
      BY <2>1, MessageType, StoredFacts
    <2> QED
      BY <1>1, <2>1, <2>2 DEF BufferFacts
  <1>11. CASE Handler
    <2>1. /\ HandlerFrame
          /\ pc \notin {"reset", "arm", "store"}
          /\ active \in Transaction /\ active # NULL
          /\ owner[active] = "driver" /\ ~complete[active]
      BY <1>11, HandlerFinds
    <2>2. \A t \in Transaction : t # active => buf'[t] = buf[t]
      BY <1>1, <1>11, HandlerBuf
    <2>3. owner' = owner /\ pc' # "reset"
      BY <2>1 DEF HandlerFrame, Awake
    <2>4. CASE Continues
      <3>1. active' = active /\ complete' = complete /\ attempts' = attempts
        BY <2>4 DEF Continues
      <3>2. buf'[active] = Stored(active, msg_index', byte_index')
        BY <1>11, <3>1, HandlerStores
      <3> QED
        BY <1>1, <2>1, <2>2, <2>3, <3>1, <3>2 DEF BufferFacts
    <2>5. CASE Finishes
      <3>1. PICK e \in Error, set \in SUBSET {"STO", "AA"}, n \in Nat : Finish(e, set, n)
        BY <2>5 DEF Finishes
      <3>2. /\ complete'[active]
            /\ \A t \in Transaction : t # active => complete'[t] = complete[t]
            /\ DequeueNext(set, n)
        BY <1>1, <2>1, <3>1 DEF Finish, TypeOK
      <3>3. active' # NULL =>
               /\ active' \in Transaction /\ active' # active
               /\ msg_index' = 0 /\ byte_index' = 0
               /\ ~complete[active']
        <4>1. CASE transaction_queue = <<>>
          BY <3>2, <4>1 DEF DequeueNext
        <4>2. CASE transaction_queue # <<>>
          <5>1. active' = Head(transaction_queue) /\ msg_index' = 0 /\ byte_index' = 0
            BY <3>2, <4>2 DEF DequeueNext
          <5>2. /\ transaction_queue \in Seq(Transaction)
                /\ Head(transaction_queue) = transaction_queue[1]
                /\ 1 \in DOMAIN transaction_queue
                /\ Head(transaction_queue) \in Transaction
            BY <1>1, <4>2, QueueTail DEF TypeOK
          <5>3. transaction_queue[1] # Current /\ ~complete[transaction_queue[1]]
            BY <1>1, <5>2 DEF HoldFacts
          <5> QED
            BY <2>1, <5>1, <5>2, <5>3 DEF Current
        <4> QED
          BY <4>1, <4>2
      <3>4. ASSUME NEW t \in Transaction, t = active'
            PROVE  buf'[t] = Stored(t, 0, 0)
        <4>1. Stored(t, 0, 0) = {}
          BY MessageType, StoredFacts
        <4>2. buf[t] = {}
          BY <1>1, <3>3, <3>4, NullAssumption DEF BufferFacts
        <4> QED
          BY <2>2, <3>3, <3>4, <4>1, <4>2, NullAssumption
      <3>5. ASSUME NEW t \in Transaction, t # active', owner'[t] = "app" \/ ~complete'[t]
            PROVE  buf'[t] = {}
        <4>1. t # active
          BY <2>1, <2>3, <3>2, <3>5
        <4>2. owner[t] = "app" \/ ~complete[t]
          BY <2>3, <3>2, <3>5, <4>1
        <4> QED
          BY <1>1, <2>2, <4>1, <4>2 DEF BufferFacts
      <3> QED
        BY <2>3, <3>3, <3>4, <3>5, NullAssumption DEF BufferFacts
    <2> QED
      BY <1>11, <2>4, <2>5, HandlerOutcome DEF WInv
  <1>12. CASE Bus
    BY <1>1, <1>2, <1>12, BusSteps DEF BusOutcome
  <1>13. CASE UNCHANGED vars
    BY <1>2, <1>13 DEF vars
  <1> QED
    BY <1>4, <1>5, <1>6, <1>7, <1>8, <1>9, <1>10, <1>11, <1>12, <1>13 DEF Next, Running

----------------------------------------------------------------------------
LEMMA InitWInv == Init => WInv
  <1> SUFFICES ASSUME Init PROVE WInv
    OBVIOUS
  <1>1. wire = <<>> /\ con = {} /\ stat = "0xF8" /\ active = NULL /\ pc = "app"
        /\ attempts = 0
    BY DEF Init
  <1>2. IInv
    BY InitIInv
  <1>3. WireFacts
    BY <1>1 DEF WireFacts
  <1>4. BusFacts
    <2>1. wire \in Seq(Events)
      BY <1>1
    <2> QED
      BY <1>1, <2>1 DEF BusFacts
  <1>5. AttemptFacts
    BY <1>1 DEF AttemptFacts, FirstStart
  <1>6. BufferFacts
    BY NullAssumption DEF Init, BufferFacts
  <1> QED
    BY <1>2, <1>3, <1>4, <1>5, <1>6 DEF WInv

(* The transfer always agrees with the bus: what the wire shows, what the    *)
(* handler still has to do, the attempts made and the bytes stored so far    *)
(* are at every step those of one prefix of the transaction's transcript.    *)
THEOREM WireInductive == Spec => []WInv
  <1>1. WInv /\ [Next]_vars => WInv'
    <2>1. IInv /\ [Next]_vars => IInv'
      BY NextTypeOK, NextKickoff, NextStranded, NextStart, NextIndex, NextCaller,
         NextHold, NextBuf DEF IInv
    <2> QED
      BY <2>1, NextWire, NextAttempts, NextBuffers DEF WInv
  <1> QED
    BY InitWInv, <1>1, PTL DEF Spec

LEMMA JoinedType ==
    ASSUME NEW S, NEW u \in Seq(S), NEW v \in Seq(S)
    PROVE  u \o v \in Seq(S)
  OBVIOUS

LEMMA TranscriptFacts ==
    ASSUME NEW t \in Transaction
    PROVE  /\ Transcript(t) \in Seq(Events)
           /\ \A k \in 1 .. Len(Transcript(t)) : ~Refused(Transcript(t)[k])
  <1>1. Count(t) \in Nat /\ Count(t) > 0
    BY MessageType
  <1>2. PICK m \in Nat : m = Count(t) - 1
    BY <1>1
  <1>3. m < Count(t) /\ m + 1 = Count(t) /\ m + 1 \in 1 .. Count(t)
    BY <1>1, <1>2
  <1>4. Upto(t, m) \in Seq(Events) /\ FrameTranscript(t, m + 1) \in Seq(Events)
        /\ Upto(t, m + 1) = Upto(t, m) \o FrameTranscript(t, m + 1)
    BY <1>3, UptoNext, FrameFacts
  <1>5. Upto(t, m + 1) \in Seq(Events)
    <2>1. Upto(t, m) \o FrameTranscript(t, m + 1) \in Seq(Events)
      BY <1>4, JoinedType
    <2> QED
      BY <1>4, <2>1
  <1>6. Transcript(t) = Upto(t, Count(t)) /\ Len(Transcript(t)) = Offset(t, Count(t))
    BY DEF Transcript, Upto, Offset
  <1>7. \A k \in 1 .. Offset(t, Count(t)) : ~Refused(Transcript(t)[k])
    BY <1>1, TranscriptSoFar
  <1> QED
    BY <1>3, <1>5, <1>6, <1>7

(* What is on the bus is the transcript of the active transaction as far as *)
(* it goes, but for a last event that may be refused.                       *)
LEMMA WireAgrees ==
    ASSUME WInv, wire # <<>>, "STO" \notin con
    PROVE  /\ active \in Transaction /\ active # NULL
           /\ wire \in Seq(Events)
           /\ Transcript(active) \in Seq(Events)
           /\ Len(wire) <= Len(Transcript(active))
           /\ \A k \in 1 .. Len(wire) - 1 :
                 wire[k] = Transcript(active)[k] /\ ~Refused(wire[k])
           /\ Asked(wire[Len(wire)]) = Asked(Transcript(active)[Len(wire)])
  <1>1. /\ TypeOK /\ IndexFacts /\ KickoffFacts /\ BusFacts /\ WireFacts
    BY DEF WInv, IInv
  <1>2. /\ active \in Transaction /\ active # NULL /\ pc # "reset"
        /\ wire \in Seq(Events) /\ msg_index \in Nat /\ byte_index \in Nat
    BY <1>1 DEF WireFacts, BusFacts, KickoffFacts, Quiet, Owned, TypeOK
  <1>3. msg_index < Count(active) /\ byte_index <= Msg.len
        /\ Msg = Msgs[active][msg_index + 1]
    BY <1>1, <1>2 DEF IndexFacts, Msg
  <1> DEFINE o == Offset(active, msg_index)
             T == Transcript(active)
  <1>4. /\ o \in Nat /\ Msg.len \in Nat /\ Msg.read \in BOOLEAN
        /\ (msg_index = 0 => o = 0)
        /\ Offset(active, msg_index + 1) = o + 2 + Msg.len
        /\ Len(T) \in Nat /\ o + 2 + Msg.len <= Len(T)
        /\ T[o + 2] = <<"A", Msg.read, TRUE>>
        /\ Msg.read \/ \A k \in 1 .. Msg.len : T[o + 2 + k] = <<"W", msg_index, k - 1, TRUE>>
    BY <1>2, <1>3, Positions
  <1>5. T \in Seq(Events) /\ \A k \in 1 .. Len(T) : ~Refused(T[k])
    BY <1>2, TranscriptFacts
  <1> HIDE DEF o, T
  <1>6. ASSUME NEW j \in Nat, j <= 2 + Msg.len, SentAt(wire, active, msg_index, j)
        PROVE  /\ Len(wire) <= Len(T)
               /\ \A k \in 1 .. Len(wire) - 1 : wire[k] = T[k]
               /\ Asked(wire[Len(wire)]) = Asked(T[Len(wire)])
    <2>1. Len(wire) = o + j /\ \A k \in 1 .. Len(wire) : wire[k] = T[k]
      BY <1>6 DEF SentAt, o, T
    <2>2. Len(wire) \in 1 .. Len(wire) /\ Len(wire) <= Len(T)
      <3>1. Len(wire) \in Nat /\ Len(wire) # 0
        BY <1>2
      <3> QED
        BY <1>4, <1>6, <2>1, <3>1
    <2> QED
      BY <2>1, <2>2
  <1>7. ASSUME NEW j \in Nat, j <= 2 + Msg.len, NEW event, NEW unrefused,
               SentButAt(wire, active, msg_index, j, event),
               T[o + j] = unrefused, Asked(event) = Asked(unrefused)
        PROVE  /\ Len(wire) <= Len(T)
               /\ \A k \in 1 .. Len(wire) - 1 : wire[k] = T[k]
               /\ Asked(wire[Len(wire)]) = Asked(T[Len(wire)])
    <2>1. Len(wire) = o + j /\ \A k \in 1 .. Len(wire) - 1 : wire[k] = T[k]
          /\ wire[Len(wire)] = event
      BY <1>7 DEF SentButAt, o, T
    <2>2. T[Len(wire)] = unrefused
      BY <1>7, <2>1
    <2>3. Len(wire) <= Len(T)
      BY <1>4, <1>7, <2>1
    <2>4. Asked(wire[Len(wire)]) = Asked(event)
      <3>1. wire[Len(wire)] = event
        BY <1>7 DEF SentButAt
      <3> QED
        BY <3>1
    <2>5. Asked(T[Len(wire)]) = Asked(unrefused)
      BY <2>2
    <2>6. \A k \in 1 .. Len(wire) - 1 : wire[k] = T[k]
      BY <2>1
    <2> QED
      BY <1>7, <2>3, <2>4, <2>5, <2>6
  <1>8. /\ Len(wire) <= Len(T)
        /\ \A k \in 1 .. Len(wire) - 1 : wire[k] = T[k]
        /\ Asked(wire[Len(wire)]) = Asked(T[Len(wire)])
    <2>1. \/ \E j \in Nat : j <= 2 + Msg.len /\ SentAt(wire, active, msg_index, j)
          \/ SentBut(2, <<"A", Msg.read, FALSE>>)
          \/ /\ ~Msg.read /\ byte_index > 0
             /\ SentBut(2 + byte_index, <<"W", msg_index, byte_index - 1, FALSE>>)
      <3>1. CASE "SI" \in con
        <4>1. Reported
          BY <1>1, <3>1 DEF WireFacts
        <4>2. CASE stat \in {"0x08", "0x10"}
          <5>1. SentAt(wire, active, msg_index, 1) /\ 1 <= 2 + Msg.len
            BY <1>4, <4>1, <4>2 DEF Reported, Sent
          <5> QED
            BY <5>1
        <4>3. CASE stat \in {"0x18", "0x40"}
          <5>1. SentAt(wire, active, msg_index, 2) /\ 2 <= 2 + Msg.len
            BY <1>4, <4>1, <4>3 DEF Reported, Sent
          <5> QED
            BY <5>1
        <4>4. CASE stat = "0x28"
          <5>1. SentAt(wire, active, msg_index, 2 + byte_index) /\ 2 + byte_index <= 2 + Msg.len
                /\ 2 + byte_index \in Nat
            BY <1>2, <1>3, <1>4, <4>1, <4>4 DEF Reported, Sent
          <5> QED
            BY <5>1
        <4>5. CASE stat \in {"0x50", "0x58"}
          <5>1. Sent(3 + byte_index) /\ byte_index + 1 <= Msg.len
            <6>1. stat = "0x50" => Sent(3 + byte_index) /\ byte_index + 1 < Msg.len
              BY <4>1 DEF Reported
            <6>2. stat = "0x58" => Sent(3 + byte_index) /\ byte_index + 1 = Msg.len
              BY <4>1 DEF Reported
            <6> QED
              BY <1>2, <1>4, <4>5, <6>1, <6>2
          <5>2. SentAt(wire, active, msg_index, 3 + byte_index) /\ 3 + byte_index <= 2 + Msg.len
                /\ 3 + byte_index \in Nat
            BY <1>2, <1>4, <5>1 DEF Sent
          <5> QED
            BY <5>2
        <4>6. CASE stat \in {"0x20", "0x48"}
          <5>1. CASE stat = "0x20"
            <6>1. SentBut(2, <<"A", FALSE, FALSE>>) /\ Msg.read = FALSE
              BY <1>4, <4>1, <5>1 DEF Reported
            <6> QED
              BY <6>1
          <5>2. CASE stat = "0x48"
            <6>1. SentBut(2, <<"A", TRUE, FALSE>>) /\ Msg.read = TRUE
              BY <1>4, <4>1, <5>2 DEF Reported
            <6> QED
              BY <6>1
          <5> QED
            BY <4>6, <5>1, <5>2
        <4>7. CASE stat = "0x30"
          BY <4>1, <4>7 DEF Reported
        <4> QED
          BY <4>1, <4>2, <4>3, <4>4, <4>5, <4>6, <4>7 DEF Reported
      <3>2. CASE "SI" \notin con
        <4>1. Told
          BY <1>1, <3>2 DEF WireFacts
        <4>2. \E j \in {0, 1, 1 + byte_index, 2 + byte_index} :
                 SentAt(wire, active, msg_index, j)
          BY <4>1 DEF Told, Sent
        <4>3. PICK j \in {0, 1, 1 + byte_index, 2 + byte_index} :
                 SentAt(wire, active, msg_index, j)
          BY <4>2
        <4>4. j \in Nat /\ j <= 2 + Msg.len
          BY <1>2, <1>3, <1>4
        <4> QED
          BY <4>3, <4>4
      <3> QED
        BY <3>1, <3>2
    <2>2. CASE \E j \in Nat : j <= 2 + Msg.len /\ SentAt(wire, active, msg_index, j)
      BY <1>6, <2>2
    <2>3. CASE SentBut(2, <<"A", Msg.read, FALSE>>)
      <3>1. Asked(<<"A", Msg.read, FALSE>>) = Asked(<<"A", Msg.read, TRUE>>)
        BY AddressEvents
      <3>2. SentButAt(wire, active, msg_index, 2, <<"A", Msg.read, FALSE>>)
        BY <2>3 DEF SentBut
      <3>3. 2 \in Nat /\ 2 <= 2 + Msg.len
        BY <1>4
      <3> QED
        BY <1>4, <1>7, <3>1, <3>2, <3>3
    <2>4. CASE /\ ~Msg.read /\ byte_index > 0
               /\ SentBut(2 + byte_index, <<"W", msg_index, byte_index - 1, FALSE>>)
      <3>1. Asked(<<"W", msg_index, byte_index - 1, FALSE>>)
               = Asked(<<"W", msg_index, byte_index - 1, TRUE>>)
        BY WriteEvents
      <3>2. byte_index \in 1 .. Msg.len
        BY <1>2, <1>3, <1>4, <2>4
      <3>3. T[o + 2 + byte_index] = <<"W", msg_index, byte_index - 1, TRUE>>
        BY <1>4, <2>4, <3>2
      <3>4. PICK j \in Nat : j = 2 + byte_index
        BY <1>2
      <3>5. T[o + j] = <<"W", msg_index, byte_index - 1, TRUE>> /\ j <= 2 + Msg.len
        <4>1. o + 2 + byte_index = o + j /\ j <= 2 + Msg.len
          BY <1>2, <1>3, <1>4, <3>4
        <4>2. T[o + j] = T[o + 2 + byte_index]
          BY <4>1
        <4> QED
          BY <3>3, <4>1, <4>2
      <3>6. SentButAt(wire, active, msg_index, j, <<"W", msg_index, byte_index - 1, FALSE>>)
        BY <2>4, <3>4 DEF SentBut
      <3> QED
        BY <1>7, <3>1, <3>5, <3>6
    <2> QED
      BY <2>1, <2>2, <2>3, <2>4
  <1>9. \A k \in 1 .. Len(wire) - 1 : wire[k] = T[k] /\ ~Refused(wire[k])
    <2>1. \A k \in 1 .. Len(wire) - 1 : k \in 1 .. Len(T)
      <3>1. Len(wire) \in Nat
        BY <1>2
      <3> QED
        BY <1>4, <1>8, <3>1
    <2> QED
      BY <1>5, <1>8, <2>1
  <1> QED
    BY <1>2, <1>5, <1>8, <1>9 DEF T

(* Two sequences that agree as far as the shorter goes.                     *)
LEMMA PrefixFacts ==
    ASSUME NEW s, NEW u, NEW n \in Nat, NEW m \in Nat, n <= m,
           DOMAIN s = 1 .. n, Len(s) = n, DOMAIN u = 1 .. m, Len(u) = m,
           \A k \in 1 .. n : s[k] = u[k]
    PROVE  IsPrefix(s, u)
  <1>1. SubSeq(s, 1, n) = SubSeq(u, 1, n)
    OBVIOUS
  <1> QED
    BY <1>1 DEF IsPrefix

(* Between a START and the STOP the bus sees the messages of the active     *)
(* transaction, in order, every byte once and nothing after a refusal:      *)
(* i2c_master_sm never repeats, skips or reorders a byte.                   *)
THEOREM WireFollows == Spec => []WireFollowsTransaction
  <1>1. WInv => WireFollowsTransaction
    <2> SUFFICES ASSUME WInv, wire # <<>>, "STO" \notin con
                 PROVE  /\ active # NULL
                        /\ IsPrefix(AskedOf(wire), AskedOf(Transcript(active)))
                        /\ \A k \in 1 .. Len(wire) - 1 : ~Refused(wire[k])
      BY DEF WireFollowsTransaction
    <2> DEFINE T == Transcript(active)
               s == AskedOf(wire)
               u == AskedOf(T)
    <2>1. /\ active \in Transaction /\ active # NULL
          /\ wire \in Seq(Events) /\ T \in Seq(Events)
          /\ Len(wire) <= Len(T)
          /\ \A k \in 1 .. Len(wire) - 1 : wire[k] = T[k] /\ ~Refused(wire[k])
          /\ Asked(wire[Len(wire)]) = Asked(T[Len(wire)])
      BY WireAgrees
    <2> HIDE DEF T
    <2>2. PICK n \in Nat : n = Len(wire)
      BY <2>1
    <2>3. PICK m \in Nat : m = Len(T)
      BY <2>1
    <2>4. DOMAIN wire = 1 .. n /\ DOMAIN T = 1 .. m /\ n <= m
      BY <2>1, <2>2, <2>3
    <2>5. /\ DOMAIN s = 1 .. n /\ DOMAIN u = 1 .. m
          /\ \A k \in 1 .. n : s[k] = Asked(wire[k])
          /\ \A k \in 1 .. m : u[k] = Asked(T[k])
      BY <2>4 DEF AskedOf
    <2>6. Len(s) = n /\ Len(u) = m
      <3> DEFINE S == {s[k] : k \in 1 .. n} \cup {u[k] : k \in 1 .. m}
      <3>1. s = [k \in 1 .. n |-> s[k]] /\ u = [k \in 1 .. m |-> u[k]]
        BY <2>4 DEF AskedOf
      <3> HIDE DEF s, u
      <3> QED
        BY <3>1
    <2>7. \A k \in 1 .. n : s[k] = u[k]
      <3>1. \A k \in 1 .. n : k \in 1 .. m /\ (k = n \/ k \in 1 .. n - 1)
        BY <2>4
      <3> HIDE DEF s, u
      <3> QED
        BY <2>1, <2>2, <2>5, <3>1
    <2>8. IsPrefix(s, u)
      <3> HIDE DEF s, u
      <3> QED
        BY <2>4, <2>5, <2>6, <2>7, PrefixFacts
    <2> QED
      BY <2>1, <2>8 DEF T
  <1> QED
    BY <1>1, WireInductive, PTL

(* Only the handler completes a transaction, the active one.                *)
LEMMA CompletedByHandler ==
    ASSUME WInv, [Next]_vars, NEW t \in Transaction, ~complete[t], complete'[t]
    PROVE  Handler /\ t = active /\ Finishes
  <1> USE DEF app, transactions, master, controller, bus
  <1>1. TypeOK
    BY DEF WInv, IInv
  <1>2. complete' # complete
    OBVIOUS
  <1>3. Handler
    <2>1. ASSUME NEW u \in Transaction,
                 Start(u) \/ StatusTransaction(u) \/ WaitTransaction(u)
          PROVE  FALSE
      BY <1>1, <2>1 DEF Start, StatusTransaction, WaitTransaction, Release, TypeOK
    <2>2. ~Running /\ ~SysTick
      BY <1>2 DEF Running, Enqueue, Check, KickoffDequeue, KickoffStore, KickoffReset,
         KickoffArm, Wait, Release, WaitForInterrupt, SysTick
    <2>3. ~Bus
      BY <1>1, <1>2, BusSteps DEF BusOutcome
    <2>4. ~UNCHANGED vars
      BY <1>2 DEF vars
    <2> QED
      BY <2>1, <2>2, <2>3, <2>4 DEF Next
  <1>4. Finishes
    BY <1>2, <1>3, HandlerOutcome DEF Continues, WInv
  <1>5. t = active
    BY <1>1, <1>4 DEF Finishes, Finish, TypeOK
  <1> QED
    BY <1>3, <1>4, <1>5

(* The step that completes a transaction, by its error code.                *)
LEMMA CompletedBy ==
    ASSUME WInv, Handler, complete' # complete
    PROVE  \/ MessageSent /\ FinishMessage(byte_index) /\ ~(msg_index + 1 < Count(active))
              /\ error'[active] = "ok"
           \/ MessageReceived /\ FinishMessage(BytesIn) /\ ~(msg_index + 1 < Count(active))
              /\ error'[active] = "ok"
           \/ NackFail /\ error'[active] =
                 IF msg_index > 0 \/ byte_index > 0 THEN "nack" ELSE "timeout"
           \/ ArbitrationLost /\ error'[active] = "arbitration"
           \/ UnknownStatus /\ error'[active] = "unknown"
  <1>1. error \in [Transaction -> Error] /\ active \in Transaction
    BY HandlerFinds DEF WInv, IInv, TypeOK
  <1>2. ASSUME NEW e, NEW set, NEW n, Finish(e, set, n)
        PROVE  error'[active] = e
    BY <1>1, <1>2 DEF Finish
  <1>3. ASSUME NEW n, FinishMessage(n)
        PROVE  ~(msg_index + 1 < Count(active)) /\ error'[active] = "ok"
    BY <1>2, <1>3 DEF FinishMessage
  <1>4. ~SendAddress /\ ~SendByte /\ ~NackRetry /\ ~ReceiveByte
    BY DEF SendAddress, SendByte, NackRetry, ReceiveByte
  <1>5. MessageSent => FinishMessage(byte_index) /\ ~(msg_index + 1 < Count(active))
                       /\ error'[active] = "ok"
    BY <1>3 DEF MessageSent
  <1>6. MessageReceived => FinishMessage(BytesIn) /\ ~(msg_index + 1 < Count(active))
                           /\ error'[active] = "ok"
    BY <1>3 DEF MessageReceived
  <1>7. NackFail => error'[active] = IF msg_index > 0 \/ byte_index > 0 THEN "nack" ELSE "timeout"
    BY <1>2 DEF NackFail
  <1>8. ArbitrationLost => error'[active] = "arbitration"
    BY <1>2 DEF ArbitrationLost
  <1>9. UnknownStatus => error'[active] = "unknown"
    BY <1>2 DEF UnknownStatus
  <1> QED
    BY <1>4, <1>5, <1>6, <1>7, <1>8, <1>9 DEF Handler

LEMMA SuccessStep ==
    ASSUME WInv, [Next]_vars, NEW t \in Transaction, Completes(t, "ok")
    PROVE  wire = Transcript(t) /\ buf'[t] = Delivered(t)
  <1>1. Handler /\ t = active /\ complete' # complete /\ error'[active] = "ok"
    BY CompletedByHandler DEF Completes
  <1>2. /\ active \in Transaction /\ msg_index \in Nat /\ msg_index < Count(active)
        /\ Count(active) \in Nat
        /\ Msg.len \in Nat /\ Msg = Msgs[active][msg_index + 1]
    BY <1>1, HandlerFinds
  <1>3. /\ \E n : FinishMessage(n)
        /\ MessageSent \/ MessageReceived
        /\ ~(msg_index + 1 < Count(active))
    BY <1>1, CompletedBy
  <1>4. msg_index + 1 = Count(active)
    BY <1>2, <1>3
  <1>5. wire = Transcript(active)
    <2> DEFINE T == Transcript(active)
    <2>1. SentAt(wire, active, msg_index + 1, 0) /\ Len(wire) = Offset(active, msg_index + 1)
      BY <1>3, MessageDone
    <2>2. Offset(active, msg_index + 1) = Len(T)
      BY <1>2, <1>4, Positions
    <2>3. Len(wire) = Len(T) /\ \A k \in 1 .. Len(wire) : wire[k] = T[k]
      BY <2>1, <2>2 DEF SentAt
    <2>4. wire \in Seq(Events) /\ T \in Seq(Events)
      BY <1>2, TranscriptFacts DEF WInv, BusFacts
    <2> HIDE DEF T
    <2>5. wire = T
      BY <2>3, <2>4, SeqEqual
    <2> QED
      BY <2>5 DEF T
  <1>6. buf'[active] = Delivered(active)
    <2>1. buf'[active] = Stored(active, msg_index, Msg.len)
      BY <1>1, <1>3, HandlerStores
    <2>2. Stored(active, msg_index, Msgs[active][msg_index + 1].len) = Delivered(active)
      BY <1>2, <1>4, StoredFacts
    <2> QED
      BY <1>2, <2>1, <2>2
  <1> QED
    BY <1>1, <1>5, <1>6

(* A transaction that is reported complete without error went over the bus  *)
(* in full, and every byte read lies in its own place of its own buffer.    *)
THEOREM SuccessTransferred == Spec => SuccessMeansTransferred
  <1>1. WInv /\ [Next]_vars =>
           \A t \in Transaction :
              Completes(t, "ok") => wire = Transcript(t) /\ buf'[t] = Delivered(t)
    BY SuccessStep
  <1> QED
    BY <1>1, WireInductive, PTL DEF Spec, SuccessMeansTransferred

LEMMA TwoOf ==
    ASSUME NEW S, NEW w \in Seq(S), NEW a \in S, NEW b \in S,
           Len(w) = 0 + 2, w[1] = a, w[2] = b
    PROVE  w = <<a, b>>
  <1> DEFINE v == <<a, b>>
  <1>1. v \in Seq(S) /\ Len(v) = 0 + 2 /\ v[1] = a /\ v[2] = b
    OBVIOUS
  <1> HIDE DEF v
  <1>2. Len(w) = Len(v) /\ \A i \in 1 .. Len(w) : w[i] = v[i]
    BY <1>1
  <1>3. w = v
    BY <1>1, <1>2, SeqEqual
  <1> QED
    BY <1>3 DEF v

LEMMA FailureStep ==
    ASSUME WInv, [Next]_vars, NEW t \in Transaction
    PROVE  /\ Completes(t, "timeout") =>
                 /\ attempts = NumRetries + 1
                 /\ wire = << <<"S">>, <<"A", Msgs[t][1].read, FALSE>> >>
           /\ Completes(t, "nack") => Len(wire) > 2 /\ Refused(Last(wire))
           /\ Completes(t, "arbitration") => stat = "0x38"
           /\ Completes(t, "unknown") => stat = "0x00"
  <1>1. ASSUME NEW e, Completes(t, e)
        PROVE  Handler /\ t = active /\ complete' # complete /\ error'[active] = e
    BY <1>1, CompletedByHandler DEF Completes
  <1>2. Completes(t, "arbitration") => stat = "0x38"
    <2> SUFFICES ASSUME Completes(t, "arbitration") PROVE stat = "0x38"
      OBVIOUS
    <2>1. Handler /\ complete' # complete /\ error'[active] = "arbitration"
      BY <1>1
    <2>2. ArbitrationLost
      BY <2>1, CompletedBy
    <2> QED
      BY <2>2 DEF ArbitrationLost, Irq
  <1>3. Completes(t, "unknown") => stat = "0x00"
    <2> SUFFICES ASSUME Completes(t, "unknown") PROVE stat = "0x00"
      OBVIOUS
    <2>1. Handler /\ complete' # complete /\ error'[active] = "unknown"
      BY <1>1
    <2>2. UnknownStatus
      BY <2>1, CompletedBy
    <2> QED
      BY <2>2 DEF UnknownStatus, Irq, WInv, BusFacts
  <1>4. ASSUME NEW e \in {"timeout", "nack"}, Completes(t, e)
        PROVE  /\ t = active /\ active \in Transaction /\ active # NULL
               /\ pc \notin {"reset", "arm", "store"} /\ "SI" \in con
               /\ NackFail /\ ~MayRetry
               /\ stat \in {"0x20", "0x30", "0x48"}
               /\ e = IF msg_index > 0 \/ byte_index > 0 THEN "nack" ELSE "timeout"
               /\ Reported /\ Msg.read \in BOOLEAN
               /\ msg_index \in Nat /\ byte_index \in Nat /\ msg_index < Count(active)
               /\ Msg = Msgs[active][msg_index + 1]
    <2>1. Handler /\ t = active /\ complete' # complete /\ error'[active] = e
      BY <1>1, <1>4
    <2>2. NackFail /\ e = IF msg_index > 0 \/ byte_index > 0 THEN "nack" ELSE "timeout"
      BY <2>1, CompletedBy
    <2>3. stat \in {"0x20", "0x30", "0x48"} /\ ~MayRetry
      BY <2>2 DEF NackFail, Irq
    <2> QED
      BY <2>1, <2>2, <2>3, HandlerFinds
  <1>5. ASSUME Completes(t, "timeout")
        PROVE  /\ attempts = NumRetries + 1
               /\ wire = << <<"S">>, <<"A", Msgs[t][1].read, FALSE>> >>
    <2>1. /\ t = active /\ active \in Transaction /\ active # NULL
          /\ pc \notin {"reset", "arm", "store"} /\ "SI" \in con /\ ~MayRetry
          /\ stat \in {"0x20", "0x30", "0x48"}
          /\ ~(msg_index > 0 \/ byte_index > 0)
          /\ Reported /\ Msg.read \in BOOLEAN
          /\ msg_index \in Nat /\ byte_index \in Nat /\ msg_index < Count(active)
          /\ Msg = Msgs[active][msg_index + 1]
      BY <1>4, <1>5
    <2>2. msg_index = 0 /\ byte_index = 0
      BY <2>1
    <2>3. attempts = NumRetries + 1
      <3>1. retries = 0
        BY <2>1, <2>2, NumRetriesAssumption DEF MayRetry, WInv, IInv, TypeOK
      <3>2. attempts = NumRetries - retries + 1
        BY <2>1 DEF WInv, AttemptFacts, FirstStart
      <3> QED
        BY <3>1, <3>2, NumRetriesAssumption
    <2> DEFINE event == <<"A", Msgs[t][1].read, FALSE>>
    <2>4. Msgs[t][1] = Msg
      <3>1. 0 + 1 = 1
        OBVIOUS
      <3> QED
        BY <2>1, <2>2, <3>1
    <2>5. SentButAt(wire, active, 0, 2, event)
      <3>1. CASE stat = "0x20"
        <4>1. SentBut(2, <<"A", FALSE, FALSE>>) /\ Msg.read = FALSE
          BY <2>1, <3>1 DEF Reported
        <4>2. event = <<"A", FALSE, FALSE>>
          BY <2>4, <4>1
        <4>3. SentButAt(wire, active, 0, 2, <<"A", FALSE, FALSE>>)
          BY <2>2, <4>1 DEF SentBut
        <4> HIDE DEF event
        <4> QED
          BY <4>2, <4>3
      <3>2. CASE stat = "0x48"
        <4>1. SentBut(2, <<"A", TRUE, FALSE>>) /\ Msg.read = TRUE
          BY <2>1, <3>2 DEF Reported
        <4>2. event = <<"A", TRUE, FALSE>>
          BY <2>4, <4>1
        <4>3. SentButAt(wire, active, 0, 2, <<"A", TRUE, FALSE>>)
          BY <2>2, <4>1 DEF SentBut
        <4> HIDE DEF event
        <4> QED
          BY <4>2, <4>3
      <3>3. stat # "0x30"
        BY <2>1, <2>2 DEF Reported
      <3> QED
        BY <2>1, <3>1, <3>2, <3>3
    <2>6. Offset(active, 0) = 0 /\ Transcript(active)[1] = <<"S">>
      <3>1. Offset(active, 0) = 0 /\ Transcript(active)[Offset(active, 0) + 1] = <<"S">>
        BY <2>1, MessageType, Positions
      <3> QED
        BY <3>1
    <2> HIDE DEF event
    <2>7. wire \in Seq(Events)
      BY DEF WInv, BusFacts
    <2>8. Len(wire) = 0 + 2 /\ wire[Len(wire)] = event
      BY <2>5, <2>6 DEF SentButAt
    <2>9. wire[1] = <<"S">> /\ wire[2] = event
      <3>1. \A k \in 1 .. Len(wire) - 1 : wire[k] = Transcript(active)[k]
        BY <2>5 DEF SentButAt
      <3>2. 1 \in 1 .. Len(wire) - 1
        BY <2>8
      <3> QED
        BY <2>6, <2>8, <3>1, <3>2
    <2>10. wire = << <<"S">>, event >>
      <3>1. event \in Events
        BY <2>1, <2>4 DEF Events, event
      <3>2. <<"S">> \in Events
        BY DEF Events
      <3> QED
        BY <2>7, <2>8, <2>9, <3>1, <3>2, TwoOf
    <2> QED
      BY <2>3, <2>10 DEF event
  <1>6. ASSUME Completes(t, "nack")
        PROVE  Len(wire) > 2 /\ Refused(Last(wire))
    <2>1. /\ active \in Transaction
          /\ stat \in {"0x20", "0x30", "0x48"}
          /\ msg_index > 0 \/ byte_index > 0
          /\ Reported /\ Msg.read \in BOOLEAN
          /\ msg_index \in Nat /\ byte_index \in Nat /\ msg_index < Count(active)
          /\ Msg = Msgs[active][msg_index + 1]
      BY <1>4, <1>6
    <2>2. Offset(active, msg_index) \in Nat /\ (msg_index > 0 => Offset(active, msg_index) > 0)
      <3>1. Offset(active, msg_index) \in Nat
        BY <2>1, Positions
      <3>2. ASSUME msg_index > 0
            PROVE  Offset(active, msg_index) > 0
        <4>1. PICK m \in Nat : m + 1 = msg_index
          <5>1. msg_index - 1 \in Nat /\ (msg_index - 1) + 1 = msg_index
            BY <2>1, <3>2
          <5> QED
            BY <5>1
        <4>2. m < Count(active)
          BY <2>1, <4>1, MessageType
        <4>3. /\ Offset(active, m) \in Nat /\ Msgs[active][m + 1].len \in Nat
              /\ Offset(active, m + 1) = Offset(active, m) + 2 + Msgs[active][m + 1].len
          BY <2>1, <4>2, Positions
        <4>4. Offset(active, m + 1) > 0
          BY <4>3
        <4> QED
          BY <4>1, <4>4
      <3> QED
        BY <3>1, <3>2
    <2>3. CASE stat \in {"0x20", "0x48"}
      <3>1. msg_index > 0
        BY <2>1, <2>3 DEF Reported
      <3>2. \E r \in BOOLEAN : SentBut(2, <<"A", r, FALSE>>)
        BY <2>1, <2>3 DEF Reported
      <3>3. PICK r \in BOOLEAN : SentBut(2, <<"A", r, FALSE>>)
        BY <3>2
      <3>4. Len(wire) > 2
        BY <2>2, <3>1, <3>3 DEF SentBut, SentButAt
      <3>5. wire[Len(wire)] = <<"A", r, FALSE>>
        BY <3>3 DEF SentBut, SentButAt
      <3>6. Refused(<<"A", r, FALSE>>)
        BY AddressEvents
      <3> QED
        BY <3>4, <3>5, <3>6 DEF Last
    <2>4. CASE stat = "0x30"
      <3>1. byte_index > 0 /\ SentBut(2 + byte_index, <<"W", msg_index, byte_index - 1, FALSE>>)
        BY <2>1, <2>4 DEF Reported
      <3>2. Len(wire) > 2
        BY <2>1, <2>2, <3>1 DEF SentBut, SentButAt
      <3>3. wire[Len(wire)] = <<"W", msg_index, byte_index - 1, FALSE>>
        BY <3>1 DEF SentBut, SentButAt
      <3>4. Refused(<<"W", msg_index, byte_index - 1, FALSE>>)
        BY WriteEvents
      <3> QED
        BY <3>2, <3>3, <3>4 DEF Last
    <2> QED
      BY <2>1, <2>3, <2>4
  <1> QED
    BY <1>2, <1>3, <1>5, <1>6

(* What each error code says is true: the address was refused on every      *)
(* attempt the retries allow, a later address or byte was refused, or the   *)
(* controller reported the fault.                                           *)
THEOREM ErrorFailed == Spec => ErrorMeansFailure
  <1>1. WInv /\ [Next]_vars =>
           \A t \in Transaction :
              /\ Completes(t, "timeout") =>
                    /\ attempts = NumRetries + 1
                    /\ wire = << <<"S">>, <<"A", Msgs[t][1].read, FALSE>> >>
              /\ Completes(t, "nack") => Len(wire) > 2 /\ Refused(Last(wire))
              /\ Completes(t, "arbitration") => stat = "0x38"
              /\ Completes(t, "unknown") => stat = "0x00"
    BY FailureStep
  <1> QED
    BY <1>1, WireInductive, PTL DEF Spec, ErrorMeansFailure

=============================================================================
