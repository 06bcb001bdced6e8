----------------------------- MODULE I2CMaster -----------------------------
(***************************************************************************)
(* The interrupt-driven I2C master of io/i2c.c: the calls the main program *)
(* makes (i2c_start_transaction, i2c_status_transaction and                *)
(* i2c_wait_transaction, hence i2c_transfer), the interrupt handler        *)
(* i2c_master_sm, and, as the environment, the LPC11xx I2C controller with *)
(* the bus behind it and the SysTick timer.                                *)
(*                                                                         *)
(* The main program advances one statement that touches shared state at a  *)
(* time; the handler is one action, because the main program does not run  *)
(* while it does.  queue_enqueue and queue_dequeue are single steps on a    *)
(* sequence, which module Queue shows they may be taken for.               *)
(*                                                                         *)
(* A definition marked "Fault" is a wrong version of one further down; the *)
(* specification does not use it.                                          *)
(***************************************************************************)
EXTENDS Naturals, Sequences, FiniteSets

CONSTANTS
    Transaction,    \* the struct i2c_transaction objects of the program
    Msgs,           \* transaction -> its messages: sequence of [len, read]
    QueueSize,      \* I2C_QUEUE_SIZE
    NumRetries,     \* I2C_NUM_RETRIES
    MaxPending,     \* transactions the program starts before it waits
    Faults,         \* the bus faults that occur: subset of {"0x00", "0x38"}
    NULL

(* A read message asks for at least one byte, as every caller's does.       *)
WriteMsg(n) == [len |-> n, read |-> FALSE]
ReadMsg(n) == [len |-> n, read |-> TRUE]
Message == {m \in [len : Nat, read : BOOLEAN] : m.read => m.len > 0}

ASSUME MsgsAssumption == Msgs \in [Transaction -> Seq(Message) \ {<<>>}]
ASSUME QueueSizeAssumption == QueueSize \in Nat \ {0}
ASSUME NumRetriesAssumption == NumRetries \in Nat
ASSUME FaultsAssumption == Faults \subseteq {"0x00", "0x38"}
ASSUME NullAssumption == NULL \notin Transaction

VARIABLES
    pc,                 \* the main program's next statement
    cur,                \* the transaction it works on
    obj,                \* what its queue_dequeue call returned
    owner,              \* per transaction: who may touch it, "app" or "driver"
    complete,           \* transaction->complete
    error,              \* transaction->error
    buf,                \* bytes stored: set of <<message, byte, DAT>>
    active,             \* master->active_transaction
    retries,            \* master->retries
    msg_index,          \* master->i2c_msg_index
    byte_index,         \* master->i2c_msg_byte_index
    transaction_queue,  \* master->transaction_queue
    con,                \* controller flags set: STA, STO, SI, AA
    stat,               \* controller status
    dat,                \* controller data register
    wire,               \* what went over the bus since the last START
    attempts            \* STARTs sent for the active transaction

app == <<pc, cur, obj>>
transactions == <<owner, complete, error, buf>>
master == <<active, retries, msg_index, byte_index, transaction_queue>>
controller == <<con, stat, dat>>
bus == <<wire, attempts>>
vars == <<pc, cur, obj, owner, complete, error, buf, active, retries,
          msg_index, byte_index, transaction_queue, con, stat, dat, wire,
          attempts>>

Flag == {"STA", "STO", "SI", "AA"}
Status == {"0xF8", "0x00", "0x08", "0x10", "0x18", "0x20", "0x28", "0x30",
           "0x38", "0x40", "0x48", "0x50", "0x58"}
Error == {"ok", "timeout", "nack", "arbitration", "unknown"}

ASSUME NoErrorAssumption == NULL \notin Error

Init ==
    /\ pc = "app"
    /\ cur = NULL
    /\ obj = NULL
    /\ owner = [t \in Transaction |-> "app"]
    /\ complete = [t \in Transaction |-> FALSE]
    /\ error = [t \in Transaction |-> "ok"]
    /\ buf = [t \in Transaction |-> {}]
    /\ active = NULL
    /\ retries = 0
    /\ msg_index = 0
    /\ byte_index = 0
    /\ transaction_queue = <<>>
    /\ con = {}
    /\ stat = "0xF8"
    /\ dat = <<>>
    /\ wire = <<>>
    /\ attempts = 0

Count(t) == Len(Msgs[t])
Msg == Msgs[active][msg_index + 1]
----------------------------------------------------------------------------
(* The main program.                                                        *)

Pending == {t \in Transaction : owner[t] = "driver"}

Return == pc' = "app" /\ cur' = NULL /\ obj' = NULL

(* i2c_start_transaction: reset the completion flags.  From here on the     *)
(* driver may hold a pointer to the transaction.                            *)
Start(t) ==
    /\ pc = "app" /\ owner[t] = "app" /\ Cardinality(Pending) < MaxPending
    /\ cur' = t
    /\ owner' = [owner EXCEPT ![t] = "driver"]
    /\ complete' = [complete EXCEPT ![t] = FALSE]
    /\ error' = [error EXCEPT ![t] = "ok"]
    /\ pc' = "enqueue"
    /\ UNCHANGED <<obj, buf, master, controller, bus>>

(* Fault: a full queue drops its oldest entry.                              *)
EnqueueOverwriting ==
    /\ pc = "enqueue"
    /\ transaction_queue' =
          IF Len(transaction_queue) < QueueSize
          THEN Append(transaction_queue, cur)
          ELSE Append(Tail(transaction_queue), cur)
    /\ pc' = "check"
    /\ UNCHANGED <<cur, obj, transactions, active, retries, msg_index,
                   byte_index, controller, bus>>

Enqueue ==
    /\ pc = "enqueue"
    /\ IF Len(transaction_queue) < QueueSize
       THEN /\ transaction_queue' = Append(transaction_queue, cur)
            /\ pc' = "check"
       ELSE /\ pc' = "enqueue_wfi"
            /\ UNCHANGED transaction_queue
    /\ UNCHANGED <<cur, obj, transactions, active, retries, msg_index,
                   byte_index, controller, bus>>

(* Fault: the next transaction is kicked off whether the driver is busy or  *)
(* not.                                                                     *)
CheckNothing ==
    /\ pc = "check"
    /\ pc' = "dequeue"
    /\ UNCHANGED <<cur, obj, transactions, master, controller, bus>>

(* `if (master->active_transaction == NULL)': kick the transfer off only    *)
(* when the handler is not going to.                                        *)
Check ==
    /\ pc = "check"
    /\ IF active = NULL
       THEN pc' = "dequeue" /\ UNCHANGED <<cur, obj>>
       ELSE Return
    /\ UNCHANGED <<transactions, master, controller, bus>>

KickoffDequeue ==
    /\ pc = "dequeue"
    /\ IF transaction_queue = <<>>
       THEN obj' = NULL /\ UNCHANGED transaction_queue
       ELSE /\ obj' = Head(transaction_queue)
            /\ transaction_queue' = Tail(transaction_queue)
    /\ pc' = "store"
    /\ UNCHANGED <<cur, transactions, active, retries, msg_index, byte_index,
                   controller, bus>>

KickoffStore ==
    /\ pc = "store"
    /\ active' = obj
    /\ IF obj = NULL
       THEN Return
       ELSE pc' = "reset" /\ UNCHANGED <<cur, obj>>
    /\ UNCHANGED <<transactions, retries, msg_index, byte_index,
                   transaction_queue, controller, bus>>

(* Fault: the retries left over from the last transaction are kept.         *)
KickoffResetIndices ==
    /\ pc = "reset"
    /\ msg_index' = 0
    /\ byte_index' = 0
    /\ pc' = "arm"
    /\ UNCHANGED <<cur, obj, transactions, active, retries, transaction_queue,
                   controller, bus>>

KickoffReset ==
    /\ pc = "reset"
    /\ retries' = NumRetries
    /\ msg_index' = 0
    /\ byte_index' = 0
    /\ pc' = "arm"
    /\ UNCHANGED <<cur, obj, transactions, active, transaction_queue,
                   controller, bus>>

KickoffArm ==
    /\ pc = "arm"
    /\ con' = con \cup {"STA"}
    /\ Return
    /\ UNCHANGED <<transactions, master, stat, dat, bus>>

(* The caller has its answer: the transaction and its buffers are its own   *)
(* again and go out of scope or are reused.                                 *)
Release(t) ==
    /\ owner' = [owner EXCEPT ![t] = "app"]
    /\ error' = [error EXCEPT ![t] = "ok"]
    /\ buf' = [buf EXCEPT ![t] = {}]
    /\ UNCHANGED complete

StatusTransaction(t) ==
    /\ pc = "app" /\ owner[t] = "driver"
    /\ complete[t]
    /\ Release(t)
    /\ UNCHANGED <<app, master, controller, bus>>

WaitTransaction(t) ==
    /\ pc = "app" /\ owner[t] = "driver"
    /\ cur' = t
    /\ pc' = "wait"
    /\ UNCHANGED <<obj, transactions, master, controller, bus>>

Wait ==
    /\ pc = "wait"
    /\ IF complete[cur]
       THEN Return /\ Release(cur)
       ELSE pc' = "wait_wfi" /\ UNCHANGED <<cur, obj, transactions>>
    /\ UNCHANGED <<master, controller, bus>>

(* __WFI() does not sleep while an interrupt is pending; one that was       *)
(* served since the loop condition was read is missed.                      *)
WaitForInterrupt ==
    /\ pc \in {"enqueue_wfi", "wait_wfi"} /\ "SI" \notin con
    /\ pc' = IF pc = "wait_wfi" THEN "wait_asleep" ELSE "enqueue_asleep"
    /\ UNCHANGED <<cur, obj, transactions, master, controller, bus>>

(* Where the main program resumes after any interrupt.                      *)
Awake == CASE pc = "wait_asleep" -> "wait"
           [] pc = "enqueue_asleep" -> "enqueue"
           [] OTHER -> pc

(* Fault: SysTick is never configured (main.c:22).                          *)
NoSysTick == FALSE

(* SysTick_Handler, every millisecond: what it counts is of no interest     *)
(* here, that it ends a sleep is.                                           *)
SysTick ==
    /\ pc \in {"wait_asleep", "enqueue_asleep"}
    /\ pc' = Awake
    /\ UNCHANGED <<cur, obj, transactions, master, controller, bus>>

Running ==
    \/ Enqueue \/ Check \/ KickoffDequeue \/ KickoffStore \/ KickoffReset
    \/ KickoffArm \/ Wait \/ WaitForInterrupt
----------------------------------------------------------------------------
(* The interrupt handler, one action per group of status codes.             *)

Irq(codes) ==
    /\ "SI" \in con /\ stat \in codes /\ active # NULL
    /\ pc' = Awake
    /\ UNCHANGED <<cur, obj, owner, wire, stat>>

(* CONSET and CONCLR with these flags, the clearing of SI that ends every   *)
(* invocation included.                                                     *)
SetFlags(set) == con' = (con \cup set) \ {"SI"}
ClearFlag(f) == con' = con \ {f, "SI"}

(* Faults: START is requested before the queue is found to be empty; the    *)
(* next transaction is looked up but not taken out.                         *)
StartNext(set, n) ==
    /\ IF transaction_queue = <<>>
       THEN /\ active' = NULL
            /\ UNCHANGED transaction_queue
       ELSE /\ active' = Head(transaction_queue)
            /\ transaction_queue' = Tail(transaction_queue)
    /\ retries' = NumRetries
    /\ msg_index' = 0
    /\ byte_index' = 0
    /\ SetFlags(set \cup {"STA"})
PeekNext(set, n) ==
    /\ active' = IF transaction_queue = <<>> THEN NULL ELSE Head(transaction_queue)
    /\ retries' = NumRetries
    /\ msg_index' = 0
    /\ byte_index' = 0
    /\ SetFlags(IF transaction_queue = <<>> THEN set ELSE set \cup {"STA"})
    /\ UNCHANGED transaction_queue

(* i2c_master_dequeue as the handler calls it, after setting these flags;   *)
(* `n' is the byte index it was called with.                                *)
DequeueNext(set, n) ==
    IF transaction_queue = <<>>
    THEN /\ active' = NULL
         /\ byte_index' = n
         /\ SetFlags(set)
         /\ UNCHANGED <<retries, msg_index, transaction_queue>>
    ELSE /\ active' = Head(transaction_queue)
         /\ transaction_queue' = Tail(transaction_queue)
         /\ retries' = NumRetries
         /\ msg_index' = 0
         /\ byte_index' = 0
         /\ SetFlags(set \cup {"STA"})

(* Fault: the handler goes idle without a look at the queue.                *)
FinishIdle(outcome, set, n) ==
    /\ complete' = [complete EXCEPT ![active] = TRUE]
    /\ error' = [error EXCEPT ![active] = outcome]
    /\ attempts' = 0
    /\ active' = NULL
    /\ byte_index' = n
    /\ SetFlags(set)
    /\ UNCHANGED <<retries, msg_index, transaction_queue>>

(* The transaction is over: publish the outcome and move on to the next.    *)
Finish(outcome, set, n) ==
    /\ complete' = [complete EXCEPT ![active] = TRUE]
    /\ error' = [error EXCEPT ![active] = outcome]
    /\ attempts' = 0
    /\ DequeueNext(set, n)

(* Faults: one message too many; the byte index of the last message kept.   *)
FinishMessageTooFar(n) ==
    IF msg_index + 1 <= Count(active)
    THEN /\ msg_index' = msg_index + 1
         /\ byte_index' = 0
         /\ SetFlags({"STA", "AA"})
         /\ UNCHANGED <<active, retries, transaction_queue, complete, error,
                        attempts>>
    ELSE Finish("ok", {"STO", "AA"}, n)
FinishMessageOldIndex(n) ==
    IF msg_index + 1 < Count(active)
    THEN /\ msg_index' = msg_index + 1
         /\ byte_index' = n
         /\ SetFlags({"STA", "AA"})
         /\ UNCHANGED <<active, retries, transaction_queue, complete, error,
                        attempts>>
    ELSE Finish("ok", {"STO", "AA"}, n)

(* The message is over: go on with a repeated START, or with a STOP after   *)
(* the last one.                                                            *)
FinishMessage(n) ==
    IF msg_index + 1 < Count(active)
    THEN /\ msg_index' = msg_index + 1
         /\ byte_index' = 0
         /\ SetFlags({"STA", "AA"})
         /\ UNCHANGED <<active, retries, transaction_queue, complete, error,
                        attempts>>
    ELSE Finish("ok", {"STO", "AA"}, n)

SendAddress ==
    /\ Irq({"0x08", "0x10"})
    /\ dat' = <<"A", Msg.read>>
    /\ con' = (con \cup {"AA"}) \ {"STA", "SI"}
    /\ UNCHANGED <<complete, error, buf, master, attempts>>

SendByte ==
    /\ Irq({"0x18", "0x28"})
    /\ byte_index < Msg.len
    /\ dat' = <<"W", msg_index, byte_index>>
    /\ byte_index' = byte_index + 1
    /\ SetFlags({"AA"})
    /\ UNCHANGED <<complete, error, buf, active, retries, msg_index,
                   transaction_queue, attempts>>

MessageSent ==
    /\ Irq({"0x18", "0x28"})
    /\ byte_index >= Msg.len
    /\ FinishMessage(byte_index)
    /\ UNCHANGED <<buf, dat>>

(* Fault: nobody looks whether a retry is left.                             *)
MayRetryForever == msg_index = 0 /\ byte_index = 0

(* A NACK to the address or to a written byte.  Only the first address of   *)
(* a transaction is tried again.                                            *)
MayRetry == msg_index = 0 /\ byte_index = 0 /\ retries > 0

NackRetry ==
    /\ Irq({"0x20", "0x30", "0x48"})
    /\ MayRetry
    /\ retries' = retries - 1
    /\ SetFlags({"STO", "STA", "AA"})
    /\ UNCHANGED <<complete, error, buf, active, msg_index, byte_index,
                   transaction_queue, dat, attempts>>

NackFail ==
    /\ Irq({"0x20", "0x30", "0x48"})
    /\ ~MayRetry
    /\ Finish(IF msg_index > 0 \/ byte_index > 0 THEN "nack" ELSE "timeout",
              {"STO", "AA"}, byte_index)
    /\ UNCHANGED <<buf, dat>>

ArbitrationLost ==
    /\ Irq({"0x38"})
    /\ Finish("arbitration", {}, byte_index)
    /\ UNCHANGED <<buf, dat>>

(* After a read address or a byte that was acknowledged: `n' bytes are in,  *)
(* and the next one is acknowledged unless it is the last.                  *)
StoresByte == stat \in {"0x50", "0x58"} /\ byte_index < Msg.len
StoreByte ==
    buf' = IF StoresByte
           THEN [buf EXCEPT ![active] = @ \cup {<<msg_index, byte_index, dat>>}]
           ELSE buf
BytesIn == IF StoresByte THEN byte_index + 1 ELSE byte_index

(* Faults: the last byte is acknowledged like the others; the transaction   *)
(* is marked complete when its last byte is asked for.                      *)
ReceiveByteAcknowledged ==
    /\ Irq({"0x40", "0x50"})
    /\ StoreByte
    /\ BytesIn < Msg.len
    /\ byte_index' = BytesIn
    /\ SetFlags({"AA"})
    /\ UNCHANGED <<complete, error, active, retries, msg_index,
                   transaction_queue, dat, attempts>>
ReceiveByteEarly ==
    /\ Irq({"0x40", "0x50"})
    /\ StoreByte
    /\ BytesIn < Msg.len
    /\ byte_index' = BytesIn
    /\ IF BytesIn + 1 = Msg.len THEN ClearFlag("AA") ELSE SetFlags({"AA"})
    /\ complete' = [complete EXCEPT ![active] =
                       BytesIn + 1 = Msg.len /\ msg_index + 1 = Count(active)]
    /\ UNCHANGED <<error, active, retries, msg_index, transaction_queue, dat,
                   attempts>>

ReceiveByte ==
    /\ Irq({"0x40", "0x50"})
    /\ StoreByte
    /\ BytesIn < Msg.len
    /\ byte_index' = BytesIn
    /\ IF BytesIn + 1 = Msg.len THEN ClearFlag("AA") ELSE SetFlags({"AA"})
    /\ UNCHANGED <<complete, error, active, retries, msg_index,
                   transaction_queue, dat, attempts>>

(* The last byte was not acknowledged, or (a defence the controller should   *)
(* never need) it was and there is no room for more.                        *)
MessageReceived ==
    /\ Irq({"0x40", "0x50", "0x58"})
    /\ stat # "0x58" => BytesIn >= Msg.len
    /\ StoreByte
    /\ FinishMessage(BytesIn)
    /\ UNCHANGED dat

UnknownStatus ==
    /\ Irq({"0xF8", "0x00"})
    /\ Finish("unknown", {"STO", "AA"}, byte_index)
    /\ UNCHANGED <<buf, dat>>

Handler ==
    \/ SendAddress \/ SendByte \/ MessageSent \/ NackRetry \/ NackFail
    \/ ArbitrationLost \/ ReceiveByte \/ MessageReceived \/ UnknownStatus
----------------------------------------------------------------------------
(* The I2C controller and the bus.  While SI is set the controller holds    *)
(* the bus still; once the handler has cleared it, the flags decide what    *)
(* comes next: STOP before START before the next byte.                      *)

Owned == stat \notin {"0xF8", "0x38"}
Free(flags) == con \cap {"SI", "STO", "STA"} = flags

Report(code, event) ==
    /\ stat' = code
    /\ con' = con \cup {"SI"}
    /\ wire' = Append(wire, event)
    /\ UNCHANGED <<app, transactions, master>>

BusStop ==
    /\ "STO" \in con /\ "SI" \notin con
    /\ con' = con \ {"STO"}
    /\ stat' = "0xF8"
    /\ wire' = <<>>
    /\ UNCHANGED <<app, transactions, master, dat, attempts>>

BusStart ==
    /\ Free({"STA"}) /\ ~Owned
    /\ Report("0x08", <<"S">>)
    /\ attempts' = attempts + 1
    /\ UNCHANGED dat

BusRepeatedStart ==
    /\ Free({"STA"}) /\ Owned
    /\ Report("0x10", <<"Sr">>)
    /\ UNCHANGED <<dat, attempts>>

(* The slave acknowledges an address or a byte, or it does not.             *)
BusAddress(ack) ==
    /\ Free({}) /\ stat \in {"0x08", "0x10"}
    /\ Report(IF dat[2] THEN (IF ack THEN "0x40" ELSE "0x48")
                        ELSE (IF ack THEN "0x18" ELSE "0x20"),
              Append(dat, ack))
    /\ UNCHANGED <<dat, attempts>>

BusTransmit(ack) ==
    /\ Free({}) /\ stat \in {"0x18", "0x28"}
    /\ Report(IF ack THEN "0x28" ELSE "0x30", Append(dat, ack))
    /\ UNCHANGED <<dat, attempts>>

(* The slave sends the next byte of the current frame; it is acknowledged   *)
(* when AA is set.  The byte is known by its frame and its place there.     *)
Frame == Cardinality({k \in DOMAIN wire : wire[k][1] \in {"S", "Sr"}}) - 1
FrameByte == Cardinality({k \in DOMAIN wire : wire[k][1] = "R" /\ wire[k][2] = Frame})

BusReceive ==
    /\ Free({}) /\ stat \in {"0x40", "0x50"}
    /\ dat' = <<"R", Frame, FrameByte>>
    /\ Report(IF "AA" \in con THEN "0x50" ELSE "0x58",
              <<"R", Frame, FrameByte, "AA" \in con>>)
    /\ UNCHANGED attempts

(* Arbitration lost to another master, or an illegal START or STOP, in the  *)
(* middle of an address or a byte.                                          *)
BusFault(code) ==
    /\ Free({}) /\ stat \in {"0x08", "0x10", "0x18", "0x28", "0x40", "0x50"}
    /\ stat' = code
    /\ con' = con \cup {"SI"}
    /\ wire' = <<>>
    /\ UNCHANGED <<app, transactions, master, dat, attempts>>

Bus ==
    \/ BusStop \/ BusStart \/ BusRepeatedStart \/ BusReceive
    \/ \E ack \in BOOLEAN : BusAddress(ack) \/ BusTransmit(ack)
    \/ \E code \in Faults : BusFault(code)

Next ==
    \/ \E t \in Transaction :
          Start(t) \/ StatusTransaction(t) \/ WaitTransaction(t)
    \/ Running
    \/ SysTick
    \/ Handler
    \/ Bus

(* The main program does not stop inside a driver call, a pending interrupt *)
(* is taken, the timer ticks, and the bus, held by a slave for ever in no   *)
(* case considered here, gets on with what it was told.                     *)
Fairness ==
    WF_vars(Running) /\ WF_vars(SysTick) /\ WF_vars(Handler) /\ WF_vars(Bus)

Spec == Init /\ [][Next]_vars
FairSpec == Spec /\ Fairness
----------------------------------------------------------------------------
Locations == {"app", "enqueue", "enqueue_wfi", "enqueue_asleep", "check",
              "dequeue", "store", "reset", "arm", "wait", "wait_wfi",
              "wait_asleep"}

(* Every variable keeps the type its declaration gives it, and the queue    *)
(* never holds more than its array does.                                    *)
TypeOK ==
    /\ pc \in Locations
    /\ cur \in Transaction \cup {NULL}
    /\ obj \in Transaction \cup {NULL}
    /\ owner \in [Transaction -> {"app", "driver"}]
    /\ complete \in [Transaction -> BOOLEAN]
    /\ error \in [Transaction -> Error]
    /\ active \in Transaction \cup {NULL}
    /\ retries \in 0 .. NumRetries
    /\ msg_index \in Nat
    /\ byte_index \in Nat
    /\ transaction_queue \in Seq(Transaction)
    /\ Len(transaction_queue) <= QueueSize
    /\ con \in SUBSET Flag
    /\ stat \in Status

(* The handler dereferences active_transaction and indexes its messages     *)
(* without a check: whenever the interrupt can be taken there is an active  *)
(* transaction, the message index is within it and the byte index within    *)
(* that message (i2c.c:59, 70, 99, 103, 193).                               *)
HandlerHasTransaction ==
    "SI" \in con =>
        /\ active # NULL
        /\ msg_index < Count(active)
        /\ byte_index <= Msg.len

(* The main program kicks a transaction off without a lock: while it does,  *)
(* no interrupt can come that would find active_transaction or the indices  *)
(* half written (i2c.c:378-380 with 43-55).                                 *)
KickoffUndisturbed ==
    pc \in {"dequeue", "store", "reset", "arm"} =>
        con \cap {"SI", "STA"} = {} /\ (Owned => "STO" \in con)

(* Nobody is forgotten between the queue and the handler: transactions are  *)
(* queued behind no active one only while the main program is on its way to *)
(* kick one off (i2c.c:372-380 against 311-312).                            *)
NoStrandedTransaction ==
    transaction_queue # <<>> /\ active = NULL => pc \in {"check", "dequeue"}

(* The transactions submitted and not finished, in the order of submission: *)
(* the active one, or the one about to become active, then the queued ones. *)
Current == IF pc = "store" /\ obj # NULL THEN obj ELSE active
InFlight == (IF Current = NULL THEN <<>> ELSE <<Current>>) \o transaction_queue

Submitting == pc \in {"enqueue", "enqueue_wfi", "enqueue_asleep"}
Unfinished ==
    {t \in Pending : ~complete[t]} \ (IF Submitting THEN {cur} ELSE {})

(* The driver holds a pointer to a transaction exactly as long as it has    *)
(* been submitted and is not complete, and holds one only: the caller's     *)
(* stack frame may go once i2c_wait_transaction returns (i2c.c:400-404),    *)
(* nothing is transferred twice and nothing is lost.                        *)
DriverHoldsUnfinished ==
    /\ \A i, j \in DOMAIN InFlight : InFlight[i] = InFlight[j] => i = j
    /\ {InFlight[i] : i \in DOMAIN InFlight} = Unfinished

(* What a complete transaction says is final: no error code, no byte of a   *)
(* read buffer changes between completion and the caller's return.          *)
CompletionIsFinal ==
    [][\A t \in Transaction :
          complete[t] /\ complete'[t] /\ owner'[t] = "driver" =>
              error'[t] = error[t] /\ buf'[t] = buf[t]]_vars

(* Every call into the driver returns, provided SysTick keeps ticking: both *)
(* loops test a condition and then execute __WFI(), so that the interrupt   *)
(* they wait for can be served in between (i2c.c:372-375, 393-396).         *)
EveryCallReturns == pc # "app" ~> pc = "app"
----------------------------------------------------------------------------
Service ==
    INSTANCE I2CService WITH
        pending <- InFlight,
        outcome <- [t \in Transaction |->
                       IF owner[t] = "driver" /\ complete[t] THEN error[t] ELSE NULL],
        Capacity <- QueueSize + 1

(* The driver is a first-come first-served service: transactions finish in  *)
(* the order they were started (test_i2c.c:74 relies on it), each once, and *)
(* the outcome stays until the caller picks it up.                          *)
ServesInOrder == Service!Spec

(* Every transaction that is started is completed, in success or in error:  *)
(* retries are bounded, nobody overtakes for ever, no wakeup is needed by   *)
(* the driver itself.                                                       *)
EveryTransactionCompletes ==
    \A t \in Transaction : owner[t] = "driver" ~> complete[t]
============================================================================
