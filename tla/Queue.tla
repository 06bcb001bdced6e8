------------------------------- MODULE Queue -------------------------------
(***************************************************************************)
(* The pointer queue of io/queue.c, statement by statement, called from    *)
(* the main program ("thread") and from an interrupt handler ("isr").      *)
(*                                                                         *)
(* There is one core: the handler may be entered between any two           *)
(* statements of the thread unless PRIMASK is set, and runs to completion  *)
(* before the thread goes on.  system_lock() sets PRIMASK and              *)
(* system_unlock() clears it unconditionally (io/lock.h).  Either context  *)
(* may call either operation: io/i2c.c enqueues from the thread only and   *)
(* dequeues from both.                                                     *)
(*                                                                         *)
(* A definition marked "Fault" is a wrong version of the one after it; the *)
(* specification does not use it.                                          *)
(***************************************************************************)
EXTENDS Naturals, Integers, Sequences

CONSTANTS
    Object,     \* the pointers that callers enqueue
    Capacity,   \* q->cap
    NULL

ASSUME CapacityAssumption == Capacity \in Nat \ {0}
ASSUME NullAssumption == NULL \notin Object

Context == {"thread", "isr"}

VARIABLES
    objects,    \* q->objects
    ridx,       \* q->ridx
    widx,       \* q->widx
    empty,      \* q->empty: meaningful only while ridx = widx
    primask,    \* interrupts are masked
    pc,         \* per context, the next statement
    obj,        \* per context, the argument or the local variable `object'
    ret         \* per context, the value its latest call returned

queue == <<objects, ridx, widx, empty>>
vars == <<objects, ridx, widx, empty, primask, pc, obj, ret>>

EnqueueStep == {"e_lock", "e_check", "e_store", "e_advance", "e_flag",
                "e_unlock", "e_fail"}
DequeueStep == {"d_lock", "d_check", "d_read", "d_advance", "d_flag",
                "d_unlock", "d_fail"}
Step == {"idle"} \cup EnqueueStep \cup DequeueStep

Init ==
    /\ objects = [i \in 0 .. Capacity - 1 |-> NULL]
    /\ ridx = 0
    /\ widx = 0
    /\ empty = TRUE
    /\ primask = FALSE
    /\ pc = [c \in Context |-> "idle"]
    /\ obj = [c \in Context |-> NULL]
    /\ ret = [c \in Context |-> NULL]

QueueIsEmpty == ridx = widx /\ empty
QueueIsFull == ridx = widx /\ ~empty

(* Fault: the index is advanced without the modulus.                        *)
FollowingUnwrapped(i) == i + 1

Following(i) == (i + 1) % Capacity
----------------------------------------------------------------------------
(* The thread is suspended while the handler runs; the handler is entered   *)
(* only while interrupts are unmasked.                                      *)
Runs(c) == c = "isr" \/ pc["isr"] = "idle"
MayCall(c) == pc[c] = "idle" /\ Runs(c) /\ (c = "isr" => ~primask)

Goto(c, s) == pc' = [pc EXCEPT ![c] = s]
At(c, s) == pc[c] = s /\ Runs(c)

CallEnqueue(c, o) ==
    /\ MayCall(c)
    /\ obj' = [obj EXCEPT ![c] = o]
    /\ Goto(c, "e_lock")
    /\ UNCHANGED <<queue, primask, ret>>

CallDequeue(c) ==
    /\ MayCall(c)
    /\ Goto(c, "d_lock")
    /\ UNCHANGED <<queue, primask, obj, ret>>

(* Fault: the critical section begins without masking interrupts.           *)
SystemLockUnmasked(c, from, to) ==
    /\ At(c, from)
    /\ Goto(c, to)
    /\ UNCHANGED <<queue, primask, obj, ret>>

SystemLock(c, from, to) ==
    /\ At(c, from)
    /\ primask' = TRUE
    /\ Goto(c, to)
    /\ UNCHANGED <<queue, obj, ret>>

(* system_unlock() and the return statement that follows it.                *)
UnlockReturn(c, from, value) ==
    /\ At(c, from)
    /\ primask' = FALSE
    /\ ret' = [ret EXCEPT ![c] = value]
    /\ Goto(c, "idle")
    /\ UNCHANGED <<queue, obj>>

EnqueueLock(c) == SystemLock(c, "e_lock", "e_check")

EnqueueCheck(c) ==
    /\ At(c, "e_check")
    /\ Goto(c, IF QueueIsFull THEN "e_fail" ELSE "e_store")
    /\ UNCHANGED <<queue, primask, obj, ret>>

EnqueueStore(c) ==
    /\ At(c, "e_store")
    /\ objects' = [objects EXCEPT ![widx] = obj[c]]
    /\ Goto(c, "e_advance")
    /\ UNCHANGED <<ridx, widx, empty, primask, obj, ret>>

EnqueueAdvance(c) ==
    /\ At(c, "e_advance")
    /\ widx' = Following(widx)
    /\ Goto(c, "e_flag")
    /\ UNCHANGED <<objects, ridx, empty, primask, obj, ret>>

(* Fault: an enqueue leaves `empty' as it was.                              *)
EnqueueFlagStale(c) ==
    /\ At(c, "e_flag")
    /\ Goto(c, "e_unlock")
    /\ UNCHANGED <<queue, primask, obj, ret>>

EnqueueFlag(c) ==
    /\ At(c, "e_flag")
    /\ empty' = (empty /\ widx # ridx)
    /\ Goto(c, "e_unlock")
    /\ UNCHANGED <<objects, ridx, widx, primask, obj, ret>>

EnqueueReturn(c) ==
    \/ UnlockReturn(c, "e_unlock", 0)
    \/ UnlockReturn(c, "e_fail", -1)

DequeueLock(c) == SystemLock(c, "d_lock", "d_check")

DequeueCheck(c) ==
    /\ At(c, "d_check")
    /\ Goto(c, IF QueueIsEmpty THEN "d_fail" ELSE "d_read")
    /\ UNCHANGED <<queue, primask, obj, ret>>

DequeueRead(c) ==
    /\ At(c, "d_read")
    /\ obj' = [obj EXCEPT ![c] = objects[ridx]]
    /\ Goto(c, "d_advance")
    /\ UNCHANGED <<queue, primask, ret>>

DequeueAdvance(c) ==
    /\ At(c, "d_advance")
    /\ ridx' = Following(ridx)
    /\ Goto(c, "d_flag")
    /\ UNCHANGED <<objects, widx, empty, primask, obj, ret>>

DequeueFlag(c) ==
    /\ At(c, "d_flag")
    /\ empty' = (empty \/ ridx = widx)
    /\ Goto(c, "d_unlock")
    /\ UNCHANGED <<objects, ridx, widx, primask, obj, ret>>

DequeueReturn(c) ==
    \/ UnlockReturn(c, "d_unlock", obj[c])
    \/ UnlockReturn(c, "d_fail", NULL)

EnqueueNext(c) ==
    \/ EnqueueLock(c)
    \/ EnqueueCheck(c)
    \/ EnqueueStore(c)
    \/ EnqueueAdvance(c)
    \/ EnqueueFlag(c)
    \/ EnqueueReturn(c)

DequeueNext(c) ==
    \/ DequeueLock(c)
    \/ DequeueCheck(c)
    \/ DequeueRead(c)
    \/ DequeueAdvance(c)
    \/ DequeueFlag(c)
    \/ DequeueReturn(c)

Next ==
    \E c \in Context :
        \/ \E o \in Object : CallEnqueue(c, o)
        \/ CallDequeue(c)
        \/ EnqueueNext(c)
        \/ DequeueNext(c)

Spec == Init /\ [][Next]_vars
----------------------------------------------------------------------------
Slot == 0 .. Capacity - 1

(* Every variable keeps the type its declaration gives it; in particular    *)
(* both indices stay inside q->objects.                                     *)
TypeOK ==
    /\ objects \in [Slot -> Object \cup {NULL}]
    /\ ridx \in Slot
    /\ widx \in Slot
    /\ empty \in BOOLEAN
    /\ primask \in BOOLEAN
    /\ pc \in [Context -> Step]
    /\ obj \in [Context -> Object \cup {NULL}]
    /\ ret \in [Context -> Object \cup {NULL, 0, -1}]

Locked(c) == pc[c] \notin {"idle", "e_lock", "d_lock"}

(* The statements between system_lock() and system_unlock() of one call are *)
(* never interleaved with another call's, and PRIMASK is set exactly while  *)
(* a call is between them: no call leaves the interrupts masked and no      *)
(* unlock opens somebody else's critical section.                           *)
MutualExclusion ==
    /\ ~(Locked("thread") /\ Locked("isr"))
    /\ primask <=> \E c \in Context : Locked(c)
----------------------------------------------------------------------------
(* The objects held, oldest first.  An operation takes effect when it moves *)
(* its index; between that and its flag update `empty' is out of date.      *)
SettledEmpty ==
    IF \E c \in Context : pc[c] = "e_flag" THEN empty /\ widx # ridx
    ELSE IF \E c \in Context : pc[c] = "d_flag" THEN empty \/ ridx = widx
    ELSE empty

Count ==
    IF ridx < widx THEN widx - ridx
    ELSE IF ridx > widx \/ ~SettledEmpty THEN Capacity + widx - ridx
    ELSE 0

(* The n slots of array o that start at slot r and wrap around at the end.  *)
Ring(o, r, n) == [i \in 1 .. n |-> o[(r + i - 1) % Capacity]]

Contents == Ring(objects, ridx, Count)

(* What the call in progress is going to return, once that is decided.      *)
Outcome(c) ==
    CASE pc[c] \in {"e_flag", "e_unlock"} -> 0
      [] pc[c] = "e_fail" -> -1
      [] pc[c] \in {"d_flag", "d_unlock"} -> obj[c]
      [] pc[c] = "d_fail" -> NULL
      [] OTHER -> ret[c]

Promise == INSTANCE Fifo WITH fifo <- Contents,
                              result <- [c \in Context |-> Outcome(c)]

(* The ring buffer implements the atomic bounded FIFO: nothing is lost,     *)
(* duplicated, reordered or invented, an enqueue is refused only when all   *)
(* Capacity slots are filled and a dequeue only when none is, even though   *)
(* the handler can run between any two statements of the thread.            *)
ImplementsFifo == Promise!Spec
============================================================================
