-------------------------------- MODULE Fifo --------------------------------
(***************************************************************************)
(* What io/queue.c promises its callers: a bounded first-in first-out      *)
(* queue whose operations take effect atomically, whichever context calls  *)
(* them.  queue_enqueue returns 0, or -1 when the queue is full;           *)
(* queue_dequeue returns the oldest object, or NULL when there is none.    *)
(***************************************************************************)
EXTENDS Naturals, Integers, Sequences

CONSTANTS
    Context,    \* the execution contexts that call the queue
    Object,     \* the pointers that callers enqueue
    Capacity,   \* number of slots
    NULL        \* the null pointer, never enqueued

VARIABLES
    fifo,       \* the objects held, oldest first
    result      \* per context, what its latest operation returned

vars == <<fifo, result>>

Init ==
    /\ fifo = <<>>
    /\ result = [c \in Context |-> NULL]

Enqueue(c, o) ==
    /\ Len(fifo) < Capacity
    /\ fifo' = Append(fifo, o)
    /\ result' = [result EXCEPT ![c] = 0]

RefuseEnqueue(c) ==
    /\ Len(fifo) = Capacity
    /\ result' = [result EXCEPT ![c] = -1]
    /\ UNCHANGED fifo

Dequeue(c) ==
    /\ fifo # <<>>
    /\ fifo' = Tail(fifo)
    /\ result' = [result EXCEPT ![c] = Head(fifo)]

RefuseDequeue(c) ==
    /\ fifo = <<>>
    /\ result' = [result EXCEPT ![c] = NULL]
    /\ UNCHANGED fifo

Next ==
    \E c \in Context :
        \/ \E o \in Object : Enqueue(c, o)
        \/ RefuseEnqueue(c)
        \/ Dequeue(c)
        \/ RefuseDequeue(c)

Spec == Init /\ [][Next]_vars
=============================================================================
