----------------------------- MODULE I2CService -----------------------------
(***************************************************************************)
(* What io/i2c.h promises: transactions are started, carried out one after *)
(* the other in the order they were started, and each is complete exactly  *)
(* once, with an error code that stays until the caller picks it up.       *)
(***************************************************************************)
EXTENDS Naturals, Sequences

CONSTANTS
    Transaction,
    Capacity,       \* transactions the service holds before start blocks
    NULL

VARIABLES
    pending,        \* transactions started and not complete, oldest first
    outcome         \* error code of the complete ones, NULL for the others

vars == <<pending, outcome>>

Error == {"ok", "timeout", "nack", "arbitration", "unknown"}

Init ==
    /\ pending = <<>>
    /\ outcome = [t \in Transaction |-> NULL]

Start(t) ==
    /\ Len(pending) < Capacity
    /\ \A i \in DOMAIN pending : pending[i] # t
    /\ outcome[t] = NULL
    /\ pending' = Append(pending, t)
    /\ UNCHANGED outcome

Complete(e) ==
    /\ pending # <<>>
    /\ outcome' = [outcome EXCEPT ![Head(pending)] = e]
    /\ pending' = Tail(pending)

Collect(t) ==
    /\ outcome[t] # NULL
    /\ outcome' = [outcome EXCEPT ![t] = NULL]
    /\ UNCHANGED pending

Serve == \E e \in Error : Complete(e)

Next ==
    \/ \E t \in Transaction : Start(t) \/ Collect(t)
    \/ Serve

Spec == Init /\ [][Next]_vars
=============================================================================
