----------------------------- MODULE QueueProofs -----------------------------
(***************************************************************************)
(* The ring buffer of Queue implements the atomic FIFO of Fifo, for every  *)
(* capacity and every set of objects.                                      *)
(***************************************************************************)
EXTENDS Queue, SequenceTheorems, TLAPS

USE CapacityAssumption

(* The index arithmetic of queue.c: below twice the capacity, the modulus   *)
(* is the identity or one subtraction.                                      *)
LEMMA ModSmall ==
    ASSUME NEW a \in Nat, a < Capacity
    PROVE  a % Capacity = a
  BY SMT

LEMMA ModWrap ==
    ASSUME NEW a \in Nat, Capacity <= a, a < 2 * Capacity
    PROVE  a % Capacity = a - Capacity
  BY SMT

LEMMA ModInSlot ==
    ASSUME NEW a \in Nat
    PROVE  a % Capacity \in Slot
  BY SMT DEF Slot

LEMMA FollowingDef ==
    ASSUME NEW i \in Slot
    PROVE  /\ Following(i) \in Slot
           /\ Following(i) = IF i + 1 = Capacity THEN 0 ELSE i + 1
  BY ModSmall, ModWrap DEF Following, Slot

(* Two different places of the ring, less than Capacity apart, are          *)
(* different slots.                                                         *)
LEMMA PlacesDiffer ==
    ASSUME NEW r \in Slot, NEW i \in Nat, NEW j \in Nat, i < j, j - i < Capacity,
           j <= Capacity
    PROVE  (r + i) % Capacity # (r + j) % Capacity
  <1>1. /\ r \in Nat /\ r < Capacity
    BY DEF Slot
  <1>2. CASE r + j < Capacity
    BY <1>1, <1>2, ModSmall
  <1>3. CASE r + i < Capacity /\ Capacity <= r + j
    <2>1. (r + i) % Capacity = r + i
      BY <1>1, <1>3, ModSmall
    <2>2. (r + j) % Capacity = r + j - Capacity
      BY <1>1, <1>3, ModWrap
    <2> QED
      BY <1>1, <2>1, <2>2
  <1>4. CASE Capacity <= r + i
    <2>1. (r + i) % Capacity = r + i - Capacity
      BY <1>1, <1>4, ModWrap
    <2>2. (r + j) % Capacity = r + j - Capacity
      BY <1>1, <1>4, ModWrap
    <2> QED
      BY <1>1, <2>1, <2>2
  <1> QED
    BY <1>1, <1>2, <1>3, <1>4

(* The content of the ring as a sequence.                                   *)
LEMMA RingIsSeq ==
    ASSUME NEW S, NEW o \in [Slot -> S], NEW r \in Slot, NEW n \in Nat
    PROVE  /\ Ring(o, r, n) \in Seq(S)
           /\ Len(Ring(o, r, n)) = n
  <1>1. \A i \in 1 .. n : (r + i - 1) % Capacity \in Slot
    <2> TAKE i \in 1 .. n
    <2>1. r + i - 1 \in Nat
      BY DEF Slot
    <2> QED
      BY <2>1, ModInSlot
  <1>2. \A i \in 1 .. n : o[(r + i - 1) % Capacity] \in S
    BY <1>1
  <1> QED
    BY <1>2 DEF Ring

(* Storing into the slot after the last one held changes nothing held.      *)
LEMMA RingStore ==
    ASSUME NEW o, NEW p, NEW r \in Slot, NEW n \in Nat, n < Capacity,
           \A j \in Slot : j # (r + n) % Capacity => p[j] = o[j]
    PROVE  Ring(p, r, n) = Ring(o, r, n)
  <1>1. ASSUME NEW i \in 1 .. n
        PROVE  p[(r + i - 1) % Capacity] = o[(r + i - 1) % Capacity]
    <2> DEFINE k == i - 1
    <2>1. /\ k \in Nat /\ k < n /\ n - k < Capacity /\ n <= Capacity
          /\ r + k = r + i - 1 /\ r + k \in Nat
      BY DEF Slot
    <2> HIDE DEF k
    <2>2. (r + k) % Capacity # (r + n) % Capacity
      BY <2>1, PlacesDiffer
    <2>3. (r + k) % Capacity \in Slot
      BY <2>1, ModInSlot
    <2> QED
      BY <2>1, <2>2, <2>3
  <1> QED
    BY <1>1 DEF Ring

(* Moving widx makes the stored object the last one held.                   *)
LEMMA RingAppend ==
    ASSUME NEW S, NEW o \in [Slot -> S], NEW r \in Slot,
           NEW n \in Nat, n < Capacity
    PROVE  Ring(o, r, n + 1) = Append(Ring(o, r, n), o[(r + n) % Capacity])
  <1>1. (r + n) % Capacity \in Slot
    <2>1. r + n \in Nat
      BY DEF Slot
    <2> QED
      BY <2>1, ModInSlot
  <1>2. Ring(o, r, n) \in Seq(S) /\ Len(Ring(o, r, n)) = n
    BY RingIsSeq
  <1>3. Ring(o, r, n + 1) \in Seq(S) /\ Len(Ring(o, r, n + 1)) = n + 1
    BY RingIsSeq
  <1>4. ASSUME NEW i \in 1 .. n + 1
        PROVE  Ring(o, r, n + 1)[i]
                 = Append(Ring(o, r, n), o[(r + n) % Capacity])[i]
    <2>1. Ring(o, r, n + 1)[i] = o[(r + i - 1) % Capacity]
      BY DEF Ring
    <2>2. CASE i = n + 1
      <3>1. r + i - 1 = r + n
        BY <2>2 DEF Slot
      <3> QED
        BY <1>2, <2>1, <2>2, <3>1
    <2>3. CASE i \in 1 .. n
      <3>1. Append(Ring(o, r, n), o[(r + n) % Capacity])[i] = Ring(o, r, n)[i]
        BY <1>2, <2>3
      <3>2. Ring(o, r, n)[i] = o[(r + i - 1) % Capacity]
        BY <2>3 DEF Ring
      <3> QED
        BY <2>1, <3>1, <3>2
    <2>4. i = n + 1 \/ i \in 1 .. n
      OBVIOUS
    <2> QED
      BY <2>2, <2>3, <2>4
  <1>5. o[(r + n) % Capacity] \in S
    BY <1>1
  <1>6. /\ Append(Ring(o, r, n), o[(r + n) % Capacity]) \in Seq(S)
        /\ Len(Append(Ring(o, r, n), o[(r + n) % Capacity])) = n + 1
    BY <1>2, <1>5
  <1> QED
    BY <1>3, <1>4, <1>6, SeqEqual

(* Moving ridx drops the oldest object.                                     *)
LEMMA RingTail ==
    ASSUME NEW S, NEW o \in [Slot -> S], NEW r \in Slot,
           NEW n \in Nat \ {0}, n <= Capacity
    PROVE  /\ Head(Ring(o, r, n)) = o[r]
           /\ Tail(Ring(o, r, n)) = Ring(o, Following(r), n - 1)
  <1>1. Ring(o, r, n) \in Seq(S) /\ Len(Ring(o, r, n)) = n
    BY RingIsSeq
  <1>2. Following(r) \in Slot /\ n - 1 \in Nat
    BY FollowingDef
  <1>3. /\ Ring(o, Following(r), n - 1) \in Seq(S)
        /\ Len(Ring(o, Following(r), n - 1)) = n - 1
    BY <1>2, RingIsSeq
  <1>4. Head(Ring(o, r, n)) = o[r]
    <2>1. Ring(o, r, n)[1] = o[(r + 1 - 1) % Capacity]
      BY DEF Ring
    <2>2. (r + 1 - 1) % Capacity = r
      BY ModSmall DEF Slot
    <2> QED
      BY <1>1, <2>1, <2>2
  <1>5. Tail(Ring(o, r, n)) \in Seq(S) /\ Len(Tail(Ring(o, r, n))) = n - 1
    BY <1>1
  <1>6. ASSUME NEW i \in 1 .. n - 1
        PROVE  Tail(Ring(o, r, n))[i] = Ring(o, Following(r), n - 1)[i]
    <2>1. Tail(Ring(o, r, n))[i] = Ring(o, r, n)[i + 1]
      BY <1>1
    <2>2. Ring(o, r, n)[i + 1] = o[(r + (i + 1) - 1) % Capacity]
      BY DEF Ring
    <2>3. Ring(o, Following(r), n - 1)[i] = o[(Following(r) + i - 1) % Capacity]
      BY DEF Ring
    <2>4. (r + (i + 1) - 1) % Capacity = (Following(r) + i - 1) % Capacity
      <3>1. r \in Nat /\ r < Capacity /\ i \in Nat /\ i < Capacity /\ 0 < i
        BY DEF Slot
      <3>2. CASE r + 1 = Capacity
        <4>1. Following(r) + i - 1 = i - 1 /\ r + (i + 1) - 1 = Capacity + i - 1
          BY <3>1, <3>2, FollowingDef
        <4>2. (i - 1) % Capacity = i - 1
          BY <3>1, ModSmall
        <4>3. (Capacity + i - 1) % Capacity = i - 1
          BY <3>1, ModWrap
        <4> QED
          BY <4>1, <4>2, <4>3
      <3>3. CASE r + 1 # Capacity
        <4>1. Following(r) + i - 1 = r + (i + 1) - 1
          BY <3>1, <3>3, FollowingDef
        <4> QED
          BY <4>1
      <3> QED
        BY <3>2, <3>3
    <2> QED
      BY <2>1, <2>2, <2>3, <2>4
  <1>7. Tail(Ring(o, r, n)) = Ring(o, Following(r), n - 1)
    BY <1>3, <1>5, <1>6, SeqEqual
  <1> QED
    BY <1>4, <1>7
----------------------------------------------------------------------------
(* The inductive invariant.  Besides the typing and the locking discipline  *)
(* it says what each statement of a critical section may rely on.           *)

(* The handler is entered only while the thread holds no lock.              *)
HandlerOutsideLock == pc["isr"] # "idle" => ~Locked("thread")

EnqueueFacts(c) ==
    /\ pc[c] \in EnqueueStep => obj[c] \in Object
    /\ pc[c] \in {"e_store", "e_advance"} => ~QueueIsFull
    /\ pc[c] = "e_advance" => objects[widx] = obj[c]

DequeueFacts(c) ==
    /\ pc[c] \in {"d_read", "d_advance"} => ~QueueIsEmpty
    /\ pc[c] = "d_advance" => objects[ridx] = obj[c]

IInv ==
    /\ TypeOK
    /\ MutualExclusion
    /\ HandlerOutsideLock
    /\ \A c \in Context : EnqueueFacts(c) /\ DequeueFacts(c)

LEMMA InitIInv == Init => IInv
  <1> SUFFICES ASSUME Init PROVE IInv
    OBVIOUS
  <1> USE DEF Init, Context
  <1>1. TypeOK
    <2>1. 0 \in Slot
      BY SMT DEF Slot
    <2> QED
      BY <2>1 DEF TypeOK, Step, EnqueueStep, DequeueStep, Slot
  <1>2. MutualExclusion /\ HandlerOutsideLock
    BY DEF MutualExclusion, HandlerOutsideLock, Locked
  <1>3. \A c \in Context : EnqueueFacts(c) /\ DequeueFacts(c)
    BY DEF EnqueueFacts, DequeueFacts, EnqueueStep
  <1> QED
    BY <1>1, <1>2, <1>3 DEF IInv

LEMMA NextTypeOK == IInv /\ [Next]_vars => TypeOK'
  <1> SUFFICES ASSUME IInv, [Next]_vars PROVE TypeOK'
    OBVIOUS
  <1> USE DEF Step, EnqueueStep, DequeueStep, Goto
  <1>0. TypeOK /\ \A c \in Context : EnqueueFacts(c)
    BY DEF IInv
  <1>1. ASSUME NEW c \in Context, NEW o \in Object, CallEnqueue(c, o)
        PROVE  TypeOK'
    BY <1>0, <1>1 DEF TypeOK, CallEnqueue, queue
  <1>2. ASSUME NEW c \in Context, CallDequeue(c) PROVE TypeOK'
    BY <1>0, <1>2 DEF TypeOK, CallDequeue, queue
  <1>3. ASSUME NEW c \in Context, EnqueueLock(c) \/ DequeueLock(c) PROVE TypeOK'
    BY <1>0, <1>3 DEF TypeOK, EnqueueLock, DequeueLock, SystemLock, queue
  <1>4. ASSUME NEW c \in Context, EnqueueCheck(c) \/ DequeueCheck(c) PROVE TypeOK'
    BY <1>0, <1>4 DEF TypeOK, EnqueueCheck, DequeueCheck, queue
  <1>5. ASSUME NEW c \in Context, EnqueueStore(c) PROVE TypeOK'
    BY <1>0, <1>5 DEF TypeOK, EnqueueStore
  <1>6. ASSUME NEW c \in Context, EnqueueAdvance(c) PROVE TypeOK'
    BY <1>0, <1>6, FollowingDef DEF TypeOK, EnqueueAdvance
  <1>7. ASSUME NEW c \in Context, EnqueueFlag(c) \/ DequeueFlag(c) PROVE TypeOK'
    <2>1. empty' \in BOOLEAN
      BY <1>0, <1>7 DEF TypeOK, EnqueueFlag, DequeueFlag
    <2>2. pc' \in [Context -> Step]
      BY <1>0, <1>7 DEF TypeOK, EnqueueFlag, DequeueFlag
    <2> QED
      BY <1>0, <1>7, <2>1, <2>2 DEF TypeOK, EnqueueFlag, DequeueFlag
  <1>8. ASSUME NEW c \in Context, EnqueueReturn(c) \/ DequeueReturn(c) PROVE TypeOK'
    BY <1>0, <1>8 DEF TypeOK, EnqueueReturn, DequeueReturn, UnlockReturn, queue
  <1>9. ASSUME NEW c \in Context, DequeueRead(c) PROVE TypeOK'
    BY <1>0, <1>9 DEF TypeOK, DequeueRead, queue
  <1>10. ASSUME NEW c \in Context, DequeueAdvance(c) PROVE TypeOK'
    BY <1>0, <1>10, FollowingDef DEF TypeOK, DequeueAdvance
  <1>11. ASSUME UNCHANGED vars PROVE TypeOK'
    BY <1>0, <1>11 DEF TypeOK, vars
  <1> QED
    BY <1>1, <1>2, <1>3, <1>4, <1>5, <1>6, <1>7, <1>8, <1>9, <1>10, <1>11
    DEF Next, EnqueueNext, DequeueNext

LEMMA NextLocking == IInv /\ [Next]_vars => (MutualExclusion /\ HandlerOutsideLock)'
  <1> SUFFICES ASSUME IInv, [Next]_vars PROVE (MutualExclusion /\ HandlerOutsideLock)'
    OBVIOUS
  <1> USE DEF Context, Goto, Runs
  <1>0. TypeOK /\ MutualExclusion /\ HandlerOutsideLock
    BY DEF IInv
  <1>1. ASSUME NEW c \in Context, NEW o \in Object, CallEnqueue(c, o)
        PROVE  (MutualExclusion /\ HandlerOutsideLock)'
    BY <1>0, <1>1 DEF TypeOK, MutualExclusion, HandlerOutsideLock, Locked, CallEnqueue, MayCall, queue
  <1>2. ASSUME NEW c \in Context, CallDequeue(c)
        PROVE  (MutualExclusion /\ HandlerOutsideLock)'
    BY <1>0, <1>2 DEF TypeOK, MutualExclusion, HandlerOutsideLock, Locked, CallDequeue, MayCall, queue
  <1>3. ASSUME NEW c \in Context, EnqueueLock(c) \/ DequeueLock(c)
        PROVE  (MutualExclusion /\ HandlerOutsideLock)'
    BY <1>0, <1>3 DEF TypeOK, MutualExclusion, HandlerOutsideLock, Locked, EnqueueLock, DequeueLock, SystemLock, At, queue
  <1>4. ASSUME NEW c \in Context, EnqueueCheck(c)
        PROVE  (MutualExclusion /\ HandlerOutsideLock)'
    BY <1>0, <1>4 DEF TypeOK, MutualExclusion, HandlerOutsideLock, Locked, EnqueueCheck, At, queue
  <1>5. ASSUME NEW c \in Context, EnqueueStore(c)
        PROVE  (MutualExclusion /\ HandlerOutsideLock)'
    BY <1>0, <1>5 DEF TypeOK, MutualExclusion, HandlerOutsideLock, Locked, EnqueueStore, At
  <1>6. ASSUME NEW c \in Context, EnqueueAdvance(c)
        PROVE  (MutualExclusion /\ HandlerOutsideLock)'
    BY <1>0, <1>6 DEF TypeOK, MutualExclusion, HandlerOutsideLock, Locked, EnqueueAdvance, At
  <1>7. ASSUME NEW c \in Context, EnqueueFlag(c)
        PROVE  (MutualExclusion /\ HandlerOutsideLock)'
    BY <1>0, <1>7 DEF TypeOK, MutualExclusion, HandlerOutsideLock, Locked, EnqueueFlag, At
  <1>8. ASSUME NEW c \in Context, EnqueueReturn(c) \/ DequeueReturn(c)
        PROVE  (MutualExclusion /\ HandlerOutsideLock)'
    BY <1>0, <1>8 DEF TypeOK, MutualExclusion, HandlerOutsideLock, Locked, EnqueueReturn, DequeueReturn, UnlockReturn, At, queue
  <1>9. ASSUME NEW c \in Context, DequeueCheck(c)
        PROVE  (MutualExclusion /\ HandlerOutsideLock)'
    BY <1>0, <1>9 DEF TypeOK, MutualExclusion, HandlerOutsideLock, Locked, DequeueCheck, At, queue
  <1>10. ASSUME NEW c \in Context, DequeueRead(c)
        PROVE  (MutualExclusion /\ HandlerOutsideLock)'
    BY <1>0, <1>10 DEF TypeOK, MutualExclusion, HandlerOutsideLock, Locked, DequeueRead, At, queue
  <1>11. ASSUME NEW c \in Context, DequeueAdvance(c)
        PROVE  (MutualExclusion /\ HandlerOutsideLock)'
    BY <1>0, <1>11 DEF TypeOK, MutualExclusion, HandlerOutsideLock, Locked, DequeueAdvance, At
  <1>12. ASSUME NEW c \in Context, DequeueFlag(c)
        PROVE  (MutualExclusion /\ HandlerOutsideLock)'
    BY <1>0, <1>12 DEF TypeOK, MutualExclusion, HandlerOutsideLock, Locked, DequeueFlag, At
  <1>13. ASSUME UNCHANGED vars
        PROVE  (MutualExclusion /\ HandlerOutsideLock)'
    BY <1>0, <1>13 DEF TypeOK, MutualExclusion, HandlerOutsideLock, Locked, vars
  <1> QED
    BY <1>1, <1>2, <1>3, <1>4, <1>5, <1>6, <1>7, <1>8, <1>9, <1>10, <1>11, <1>12, <1>13
    DEF Next, EnqueueNext, DequeueNext

LEMMA NextFacts == IInv /\ [Next]_vars => (\A k \in Context : EnqueueFacts(k) /\ DequeueFacts(k))'
  <1> SUFFICES ASSUME IInv, [Next]_vars PROVE (\A k \in Context : EnqueueFacts(k) /\ DequeueFacts(k))'
    OBVIOUS
  <1> USE DEF Context, Goto, Runs, QueueIsFull, QueueIsEmpty, EnqueueStep
  <1>0. /\ TypeOK /\ MutualExclusion /\ HandlerOutsideLock
        /\ \A k \in Context : EnqueueFacts(k) /\ DequeueFacts(k)
    BY DEF IInv
  <1>1. ASSUME NEW c \in Context, NEW o \in Object, CallEnqueue(c, o)
        PROVE  (\A k \in Context : EnqueueFacts(k) /\ DequeueFacts(k))'
    BY <1>0, <1>1 DEF TypeOK, MutualExclusion, HandlerOutsideLock, Locked, EnqueueFacts, DequeueFacts, CallEnqueue, MayCall, queue
  <1>2. ASSUME NEW c \in Context, CallDequeue(c)
        PROVE  (\A k \in Context : EnqueueFacts(k) /\ DequeueFacts(k))'
    BY <1>0, <1>2 DEF TypeOK, MutualExclusion, HandlerOutsideLock, Locked, EnqueueFacts, DequeueFacts, CallDequeue, MayCall, queue
  <1>3. ASSUME NEW c \in Context, EnqueueLock(c) \/ DequeueLock(c)
        PROVE  (\A k \in Context : EnqueueFacts(k) /\ DequeueFacts(k))'
    BY <1>0, <1>3 DEF TypeOK, MutualExclusion, HandlerOutsideLock, Locked, EnqueueFacts, DequeueFacts, EnqueueLock, DequeueLock, SystemLock, At, queue
  <1>4. ASSUME NEW c \in Context, EnqueueCheck(c)
        PROVE  (\A k \in Context : EnqueueFacts(k) /\ DequeueFacts(k))'
    BY <1>0, <1>4 DEF TypeOK, MutualExclusion, HandlerOutsideLock, Locked, EnqueueFacts, DequeueFacts, EnqueueCheck, At, queue
  <1>5. ASSUME NEW c \in Context, EnqueueStore(c)
        PROVE  (\A k \in Context : EnqueueFacts(k) /\ DequeueFacts(k))'
    BY <1>0, <1>5 DEF TypeOK, MutualExclusion, HandlerOutsideLock, Locked, EnqueueFacts, DequeueFacts, EnqueueStore, At
  <1>6. ASSUME NEW c \in Context, EnqueueAdvance(c)
        PROVE  (\A k \in Context : EnqueueFacts(k) /\ DequeueFacts(k))'
    BY <1>0, <1>6 DEF TypeOK, MutualExclusion, HandlerOutsideLock, Locked, EnqueueFacts, DequeueFacts, EnqueueAdvance, At
  <1>7. ASSUME NEW c \in Context, EnqueueFlag(c)
        PROVE  (\A k \in Context : EnqueueFacts(k) /\ DequeueFacts(k))'
    BY <1>0, <1>7 DEF TypeOK, MutualExclusion, HandlerOutsideLock, Locked, EnqueueFacts, DequeueFacts, EnqueueFlag, At
  <1>8. ASSUME NEW c \in Context, EnqueueReturn(c) \/ DequeueReturn(c)
        PROVE  (\A k \in Context : EnqueueFacts(k) /\ DequeueFacts(k))'
    BY <1>0, <1>8 DEF TypeOK, MutualExclusion, HandlerOutsideLock, Locked, EnqueueFacts, DequeueFacts, EnqueueReturn, DequeueReturn, UnlockReturn, At, queue
  <1>9. ASSUME NEW c \in Context, DequeueCheck(c)
        PROVE  (\A k \in Context : EnqueueFacts(k) /\ DequeueFacts(k))'
    BY <1>0, <1>9 DEF TypeOK, MutualExclusion, HandlerOutsideLock, Locked, EnqueueFacts, DequeueFacts, DequeueCheck, At, queue
  <1>10. ASSUME NEW c \in Context, DequeueRead(c)
        PROVE  (\A k \in Context : EnqueueFacts(k) /\ DequeueFacts(k))'
    BY <1>0, <1>10 DEF TypeOK, MutualExclusion, HandlerOutsideLock, Locked, EnqueueFacts, DequeueFacts, DequeueRead, At, queue
  <1>11. ASSUME NEW c \in Context, DequeueAdvance(c)
        PROVE  (\A k \in Context : EnqueueFacts(k) /\ DequeueFacts(k))'
    BY <1>0, <1>11 DEF TypeOK, MutualExclusion, HandlerOutsideLock, Locked, EnqueueFacts, DequeueFacts, DequeueAdvance, At
  <1>12. ASSUME NEW c \in Context, DequeueFlag(c)
        PROVE  (\A k \in Context : EnqueueFacts(k) /\ DequeueFacts(k))'
    BY <1>0, <1>12 DEF TypeOK, MutualExclusion, HandlerOutsideLock, Locked, EnqueueFacts, DequeueFacts, DequeueFlag, At
  <1>13. ASSUME UNCHANGED vars
        PROVE  (\A k \in Context : EnqueueFacts(k) /\ DequeueFacts(k))'
    BY <1>0, <1>13 DEF TypeOK, MutualExclusion, HandlerOutsideLock, Locked, EnqueueFacts, DequeueFacts, vars
  <1> QED
    BY <1>1, <1>2, <1>3, <1>4, <1>5, <1>6, <1>7, <1>8, <1>9, <1>10, <1>11, <1>12, <1>13
    DEF Next, EnqueueNext, DequeueNext

THEOREM Inductive == Spec => []IInv
  <1>1. IInv /\ [Next]_vars => IInv'
    BY NextTypeOK, NextLocking, NextFacts DEF IInv
  <1> QED
    BY InitIInv, <1>1, PTL DEF Spec

(* Both indices stay inside the array and every field keeps its type.       *)
THEOREM TypeCorrect == Spec => []TypeOK
  BY Inductive, PTL DEF IInv

(* At most one operation is between its lock and its unlock, and PRIMASK is *)
(* set exactly then.                                                        *)
THEOREM CriticalSections == Spec => []MutualExclusion
  BY Inductive, PTL DEF IInv
----------------------------------------------------------------------------
(* The refinement.                                                          *)

(* With the flag settled, the number of objects held is what the indices    *)
(* and the flag say.                                                        *)
LEMMA CountBounds ==
    ASSUME TypeOK
    PROVE  /\ Count \in Nat /\ Count <= Capacity
           /\ Count = 0 <=> ridx = widx /\ SettledEmpty
           /\ Count = Capacity <=> ridx = widx /\ ~SettledEmpty
           /\ Count < Capacity => (ridx + Count) % Capacity = widx
  <1>1. /\ ridx \in Nat /\ widx \in Nat /\ ridx < Capacity /\ widx < Capacity
    BY DEF TypeOK, Slot
  <1>2. CASE ridx < widx
    <2>1. Count = widx - ridx
      BY <1>2 DEF Count
    <2>2. (ridx + Count) % Capacity = widx
      BY <1>1, <2>1, ModSmall
    <2> QED
      BY <1>1, <1>2, <2>1, <2>2
  <1>3. CASE ridx > widx
    <2>1. Count = Capacity + widx - ridx
      BY <1>1, <1>3 DEF Count
    <2>2. ridx + Count = Capacity + widx
      BY <1>1, <2>1
    <2>3. (Capacity + widx) % Capacity = widx
      BY <1>1, ModWrap
    <2> QED
      BY <1>1, <1>3, <2>1, <2>2, <2>3
  <1>4. CASE ridx = widx
    <2>1. CASE SettledEmpty
      <3>1. Count = 0
        BY <1>1, <1>4, <2>1 DEF Count
      <3>2. (ridx + 0) % Capacity = widx
        BY <1>1, <1>4, ModSmall
      <3> QED
        BY <1>1, <1>4, <2>1, <3>1, <3>2
    <2>2. CASE ~SettledEmpty
      <3>1. Count = Capacity
        BY <1>1, <1>4, <2>2 DEF Count
      <3> QED
        BY <1>1, <1>4, <2>2, <3>1
    <2> QED
      BY <2>1, <2>2
  <1> QED
    BY <1>1, <1>2, <1>3, <1>4

(* Away from the flag statements the flag is up to date.                    *)
LEMMA FlagSettled ==
    ASSUME IInv, NEW c \in Context, Locked(c), pc[c] \notin {"e_flag", "d_flag"}
    PROVE  SettledEmpty = empty
  BY DEF IInv, MutualExclusion, Locked, SettledEmpty, Context

(* A step that touches neither the queue nor a flag statement changes       *)
(* nothing that is held.                                                    *)
LEMMA ContentsKept ==
    ASSUME UNCHANGED queue, SettledEmpty' = SettledEmpty
    PROVE  Contents' = Contents
  <1>1. Count' = Count
    BY DEF Count, queue
  <1> QED
    BY <1>1 DEF Contents, Ring, queue

Stutters == UNCHANGED <<Contents, [c \in Context |-> Outcome(c)]>>

LEMMA CallStutters ==
    ASSUME IInv, NEW c \in Context,
           \/ \E o \in Object : CallEnqueue(c, o)
           \/ CallDequeue(c) \/ EnqueueLock(c) \/ DequeueLock(c)
           \/ EnqueueReturn(c) \/ DequeueReturn(c)
    PROVE  Stutters
  <1> USE DEF CallEnqueue, CallDequeue, EnqueueLock, DequeueLock, SystemLock,
              EnqueueReturn, DequeueReturn, UnlockReturn, MayCall, At, Goto
  <1>0. TypeOK
    BY DEF IInv
  <1>1. SettledEmpty' = SettledEmpty
    BY <1>0 DEF TypeOK, SettledEmpty, Context, queue
  <1>2. Contents' = Contents
    BY <1>1, ContentsKept
  <1>3. \A k \in Context : Outcome(k)' = Outcome(k)
    BY <1>0 DEF TypeOK, Outcome, Context
  <1> QED
    BY <1>2, <1>3 DEF Stutters

(* The result of one call is decided, those of the others stay.             *)
Decides(c, v) ==
    [k \in Context |-> Outcome(k)]' = [[k \in Context |-> Outcome(k)] EXCEPT ![c] = v]

LEMMA OutcomeDecided ==
    ASSUME NEW c \in Context, NEW v, Outcome(c)' = v,
           \A k \in Context \ {c} : Outcome(k)' = Outcome(k)
    PROVE  Decides(c, v)
  <1> DEFINE f == [k \in Context |-> Outcome(k)]
             g == [k \in Context |-> Outcome(k)']
  <1>1. \A k \in Context : g[k] = [f EXCEPT ![c] = v][k]
    OBVIOUS
  <1>2. g = [f EXCEPT ![c] = v]
    BY <1>1
  <1> QED
    BY <1>2 DEF Decides

LEMMA CheckRefines ==
    ASSUME IInv, NEW c \in Context, EnqueueCheck(c) \/ DequeueCheck(c)
    PROVE  Stutters \/ Promise!RefuseEnqueue(c) \/ Promise!RefuseDequeue(c)
  <1> USE DEF At, Goto
  <1>0. /\ TypeOK /\ Locked(c) /\ pc[c] \notin {"e_flag", "d_flag"}
        /\ pc[c] \in {"e_check", "d_check"}
    BY DEF IInv, EnqueueCheck, DequeueCheck, Locked
  <1>1. /\ UNCHANGED queue /\ UNCHANGED obj /\ UNCHANGED ret
        /\ \A k \in Context \ {c} : pc'[k] = pc[k]
        /\ pc'[c] \in {"e_fail", "e_store", "d_fail", "d_read"}
    BY <1>0 DEF EnqueueCheck, DequeueCheck, TypeOK
  <1>2. SettledEmpty = empty /\ SettledEmpty' = SettledEmpty
    <2>1. SettledEmpty = empty
      BY <1>0, FlagSettled
    <2>2. \A k \in Context : (pc'[k] = "e_flag" <=> pc[k] = "e_flag")
                              /\ (pc'[k] = "d_flag" <=> pc[k] = "d_flag")
      BY <1>0, <1>1
    <2>3. SettledEmpty' = SettledEmpty
      BY <1>1, <2>2 DEF SettledEmpty, queue
    <2> QED
      BY <2>1, <2>3
  <1>3. Contents' = Contents
    BY <1>1, <1>2, ContentsKept
  <1>4. \A k \in Context \ {c} : Outcome(k)' = Outcome(k)
    BY <1>1 DEF Outcome
  <1>5. Len(Contents) = Count
    <2>1. Count \in Nat /\ ridx \in Slot /\ objects \in [Slot -> Object \cup {NULL}]
      BY <1>0, CountBounds DEF TypeOK
    <2> QED
      BY <2>1, RingIsSeq DEF Contents
  <1>6. CASE EnqueueCheck(c) /\ QueueIsFull
    <2>1. Count = Capacity
      BY <1>0, <1>2, <1>6, CountBounds DEF QueueIsFull
    <2>2. pc'[c] = "e_fail"
      BY <1>0, <1>6 DEF EnqueueCheck, TypeOK
    <2>3. Outcome(c)' = -1
      BY <2>2 DEF Outcome
    <2>4. Decides(c, -1)
      BY <1>4, <2>3, OutcomeDecided
    <2> QED
      BY <1>3, <1>5, <2>1, <2>4 DEF Promise!RefuseEnqueue, Decides
  <1>7. CASE DequeueCheck(c) /\ QueueIsEmpty
    <2>1. Count = 0
      BY <1>0, <1>2, <1>7, CountBounds DEF QueueIsEmpty
    <2>2. Contents = <<>>
      BY <2>1 DEF Contents, Ring
    <2>3. pc'[c] = "d_fail"
      BY <1>0, <1>7 DEF DequeueCheck, TypeOK
    <2>4. Outcome(c)' = NULL
      BY <2>3 DEF Outcome
    <2>5. Decides(c, NULL)
      BY <1>4, <2>4, OutcomeDecided
    <2> QED
      BY <1>3, <2>2, <2>5 DEF Promise!RefuseDequeue, Decides
  <1>8. CASE \/ EnqueueCheck(c) /\ ~QueueIsFull
             \/ DequeueCheck(c) /\ ~QueueIsEmpty
    <2>1. pc'[c] \in {"e_store", "d_read"}
      BY <1>0, <1>8 DEF EnqueueCheck, DequeueCheck, TypeOK
    <2>2. Outcome(c)' = Outcome(c)
      BY <1>0, <1>1, <2>1 DEF Outcome
    <2> QED
      BY <1>3, <1>4, <2>2 DEF Stutters
  <1> QED
    BY <1>6, <1>7, <1>8

(* The statements of a critical section after its check: only one context   *)
(* is there, the flag is settled before and after.                          *)
LEMMA StoreReadStutter ==
    ASSUME IInv, NEW c \in Context, EnqueueStore(c) \/ DequeueRead(c)
    PROVE  Stutters
  <1> USE DEF At, Goto
  <1>0. /\ TypeOK /\ Locked(c) /\ pc[c] \in {"e_store", "d_read"}
        /\ EnqueueFacts(c)
    BY DEF IInv, EnqueueStore, DequeueRead, Locked
  <1>1. /\ UNCHANGED <<ridx, widx, empty, ret>>
        /\ \A k \in Context \ {c} : pc'[k] = pc[k] /\ obj'[k] = obj[k]
        /\ pc'[c] \in {"e_advance", "d_advance"}
    BY <1>0 DEF EnqueueStore, DequeueRead, TypeOK, queue
  <1>2. SettledEmpty' = SettledEmpty /\ SettledEmpty = empty
    <2>1. \A k \in Context : (pc'[k] = "e_flag" <=> pc[k] = "e_flag")
                              /\ (pc'[k] = "d_flag" <=> pc[k] = "d_flag")
      BY <1>0, <1>1
    <2>2. SettledEmpty' = SettledEmpty
      BY <1>1, <2>1 DEF SettledEmpty
    <2> QED
      BY <1>0, <2>2, FlagSettled
  <1>3. Count' = Count
    BY <1>1, <1>2 DEF Count
  <1>4. Contents' = Contents
    <2>1. CASE EnqueueStore(c)
      <3>1. Count \in Nat /\ Count < Capacity /\ (ridx + Count) % Capacity = widx
        BY <1>0, <1>2, <2>1, CountBounds DEF EnqueueStore, EnqueueFacts, QueueIsFull
      <3>2. objects' = [objects EXCEPT ![(ridx + Count) % Capacity] = obj[c]]
        BY <2>1, <3>1 DEF EnqueueStore
      <3>3. objects \in [Slot -> Object \cup {NULL}] /\ ridx \in Slot
        BY <1>0 DEF TypeOK
      <3>4. \A j \in Slot : j # (ridx + Count) % Capacity => objects'[j] = objects[j]
        BY <3>1, <3>2, <3>3
      <3>5. Ring(objects', ridx, Count) = Ring(objects, ridx, Count)
        BY <3>1, <3>3, <3>4, RingStore
      <3> QED
        BY <1>1, <1>3, <3>5 DEF Contents
    <2>2. CASE DequeueRead(c)
      BY <1>1, <1>3, <2>2 DEF DequeueRead, Contents, Ring, queue
    <2> QED
      BY <2>1, <2>2
  <1>5. \A k \in Context : Outcome(k)' = Outcome(k)
    BY <1>0, <1>1 DEF Outcome
  <1> QED
    BY <1>4, <1>5 DEF Stutters

LEMMA FlagStutters ==
    ASSUME IInv, NEW c \in Context, EnqueueFlag(c) \/ DequeueFlag(c)
    PROVE  Stutters
  <1> USE DEF At, Goto
  <1>0. TypeOK /\ Locked(c) /\ pc[c] \in {"e_flag", "d_flag"}
    BY DEF IInv, EnqueueFlag, DequeueFlag, Locked
  <1>1. /\ UNCHANGED <<objects, ridx, widx, ret, obj>>
        /\ \A k \in Context \ {c} : pc'[k] = pc[k] /\ ~Locked(k)
        /\ pc'[c] = IF pc[c] = "e_flag" THEN "e_unlock" ELSE "d_unlock"
    BY <1>0 DEF EnqueueFlag, DequeueFlag, TypeOK, IInv, MutualExclusion, Context
  <1>2. SettledEmpty' = SettledEmpty
    <2>1. SettledEmpty' = empty'
      BY <1>0, <1>1 DEF SettledEmpty, Locked
    <2>2. CASE EnqueueFlag(c)
      BY <1>1, <2>1, <2>2 DEF SettledEmpty, EnqueueFlag
    <2>3. CASE DequeueFlag(c)
      <3>1. \A k \in Context : pc[k] # "e_flag"
        BY <1>0, <1>1, <2>3 DEF DequeueFlag, Locked
      <3> QED
        BY <2>1, <2>3, <3>1 DEF SettledEmpty, DequeueFlag
    <2> QED
      BY <2>2, <2>3
  <1>3. Contents' = Contents
    BY <1>1, <1>2 DEF Contents, Count, Ring
  <1>4. \A k \in Context : Outcome(k)' = Outcome(k)
    BY <1>0, <1>1 DEF Outcome
  <1> QED
    BY <1>3, <1>4 DEF Stutters

(* The statements that move an index are where an operation takes effect.   *)
LEMMA EnqueueAdvanceRefines ==
    ASSUME IInv, NEW c \in Context, EnqueueAdvance(c)
    PROVE  Promise!Enqueue(c, obj[c])
  <1> USE DEF At, Goto
  <1>0. /\ TypeOK /\ Locked(c) /\ pc[c] = "e_advance" /\ EnqueueFacts(c)
    BY DEF IInv, EnqueueAdvance, Locked
  <1>1. /\ UNCHANGED <<objects, ridx, empty, ret, obj>>
        /\ widx' = Following(widx)
        /\ \A k \in Context \ {c} : pc'[k] = pc[k] /\ ~Locked(k)
        /\ pc'[c] = "e_flag"
    BY <1>0 DEF EnqueueAdvance, TypeOK, IInv, MutualExclusion, Context
  <1>2. SettledEmpty = empty /\ SettledEmpty' = (empty /\ widx' # ridx)
    BY <1>0, <1>1, FlagSettled DEF SettledEmpty
  <1>3. /\ Count \in Nat /\ Count < Capacity
        /\ (ridx + Count) % Capacity = widx
        /\ objects[widx] = obj[c]
    BY <1>0, <1>2, CountBounds DEF EnqueueFacts, QueueIsFull
  <1>4. Count' = Count + 1
    <2>1. /\ ridx \in Nat /\ widx \in Nat /\ ridx < Capacity /\ widx < Capacity
          /\ widx \in Slot
      BY <1>0 DEF TypeOK, Slot
    <2>2. widx' = IF widx + 1 = Capacity THEN 0 ELSE widx + 1
      BY <1>1, <2>1, FollowingDef
    <2>3. ridx = widx => SettledEmpty
      BY <1>0, <1>2 DEF EnqueueFacts, QueueIsFull
    <2>4. Count' = IF ridx < widx' THEN widx' - ridx
                   ELSE IF ridx > widx' \/ ~SettledEmpty' THEN Capacity + widx' - ridx
                   ELSE 0
      BY <1>1 DEF Count
    <2>5. ridx = widx' => ~SettledEmpty'
      BY <1>2
    <2> QED
      BY <2>1, <2>2, <2>3, <2>4, <2>5 DEF Count
  <1>5. /\ objects \in [Slot -> Object \cup {NULL}] /\ ridx \in Slot
    BY <1>0 DEF TypeOK
  <1>6. Contents' = Append(Contents, obj[c])
    <2>1. Ring(objects, ridx, Count + 1)
            = Append(Ring(objects, ridx, Count), objects[(ridx + Count) % Capacity])
      BY <1>3, <1>5, RingAppend
    <2> QED
      BY <1>1, <1>3, <1>4, <2>1 DEF Contents
  <1>7. Len(Contents) < Capacity
    <2>1. Len(Contents) = Count
      BY <1>3, <1>5, RingIsSeq DEF Contents
    <2> QED
      BY <1>3, <2>1
  <1>8. Decides(c, 0)
    <2>1. Outcome(c)' = 0
      BY <1>1 DEF Outcome
    <2>2. \A k \in Context \ {c} : Outcome(k)' = Outcome(k)
      BY <1>1 DEF Outcome
    <2> QED
      BY <2>1, <2>2, OutcomeDecided
  <1> QED
    BY <1>6, <1>7, <1>8 DEF Promise!Enqueue, Decides

LEMMA DequeueAdvanceRefines ==
    ASSUME IInv, NEW c \in Context, DequeueAdvance(c)
    PROVE  Promise!Dequeue(c)
  <1> USE DEF At, Goto
  <1>0. /\ TypeOK /\ Locked(c) /\ pc[c] = "d_advance" /\ DequeueFacts(c)
    BY DEF IInv, DequeueAdvance, Locked
  <1>1. /\ UNCHANGED <<objects, widx, empty, ret, obj>>
        /\ ridx' = Following(ridx)
        /\ \A k \in Context \ {c} : pc'[k] = pc[k] /\ ~Locked(k)
        /\ pc'[c] = "d_flag"
    BY <1>0 DEF DequeueAdvance, TypeOK, IInv, MutualExclusion, Context
  <1>2. SettledEmpty = empty /\ SettledEmpty' = (empty \/ ridx' = widx)
    <2>1. SettledEmpty = empty
      BY <1>0, FlagSettled
    <2>2. \A k \in Context : pc'[k] # "e_flag"
      BY <1>1 DEF Locked
    <2>3. \E k \in Context : pc'[k] = "d_flag"
      BY <1>1
    <2> QED
      BY <1>1, <2>1, <2>2, <2>3 DEF SettledEmpty
  <1>3. /\ Count \in Nat \ {0} /\ Count <= Capacity
        /\ objects[ridx] = obj[c]
    BY <1>0, <1>2, CountBounds DEF DequeueFacts, QueueIsEmpty
  <1>4. Count' = Count - 1
    <2>1. /\ ridx \in Nat /\ widx \in Nat /\ ridx < Capacity /\ widx < Capacity
          /\ ridx \in Slot
      BY <1>0 DEF TypeOK, Slot
    <2>2. ridx' = IF ridx + 1 = Capacity THEN 0 ELSE ridx + 1
      BY <1>1, <2>1, FollowingDef
    <2>3. ridx = widx => ~SettledEmpty
      BY <1>0, <1>2 DEF DequeueFacts, QueueIsEmpty
    <2>4. Count' = IF ridx' < widx THEN widx - ridx'
                   ELSE IF ridx' > widx \/ ~SettledEmpty' THEN Capacity + widx - ridx'
                   ELSE 0
      BY <1>1 DEF Count
    <2>5. ridx' = widx => SettledEmpty'
      BY <1>2
    <2> QED
      BY <2>1, <2>2, <2>3, <2>4, <2>5 DEF Count
  <1>5. /\ objects \in [Slot -> Object \cup {NULL}] /\ ridx \in Slot
    BY <1>0 DEF TypeOK
  <1>6. Head(Contents) = obj[c] /\ Contents' = Tail(Contents)
    <2>1. /\ Head(Ring(objects, ridx, Count)) = objects[ridx]
          /\ Tail(Ring(objects, ridx, Count))
               = Ring(objects, Following(ridx), Count - 1)
      BY <1>3, <1>5, RingTail
    <2> QED
      BY <1>1, <1>3, <1>4, <2>1 DEF Contents
  <1>7. Contents # <<>>
    <2>1. Len(Contents) = Count
      BY <1>3, <1>5, RingIsSeq DEF Contents
    <2> QED
      BY <1>3, <2>1
  <1>8. Decides(c, obj[c])
    <2>1. Outcome(c)' = obj[c]
      BY <1>1 DEF Outcome
    <2>2. \A k \in Context \ {c} : Outcome(k)' = Outcome(k)
      BY <1>1 DEF Outcome
    <2> QED
      BY <2>1, <2>2, OutcomeDecided
  <1> QED
    BY <1>6, <1>7, <1>8 DEF Promise!Dequeue, Decides

(* Every behaviour of the statement-level queue, preempted anywhere, is one *)
(* of the atomic bounded FIFO: io/queue.c keeps its promise for every       *)
(* capacity.                                                                *)
THEOREM Refinement == Spec => ImplementsFifo
  <1>1. Init => Promise!Init
    <2> SUFFICES ASSUME Init PROVE Promise!Init
      OBVIOUS
    <2>1. SettledEmpty
      BY DEF Init, SettledEmpty
    <2>2. Count = 0
      BY <2>1, SMT DEF Init, Count
    <2>3. Contents = <<>>
      BY <2>2 DEF Contents, Ring
    <2>4. \A c \in Context : Outcome(c) = NULL
      BY DEF Init, Outcome
    <2> QED
      BY <2>3, <2>4 DEF Promise!Init
  <1>2. IInv /\ [Next]_vars => [Promise!Next]_(Promise!vars)
    <2> SUFFICES ASSUME IInv, [Next]_vars PROVE [Promise!Next]_(Promise!vars)
      OBVIOUS
    <2>1. Stutters => UNCHANGED Promise!vars
      BY DEF Stutters, Promise!vars
    <2>2. ASSUME NEW c \in Context, NEW o \in Object, CallEnqueue(c, o)
          PROVE  [Promise!Next]_(Promise!vars)
      BY <2>1, <2>2, CallStutters
    <2>3. ASSUME NEW c \in Context,
                 \/ CallDequeue(c) \/ EnqueueLock(c) \/ DequeueLock(c)
                 \/ EnqueueReturn(c) \/ DequeueReturn(c)
          PROVE  [Promise!Next]_(Promise!vars)
      BY <2>1, <2>3, CallStutters
    <2>4. ASSUME NEW c \in Context, EnqueueCheck(c) \/ DequeueCheck(c)
          PROVE  [Promise!Next]_(Promise!vars)
      BY <2>1, <2>4, CheckRefines DEF Promise!Next
    <2>5. ASSUME NEW c \in Context,
                 \/ EnqueueStore(c) \/ DequeueRead(c)
                 \/ EnqueueFlag(c) \/ DequeueFlag(c)
          PROVE  [Promise!Next]_(Promise!vars)
      BY <2>1, <2>5, StoreReadStutter, FlagStutters
    <2>6. ASSUME NEW c \in Context, EnqueueAdvance(c)
          PROVE  [Promise!Next]_(Promise!vars)
      <3>1. obj[c] \in Object
        BY <2>6 DEF IInv, EnqueueFacts, EnqueueAdvance, At, EnqueueStep
      <3> QED
        BY <2>6, <3>1, EnqueueAdvanceRefines DEF Promise!Next
    <2>7. ASSUME NEW c \in Context, DequeueAdvance(c)
          PROVE  [Promise!Next]_(Promise!vars)
      BY <2>7, DequeueAdvanceRefines DEF Promise!Next
    <2>8. ASSUME UNCHANGED vars PROVE [Promise!Next]_(Promise!vars)
      <3>1. UNCHANGED <<objects, ridx, widx, empty, pc, obj, ret>>
        BY <2>8 DEF vars
      <3>2. SettledEmpty' = SettledEmpty
        BY <3>1 DEF SettledEmpty
      <3>3. Contents' = Contents
        BY <3>1, <3>2, ContentsKept DEF queue
      <3>4. \A c \in Context : Outcome(c)' = Outcome(c)
        BY <3>1 DEF Outcome
      <3> QED
        BY <3>3, <3>4 DEF Promise!vars
    <2> QED
      BY <2>2, <2>3, <2>4, <2>5, <2>6, <2>7, <2>8 DEF Next, EnqueueNext, DequeueNext
  <1> QED
    BY <1>1, <1>2, Inductive, PTL DEF Spec, ImplementsFifo, Promise!Spec
=============================================================================
