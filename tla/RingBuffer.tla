----------------------------- MODULE RingBuffer -----------------------------
(***************************************************************************)
(* utils/ringBuffer.ts: a queue in an array of fixed capacity, addressed   *)
(* modulo the capacity.  A capacity below zero behaves as zero does.       *)
(***************************************************************************)
EXTENDS Integers, Sequences

CONSTANTS
    Items,     \* what can be stored; every item has a time, item.ts
    Capacity,  \* the constructor's argument
    Cutoffs,   \* the cutoff times of trimBefore
    Undefined  \* an empty slot of the array

ASSUME CapacityAssumption == Capacity \in Nat
ASSUME TimesAssumption ==
    (\A x \in Items : x.ts \in Int) /\ Cutoffs \subseteq Int
ASSUME UndefinedAssumption == Undefined \notin Items

VARIABLES buffer, head, size
vars == <<buffer, head, size>>

Slots == 0 .. (Capacity - 1)

TypeOK ==
    /\ buffer \in [Slots -> Items \cup {Undefined}]
    /\ head \in Slots \cup {0}
    /\ size \in 0 .. Capacity

Init ==
    /\ buffer = [s \in Slots |-> Undefined]
    /\ head = 0
    /\ size = 0

\* Mutant: the index is not wrapped at the end of the array.
Unwrapped(i) == IF head + i < Capacity THEN head + i ELSE Capacity - 1

\* The slot of the item that is i places behind the oldest.
Slot(i) == (head + i) % Capacity

\* Mutant: a full buffer overwrites its oldest item without moving head.
OverwriteOnly(x) ==
    /\ buffer' = [buffer EXCEPT ![head] = x]
    /\ UNCHANGED <<head, size>>

OverwriteOldest(x) ==
    /\ buffer' = [buffer EXCEPT ![head] = x]
    /\ head' = Slot(1)
    /\ UNCHANGED size

Push(x) ==
    IF Capacity = 0 THEN UNCHANGED vars
    ELSE IF size < Capacity
         THEN /\ buffer' = [buffer EXCEPT ![Slot(size)] = x]
              /\ size' = size + 1
              /\ UNCHANGED head
         ELSE OverwriteOldest(x)

\* The loop of trimBefore runs k times: it stops when the buffer is empty, at
\* an empty slot, or at an item that is recent enough.
TrimBefore(cutoff) ==
    \E k \in 0 .. size :
        /\ \A i \in 0 .. (k - 1) :
              buffer[Slot(i)] # Undefined /\ buffer[Slot(i)].ts < cutoff
        /\ k < size => \/ buffer[Slot(k)] = Undefined
                       \/ buffer[Slot(k)].ts >= cutoff
        /\ buffer' = [s \in Slots |-> IF \E i \in 0 .. (k - 1) : s = Slot(i)
                                      THEN Undefined ELSE buffer[s]]
        /\ head' = IF k = 0 THEN head ELSE Slot(k)
        /\ size' = size - k

Clear ==
    IF Capacity = 0 THEN UNCHANGED vars
    ELSE /\ buffer' = [s \in Slots |-> Undefined]
         /\ head' = 0
         /\ size' = 0

Next ==
    \/ \E x \in Items : Push(x)
    \/ \E cutoff \in Cutoffs : TrimBefore(cutoff)
    \/ Clear

Spec == Init /\ [][Next]_vars

-----------------------------------------------------------------------------
(* Properties.                                                             *)

\* What forEach visits, oldest first.
Contents == [i \in 1 .. size |-> buffer[Slot(i - 1)]]

\* forEach and trimBefore skip or stop at an empty slot; none is ever among the
\* size slots from head on, and every slot outside them is empty, so nothing
\* trimmed or cleared stays reachable.
LiveSlots ==
    \A s \in Slots : buffer[s] # Undefined <=> \E i \in 0 .. (size - 1) : s = Slot(i)

\* The array with its modular arithmetic is the queue: pushes, trims and clears
\* in any order, over any number of wraps, do to Contents what BoundedQueue
\* says.
Queue == INSTANCE BoundedQueue WITH queue <- Contents
ImplementsQueue == Queue!Spec
=============================================================================
