---------------------------- MODULE BoundedQueue ----------------------------
(***************************************************************************)
(* What the replay backlog promises: a first-in first-out queue that keeps *)
(* the newest Capacity items, and from which old items are trimmed at the  *)
(* front.  RingBuffer implements it; Replay uses its operators.            *)
(***************************************************************************)
EXTENDS Integers, Sequences

CONSTANTS
    Items,     \* what can be queued; every item has a time, item.ts
    Capacity,  \* grpcRetentionMaxEvents
    Cutoffs    \* the cutoff times of trimBefore

VARIABLE queue

\* The queue q with x pushed: a full queue loses its oldest item.
Pushed(q, x) ==
    IF Capacity = 0 THEN q
    ELSE IF Len(q) < Capacity THEN Append(q, x) ELSE Append(Tail(q), x)

\* The result of dropping from the front of q what is older than cutoff, up to
\* the first item that is not.
Trimmed(q, cutoff, result) ==
    \E k \in 0 .. Len(q) :
        /\ \A i \in 1 .. k : q[i].ts < cutoff
        /\ k < Len(q) => q[k + 1].ts >= cutoff
        /\ result = SubSeq(q, k + 1, Len(q))

Init == queue = <<>>

Push(x) == queue' = Pushed(queue, x)
TrimBefore(cutoff) == Trimmed(queue, cutoff, queue')
Clear == queue' = <<>>

Next ==
    \/ \E x \in Items : Push(x)
    \/ \E cutoff \in Cutoffs : TrimBefore(cutoff)
    \/ Clear

Spec == Init /\ [][Next]_queue
=============================================================================
