------------------------------- MODULE Outbox -------------------------------
(***************************************************************************)
(* What a client may rely on when a transaction comes in from a stream: it *)
(* is concluded once and, if it is made to wait, then behind transactions  *)
(* of its own slot only, which go out before it.  Entries, timers, block   *)
(* times and running flushes do not show.                                  *)
(***************************************************************************)
EXTENDS Integers

CONSTANT Messages    \* transaction messages, each with a slot

VARIABLES
    arrived,    \* the messages that came in
    settled,    \* how often the emission of each was concluded
    before      \* pairs of messages, the second of which waits for the first

vars == <<arrived, settled, before>>

Init ==
    /\ arrived = {} /\ before = {}
    /\ settled = [u \in Messages |-> 0]

Waiting(u) == u \in arrived /\ settled[u] = 0

\* u comes in, to go out after the messages in ahead.
ArriveBehind(u, ahead) ==
    /\ u \notin arrived
    /\ \A v \in ahead : Waiting(v) /\ v.slot = u.slot
    /\ arrived' = arrived \cup {u}
    /\ before' = before \cup (ahead \X {u})
    /\ UNCHANGED settled

Settle(u) ==
    /\ Waiting(u)
    /\ \A pair \in before : pair[2] = u => settled[pair[1]] = 1
    /\ settled' = [settled EXCEPT ![u] = 1]
    /\ UNCHANGED <<arrived, before>>

Next ==
    \E u \in Messages : \/ \E ahead \in SUBSET Messages : ArriveBehind(u, ahead)
                        \/ Settle(u)

Spec == Init /\ [][Next]_vars
=============================================================================
