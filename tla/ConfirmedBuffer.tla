--------------------------- MODULE ConfirmedBuffer ---------------------------
(***************************************************************************)
(* From a stream to the clients: a confirmed transaction whose block time  *)
(* is not known yet is held back, per slot, until the block metadata or a  *)
(* timer releases it; everything else is emitted at once.                  *)
(*                                                                         *)
(* emitTransaction awaits the transformation of the transaction, so the    *)
(* release of a slot is a task that other messages interleave with.        *)
(***************************************************************************)
EXTENDS Integers, Sequences, FiniteSets, Functions

CONSTANTS
    Updates,    \* transaction messages, each with a slot and a label
    Slots,      \* the slots of transactions and block messages
    MaxBlocks,  \* blockCacheSize
    Buffering   \* confirmedTxBufferMs > 0

ASSUME UpdatesAssumption ==
    \A u \in Updates : u.slot \in Slots /\ u.label \in {"processed", "confirmed"}
ASSUME SlotsAssumption  == Slots \subseteq Nat
ASSUME BlocksAssumption == MaxBlocks \in Nat /\ Buffering \in BOOLEAN

VARIABLES
    blocks,        \* blockCache: cached slot -> whether its block time is known
    pending,       \* pendingConfirmed: the items of each slot, none: no entry
    timers,        \* slots whose entry.timer is armed
    pendingItems,  \* pendingConfirmedItems
    tasks,         \* items still to emit, per running flush or direct emission
    arrived,       \* history: the messages that came in
    settled,       \* history: how often the emission of each was concluded
    before         \* history: pairs of one entry, in the order they arrived

vars == <<blocks, pending, timers, pendingItems, tasks, arrived, settled, before>>

HasEntry(slot) == pending[slot] # <<>>

TypeOK ==
    /\ blocks \in UNION {[S -> BOOLEAN] : S \in SUBSET Slots}
    /\ Cardinality(DOMAIN blocks) <= MaxBlocks
    /\ pending \in [Slots -> Seq(Updates)]
    /\ timers \subseteq Slots
    /\ pendingItems \in Nat
    /\ tasks \subseteq Seq(Updates)
    /\ arrived \subseteq Updates
    /\ settled \in [Updates -> Nat]
    /\ before \subseteq Updates \X Updates

Init ==
    /\ blocks = [s \in {} |-> FALSE]
    /\ pending = [s \in Slots |-> <<>>]
    /\ timers = {} /\ pendingItems = 0
    /\ tasks = {} /\ arrived = {} /\ before = {}
    /\ settled = [u \in Updates |-> 0]

-----------------------------------------------------------------------------
\* Mutant: nothing is evicted.
EvictNone(cached) == {}

\* evictOldEntries: the smallest slots beyond the size of the cache go, the
\* one just set among them when it is old.
Evicted(cached) ==
    {s \in cached : Cardinality({t \in cached : t > s}) >= MaxBlocks}

TimeKnown(slot) == slot \in DOMAIN blocks /\ blocks[slot]

\* handleStreamData and bufferConfirmedTransaction.
Hold(u) ==
    /\ timers' = IF HasEntry(u.slot) THEN timers ELSE timers \cup {u.slot}
    /\ pending' = [pending EXCEPT ![u.slot] = Append(@, u)]
    /\ pendingItems' = pendingItems + 1
    /\ before' = before \cup (Range(pending[u.slot]) \X {u})
    /\ UNCHANGED tasks

EmitNow(u) ==
    /\ tasks' = tasks \cup {<<u>>}
    /\ UNCHANGED <<pending, timers, pendingItems, before>>

Data(u) ==
    /\ u \notin arrived
    /\ arrived' = arrived \cup {u}
    /\ IF u.label = "confirmed" /\ Buffering /\ ~TimeKnown(u.slot)
       THEN Hold(u) ELSE EmitNow(u)
    /\ UNCHANGED <<blocks, settled>>

-----------------------------------------------------------------------------
\* Mutants: the entry outlives its flush; its timer does.
KeepEntry(slot) == pending
KeepTimer(slot) == timers

WithoutEntry(slot) == [pending EXCEPT ![slot] = <<>>]
WithoutTimer(slot) == timers \ {slot}
FewerItems(slot) ==
    LET left == pendingItems - Len(pending[slot]) IN IF left > 0 THEN left ELSE 0

\* flushConfirmedSlot, up to its first await.
FlushConfirmedSlot(slot) ==
    /\ HasEntry(slot)
    /\ pending' = WithoutEntry(slot)
    /\ timers' = WithoutTimer(slot)
    /\ pendingItems' = FewerItems(slot)
    /\ tasks' = tasks \cup {pending[slot]}

\* handleBlockUpdate: a block message, or the block metadata, of a slot.
BlockUpdate(slot, known) ==
    LET set  == [s \in DOMAIN blocks \cup {slot} |-> IF s = slot THEN known ELSE blocks[s]]
        kept == DOMAIN set \ Evicted(DOMAIN set)
    IN  /\ blocks' = [s \in kept |-> set[s]]
        /\ \/ FlushConfirmedSlot(slot)
           \/ ~HasEntry(slot) /\ UNCHANGED <<pending, timers, pendingItems, tasks>>
        /\ UNCHANGED <<arrived, settled, before>>

\* The timer of an entry, confirmedTxBufferMs after its first item.
TimerFires(slot) ==
    /\ slot \in timers
    /\ FlushConfirmedSlot(slot)
    /\ UNCHANGED <<blocks, arrived, settled, before>>

\* Mutants: the items are emitted from the last one on; an item ends its loop.
LastFirst(task) == task[Len(task)]
NoneLeft(task) == <<>>

NextItem(task) == Head(task)
ItemsAfter(task) == Tail(task)

\* The transformation of a task's first item is over: the event goes out, or
\* the error is logged and the item dropped; the loop goes on either way.
Emitted(task) ==
    LET u    == NextItem(task)
        rest == ItemsAfter(task)
    IN  /\ settled' = [settled EXCEPT ![u] = @ + 1]
        /\ tasks' = (tasks \ {task}) \cup ({rest} \ {<<>>})
        /\ UNCHANGED <<blocks, pending, timers, pendingItems, arrived, before>>

-----------------------------------------------------------------------------
Next ==
    \/ \E u \in Updates : Data(u)
    \/ \E slot \in Slots : TimerFires(slot)
    \/ \E slot \in Slots, known \in BOOLEAN : BlockUpdate(slot, known)
    \/ \E task \in tasks : Emitted(task)

Spec == Init /\ [][Next]_vars

\* Timers fire and every transformation is over sometime: the RPC requests it
\* may wait for are answered, fail or time out.
Fairness ==
    /\ \A slot \in Slots : WF_vars(TimerFires(slot))
    /\ \A u \in Updates : WF_vars(\E task \in tasks : NextItem(task) = u /\ Emitted(task))

FairSpec == Spec /\ Fairness

-----------------------------------------------------------------------------
(* Properties.                                                             *)

Held(u)    == u \in Range(pending[u.slot])
Carriers(u) == {task \in tasks : u \in Range(task)}

\* No message is lost or emitted twice between the timer, the block update and
\* the running flushes of its slot: once it came in, it is in exactly one
\* place, and it is concluded at most once.
Conserved ==
    \A u \in Updates :
        LET places == Cardinality(Carriers(u)) + settled[u] IN
        IF u \notin arrived THEN ~Held(u) /\ places = 0
        ELSE IF Held(u) THEN places = 0 ELSE places = 1

\* What is kept by hand next to the entries fits them, through every race of a
\* timer with a block update: every entry has its timer armed, or its items
\* would wait for a block update that may never come; no timer outlives its
\* entry, or it would release the next entry of the slot early; and
\* pendingConfirmedItems, which Math.max keeps from going negative, is the
\* number of items that are held back.
EntriesAccounted ==
    /\ timers = {slot \in Slots : HasEntry(slot)}
    /\ pendingItems = Cardinality({u \in Updates : Held(u)})

\* What was held back in one entry goes out in the order it came in, whatever
\* else is emitted while the flush waits for a transformation.
EntryOrder == \A pair \in before : settled[pair[2]] > 0 => settled[pair[1]] > 0

Promised == INSTANCE Outbox WITH Messages <- Updates

\* Entries, timers, block updates and flushes that wait for a transformation are
\* no more than a way to conclude each message once, behind those of its slot
\* that it found held back and behind nothing else.
OutboxRefined == Promised!Spec

\* Every message that came in is emitted, or dropped with its error logged,
\* in the end.
Delivered == \A u \in Updates : u \in arrived ~> settled[u] > 0
=============================================================================
