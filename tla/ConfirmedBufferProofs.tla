------------------------ MODULE ConfirmedBufferProofs ------------------------
(***************************************************************************)
(* Proofs about ConfirmedBuffer, for any number of messages and slots.     *)
(* That a message is in one place only is not inductive by itself: it      *)
(* needs that the running flushes share no message with each other nor     *)
(* with an entry, and that an entry holds the messages of its own slot.    *)
(***************************************************************************)
EXTENDS ConfirmedBuffer, FiniteSetTheorems, SequenceTheorems, TLAPS

\* a is in front of b in the sequence s.
Ahead(s, a, b) == \E i, j \in DOMAIN s : i < j /\ s[i] = a /\ s[j] = b

Emitting(u) == \E task \in tasks : u \in Range(task)
HeldItems   == {u \in Updates : Held(u)}

EntriesFit ==
    \A slot \in Slots :
        /\ IsInjective(pending[slot])
        /\ \A u \in Range(pending[slot]) :
              u.slot = slot /\ u \in arrived /\ settled[u] = 0

TasksFit ==
    \A task \in tasks :
        /\ task # <<>> /\ IsInjective(task)
        /\ \A u \in Range(task) : u \in arrived /\ settled[u] = 0 /\ ~Held(u)

TasksApart ==
    \A task, other \in tasks : \A u \in Range(task) : u \in Range(other) => task = other

NoneLost ==
    \A u \in Updates :
        IF u \in arrived THEN Held(u) \/ Emitting(u) \/ settled[u] = 1 ELSE settled[u] = 0

Counted == IsFiniteSet(HeldItems) /\ EntriesAccounted

\* The first of the two is gone, or the second is behind it.
StillBehind ==
    \A pair \in before :
        \/ settled[pair[1]] = 1
        \/ Ahead(pending[pair[1].slot], pair[1], pair[2])
        \/ \E task \in tasks : Ahead(task, pair[1], pair[2])

BlocksFit ==
    /\ blocks \in [DOMAIN blocks -> BOOLEAN] /\ DOMAIN blocks \subseteq Slots
    /\ IsFiniteSet(DOMAIN blocks) /\ Cardinality(DOMAIN blocks) <= MaxBlocks

IInv ==
    /\ TypeOK /\ BlocksFit
    /\ EntriesFit /\ TasksFit /\ TasksApart /\ NoneLost
    /\ Counted /\ StillBehind

-----------------------------------------------------------------------------
(* Lemmas about sequences, sets and the eviction of cached slots.          *)

\* A sequence without repetitions has as many items as positions.
LEMMA InjectiveRange ==
    ASSUME NEW S, NEW s \in Seq(S), IsInjective(s)
    PROVE  IsFiniteSet(Range(s)) /\ Cardinality(Range(s)) = Len(s)
<1>1. Len(s) \in Nat /\ DOMAIN s = 1 .. Len(s)
  OBVIOUS
<1>2. s \in [1 .. Len(s) -> Range(s)]
  BY <1>1 DEF Range
<1>3. s \in Bijection(1 .. Len(s), Range(s))
  BY <1>1, <1>2 DEF Bijection, Injection, Surjection, Range, IsInjective
<1>4. ExistsBijection(1 .. Len(s), Range(s))
  BY <1>3 DEF ExistsBijection
<1> QED
  BY <1>1, <1>4, FS_CountingElements, FS_NatBijection

\* The items of a sequence are those of its head and its tail.
LEMMA TailRange ==
    ASSUME NEW S, NEW s \in Seq(S), s # <<>>
    PROVE  /\ Head(s) \in S /\ Tail(s) \in Seq(S)
           /\ Range(s) = {Head(s)} \cup Range(Tail(s))
           /\ IsInjective(s) => IsInjective(Tail(s)) /\ Head(s) \notin Range(Tail(s))
<1>1. /\ Len(s) \in Nat \ {0} /\ DOMAIN s = 1 .. Len(s)
      /\ Tail(s) \in Seq(S) /\ DOMAIN Tail(s) = 1 .. Len(s) - 1
      /\ \A i \in 1 .. Len(s) - 1 : Tail(s)[i] = s[i + 1]
      /\ Head(s) = s[1] /\ Head(s) \in S
  OBVIOUS
<1>2. \A i \in 1 .. Len(s) : i = 1 \/ (i - 1 \in 1 .. Len(s) - 1 /\ Tail(s)[i - 1] = s[i])
  BY <1>1
<1>3. Range(s) = {Head(s)} \cup Range(Tail(s))
  <2>1. ASSUME NEW i \in DOMAIN s PROVE s[i] \in {Head(s)} \cup Range(Tail(s))
    <3>1. CASE i = 1
      BY <1>1, <3>1
    <3>2. CASE i - 1 \in 1 .. Len(s) - 1 /\ Tail(s)[i - 1] = s[i]
      BY <1>1, <3>2 DEF Range
    <3> QED
      BY <1>1, <1>2, <3>1, <3>2
  <2>2. {Head(s)} \cup Range(Tail(s)) \subseteq Range(s)
    BY <1>1 DEF Range
  <2> QED
    BY <2>1, <2>2 DEF Range
<1>4. IsInjective(s) => IsInjective(Tail(s)) /\ Head(s) \notin Range(Tail(s))
  BY <1>1 DEF IsInjective, Range
<1> QED
  BY <1>1, <1>3, <1>4

LEMMA AppendRange ==
    ASSUME NEW S, NEW s \in Seq(S), NEW e \in S
    PROVE  /\ Append(s, e) \in Seq(S) /\ Append(s, e) # <<>>
           /\ Range(Append(s, e)) = Range(s) \cup {e}
           /\ IsInjective(s) /\ e \notin Range(s) => IsInjective(Append(s, e))
<1>1. /\ Len(s) \in Nat /\ DOMAIN s = 1 .. Len(s)
      /\ Append(s, e) \in Seq(S) /\ Append(s, e) # <<>>
      /\ DOMAIN Append(s, e) = 1 .. Len(s) + 1
      /\ \A i \in 1 .. Len(s) : Append(s, e)[i] = s[i]
      /\ Append(s, e)[Len(s) + 1] = e
  BY AppendProperties
<1>2. \A i \in 1 .. Len(s) + 1 : i \in 1 .. Len(s) \/ i = Len(s) + 1
  BY <1>1
<1>3. Range(Append(s, e)) = Range(s) \cup {e}
  <2>1. Range(Append(s, e)) \subseteq Range(s) \cup {e}
    BY <1>1, <1>2 DEF Range
  <2>2. Range(s) \cup {e} \subseteq Range(Append(s, e))
    BY <1>1 DEF Range
  <2> QED
    BY <2>1, <2>2
<1>4. IsInjective(s) /\ e \notin Range(s) => IsInjective(Append(s, e))
  BY <1>1, <1>2 DEF IsInjective, Range
<1> QED
  BY <1>1, <1>3, <1>4

\* Who is ahead of whom when an item joins the end or leaves the front.
LEMMA AheadKept ==
    ASSUME NEW S, NEW s \in Seq(S), NEW a, NEW b, Ahead(s, a, b)
    PROVE  /\ a \in Range(s) /\ b \in Range(s)
           /\ \A e \in S : Ahead(Append(s, e), a, b)
           /\ a # Head(s) => Ahead(Tail(s), a, b)
<1>1. PICK i \in DOMAIN s, j \in DOMAIN s : i < j /\ s[i] = a /\ s[j] = b
  BY DEF Ahead
<1>2. Len(s) \in Nat /\ DOMAIN s = 1 .. Len(s) /\ s # <<>>
  BY <1>1
<1>3. a \in Range(s) /\ b \in Range(s)
  BY <1>1 DEF Range
<1>4. ASSUME NEW e \in S PROVE Ahead(Append(s, e), a, b)
  <2>1. /\ DOMAIN Append(s, e) = 1 .. Len(s) + 1
        /\ \A k \in 1 .. Len(s) : Append(s, e)[k] = s[k]
    BY <1>2, AppendProperties
  <2> QED
    BY <1>1, <1>2, <2>1 DEF Ahead
<1>5. ASSUME a # Head(s) PROVE Ahead(Tail(s), a, b)
  <2>1. /\ DOMAIN Tail(s) = 1 .. Len(s) - 1
        /\ \A k \in 1 .. Len(s) - 1 : Tail(s)[k] = s[k + 1]
        /\ Head(s) = s[1]
    BY <1>2
  <2>2. i # 1
    BY <1>1, <1>5, <2>1
  <2>3. /\ i - 1 \in DOMAIN Tail(s) /\ j - 1 \in DOMAIN Tail(s) /\ i - 1 < j - 1
        /\ Tail(s)[i - 1] = a /\ Tail(s)[j - 1] = b
    BY <1>1, <1>2, <2>1, <2>2
  <2> QED
    BY <2>3 DEF Ahead
<1> QED
  BY <1>3, <1>4, <1>5

LEMMA AheadAppended ==
    ASSUME NEW S, NEW s \in Seq(S), NEW a \in Range(s), NEW e \in S
    PROVE  Ahead(Append(s, e), a, e)
<1>1. PICK i \in DOMAIN s : s[i] = a
  BY DEF Range
<1>2. /\ Len(s) \in Nat /\ DOMAIN s = 1 .. Len(s)
      /\ DOMAIN Append(s, e) = 1 .. Len(s) + 1
      /\ \A k \in 1 .. Len(s) : Append(s, e)[k] = s[k]
      /\ Append(s, e)[Len(s) + 1] = e
  BY AppendProperties
<1> QED
  BY <1>1, <1>2 DEF Ahead

LEMMA SmallestOf ==
    ASSUME NEW T \in SUBSET Nat, T # {}
    PROVE  \E m \in T : \A n \in T : m <= n
<1> DEFINE R == {r \in Nat \X Nat : r[1] < r[2]}
<1>1. R = OpToRel(<, Nat)
  BY DEF OpToRel
<1>2. IsWellFoundedOn(R, Nat)
  BY <1>1, NatLessThanWellFounded
<1>3. \A m, n \in Nat : n < m => <<n, m>> \in R
  OBVIOUS
<1> HIDE DEF R
<1>4. PICK m \in T : \A n \in T : ~(<<n, m>> \in R)
  BY <1>2, WFMin
<1>5. ASSUME NEW n \in T PROVE m <= n
  <2>1. m \in Nat /\ n \in Nat
    OBVIOUS
  <2>2. ~(n < m)
    BY <2>1, <1>3, <1>4
  <2> QED
    BY <2>1, <2>2
<1> QED
  BY <1>5

\* evictOldEntries leaves MaxBlocks slots at most: those above the smallest
\* one that is left are fewer.
LEMMA EvictionBounds ==
    ASSUME NEW cached \in SUBSET Nat, IsFiniteSet(cached)
    PROVE  /\ IsFiniteSet(cached \ Evicted(cached))
           /\ Cardinality(cached \ Evicted(cached)) <= MaxBlocks
<1> DEFINE kept == cached \ Evicted(cached)
<1>1. IsFiniteSet(kept) /\ Cardinality(kept) \in Nat
  BY FS_Subset, FS_CardinalityType
<1>2. CASE kept = {}
  BY <1>2, FS_EmptySet, BlocksAssumption
<1>3. CASE kept # {}
  <2>1. PICK m \in kept : \A n \in kept : m <= n
    <3>1. kept \in SUBSET Nat
      OBVIOUS
    <3> QED
      BY <1>3, <3>1, SmallestOf
  <2> DEFINE larger == {t \in cached : t > m}
  <2>2. IsFiniteSet(larger) /\ Cardinality(larger) \in Nat
    BY FS_Subset, FS_CardinalityType
  <2>3. ~(Cardinality(larger) >= MaxBlocks)
    BY DEF Evicted
  <2>4. kept \ {m} \subseteq larger
    <3>1. \A n \in kept \ {m} : n \in Nat /\ m \in Nat /\ m <= n /\ n # m
      BY <2>1
    <3>2. \A n \in kept \ {m} : n \in cached /\ n > m
      BY <3>1
    <3> QED
      BY <3>2
  <2>5. Cardinality(kept \ {m}) = Cardinality(kept) - 1
    BY <1>1, FS_RemoveElement
  <2>6. Cardinality(kept \ {m}) <= Cardinality(larger)
    BY <2>2, <2>4, FS_Subset
  <2> QED
    BY <1>1, <2>2, <2>3, <2>5, <2>6, BlocksAssumption
<1> QED
  BY <1>1, <1>2, <1>3

-----------------------------------------------------------------------------
(* The invariant holds initially and every step preserves it.              *)

LEMMA BlocksType == BlocksFit => blocks \in UNION {[S -> BOOLEAN] : S \in SUBSET Slots}
BY DEF BlocksFit

LEMMA InitIInv == Init => IInv
<1> SUFFICES ASSUME Init PROVE IInv
  OBVIOUS
<1>1. DOMAIN blocks = {} /\ IsFiniteSet(DOMAIN blocks) /\ Cardinality(DOMAIN blocks) = 0
  BY FS_EmptySet DEF Init
<1>b. BlocksFit
  BY <1>1, BlocksAssumption DEF Init, BlocksFit
<1>2. \A slot \in Slots : pending[slot] = <<>> /\ Range(pending[slot]) = {} /\ ~HasEntry(slot)
  BY DEF Init, HasEntry, Range
<1>3. HeldItems = {}
  BY <1>2, UpdatesAssumption DEF HeldItems, Held
<1>4. TypeOK
  <2>1. pending \in [Slots -> Seq(Updates)]
    BY DEF Init
  <2> QED
    BY <1>b, <2>1, BlocksType DEF Init, TypeOK, BlocksFit
<1>5. EntriesFit
  BY <1>2 DEF EntriesFit, IsInjective
<1>6. TasksFit /\ TasksApart /\ StillBehind
  BY DEF Init, TasksFit, TasksApart, StillBehind
<1>7. NoneLost
  BY DEF Init, NoneLost
<1>8. Counted
  BY <1>2, <1>3, FS_EmptySet DEF Init, Counted, EntriesAccounted, HeldItems
<1> QED
  BY <1>b, <1>4, <1>5, <1>6, <1>7, <1>8 DEF IInv

\* A message that has just come in is nowhere yet.
LEMMA NewIsNowhere ==
    ASSUME IInv, NEW u \in Updates, u \notin arrived
    PROVE  /\ u.slot \in Slots /\ settled[u] = 0 /\ ~Held(u) /\ u \notin HeldItems
           /\ \A slot \in Slots : u \notin Range(pending[slot])
           /\ \A task \in tasks : u \notin Range(task)
BY UpdatesAssumption DEF IInv, NoneLost, EntriesFit, TasksFit, Held, HeldItems

LEMMA HoldIInv ==
    ASSUME IInv, NEW u \in Updates, u \notin arrived, arrived' = arrived \cup {u},
           Hold(u), UNCHANGED <<blocks, settled>>
    PROVE  IInv'
<1>1. /\ u.slot \in Slots /\ settled[u] = 0 /\ ~Held(u) /\ u \notin HeldItems
      /\ \A slot \in Slots : u \notin Range(pending[slot])
      /\ \A task \in tasks : u \notin Range(task)
  BY NewIsNowhere
<1>2. \A slot \in Slots : pending[slot] \in Seq(Updates)
  BY DEF IInv, TypeOK
<1>3. /\ pending'[u.slot] = Append(pending[u.slot], u)
      /\ \A slot \in Slots \ {u.slot} : pending'[slot] = pending[slot]
  BY <1>1 DEF Hold, IInv, TypeOK
<1>4. /\ pending'[u.slot] \in Seq(Updates) /\ pending'[u.slot] # <<>>
      /\ Range(pending'[u.slot]) = Range(pending[u.slot]) \cup {u}
      /\ IsInjective(pending[u.slot]) => IsInjective(pending'[u.slot])
  BY <1>1, <1>2, <1>3, AppendRange
<1>5. \A v \in Updates : Held(v)' <=> Held(v) \/ v = u
  <2>1. ASSUME NEW v \in Updates, v.slot = u.slot PROVE Held(v)' <=> Held(v) \/ v = u
    BY <2>1, <1>4 DEF Held
  <2>2. ASSUME NEW v \in Updates, v.slot # u.slot PROVE Held(v)' <=> Held(v) \/ v = u
    BY <2>2, <1>3, UpdatesAssumption DEF Held
  <2> QED
    BY <2>1, <2>2
<1>6. TypeOK' /\ BlocksFit'
  <2>1. pending' \in [Slots -> Seq(Updates)]
    BY <1>1, <1>2, <1>4, <1>3 DEF Hold, IInv, TypeOK
  <2>2. before' \subseteq Updates \X Updates
    <3>1. Range(pending[u.slot]) \subseteq Updates
      BY <1>1, <1>2, RangeOfSeq
    <3> QED
      BY <3>1 DEF Hold, IInv, TypeOK
  <2>3. timers' \subseteq Slots /\ pendingItems' \in Nat
    BY <1>1 DEF Hold, IInv, TypeOK
  <2>4. BlocksFit'
    BY DEF IInv, BlocksFit
  <2> QED
    BY <2>1, <2>2, <2>3, <2>4 DEF Hold, IInv, TypeOK
<1>7. EntriesFit'
  <2> SUFFICES ASSUME NEW slot \in Slots
               PROVE  /\ IsInjective(pending'[slot])
                      /\ \A v \in Range(pending'[slot]) :
                            v.slot = slot /\ v \in arrived' /\ settled'[v] = 0
    BY DEF EntriesFit
  <2>1. CASE slot = u.slot
    BY <1>1, <1>4, <2>1 DEF IInv, EntriesFit
  <2>2. CASE slot # u.slot
    BY <1>3, <2>2 DEF IInv, EntriesFit
  <2> QED
    BY <2>1, <2>2
<1>8. TasksFit'
  <2> SUFFICES ASSUME NEW task \in tasks
               PROVE  /\ task # <<>> /\ IsInjective(task)
                      /\ \A v \in Range(task) : v \in arrived' /\ settled'[v] = 0 /\ ~Held(v)'
    BY DEF TasksFit, Hold
  <2>1. Range(task) \subseteq Updates
    BY RangeOfSeq DEF IInv, TypeOK
  <2> QED
    BY <1>1, <1>5, <2>1 DEF IInv, TasksFit
<1>9. TasksApart' /\ NoneLost'
  BY <1>1, <1>5 DEF IInv, TasksApart, NoneLost, Emitting, Hold
<1>10. Counted'
  <2>1. HeldItems' = HeldItems \cup {u}
    BY <1>5 DEF HeldItems
  <2>2. IsFiniteSet(HeldItems') /\ Cardinality(HeldItems') = Cardinality(HeldItems) + 1
    BY <1>1, <2>1, FS_AddElement DEF IInv, Counted
  <2>3. \A slot \in Slots : HasEntry(slot)' <=> HasEntry(slot) \/ slot = u.slot
    BY <1>3, <1>4 DEF HasEntry
  <2>4. timers' = {slot \in Slots : HasEntry(slot)'}
    BY <1>1, <2>3 DEF Hold, IInv, Counted, EntriesAccounted
  <2> QED
    BY <2>2, <2>4 DEF Hold, IInv, Counted, EntriesAccounted, HeldItems
<1>11. StillBehind'
  <2> SUFFICES ASSUME NEW pair \in before'
               PROVE  \/ settled[pair[1]] = 1
                      \/ Ahead(pending'[pair[1].slot], pair[1], pair[2])
                      \/ \E task \in tasks : Ahead(task, pair[1], pair[2])
    BY DEF StillBehind, Hold
  <2>1. CASE pair \in before
    <3>1. pair[1] \in Updates /\ pair[1].slot \in Slots
      BY <2>1, UpdatesAssumption DEF IInv, TypeOK
    <3>2. CASE Ahead(pending[pair[1].slot], pair[1], pair[2])
      <4>1. CASE pair[1].slot = u.slot
        <5>1. Ahead(Append(pending[u.slot], u), pair[1], pair[2])
          BY <1>1, <1>2, <3>2, <4>1, AheadKept
        <5> QED
          BY <1>3, <4>1, <5>1
      <4>2. CASE pair[1].slot # u.slot
        BY <1>3, <3>1, <3>2, <4>2
      <4> QED
        BY <4>1, <4>2
    <3> QED
      BY <2>1, <3>2 DEF IInv, StillBehind
  <2>2. CASE pair \in Range(pending[u.slot]) \X {u}
    <3>1. pair[1] \in Range(pending[u.slot]) /\ pair[2] = u /\ pair[1].slot = u.slot
      BY <1>1, <2>2 DEF IInv, EntriesFit
    <3>2. Ahead(Append(pending[u.slot], u), pair[1], u)
      BY <1>1, <1>2, <3>1, AheadAppended
    <3> QED
      BY <1>3, <3>1, <3>2
  <2> QED
    BY <2>1, <2>2 DEF Hold
<1> QED
  BY <1>6, <1>7, <1>8, <1>9, <1>10, <1>11 DEF IInv

LEMMA EmitNowIInv ==
    ASSUME IInv, NEW u \in Updates, u \notin arrived, arrived' = arrived \cup {u},
           EmitNow(u), UNCHANGED <<blocks, settled>>
    PROVE  IInv'
<1>1. /\ u.slot \in Slots /\ settled[u] = 0 /\ ~Held(u)
      /\ \A task \in tasks : u \notin Range(task)
  BY NewIsNowhere
<1>2. <<u>> \in Seq(Updates) /\ <<u>> # <<>> /\ Range(<<u>>) = {u} /\ IsInjective(<<u>>)
  BY DEF Range, IsInjective
<1>3. tasks' = tasks \cup {<<u>>}
  BY DEF EmitNow
<1>4. \A v \in Updates : Held(v)' <=> Held(v)
  BY DEF Held, EmitNow
<1>5. TypeOK' /\ BlocksFit'
  BY <1>2, <1>3 DEF EmitNow, IInv, TypeOK, BlocksFit
<1>6. EntriesFit'
  BY DEF EmitNow, IInv, EntriesFit
<1>7. TasksFit'
  <2>1. ASSUME NEW task \in tasks
        PROVE  /\ task # <<>> /\ IsInjective(task)
               /\ \A v \in Range(task) : v \in arrived' /\ settled'[v] = 0 /\ ~Held(v)'
    <3>1. Range(task) \subseteq Updates
      BY RangeOfSeq DEF IInv, TypeOK
    <3> QED
      BY <1>4, <3>1 DEF IInv, TasksFit
  <2>2. \A v \in Range(<<u>>) : v \in arrived' /\ settled'[v] = 0 /\ ~Held(v)'
    BY <1>1, <1>2, <1>4
  <2> QED
    BY <1>2, <1>3, <2>1, <2>2 DEF TasksFit
<1>8. TasksApart'
  BY <1>1, <1>2, <1>3 DEF IInv, TasksApart
<1>9. NoneLost'
  BY <1>1, <1>2, <1>3, <1>4 DEF IInv, NoneLost, Emitting
<1>10. Counted'
  BY <1>4 DEF EmitNow, IInv, Counted, EntriesAccounted, HeldItems, HasEntry, Held
<1>11. StillBehind'
  BY <1>3 DEF EmitNow, IInv, StillBehind
<1> QED
  BY <1>5, <1>6, <1>7, <1>8, <1>9, <1>10, <1>11 DEF IInv

\* The timer and the block update do the same to an entry.
LEMMA FlushIInv ==
    ASSUME IInv, NEW slot \in Slots, FlushConfirmedSlot(slot),
           UNCHANGED <<arrived, settled, before>>, BlocksFit'
    PROVE  IInv'
<1> DEFINE entry == pending[slot]
<1>1. /\ pending \in [Slots -> Seq(Updates)]
      /\ entry \in Seq(Updates) /\ entry # <<>> /\ IsInjective(entry)
      /\ \A v \in Range(entry) : v.slot = slot /\ v \in arrived /\ settled[v] = 0
  BY DEF FlushConfirmedSlot, HasEntry, IInv, TypeOK, EntriesFit
<1>2. /\ pending'[slot] = <<>> /\ Range(pending'[slot]) = {}
      /\ \A other \in Slots \ {slot} : pending'[other] = pending[other]
  BY <1>1 DEF FlushConfirmedSlot, WithoutEntry, Range
<1>3. tasks' = tasks \cup {entry}
  BY DEF FlushConfirmedSlot
<1>4. Range(entry) \subseteq Updates
  BY <1>1, RangeOfSeq
<1>5. \A v \in Updates : Held(v)' <=> Held(v) /\ v \notin Range(entry)
  <2>1. ASSUME NEW v \in Updates, v.slot = slot
        PROVE  Held(v)' <=> Held(v) /\ v \notin Range(entry)
    BY <2>1, <1>2 DEF Held
  <2>2. ASSUME NEW v \in Updates, v.slot # slot
        PROVE  Held(v)' <=> Held(v) /\ v \notin Range(entry)
    BY <2>2, <1>1, <1>2, UpdatesAssumption DEF Held
  <2> QED
    BY <2>1, <2>2
<1>6. \A v \in Range(entry) : v \in Updates /\ Held(v)
  BY <1>1, <1>4 DEF Held
<1>7. HeldItems' = HeldItems \ Range(entry) /\ Range(entry) \subseteq HeldItems
  BY <1>5, <1>6 DEF HeldItems
<1>8. Counted'
  <2>1. /\ IsFiniteSet(Range(entry)) /\ Cardinality(Range(entry)) = Len(entry)
        /\ Len(entry) \in Nat
    BY <1>1, InjectiveRange
  <2>2. IsFiniteSet(HeldItems) /\ pendingItems = Cardinality(HeldItems)
    BY DEF IInv, Counted, EntriesAccounted, HeldItems
  <2>3. HeldItems \cap Range(entry) = Range(entry)
    BY <1>7
  <2>4. IsFiniteSet(HeldItems') /\ Cardinality(HeldItems') = pendingItems - Len(entry)
    <3>1. /\ IsFiniteSet(HeldItems \ Range(entry))
          /\ Cardinality(HeldItems \ Range(entry))
                = Cardinality(HeldItems) - Cardinality(HeldItems \cap Range(entry))
      BY <2>2, FS_Difference
    <3> QED
      BY <1>7, <2>1, <2>2, <2>3, <3>1
  <2>5. Cardinality(HeldItems') \in Nat
    BY <2>4, FS_CardinalityType
  <2>6. pendingItems' = Cardinality(HeldItems')
    BY <2>1, <2>4, <2>5 DEF FlushConfirmedSlot, FewerItems, IInv, TypeOK
  <2>7. timers' = {s \in Slots : HasEntry(s)'}
    <3>1. \A s \in Slots : HasEntry(s)' <=> HasEntry(s) /\ s # slot
      BY <1>2 DEF HasEntry
    <3> QED
      BY <3>1 DEF FlushConfirmedSlot, WithoutTimer, IInv, Counted, EntriesAccounted
  <2> QED
    BY <2>4, <2>6, <2>7 DEF Counted, EntriesAccounted, HeldItems
<1>9. TypeOK'
  <2>1. pending' \in [Slots -> Seq(Updates)]
    <3>1. <<>> \in Seq(Updates)
      OBVIOUS
    <3> QED
      BY <1>1, <3>1 DEF FlushConfirmedSlot, WithoutEntry
  <2>2. timers' \subseteq Slots
    BY DEF FlushConfirmedSlot, WithoutTimer, IInv, TypeOK
  <2>3. pendingItems' \in Nat
    BY <1>8, FS_CardinalityType DEF Counted, EntriesAccounted, HeldItems
  <2>4. tasks' \subseteq Seq(Updates)
    BY <1>1, <1>3 DEF IInv, TypeOK
  <2>5. blocks' \in UNION {[S -> BOOLEAN] : S \in SUBSET Slots} /\ Cardinality(DOMAIN blocks') <= MaxBlocks
    BY DEF BlocksFit
  <2> QED
    BY <2>1, <2>2, <2>3, <2>4, <2>5 DEF IInv, TypeOK
<1>10. EntriesFit'
  <2> SUFFICES ASSUME NEW other \in Slots
               PROVE  /\ IsInjective(pending'[other])
                      /\ \A v \in Range(pending'[other]) :
                            v.slot = other /\ v \in arrived /\ settled[v] = 0
    BY DEF EntriesFit
  <2>1. CASE other = slot
    BY <1>2, <2>1 DEF IsInjective
  <2>2. CASE other # slot
    BY <1>2, <2>2 DEF IInv, EntriesFit
  <2> QED
    BY <2>1, <2>2
<1>11. TasksFit'
  <2>1. ASSUME NEW task \in tasks
        PROVE  /\ task # <<>> /\ IsInjective(task)
               /\ \A v \in Range(task) : v \in arrived /\ settled[v] = 0 /\ ~Held(v)'
    <3>1. Range(task) \subseteq Updates
      BY RangeOfSeq DEF IInv, TypeOK
    <3> QED
      BY <1>5, <3>1 DEF IInv, TasksFit
  <2>2. \A v \in Range(entry) : v \in arrived /\ settled[v] = 0 /\ ~Held(v)'
    BY <1>1, <1>5, <1>6
  <2> QED
    BY <1>1, <1>3, <2>1, <2>2 DEF TasksFit
<1>12. TasksApart'
  <2>1. \A task \in tasks : \A v \in Range(task) : v \notin Range(entry)
    BY <1>6 DEF IInv, TasksFit
  <2> QED
    BY <1>3, <2>1 DEF IInv, TasksApart
<1>13. NoneLost'
  BY <1>3, <1>5 DEF IInv, NoneLost, Emitting
<1>14. StillBehind'
  <2> SUFFICES ASSUME NEW pair \in before
               PROVE  \/ settled[pair[1]] = 1
                      \/ Ahead(pending'[pair[1].slot], pair[1], pair[2])
                      \/ \E task \in tasks' : Ahead(task, pair[1], pair[2])
    BY DEF StillBehind
  <2>1. pair[1].slot \in Slots
    BY UpdatesAssumption DEF IInv, TypeOK
  <2>2. CASE Ahead(pending[pair[1].slot], pair[1], pair[2])
    BY <1>2, <1>3, <2>1, <2>2
  <2> QED
    BY <1>3, <2>2 DEF IInv, StillBehind
<1> QED
  BY <1>8, <1>9, <1>10, <1>11, <1>12, <1>13, <1>14 DEF IInv

LEMMA BlockUpdateBlocksFit ==
    ASSUME IInv, NEW slot \in Slots, NEW known \in BOOLEAN, BlockUpdate(slot, known)
    PROVE  BlocksFit'
<1> DEFINE set  == [s \in DOMAIN blocks \cup {slot} |-> IF s = slot THEN known ELSE blocks[s]]
           kept == DOMAIN set \ Evicted(DOMAIN set)
<1>1. /\ DOMAIN set \subseteq Slots /\ set \in [DOMAIN set -> BOOLEAN]
      /\ IsFiniteSet(DOMAIN set)
  <2>1. IsFiniteSet(DOMAIN blocks \cup {slot})
    BY FS_AddElement DEF IInv, BlocksFit
  <2> QED
    BY <2>1 DEF IInv, BlocksFit
<1>2. IsFiniteSet(kept) /\ Cardinality(kept) <= MaxBlocks
  BY <1>1, SlotsAssumption, EvictionBounds
<1>3. blocks' = [s \in kept |-> set[s]]
  BY DEF BlockUpdate
<1> HIDE DEF set
<1>4. DOMAIN blocks' = kept /\ kept \subseteq DOMAIN set
  BY <1>3
<1>5. blocks' \in [kept -> BOOLEAN]
  BY <1>1, <1>3
<1> QED
  BY <1>1, <1>2, <1>4, <1>5 DEF BlocksFit

LEMMA BlockUpdateIInv ==
    ASSUME IInv, NEW slot \in Slots, NEW known \in BOOLEAN, BlockUpdate(slot, known)
    PROVE  IInv'
<1>1. BlocksFit' /\ UNCHANGED <<arrived, settled, before>>
  BY BlockUpdateBlocksFit DEF BlockUpdate
<1>2. CASE FlushConfirmedSlot(slot)
  BY <1>1, <1>2, FlushIInv
<1>3. CASE UNCHANGED <<pending, timers, pendingItems, tasks>>
  <2>1. TypeOK'
    BY <1>1, <1>3 DEF IInv, TypeOK, BlocksFit
  <2>2. EntriesFit' /\ TasksFit' /\ TasksApart'
    BY <1>1, <1>3 DEF IInv, EntriesFit, TasksFit, TasksApart, Held
  <2>3. NoneLost' /\ StillBehind'
    BY <1>1, <1>3 DEF IInv, NoneLost, StillBehind, Held, Emitting
  <2>4. Counted'
    BY <1>1, <1>3 DEF IInv, Counted, EntriesAccounted, HeldItems, HasEntry, Held
  <2> QED
    BY <1>1, <2>1, <2>2, <2>3, <2>4 DEF IInv
<1> QED
  BY <1>2, <1>3 DEF BlockUpdate

LEMMA EmittedIInv ==
    ASSUME IInv, NEW task \in tasks, Emitted(task)
    PROVE  IInv'
<1> DEFINE u    == Head(task)
           rest == Tail(task)
<1>1. /\ task \in Seq(Updates) /\ task # <<>> /\ IsInjective(task)
      /\ \A v \in Range(task) : v \in arrived /\ settled[v] = 0 /\ ~Held(v)
  BY DEF IInv, TypeOK, TasksFit
<1>2. /\ u \in Updates /\ rest \in Seq(Updates) /\ IsInjective(rest)
      /\ Range(task) = {u} \cup Range(rest) /\ u \notin Range(rest)
  BY <1>1, TailRange
<1>3. /\ tasks' = (tasks \ {task}) \cup ({rest} \ {<<>>})
      /\ settled' = [settled EXCEPT ![u] = @ + 1]
      /\ UNCHANGED <<blocks, pending, timers, pendingItems, arrived, before>>
  BY DEF Emitted, NextItem, ItemsAfter
<1> HIDE DEF u, rest
<1>4. settled'[u] = 1 /\ \A v \in Updates : v # u => settled'[v] = settled[v]
  BY <1>1, <1>2, <1>3 DEF IInv, TypeOK
<1>5. \A other \in tasks \ {task} : Range(other) \subseteq Updates
  BY RangeOfSeq DEF IInv, TypeOK
<1>6. \A other \in tasks \ {task} : \A v \in Range(other) : v \notin Range(task)
  BY DEF IInv, TasksApart
<1>7. \A v \in Updates : Held(v)' <=> Held(v)
  BY <1>3 DEF Held
<1>8. TypeOK' /\ BlocksFit'
  BY <1>2, <1>3 DEF IInv, TypeOK, BlocksFit
<1>9. EntriesFit'
  <2> SUFFICES ASSUME NEW slot \in Slots, NEW v \in Range(pending[slot])
               PROVE  v.slot = slot /\ v \in arrived /\ settled'[v] = 0
    BY <1>3 DEF EntriesFit, IInv
  <2>1. v \in Updates
    BY RangeOfSeq DEF IInv, TypeOK
  <2>2. v.slot = slot /\ v \in arrived /\ settled[v] = 0
    BY DEF IInv, EntriesFit
  <2>3. Held(v)
    BY <2>2 DEF Held
  <2>4. v # u
    BY <1>1, <1>2, <2>3
  <2> QED
    BY <1>4, <2>1, <2>2, <2>4
<1>10. TasksFit'
  <2>1. ASSUME NEW other \in tasks \ {task}
        PROVE  /\ other # <<>> /\ IsInjective(other)
               /\ \A v \in Range(other) : v \in arrived /\ settled'[v] = 0 /\ ~Held(v)'
    BY <1>2, <1>4, <1>5, <1>6, <1>7 DEF IInv, TasksFit
  <2>2. \A v \in Range(rest) : v \in arrived /\ settled'[v] = 0 /\ ~Held(v)'
    <3>1. Range(task) \subseteq Updates
      BY <1>1, RangeOfSeq
    <3> QED
      BY <1>1, <1>2, <1>4, <1>7, <3>1
  <2> QED
    BY <1>2, <1>3, <2>1, <2>2 DEF TasksFit
<1>11. TasksApart'
  BY <1>2, <1>3, <1>6 DEF IInv, TasksApart
<1>12. NoneLost'
  <2> SUFFICES ASSUME NEW v \in Updates
               PROVE  IF v \in arrived THEN Held(v)' \/ Emitting(v)' \/ settled'[v] = 1
                                       ELSE settled'[v] = 0
    BY <1>3 DEF NoneLost
  <2>1. CASE v = u
    BY <1>1, <1>2, <1>4, <2>1
  <2>2. CASE v # u /\ v \in Range(task)
    <3>1. v \in Range(rest)
      BY <1>2, <2>2
    <3>2. rest # <<>>
      BY <3>1 DEF Range
    <3> QED
      BY <1>1, <1>3, <2>2, <3>1, <3>2 DEF Emitting
  <2>3. CASE v # u /\ v \notin Range(task)
    <3>1. Emitting(v) => Emitting(v)'
      BY <1>3, <2>3 DEF Emitting
    <3> QED
      BY <1>4, <1>7, <2>3, <3>1 DEF IInv, NoneLost
  <2> QED
    BY <2>1, <2>2, <2>3
<1>13. Counted'
  BY <1>3, <1>7 DEF IInv, Counted, EntriesAccounted, HeldItems, HasEntry, Held
<1>14. StillBehind'
  <2> SUFFICES ASSUME NEW pair \in before
               PROVE  \/ settled'[pair[1]] = 1
                      \/ Ahead(pending[pair[1].slot], pair[1], pair[2])
                      \/ \E other \in tasks' : Ahead(other, pair[1], pair[2])
    BY <1>3 DEF StillBehind
  <2>1. pair[1] \in Updates
    BY DEF IInv, TypeOK
  <2>2. CASE pair[1] = u
    BY <1>4, <2>2
  <2>3. CASE pair[1] # u
    <3>1. CASE settled[pair[1]] = 1
      BY <1>4, <2>1, <2>3, <3>1
    <3>2. CASE Ahead(task, pair[1], pair[2])
      <4>1. Ahead(rest, pair[1], pair[2])
        BY <1>1, <2>3, <3>2, AheadKept DEF u, rest
      <4>2. rest # <<>>
        BY <4>1 DEF Ahead
      <4> QED
        BY <1>3, <4>1, <4>2
    <3>3. ASSUME NEW other \in tasks \ {task}, Ahead(other, pair[1], pair[2])
          PROVE  \E t \in tasks' : Ahead(t, pair[1], pair[2])
      BY <1>3, <3>3
    <3> QED
      BY <3>1, <3>2, <3>3 DEF IInv, StillBehind
  <2> QED
    BY <2>2, <2>3
<1> QED
  BY <1>8, <1>9, <1>10, <1>11, <1>12, <1>13, <1>14 DEF IInv

LEMMA NextIInv == IInv /\ [Next]_vars => IInv'
<1> SUFFICES ASSUME IInv, [Next]_vars PROVE IInv'
  OBVIOUS
<1>1. ASSUME NEW u \in Updates, Data(u) PROVE IInv'
  BY <1>1, HoldIInv, EmitNowIInv DEF Data
<1>2. ASSUME NEW slot \in Slots, TimerFires(slot) PROVE IInv'
  <2>1. BlocksFit'
    BY <1>2 DEF TimerFires, IInv, BlocksFit
  <2> QED
    BY <1>2, <2>1, FlushIInv DEF TimerFires
<1>3. ASSUME NEW slot \in Slots, NEW known \in BOOLEAN, BlockUpdate(slot, known) PROVE IInv'
  BY <1>3, BlockUpdateIInv
<1>4. ASSUME NEW task \in tasks, Emitted(task) PROVE IInv'
  BY <1>4, EmittedIInv
<1>5. CASE UNCHANGED vars
  <2>1. TypeOK' /\ BlocksFit'
    BY <1>5 DEF vars, IInv, TypeOK, BlocksFit
  <2>2. EntriesFit' /\ TasksFit' /\ TasksApart'
    BY <1>5 DEF vars, IInv, EntriesFit, TasksFit, TasksApart, Held
  <2>3. NoneLost' /\ StillBehind'
    BY <1>5 DEF vars, IInv, NoneLost, StillBehind, Held, Emitting
  <2>4. Counted'
    BY <1>5 DEF vars, IInv, Counted, EntriesAccounted, HeldItems, HasEntry, Held
  <2> QED
    BY <2>1, <2>2, <2>3, <2>4 DEF IInv
<1> QED
  BY <1>1, <1>2, <1>3, <1>4, <1>5 DEF Next

LEMMA AlwaysIInv == Spec => []IInv
BY InitIInv, NextIInv, PTL DEF Spec

-----------------------------------------------------------------------------
(* Theorems.                                                               *)

\* What the variables range over; in particular the cache of block times
\* never holds more than blockCacheSize slots.
THEOREM BufferTypeCorrect == Spec => []TypeOK
<1>1. IInv => TypeOK
  BY DEF IInv
<1> QED
  BY <1>1, AlwaysIInv, PTL

\* Every message that came in is in exactly one place, and is concluded at most
\* once, for any number of messages, slots and concurrent flushes.
THEOREM AlwaysConserved == Spec => []Conserved
<1>1. IInv => Conserved
  <2> SUFFICES ASSUME IInv, NEW u \in Updates
               PROVE  LET places == Cardinality(Carriers(u)) + settled[u] IN
                      IF u \notin arrived THEN ~Held(u) /\ places = 0
                      ELSE IF Held(u) THEN places = 0 ELSE places = 1
    BY DEF Conserved
  <2>1. Held(u) => u \in arrived /\ settled[u] = 0 /\ ~Emitting(u)
    BY UpdatesAssumption DEF IInv, EntriesFit, TasksFit, Held, Emitting
  <2>2. Emitting(u) => u \in arrived /\ settled[u] = 0
    BY DEF IInv, TasksFit, Emitting
  <2>3. CASE Emitting(u)
    <3>1. PICK task \in tasks : u \in Range(task)
      BY <2>3 DEF Emitting
    <3>2. Carriers(u) = {task}
      BY <3>1 DEF Carriers, IInv, TasksApart
    <3>3. Cardinality(Carriers(u)) = 1
      BY <3>2, FS_Singleton
    <3> QED
      BY <2>1, <2>2, <2>3, <3>3
  <2>4. CASE ~Emitting(u)
    <3>1. Carriers(u) = {}
      BY <2>4 DEF Carriers, Emitting
    <3>2. Cardinality(Carriers(u)) = 0
      BY <3>1, FS_EmptySet
    <3>3. IF u \in arrived THEN Held(u) \/ settled[u] = 1 ELSE settled[u] = 0
      BY <2>4 DEF IInv, NoneLost
    <3> QED
      BY <2>1, <3>2, <3>3
  <2> QED
    BY <2>3, <2>4
<1> QED
  BY <1>1, AlwaysIInv, PTL

\* The timers and pendingConfirmedItems fit the entries through every race of
\* a timer with a block update, for any number of messages and slots.
THEOREM AlwaysAccounted == Spec => []EntriesAccounted
<1>1. IInv => EntriesAccounted
  BY DEF IInv, Counted
<1> QED
  BY <1>1, AlwaysIInv, PTL

\* The transactions of one slot that were held back together go out in the
\* order they came in.
THEOREM AlwaysInEntryOrder == Spec => []EntryOrder
<1>1. IInv => EntryOrder
  <2> SUFFICES ASSUME IInv, NEW pair \in before, settled[pair[2]] > 0
               PROVE  settled[pair[1]] > 0
    BY DEF EntryOrder
  <2>1. pair[1] \in Updates /\ pair[1].slot \in Slots
    BY UpdatesAssumption DEF IInv, TypeOK
  <2>2. ~Ahead(pending[pair[1].slot], pair[1], pair[2])
    BY <2>1, AheadKept DEF IInv, TypeOK, EntriesFit
  <2>3. \A task \in tasks : ~Ahead(task, pair[1], pair[2])
    BY AheadKept DEF IInv, TypeOK, TasksFit
  <2> QED
    BY <2>2, <2>3 DEF IInv, StillBehind
<1> QED
  BY <1>1, AlwaysIInv, PTL

-----------------------------------------------------------------------------
(* The buffer implements the outbox.                                       *)

\* A message that is held back waits behind the items of its entry, which are
\* messages of its slot.
LEMMA DataArrives ==
    ASSUME IInv, NEW u \in Updates, Data(u)
    PROVE  \E ahead \in SUBSET Updates : Promised!ArriveBehind(u, ahead)
<1>1. /\ u \notin arrived /\ arrived' = arrived \cup {u} /\ UNCHANGED settled
      /\ Hold(u) \/ EmitNow(u)
  BY DEF Data
<1>2. CASE Hold(u)
  <2> DEFINE ahead == Range(pending[u.slot])
  <2>1. u.slot \in Slots
    BY UpdatesAssumption
  <2>2. ahead \subseteq Updates
    BY <2>1, RangeOfSeq DEF IInv, TypeOK
  <2>3. \A v \in ahead : v \in arrived /\ settled[v] = 0 /\ v.slot = u.slot
    BY <2>1 DEF IInv, EntriesFit
  <2>4. before' = before \cup (ahead \X {u})
    BY <1>2 DEF Hold
  <2> HIDE DEF ahead
  <2>5. Promised!ArriveBehind(u, ahead)
    BY <1>1, <2>3, <2>4 DEF Promised!ArriveBehind, Promised!Waiting
  <2> QED
    BY <2>2, <2>5
<1>3. CASE EmitNow(u)
  <2>1. before' = before \cup ({} \X {u})
    BY <1>3 DEF EmitNow
  <2>2. Promised!ArriveBehind(u, {})
    BY <1>1, <2>1 DEF Promised!ArriveBehind
  <2> QED
    BY <2>2
<1> QED
  BY <1>1, <1>2, <1>3

\* The first item of a flush is neither settled nor behind anything that is not:
\* what it waited for was in front of it in the same entry.
LEMMA EmittedSettles ==
    ASSUME IInv, NEW task \in tasks, Emitted(task)
    PROVE  \E u \in Updates : Promised!Settle(u)
<1> DEFINE u == Head(task)
<1>1. /\ task \in Seq(Updates) /\ task # <<>> /\ IsInjective(task)
      /\ \A v \in Range(task) : v \in arrived /\ settled[v] = 0 /\ ~Held(v)
  BY DEF IInv, TypeOK, TasksFit
<1>2. u \in Updates /\ u \in Range(task) /\ 1 \in DOMAIN task /\ task[1] = u
  <2>1. u \in Updates /\ Range(task) = {u} \cup Range(Tail(task))
    BY <1>1, TailRange
  <2>2. 1 \in DOMAIN task /\ task[1] = u
    BY <1>1
  <2> QED
    BY <2>1, <2>2
<1>3. settled' = [settled EXCEPT ![u] = @ + 1] /\ UNCHANGED <<arrived, before>>
  BY DEF Emitted, NextItem
<1> HIDE DEF u
<1>4. u \in arrived /\ settled[u] = 0 /\ ~Held(u)
  BY <1>1, <1>2
<1>5. settled' = [settled EXCEPT ![u] = 1]
  BY <1>3, <1>4
<1>6. ASSUME NEW pair \in before, pair[2] = u PROVE settled[pair[1]] = 1
  <2>1. pair[1].slot \in Slots
    BY UpdatesAssumption DEF IInv, TypeOK
  <2>2. ~Ahead(pending[pair[1].slot], pair[1], u)
    <3> SUFFICES ASSUME Ahead(pending[pair[1].slot], pair[1], u) PROVE FALSE
      OBVIOUS
    <3>1. u \in Range(pending[pair[1].slot])
      BY DEF Ahead, Range
    <3>2. u.slot = pair[1].slot
      BY <2>1, <3>1 DEF IInv, EntriesFit
    <3> QED
      BY <1>4, <3>1, <3>2 DEF Held
  <2>3. ASSUME NEW other \in tasks, Ahead(other, pair[1], u) PROVE FALSE
    <3>1. u \in Range(other)
      BY <2>3 DEF Ahead, Range
    <3>2. other = task
      BY <1>2, <3>1 DEF IInv, TasksApart
    <3>3. PICK i, j \in DOMAIN task : i < j /\ task[j] = u
      BY <2>3, <3>2 DEF Ahead
    <3>4. j = 1
      BY <1>1, <1>2, <3>3 DEF IsInjective
    <3>5. i \in 1 .. Len(task)
      BY <1>1
    <3> QED
      BY <3>3, <3>4, <3>5
  <2> QED
    BY <1>6, <2>2, <2>3 DEF IInv, StillBehind
<1>7. Promised!Settle(u)
  BY <1>3, <1>4, <1>5, <1>6 DEF Promised!Settle, Promised!Waiting
<1> QED
  BY <1>2, <1>7

\* The buffer implements the outbox: each step concludes a message, lets one
\* come in, or does not show.
THEOREM BufferImplementsOutbox == Spec => OutboxRefined
<1>1. Init => Promised!Init
  BY DEF Init, Promised!Init
<1>2. IInv /\ [Next]_vars => [Promised!Next]_(Promised!vars)
  <2> SUFFICES ASSUME IInv, [Next]_vars PROVE [Promised!Next]_(Promised!vars)
    OBVIOUS
  <2>1. ASSUME NEW u \in Updates, Data(u) PROVE Promised!Next
    BY <2>1, DataArrives DEF Promised!Next
  <2>2. ASSUME NEW task \in tasks, Emitted(task) PROVE Promised!Next
    BY <2>2, EmittedSettles DEF Promised!Next
  <2>3. ASSUME NEW slot \in Slots,
               TimerFires(slot) \/ \E known \in BOOLEAN : BlockUpdate(slot, known)
        PROVE  UNCHANGED Promised!vars
    BY <2>3 DEF TimerFires, BlockUpdate, Promised!vars
  <2>4. CASE UNCHANGED vars
    BY <2>4 DEF vars, Promised!vars
  <2> QED
    BY <2>1, <2>2, <2>3, <2>4 DEF Next
<1> QED
  BY <1>1, <1>2, AlwaysIInv, PTL DEF Spec, OutboxRefined, Promised!Spec
=============================================================================
