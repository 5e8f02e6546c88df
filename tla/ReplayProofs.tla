---------------------------- MODULE ReplayProofs ----------------------------
(***************************************************************************)
(* Proofs about Replay, for any clients, retention and capacity.  That a   *)
(* session gets every event once and in order needs that what it has by    *)
(* broadcast is not younger than its close and that the backlog is sorted; *)
(* that a resume is exact needs that the backlog is at any time a run of   *)
(* the newest events without a gap, and that its trims and clears never    *)
(* reach an event that somebody who may resume still misses.               *)
(***************************************************************************)
EXTENDS Replay, SequenceTheorems, FiniteSetTheorems, TLAPS

\* The queue q holds the newest events of em, in order and without a gap.
QueueFits(q, em) ==
    \A i \in DOMAIN q :
        /\ q[i].id \in DOMAIN em /\ q[i].ts = em[q[i].id]
        /\ q[i].id + (Len(q) - i) = Len(em)
        /\ \A j \in DOMAIN q : i < j => q[i].id < q[j].id

\* The queue q holds what is younger than since, up to its capacity.
QueueComplete(q, em, since) ==
    \A e \in DOMAIN em :
        em[e] > since /\ Len(em) - e < MaxEvents => \E i \in DOMAIN q : q[i].id = e

ClockFits ==
    /\ \A i \in DOMAIN emitted : emitted[i] <= now
    /\ \A i, j \in DOMAIN emitted : i <= j => emitted[i] <= emitted[j]

ReceivedFits ==
    \A c \in Clients : \A i \in DOMAIN received[c] :
        /\ received[c][i] \in DOMAIN emitted
        /\ status[c] = "away" => emitted[received[c][i]] <= disconnectedAt[c]

AwayFits == \A c \in Clients : status[c] = "away" => disconnectedAt[c] <= now /\ Retention > 0

\* Where maybeBufferEvent keeps nothing, nothing was ever kept.
NothingKept == Retention = 0 \/ MaxEvents = 0 => backlog = <<>>

NothingMissing ==
    \A c \in Clients : AwayRetained(c) => QueueComplete(backlog, emitted, disconnectedAt[c])

IInv ==
    /\ TypeOK /\ ClockFits /\ QueueFits(backlog, emitted)
    /\ ReceivedFits /\ AwayFits /\ NothingKept /\ NothingMissing /\ InOrderOnce

-----------------------------------------------------------------------------
(* The loop of replayBacklog.  Induction over the number of items looked   *)
(* at, by the least number for which the claim fails.                      *)

LEMMA SetInduction ==
    ASSUME NEW G, 0 \in G, \A n \in Nat : n \in G => n + 1 \in G
    PROVE  Nat \subseteq G
<1> DEFINE T == Nat \ G
           R == {r \in Nat \X Nat : r[1] < r[2]}
<1>1. SUFFICES ASSUME T # {} PROVE FALSE
  OBVIOUS
<1>2. R = OpToRel(<, Nat)
  BY DEF OpToRel
<1>3. IsWellFoundedOn(R, Nat) /\ T \subseteq Nat
  BY <1>2, NatLessThanWellFounded
<1>4. \A m, n \in Nat : n < m => <<n, m>> \in R
  OBVIOUS
<1> HIDE DEF R
<1>5. PICK m \in T : \A n \in T : ~(<<n, m>> \in R)
  BY <1>1, <1>3, WFMin
<1>6. m \in Nat \ {0} /\ m - 1 \in Nat /\ m - 1 < m /\ (m - 1) + 1 = m
  OBVIOUS
<1>7. m - 1 \in G
  BY <1>4, <1>5, <1>6
<1> QED
  BY <1>6, <1>7

\* One round of the loop.
Round(queue, since, sent, i) ==
    IF After(queue[i], since) THEN Append(sent[i - 1], queue[i].id) ELSE sent[i - 1]

IsLoop(queue, since, sent, n) ==
    sent[0] = <<>> /\ \A i \in 1 .. n : sent[i] = Round(queue, since, sent, i)

LEMMA LoopExists ==
    ASSUME NEW queue \in Seq(Events), NEW since, NEW n \in 0 .. Len(queue)
    PROVE  \E sent \in [0 .. n -> Seq(1 .. MaxEmitted)] : IsLoop(queue, since, sent, n)
<1> DEFINE Ids  == Seq(1 .. MaxEmitted)
           G == {k \in Nat : k <= Len(queue) =>
                    \E sent \in [0 .. k -> Ids] : IsLoop(queue, since, sent, k)}
<1>1. 0 \in G
  <2> DEFINE first == [i \in 0 .. 0 |-> <<>>]
  <2>1. first \in [0 .. 0 -> Ids] /\ first[0] = <<>>
    OBVIOUS
  <2>2. IsLoop(queue, since, first, 0)
    BY <2>1 DEF IsLoop
  <2> HIDE DEF first
  <2>3. \E sent \in [0 .. 0 -> Ids] : IsLoop(queue, since, sent, 0)
    BY <2>1, <2>2
  <2> HIDE DEF Ids
  <2> QED
    BY <2>3
<1>2. ASSUME NEW k \in Nat, k \in G PROVE k + 1 \in G
  <2> SUFFICES ASSUME k + 1 <= Len(queue)
               PROVE  \E sent \in [0 .. k + 1 -> Ids] : IsLoop(queue, since, sent, k + 1)
    OBVIOUS
  <2>1. PICK sent \in [0 .. k -> Ids] : IsLoop(queue, since, sent, k)
    BY <1>2
  <2> DEFINE last == IF After(queue[k + 1], since)
                     THEN Append(sent[k], queue[k + 1].id) ELSE sent[k]
             more == [i \in 0 .. k + 1 |-> IF i = k + 1 THEN last ELSE sent[i]]
  <2>2. last \in Ids
    <3>1. sent[k] \in Ids /\ queue[k + 1] \in Events
      OBVIOUS
    <3>2. queue[k + 1].id \in 1 .. MaxEmitted
      BY <3>1 DEF Events
    <3>3. Append(sent[k], queue[k + 1].id) \in Ids
      BY <3>1, <3>2, AppendProperties
    <3> HIDE DEF Ids
    <3> QED
      BY <3>1, <3>3
  <2> HIDE DEF Ids
  <2>3. more \in [0 .. k + 1 -> Ids]
    BY <2>2
  <2>4. \A i \in 0 .. k : more[i] = sent[i]
    OBVIOUS
  <2>5. more[k + 1] = Round(queue, since, more, k + 1)
    BY <2>4 DEF Round
  <2>6. \A i \in 1 .. k : more[i] = Round(queue, since, more, i)
    <3> SUFFICES ASSUME NEW i \in 1 .. k
                 PROVE  more[i] = Round(queue, since, more, i)
      OBVIOUS
    <3>1. i \in 0 .. k /\ i - 1 \in 0 .. k
      OBVIOUS
    <3>2. more[i] = sent[i] /\ more[i - 1] = sent[i - 1]
      BY <2>4, <3>1
    <3> QED
      BY <2>1, <3>2 DEF IsLoop, Round
  <2>7. more[0] = <<>>
    BY <2>1, <2>4 DEF IsLoop
  <2> HIDE DEF more
  <2>8. \A i \in 1 .. k + 1 : i \in 1 .. k \/ i = k + 1
    OBVIOUS
  <2>9. IsLoop(queue, since, more, k + 1)
    BY <2>5, <2>6, <2>7, <2>8 DEF IsLoop
  <2> QED
    BY <2>3, <2>9
<1> HIDE DEF G
<1>3. Nat \subseteq G
  BY <1>1, <1>2, SetInduction
<1>4. n \in G /\ n <= Len(queue)
  BY <1>3
<1> QED
  BY <1>4 DEF G

LEMMA SentAfterIsLoop ==
    ASSUME NEW queue \in Seq(Events), NEW since
    PROVE  /\ SentAfter(queue, since) \in [0 .. Len(queue) -> Seq(1 .. MaxEmitted)]
           /\ IsLoop(queue, since, SentAfter(queue, since), Len(queue))
<1>0. Len(queue) \in Nat /\ Len(queue) \in 0 .. Len(queue)
  OBVIOUS
<1>1. PICK sent \in [0 .. Len(queue) -> Seq(1 .. MaxEmitted)] :
              IsLoop(queue, since, sent, Len(queue))
  BY <1>0, LoopExists
<1> DEFINE Unfold(f) == [i \in 0 .. Len(queue) |->
                           IF i = 0 THEN <<>>
                           ELSE IF After(queue[i], since) THEN Append(f[i - 1], queue[i].id)
                           ELSE f[i - 1]]
           loop == SentAfter(queue, since)
<1>2. sent = Unfold(sent)
  <2>1. ASSUME NEW i \in 0 .. Len(queue) PROVE sent[i] = Unfold(sent)[i]
    <3>1. CASE i = 0
      BY <1>1, <3>1 DEF IsLoop
    <3>2. CASE i \in 1 .. Len(queue)
      BY <1>1, <3>2 DEF IsLoop, Round
    <3> QED
      BY <1>0, <3>1, <3>2
  <2>2. DOMAIN Unfold(sent) = 0 .. Len(queue) /\ Unfold(sent) = [i \in 0 .. Len(queue) |-> Unfold(sent)[i]]
    OBVIOUS
  <2> HIDE DEF Unfold
  <2> QED
    BY <2>1, <2>2
<1>3. loop = CHOOSE f : f = Unfold(f)
  BY DEF SentAfter
<1>4. loop = Unfold(loop)
  BY <1>2, <1>3
<1>5. loop[0] = <<>> /\ \A i \in 1 .. Len(queue) : loop[i] = Round(queue, since, loop, i)
  <2>1. ASSUME NEW i \in 1 .. Len(queue) PROVE Unfold(loop)[i] = Round(queue, since, loop, i)
    BY <1>0 DEF Round
  <2>2. Unfold(loop)[0] = <<>>
    BY <1>0
  <2> HIDE DEF Unfold, loop
  <2> QED
    BY <1>4, <2>1, <2>2
<1>6. DOMAIN loop = 0 .. Len(queue) /\ loop = [i \in 0 .. Len(queue) |-> loop[i]]
  <2>1. DOMAIN Unfold(loop) = 0 .. Len(queue) /\ Unfold(loop) = [i \in 0 .. Len(queue) |-> Unfold(loop)[i]]
    OBVIOUS
  <2> HIDE DEF Unfold, loop
  <2> QED
    BY <1>4, <2>1
<1> HIDE DEF loop, Unfold
<1> DEFINE G == {i \in Nat : i <= Len(queue) => loop[i] = sent[i]}
<1>7. 0 \in G
  BY <1>1, <1>5 DEF IsLoop
<1>8. ASSUME NEW i \in Nat, i \in G PROVE i + 1 \in G
  <2> SUFFICES ASSUME i + 1 <= Len(queue) PROVE loop[i + 1] = sent[i + 1]
    OBVIOUS
  <2>1. loop[i] = sent[i] /\ i + 1 \in 1 .. Len(queue) /\ (i + 1) - 1 = i
    BY <1>0, <1>8
  <2> QED
    BY <1>1, <1>5, <2>1 DEF IsLoop, Round
<1> HIDE DEF G
<1>9. Nat \subseteq G
  BY <1>7, <1>8, SetInduction
<1>10. \A i \in 0 .. Len(queue) : loop[i] = sent[i]
  BY <1>0, <1>9 DEF G
<1>11. loop = sent
  BY <1>6, <1>10
<1> QED
  BY <1>1, <1>11 DEF loop

\* What the loop has sent after i items of a queue with increasing ids: the ids
\* of those that are younger than since, all of them, in order.
Selection(queue, since, ids, i) ==
    /\ \A k \in DOMAIN ids : \E j \in 1 .. i : After(queue[j], since) /\ ids[k] = queue[j].id
    /\ \A j \in 1 .. i : After(queue[j], since) => \E k \in DOMAIN ids : ids[k] = queue[j].id
    /\ \A k, l \in DOMAIN ids : k < l => ids[k] < ids[l]

Sorted(queue) == \A i, j \in DOMAIN queue : i < j => queue[i].id < queue[j].id

LEMMA RoundSelects ==
    ASSUME NEW queue \in Seq(Events), Sorted(queue), NEW since,
           NEW ids \in Seq(1 .. MaxEmitted), NEW i \in Nat, i + 1 <= Len(queue),
           Selection(queue, since, ids, i), After(queue[i + 1], since)
    PROVE  Selection(queue, since, Append(ids, queue[i + 1].id), i + 1)
<1> DEFINE x    == queue[i + 1].id
           more == Append(ids, x)
<1>1. i + 1 \in DOMAIN queue /\ x \in 1 .. MaxEmitted
  <2>1. i + 1 \in DOMAIN queue /\ queue[i + 1] \in Events
    OBVIOUS
  <2> QED
    BY <2>1 DEF Events
<1>2. /\ Len(ids) \in Nat /\ DOMAIN ids = 1 .. Len(ids)
      /\ DOMAIN more = 1 .. Len(ids) + 1
      /\ \A k \in 1 .. Len(ids) : more[k] = ids[k]
      /\ more[Len(ids) + 1] = x
  BY <1>1, AppendProperties
<1> HIDE DEF more
<1>3. \A k \in DOMAIN more : k \in DOMAIN ids \/ k = Len(ids) + 1
  BY <1>2
<1>4. \A j \in 1 .. i + 1 : j \in 1 .. i \/ j = i + 1
  OBVIOUS
<1>5. 1 .. i \subseteq 1 .. i + 1 /\ i + 1 \in 1 .. i + 1
  OBVIOUS
<1>6. ASSUME NEW k \in DOMAIN more
      PROVE  \E j \in 1 .. i + 1 : After(queue[j], since) /\ more[k] = queue[j].id
  <2>1. CASE k \in DOMAIN ids
    BY <1>2, <1>5, <2>1 DEF Selection
  <2>2. CASE k = Len(ids) + 1
    BY <1>2, <1>5, <2>2
  <2> QED
    BY <1>3, <2>1, <2>2
<1>7. ASSUME NEW j \in 1 .. i + 1, After(queue[j], since)
      PROVE  \E k \in DOMAIN more : more[k] = queue[j].id
  <2>1. CASE j \in 1 .. i
    <3>1. PICK k \in DOMAIN ids : ids[k] = queue[j].id
      BY <1>7, <2>1 DEF Selection
    <3> QED
      BY <1>2, <3>1
  <2>2. CASE j = i + 1
    <3>1. Len(ids) + 1 \in DOMAIN more
      BY <1>2
    <3> QED
      BY <1>2, <2>2, <3>1
  <2> QED
    BY <1>4, <2>1, <2>2
<1>8. ASSUME NEW k \in DOMAIN more, NEW l \in DOMAIN more, k < l
      PROVE  more[k] < more[l]
  <2>1. k \in DOMAIN ids
    BY <1>2, <1>8
  <2>2. CASE l \in DOMAIN ids
    BY <1>2, <1>8, <2>1, <2>2 DEF Selection
  <2>3. CASE l = Len(ids) + 1
    <3>1. PICK j \in 1 .. i : ids[k] = queue[j].id
      BY <2>1 DEF Selection
    <3>2. j \in DOMAIN queue /\ j < i + 1
      OBVIOUS
    <3>3. queue[j].id < x
      BY <1>1, <3>2 DEF Sorted
    <3> QED
      BY <1>2, <2>1, <2>3, <3>1, <3>3
  <2> QED
    BY <1>3, <2>2, <2>3
<1> QED
  BY <1>6, <1>7, <1>8 DEF Selection, more

\* replayBacklog sends what is younger than since, in order.
LEMMA ReplaySelects ==
    ASSUME NEW queue \in Seq(Events), Sorted(queue), NEW since
    PROVE  /\ SentAfter(queue, since)[Len(queue)] \in Seq(1 .. MaxEmitted)
           /\ Selection(queue, since, SentAfter(queue, since)[Len(queue)], Len(queue))
<1> DEFINE sent == SentAfter(queue, since)
<1>1. /\ sent \in [0 .. Len(queue) -> Seq(1 .. MaxEmitted)]
      /\ IsLoop(queue, since, sent, Len(queue))
  BY SentAfterIsLoop
<1>2. Len(queue) \in Nat /\ Len(queue) \in 0 .. Len(queue)
  OBVIOUS
<1> HIDE DEF sent
<1> DEFINE G == {i \in Nat : i <= Len(queue) => Selection(queue, since, sent[i], i)}
<1>3. 0 \in G
  <2>1. sent[0] = <<>> /\ DOMAIN sent[0] = {} /\ 1 .. 0 = {}
    BY <1>1 DEF IsLoop
  <2> QED
    BY <2>1 DEF Selection
<1>4. ASSUME NEW i \in Nat, i \in G PROVE i + 1 \in G
  <2> SUFFICES ASSUME i + 1 <= Len(queue)
               PROVE  Selection(queue, since, sent[i + 1], i + 1)
    OBVIOUS
  <2>1. i + 1 \in 1 .. Len(queue) /\ (i + 1) - 1 = i /\ i \in 0 .. Len(queue)
    BY <1>2
  <2>2. sent[i + 1] = Round(queue, since, sent, i + 1) /\ sent[i] \in Seq(1 .. MaxEmitted)
    BY <1>1, <2>1 DEF IsLoop
  <2>3. Selection(queue, since, sent[i], i)
    BY <1>4, <2>1
  <2>4. CASE After(queue[i + 1], since)
    BY <2>1, <2>2, <2>3, <2>4, RoundSelects DEF Round
  <2>5. CASE ~After(queue[i + 1], since)
    <3>1. sent[i + 1] = sent[i]
      BY <2>1, <2>2, <2>5 DEF Round
    <3>2. 1 .. i \subseteq 1 .. i + 1 /\ \A j \in 1 .. i + 1 : j \in 1 .. i \/ j = i + 1
      OBVIOUS
    <3> QED
      BY <2>3, <2>5, <3>1, <3>2 DEF Selection
  <2> QED
    BY <2>4, <2>5
<1> HIDE DEF G
<1>5. Nat \subseteq G
  BY <1>3, <1>4, SetInduction
<1>6. Selection(queue, since, sent[Len(queue)], Len(queue))
  BY <1>2, <1>5 DEF G
<1> QED
  BY <1>1, <1>2, <1>6 DEF sent

-----------------------------------------------------------------------------
(* Pushes and trims of the backlog.                                        *)

\* r is q without its first k items, which are older than cutoff.
WithoutFirst(q, cutoff, r, k) ==
    /\ Len(r) = Len(q) - k /\ DOMAIN r = 1 .. Len(q) - k
    /\ \A i \in 1 .. Len(r) : r[i] = q[k + i]
    /\ \A i \in 1 .. k : q[i].ts < cutoff

LEMMA TrimFacts ==
    ASSUME NEW q \in Seq(Events), NEW cutoff, NEW r, Backlog!Trimmed(q, cutoff, r)
    PROVE  /\ r \in Seq(Events) /\ Len(r) <= Len(q)
           /\ \E k \in 0 .. Len(q) : WithoutFirst(q, cutoff, r, k)
<1>1. PICK k \in 0 .. Len(q) :
              (\A i \in 1 .. k : q[i].ts < cutoff) /\ r = SubSeq(q, k + 1, Len(q))
  BY DEF Backlog!Trimmed
<1>2. Len(q) \in Nat /\ \A i \in k + 1 .. Len(q) : q[i] \in Events
  OBVIOUS
<1>3. /\ r \in Seq(Events)
      /\ Len(r) = IF k + 1 <= Len(q) THEN Len(q) - (k + 1) + 1 ELSE 0
      /\ \A i \in 1 .. Len(q) - (k + 1) + 1 : r[i] = q[(k + 1) + i - 1]
  BY <1>1, <1>2, SubSeqProperties
<1>4. Len(r) = Len(q) - k /\ DOMAIN r = 1 .. Len(q) - k
  BY <1>2, <1>3
<1>5. \A i \in 1 .. Len(r) : r[i] = q[k + i]
  BY <1>2, <1>3, <1>4
<1>6. WithoutFirst(q, cutoff, r, k)
  BY <1>1, <1>4, <1>5 DEF WithoutFirst
<1>7. Len(r) <= Len(q)
  BY <1>2, <1>4
<1> QED
  BY <1>3, <1>6, <1>7

LEMMA PushFacts ==
    ASSUME NEW q \in Seq(Events), Len(q) <= MaxEvents, MaxEvents # 0, NEW x \in Events
    PROVE  LET p == Backlog!Pushed(q, x) IN
           /\ p \in Seq(Events) /\ Len(p) <= MaxEvents
           /\ \E d \in 0 .. 1 :
                 /\ Len(p) = Len(q) + 1 - d /\ DOMAIN p = 1 .. Len(q) + 1 - d
                 /\ \A i \in 1 .. Len(q) - d : p[i] = q[i + d]
                 /\ p[Len(p)] = x
                 /\ d = 1 => Len(q) = MaxEvents
<1> DEFINE p == Backlog!Pushed(q, x)
<1>1. Len(q) \in Nat /\ MaxEvents \in Nat
  BY BoundsAssumption
<1>2. CASE Len(q) < MaxEvents
  <2>1. p = Append(q, x)
    BY <1>2 DEF Backlog!Pushed
  <2>2. /\ p \in Seq(Events) /\ Len(p) = Len(q) + 1 /\ DOMAIN p = 1 .. Len(q) + 1
        /\ \A i \in 1 .. Len(q) : p[i] = q[i]
        /\ p[Len(q) + 1] = x
    BY <2>1, AppendProperties
  <2> HIDE DEF p
  <2>3. /\ Len(p) = Len(q) + 1 - 0 /\ DOMAIN p = 1 .. Len(q) + 1 - 0
        /\ \A i \in 1 .. Len(q) - 0 : p[i] = q[i + 0]
        /\ p[Len(p)] = x /\ Len(p) <= MaxEvents
    BY <1>1, <1>2, <2>2
  <2> QED
    BY <2>2, <2>3 DEF p
<1>3. CASE Len(q) = MaxEvents
  <2>1. p = Append(Tail(q), x) /\ q # <<>>
    BY <1>1, <1>3 DEF Backlog!Pushed
  <2>2. /\ Tail(q) \in Seq(Events) /\ Len(Tail(q)) = Len(q) - 1
        /\ \A i \in 1 .. Len(q) - 1 : Tail(q)[i] = q[i + 1]
    BY <2>1, HeadTailProperties
  <2>3. /\ p \in Seq(Events) /\ Len(p) = Len(Tail(q)) + 1 /\ DOMAIN p = 1 .. Len(Tail(q)) + 1
        /\ \A i \in 1 .. Len(Tail(q)) : p[i] = Tail(q)[i]
        /\ p[Len(Tail(q)) + 1] = x
    BY <2>1, <2>2, AppendProperties
  <2> HIDE DEF p
  <2>4. /\ Len(p) = Len(q) + 1 - 1 /\ DOMAIN p = 1 .. Len(q) + 1 - 1
        /\ \A i \in 1 .. Len(q) - 1 : p[i] = q[i + 1]
        /\ p[Len(p)] = x /\ Len(p) <= MaxEvents
    BY <1>1, <1>3, <2>2, <2>3
  <2> QED
    BY <1>3, <2>3, <2>4 DEF p
<1> QED
  BY <1>1, <1>2, <1>3

LEMMA TrimFits ==
    ASSUME NEW q \in Seq(Events), NEW em \in Seq(Times), QueueFits(q, em),
           NEW cutoff \in Int, NEW r, Backlog!Trimmed(q, cutoff, r)
    PROVE  /\ QueueFits(r, em)
           /\ \A since \in Int :
                 since >= cutoff /\ QueueComplete(q, em, since) => QueueComplete(r, em, since)
<1>0. PICK k \in 0 .. Len(q) : WithoutFirst(q, cutoff, r, k)
  BY TrimFacts
<1>1. /\ Len(r) = Len(q) - k /\ DOMAIN r = 1 .. Len(q) - k
      /\ \A i \in 1 .. Len(r) : r[i] = q[k + i]
      /\ \A i \in 1 .. k : q[i].ts < cutoff
  BY <1>0 DEF WithoutFirst
<1>2. Len(q) \in Nat /\ DOMAIN q = 1 .. Len(q) /\ \A i \in DOMAIN r : k + i \in DOMAIN q
  BY <1>1
<1>3. ASSUME NEW i \in DOMAIN r
      PROVE  /\ r[i].id \in DOMAIN em /\ r[i].ts = em[r[i].id]
             /\ r[i].id + (Len(r) - i) = Len(em)
             /\ \A j \in DOMAIN r : i < j => r[i].id < r[j].id
  <2>1. r[i] = q[k + i] /\ k + i \in DOMAIN q /\ Len(r) - i = Len(q) - (k + i)
    BY <1>1, <1>2
  <2>2. \A j \in DOMAIN r : i < j => r[j] = q[k + j] /\ k + j \in DOMAIN q /\ k + i < k + j
    BY <1>1, <1>2
  <2> QED
    BY <2>1, <2>2 DEF QueueFits
<1>4. ASSUME NEW since \in Int, since >= cutoff, QueueComplete(q, em, since),
             NEW e \in DOMAIN em, em[e] > since, Len(em) - e < MaxEvents
      PROVE  \E i \in DOMAIN r : r[i].id = e
  <2>1. PICK j \in DOMAIN q : q[j].id = e
    BY <1>4 DEF QueueComplete
  <2>2. q[j].ts = em[e] /\ em[e] \in Int
    <3>1. em[e] \in Times /\ q[j].ts = em[q[j].id]
      BY DEF QueueFits
    <3> QED
      BY <2>1, <3>1 DEF Times
  <2>3. j \notin 1 .. k
    BY <1>1, <1>4, <2>2
  <2>4. j - k \in DOMAIN r /\ r[j - k] = q[j]
    BY <1>1, <1>2, <2>3
  <2> QED
    BY <2>1, <2>4
<1> QED
  BY <1>3, <1>4 DEF QueueFits, QueueComplete

LEMMA PushFits ==
    ASSUME NEW q \in Seq(Events), Len(q) <= MaxEvents, MaxEvents # 0,
           NEW em \in Seq(Times), QueueFits(q, em),
           NEW t \in Times, Len(em) + 1 <= MaxEmitted
    PROVE  LET p == Backlog!Pushed(q, [ts |-> t, id |-> Len(em) + 1]) IN
           /\ p \in Seq(Events) /\ Len(p) <= MaxEvents
           /\ QueueFits(p, Append(em, t))
           /\ \A since \in Int :
                 QueueComplete(q, em, since) => QueueComplete(p, Append(em, t), since)
<1> DEFINE x  == [ts |-> t, id |-> Len(em) + 1]
           p  == Backlog!Pushed(q, x)
           em2 == Append(em, t)
<1>1. x \in Events
  BY BoundsAssumption DEF Events
<1> HIDE DEF p
<1>2. p \in Seq(Events) /\ Len(p) <= MaxEvents
  BY <1>1, PushFacts DEF p
<1>3. PICK d \in 0 .. 1 :
            /\ Len(p) = Len(q) + 1 - d /\ DOMAIN p = 1 .. Len(q) + 1 - d
            /\ \A i \in 1 .. Len(q) - d : p[i] = q[i + d]
            /\ p[Len(p)] = x
            /\ d = 1 => Len(q) = MaxEvents
  BY <1>1, PushFacts DEF p
<1>s. /\ Len(q) \in Nat /\ Len(p) \in Nat /\ Len(em) \in Nat /\ MaxEvents \in Nat
      /\ d \in Int /\ d >= 0 /\ Len(p) = Len(q) + 1 - d /\ Len(p) >= 1
      /\ d > 0 => d = 1 /\ Len(q) = MaxEvents
  BY <1>3, BoundsAssumption
<1>q. \A i : i \in DOMAIN q <=> i \in 1 .. Len(q)
  OBVIOUS
<1>p. \A i : i \in DOMAIN p <=> i \in 1 .. Len(p)
  BY <1>2
<1>e. \A e : e \in DOMAIN em <=> e \in 1 .. Len(em)
  OBVIOUS
<1>5. /\ Len(em2) = Len(em) + 1 /\ \A e : e \in DOMAIN em2 <=> e \in 1 .. Len(em) + 1
      /\ \A e \in 1 .. Len(em) : em2[e] = em[e]
      /\ em2[Len(em) + 1] = t
  BY AppendProperties
<1> HIDE DEF em2, x
<1>x. x.id = Len(em) + 1 /\ x.ts = t
  BY DEF x
<1>i. \A i \in 1 .. Len(q) - d : p[i] = q[i + d]
  BY <1>3
<1>l. p[Len(p)] = x
  BY <1>3
<1>6. \A i \in DOMAIN p :
        \/ i \in 1 .. Len(q) - d /\ i + d \in DOMAIN q /\ p[i] = q[i + d]
        \/ i = Len(p) /\ p[i] = x
  <2> SUFFICES ASSUME NEW i \in 1 .. Len(p), i # Len(p)
               PROVE  i \in 1 .. Len(q) - d /\ i + d \in DOMAIN q /\ p[i] = q[i + d]
    BY <1>p, <1>l
  <2>1. i \in 1 .. Len(q) - d /\ i + d \in 1 .. Len(q)
    BY <1>s
  <2> QED
    BY <2>1, <1>i, <1>q
<1>7. \A i \in DOMAIN q : q[i].id \in 1 .. Len(em) /\ q[i].id <= Len(em)
  <2>1. \A i \in DOMAIN q : q[i].id \in 1 .. Len(em)
    BY <1>e DEF QueueFits
  <2> QED
    BY <1>s, <2>1
<1>8. ASSUME NEW i \in DOMAIN p
      PROVE  /\ p[i].id \in DOMAIN em2 /\ p[i].ts = em2[p[i].id]
             /\ p[i].id + (Len(p) - i) = Len(em2)
             /\ \A j \in DOMAIN p : i < j => p[i].id < p[j].id
  <2>0. i \in Int
    BY <1>p, <1>s
  <2>1. CASE i \in 1 .. Len(q) - d /\ i + d \in DOMAIN q /\ p[i] = q[i + d]
    <3>1. p[i].ts = em[p[i].id] /\ p[i].id + (Len(q) - (i + d)) = Len(em)
      BY <2>1 DEF QueueFits
    <3>2. p[i].id \in 1 .. Len(em)
      BY <1>7, <2>1
    <3>3. p[i].id \in DOMAIN em2 /\ p[i].ts = em2[p[i].id]
      BY <1>s, <1>5, <3>1, <3>2
    <3>4. p[i].id + (Len(p) - i) = Len(em2)
      <4> DEFINE n == p[i].id
      <4>1. n \in Int /\ n + (Len(q) - (i + d)) = Len(em)
        BY <1>s, <3>1, <3>2
      <4>2. Len(p) - i = (Len(q) - (i + d)) + 1 /\ Len(em2) = Len(em) + 1
        BY <1>s, <1>5, <2>0
      <4> HIDE DEF n
      <4>3. n + (Len(p) - i) = Len(em2)
        <5> DEFINE rest == Len(q) - (i + d)
        <5>1. rest \in Int /\ Len(em) \in Int
          BY <1>s, <2>0
        <5>2. n \in Int /\ n + rest = Len(em) /\ Len(p) - i = rest + 1 /\ Len(em2) = Len(em) + 1
          BY <4>1, <4>2
        <5> HIDE DEF rest
        <5>3. n + (rest + 1) = Len(em) + 1
          BY <5>1, <5>2
        <5> QED
          BY <5>2, <5>3
      <4> QED
        BY <4>3 DEF n
    <3>5. ASSUME NEW j \in DOMAIN p, i < j PROVE p[i].id < p[j].id
      <4>0. j \in Int
        BY <1>p, <1>s
      <4>1. CASE j \in 1 .. Len(q) - d /\ j + d \in DOMAIN q /\ p[j] = q[j + d]
        <5>1. i + d < j + d
          BY <1>s, <2>0, <4>0, <3>5
        <5> QED
          BY <2>1, <4>1, <5>1 DEF QueueFits
      <4>2. CASE p[j] = x
        BY <1>s, <1>x, <3>2, <4>2
      <4> QED
        BY <1>6, <4>1, <4>2
    <3> QED
      BY <3>3, <3>4, <3>5
  <2>2. CASE i = Len(p) /\ p[i] = x
    <3>1. p[i].id = Len(em) + 1 /\ p[i].ts = t
      BY <2>2, <1>x
    <3>2. \A j \in DOMAIN p : ~(i < j)
      BY <1>p, <1>s, <2>2
    <3>3. p[i].id \in DOMAIN em2 /\ p[i].ts = em2[p[i].id]
      BY <1>s, <1>5, <3>1
    <3>4. p[i].id + (Len(p) - i) = Len(em2)
      BY <1>s, <1>5, <2>2, <3>1
    <3> QED
      BY <3>2, <3>3, <3>4
  <2> QED
    BY <1>6, <2>1, <2>2
<1>9. ASSUME NEW since \in Int, QueueComplete(q, em, since),
             NEW e \in DOMAIN em2, em2[e] > since, Len(em2) - e < MaxEvents
      PROVE  \E i \in DOMAIN p : p[i].id = e
  <2>0. e \in Int
    BY <1>5, <1>s
  <2>1. CASE e = Len(em) + 1
    <3>1. Len(p) \in DOMAIN p
      BY <1>p, <1>s
    <3> QED
      BY <3>1, <2>1, <1>l, <1>x
  <2>2. CASE e \in 1 .. Len(em)
    <3>1. e \in DOMAIN em /\ em[e] > since
      BY <1>e, <1>5, <1>9, <2>2
    <3>2. Len(em) - e < MaxEvents
      BY <1>s, <1>5, <1>9, <2>0
    <3>3. PICK j \in DOMAIN q : q[j].id = e
      BY <1>9, <3>1, <3>2 DEF QueueComplete
    <3>4. j \in 1 .. Len(q) /\ q[j].id + (Len(q) - j) = Len(em)
      BY <1>q DEF QueueFits
    <3>5. j - d >= 1
      BY <1>s, <1>5, <1>9, <2>0, <3>3, <3>4
    <3>6. j - d \in 1 .. Len(q) - d /\ (j - d) + d = j /\ j - d \in 1 .. Len(p)
      BY <1>s, <3>4, <3>5
    <3> QED
      BY <1>i, <1>p, <3>3, <3>6
  <2> QED
    BY <1>s, <1>5, <2>0, <2>1, <2>2
<1>10. QueueFits(p, em2)
  BY <1>8 DEF QueueFits
<1>11. \A since \in Int : QueueComplete(q, em, since) => QueueComplete(p, em2, since)
  BY <1>9 DEF QueueComplete
<1> QED
  BY <1>2, <1>10, <1>11 DEF p, em2, x

-----------------------------------------------------------------------------
(* The invariant holds initially and every step preserves it.              *)

LEMMA Constants ==
    /\ Retention \in Nat /\ MaxEvents \in Nat /\ MaxEmitted \in Nat /\ MaxTime \in Nat
    /\ 1 \in Times /\ 0 \in 0 .. MaxEmitted /\ Times \subseteq Int
BY RetentionAssumption, BoundsAssumption DEF Times

LEMMA InitIInv == Init => IInv
<1> SUFFICES ASSUME Init PROVE IInv
  OBVIOUS
<1>1. TypeOK
  BY Constants DEF Init, TypeOK
<1>2. ClockFits /\ QueueFits(backlog, emitted)
  BY DEF Init, ClockFits, QueueFits
<1>3. ReceivedFits /\ AwayFits /\ NothingKept /\ NothingMissing /\ InOrderOnce
  BY DEF Init, ReceivedFits, AwayFits, NothingKept, NothingMissing, InOrderOnce, AwayRetained
<1> QED
  BY <1>1, <1>2, <1>3 DEF IInv

\* maybeBufferEvent.
LEMMA BufferEventFits ==
    ASSUME IInv, Len(emitted) + 1 <= MaxEmitted,
           BufferEvent([ts |-> now, id |-> Len(emitted) + 1]), emitted' = Append(emitted, now),
           UNCHANGED <<now, status, disconnectedAt>>
    PROVE  /\ backlog' \in Seq(Events) /\ Len(backlog') <= MaxEvents
           /\ QueueFits(backlog', emitted') /\ NothingKept' /\ NothingMissing'
<1> DEFINE event == [ts |-> now, id |-> Len(emitted) + 1]
           p == Backlog!Pushed(backlog, event)
<1>a. /\ now \in Times /\ backlog \in Seq(Events) /\ Len(backlog) <= MaxEvents
      /\ emitted \in Seq(Times) /\ Len(emitted) \in Nat
  BY DEF IInv, TypeOK
<1>b. \A c \in Clients : disconnectedAt[c] \in Int
  <2>1. \A c \in Clients : disconnectedAt[c] \in Times \cup {0}
    BY DEF IInv, TypeOK
  <2>2. Times \cup {0} \subseteq Int
    BY DEF Times
  <2> QED
    BY <2>1, <2>2, Zenon
<1>1. /\ now \in Times /\ backlog \in Seq(Events) /\ Len(backlog) <= MaxEvents
      /\ emitted \in Seq(Times) /\ Len(emitted) \in Nat
      /\ \A c \in Clients : disconnectedAt[c] \in Int
  BY <1>a, <1>b
<1>2. /\ Len(emitted') = Len(emitted) + 1 /\ emitted' \in Seq(Times)
      /\ \A e : e \in DOMAIN emitted' <=> e \in 1 .. Len(emitted) + 1
      /\ \A e \in 1 .. Len(emitted) : emitted'[e] = emitted[e]
  BY <1>1, AppendProperties
<1>3. \A c \in Clients : AwayRetained(c)' <=> AwayRetained(c)
  BY DEF AwayRetained
<1>4. CASE Retention = 0 \/ MaxEvents = 0
  <2>1. backlog' = backlog /\ backlog = <<>>
    BY <1>4 DEF BufferEvent, IInv, NothingKept
  <2>2. QueueFits(backlog', emitted') /\ NothingKept'
    BY <2>1 DEF QueueFits, NothingKept
  <2>3. NothingMissing'
    <3>1. CASE Retention = 0
      BY <3>1 DEF IInv, AwayFits, NothingMissing, AwayRetained
    <3>2. CASE MaxEvents = 0
      <4>1. \A e \in DOMAIN emitted' : ~(Len(emitted') - e < 0)
        BY <1>1, <1>2
      <4> QED
        BY <3>2, <4>1 DEF NothingMissing, QueueComplete
    <3> QED
      BY <1>4, <3>1, <3>2
  <2> QED
    BY <1>1, <2>1, <2>2, <2>3
<1>5. CASE Retention # 0 /\ MaxEvents # 0 /\ \E c \in Clients : AwayRetained(c)
  <2>1. Backlog!Trimmed(p, now - Retention, backlog')
    BY <1>5 DEF BufferEvent
  <2>2. /\ p \in Seq(Events) /\ Len(p) <= MaxEvents /\ QueueFits(p, emitted')
        /\ \A since \in Int : QueueComplete(backlog, emitted, since) => QueueComplete(p, emitted', since)
    BY <1>1, <1>5, PushFits DEF IInv
  <2> HIDE DEF p
  <2>3. now - Retention \in Int
    BY <1>1, Constants
  <2>4. /\ QueueFits(backlog', emitted')
        /\ \A since \in Int : since >= now - Retention /\ QueueComplete(p, emitted', since)
                                => QueueComplete(backlog', emitted', since)
    BY <1>2, <2>1, <2>2, <2>3, TrimFits
  <2>5. backlog' \in Seq(Events) /\ Len(backlog') <= Len(p)
    BY <2>1, <2>2, TrimFacts
  <2>6. Len(backlog') <= MaxEvents
    <3>1. Len(backlog') \in Nat /\ Len(p) \in Nat
      BY <2>2, <2>5
    <3> QED
      BY <2>2, <2>5, <3>1, Constants
  <2>7. ASSUME NEW c \in Clients, AwayRetained(c)
        PROVE  QueueComplete(backlog', emitted', disconnectedAt[c])
    <3>1. QueueComplete(p, emitted', disconnectedAt[c])
      BY <1>1, <2>2, <2>7 DEF IInv, NothingMissing
    <3>2. disconnectedAt[c] >= now - Retention
      BY <1>1, <2>7, Constants DEF AwayRetained
    <3> QED
      BY <1>1, <2>4, <3>1, <3>2
  <2>8. NothingKept' /\ NothingMissing'
    BY <1>3, <1>5, <2>7 DEF NothingKept, NothingMissing
  <2> QED
    BY <2>4, <2>5, <2>6, <2>8
<1>6. CASE Retention # 0 /\ MaxEvents # 0 /\ ~\E c \in Clients : AwayRetained(c)
  <2>1. backlog' = <<>>
    BY <1>6 DEF BufferEvent
  <2>2. NothingKept' /\ NothingMissing'
    BY <1>3, <1>6, <2>1 DEF NothingKept, NothingMissing
  <2> QED
    BY <2>1, <2>2, Constants DEF QueueFits
<1> QED
  BY <1>4, <1>5, <1>6

LEMMA EmitIInv == ASSUME IInv, Emit PROVE IInv'
<1> DEFINE n == Len(emitted) + 1
<1>1. /\ n <= MaxEmitted /\ BufferEvent([ts |-> now, id |-> n])
      /\ received' = [c \in Clients |-> IF status[c] = "open"
                                        THEN Append(received[c], n) ELSE received[c]]
      /\ emitted' = Append(emitted, now)
      /\ UNCHANGED <<now, status, lastSeen, disconnectedAt, openUntil, goneSince>>
  BY DEF Emit, clientVars
<1>2. /\ now \in Times /\ emitted \in Seq(Times) /\ Len(emitted) \in Nat
      /\ \A c \in Clients : received[c] \in Seq(1 .. MaxEmitted)
  BY DEF IInv, TypeOK
<1>3. /\ Len(emitted') = n /\ emitted' \in Seq(Times)
      /\ \A e : e \in DOMAIN emitted' <=> e \in 1 .. n
      /\ \A e : e \in DOMAIN emitted <=> e \in 1 .. n - 1
      /\ \A e \in 1 .. n - 1 : emitted'[e] = emitted[e]
      /\ emitted'[n] = now
  BY <1>1, <1>2, AppendProperties
<1>4. /\ backlog' \in Seq(Events) /\ Len(backlog') <= MaxEvents
      /\ QueueFits(backlog', emitted') /\ NothingKept' /\ NothingMissing'
  BY <1>1, BufferEventFits
<1>5. n \in 1 .. MaxEmitted /\ n \in Nat
  BY <1>1, <1>2, Constants
<1> HIDE DEF n
<1>6. ASSUME NEW c \in Clients, status[c] = "open"
      PROVE  /\ received'[c] \in Seq(1 .. MaxEmitted) /\ Len(received[c]) \in Nat
             /\ \A i : i \in DOMAIN received'[c] <=> i \in 1 .. Len(received[c]) + 1
             /\ \A i : i \in DOMAIN received[c] <=> i \in 1 .. Len(received[c])
             /\ \A i \in 1 .. Len(received[c]) : received'[c][i] = received[c][i]
             /\ received'[c][Len(received[c]) + 1] = n
  <2>1. received'[c] = Append(received[c], n) /\ received[c] \in Seq(1 .. MaxEmitted)
    BY <1>1, <1>2, <1>6
  <2> DEFINE r == received[c]
  <2>2. r \in Seq(1 .. MaxEmitted)
    BY <2>1
  <2> HIDE DEF r
  <2>3. /\ Append(r, n) \in Seq(1 .. MaxEmitted) /\ Len(r) \in Nat
        /\ \A i : i \in DOMAIN Append(r, n) <=> i \in 1 .. Len(r) + 1
        /\ \A i \in 1 .. Len(r) : Append(r, n)[i] = r[i]
        /\ Append(r, n)[Len(r) + 1] = n
    BY <1>5, <2>2, AppendProperties
  <2>4. \A i : i \in DOMAIN r <=> i \in 1 .. Len(r)
    BY <2>2
  <2> QED
    BY <2>1, <2>3, <2>4 DEF r
<1>7. ASSUME NEW c \in Clients, status[c] # "open" PROVE received'[c] = received[c]
  BY <1>1, <1>7
<1>8. TypeOK'
  <2>1. received' \in [Clients -> Seq(1 .. MaxEmitted)]
    BY <1>1, <1>2, <1>6, <1>7
  <2> QED
    BY <1>1, <1>3, <1>4, <2>1 DEF IInv, TypeOK
<1>9. ClockFits'
  <2>1. \A i \in DOMAIN emitted' : emitted'[i] <= now
    <3> SUFFICES ASSUME NEW i \in 1 .. n PROVE emitted'[i] <= now
      BY <1>3
    <3>1. CASE i = n
      BY <1>2, <1>3, <3>1, Constants
    <3>2. CASE i \in 1 .. n - 1
      BY <1>3, <3>2 DEF IInv, ClockFits
    <3> QED
      BY <1>5, <3>1, <3>2
  <2>2. \A i, j \in DOMAIN emitted' : i <= j => emitted'[i] <= emitted'[j]
    <3> SUFFICES ASSUME NEW i \in 1 .. n, NEW j \in 1 .. n, i <= j
                 PROVE  emitted'[i] <= emitted'[j]
      BY <1>3
    <3>1. CASE j = n
      BY <1>3, <2>1, <3>1
    <3>2. CASE i \in 1 .. n - 1 /\ j \in 1 .. n - 1
      BY <1>3, <3>2 DEF IInv, ClockFits
    <3> QED
      BY <1>5, <3>1, <3>2
  <2> QED
    BY <1>1, <2>1, <2>2 DEF ClockFits
<1>10. \A c \in Clients : \A i \in DOMAIN received[c] :
          received[c][i] \in 1 .. n - 1 /\ received[c][i] < n
  <2>1. \A c \in Clients : \A i \in DOMAIN received[c] : received[c][i] \in 1 .. n - 1
    BY <1>3 DEF IInv, ReceivedFits
  <2> QED
    BY <1>5, <2>1
<1>11. ReceivedFits'
  <2> SUFFICES ASSUME NEW c \in Clients, NEW i \in DOMAIN received'[c]
               PROVE  /\ received'[c][i] \in DOMAIN emitted'
                      /\ status[c] = "away" => emitted'[received'[c][i]] <= disconnectedAt[c]
    BY <1>1 DEF ReceivedFits
  <2>1. CASE status[c] = "open"
    <3>1. CASE i \in 1 .. Len(received[c])
      BY <1>3, <1>5, <1>6, <1>10, <2>1, <3>1
    <3>2. CASE i = Len(received[c]) + 1
      BY <1>3, <1>5, <1>6, <2>1, <3>2
    <3> QED
      BY <1>6, <2>1, <3>1, <3>2
  <2>2. CASE status[c] # "open"
    <3>1. received'[c] = received[c] /\ received[c][i] \in 1 .. n - 1
      BY <1>7, <1>10, <2>2
    <3> QED
      BY <1>3, <1>5, <3>1 DEF IInv, ReceivedFits
  <2> QED
    BY <2>1, <2>2
<1>12. AwayFits'
  BY <1>1 DEF IInv, AwayFits
<1>13. InOrderOnce'
  <2> SUFFICES ASSUME NEW c \in Clients, NEW i \in DOMAIN received'[c],
                      NEW j \in DOMAIN received'[c], i < j
               PROVE  received'[c][i] < received'[c][j]
    BY DEF InOrderOnce
  <2>1. CASE status[c] = "open"
    <3>1. i \in 1 .. Len(received[c])
      BY <1>6, <2>1
    <3>2. CASE j \in 1 .. Len(received[c])
      BY <1>6, <2>1, <3>1, <3>2 DEF IInv, InOrderOnce
    <3>3. CASE j = Len(received[c]) + 1
      BY <1>6, <1>10, <2>1, <3>1, <3>3
    <3> QED
      BY <1>6, <2>1, <3>2, <3>3
  <2>2. CASE status[c] # "open"
    BY <1>7, <2>2 DEF IInv, InOrderOnce
  <2> QED
    BY <2>1, <2>2
<1> QED
  BY <1>4, <1>8, <1>9, <1>11, <1>12, <1>13 DEF IInv

LEMMA EventTimes ==
    ASSUME IInv
    PROVE  \A e \in DOMAIN emitted : emitted[e] \in Int /\ emitted[e] <= now
<1>1. \A e \in DOMAIN emitted : emitted[e] <= now
  BY DEF IInv, ClockFits
<1>2. \A e \in DOMAIN emitted : emitted[e] \in Times
  BY DEF IInv, TypeOK
<1>3. \A e \in DOMAIN emitted : emitted[e] \in Int
  BY <1>2, Constants
<1> QED
  BY <1>1, <1>3

\* A step that leaves the clock and the events alone and brings nobody away.
LEMMA EventsFit ==
    ASSUME IInv, UNCHANGED <<now, backlog, emitted>>,
           \A c \in Clients : status'[c] = "away" =>
               status[c] = "away" /\ disconnectedAt'[c] = disconnectedAt[c]
    PROVE  /\ ClockFits' /\ QueueFits(backlog, emitted)' /\ AwayFits'
           /\ NothingKept' /\ NothingMissing'
<1>1. ClockFits' /\ QueueFits(backlog, emitted)' /\ NothingKept'
  BY DEF IInv, ClockFits, NothingKept
<1>2. AwayFits'
  BY DEF IInv, AwayFits
<1>3. \A c \in Clients : AwayRetained(c)' =>
         AwayRetained(c) /\ disconnectedAt'[c] = disconnectedAt[c]
  BY DEF AwayRetained
<1>4. NothingMissing'
  BY <1>3 DEF IInv, NothingMissing
<1> QED
  BY <1>1, <1>2, <1>4

\* A step in which a session that is away receives nothing.
LEMMA StillReceived ==
    ASSUME IInv, UNCHANGED emitted, NEW c \in Clients,
           received'[c] \in {received[c], <<>>},
           status'[c] = "away" => status[c] = "away" /\ disconnectedAt'[c] = disconnectedAt[c]
    PROVE  /\ \A i \in DOMAIN received'[c] :
                 /\ received'[c][i] \in DOMAIN emitted'
                 /\ status'[c] = "away" => emitted'[received'[c][i]] <= disconnectedAt'[c]
           /\ \A i, j \in DOMAIN received'[c] : i < j => received'[c][i] < received'[c][j]
<1>1. CASE received'[c] = received[c]
  BY <1>1 DEF IInv, ReceivedFits, InOrderOnce
<1>2. CASE received'[c] = <<>>
  BY <1>2
<1> QED
  BY <1>1, <1>2

LEMMA ConnectIInv == ASSUME IInv, NEW c \in Clients, Connect(c) PROVE IInv'
<1>1. /\ status' = [status EXCEPT ![c] = "open"]
      /\ lastSeen' = [lastSeen EXCEPT ![c] = now]
      /\ UNCHANGED <<now, disconnectedAt, backlog, received, emitted, openUntil, goneSince>>
  BY DEF Connect, historyVars
<1>2. TypeOK'
  BY <1>1 DEF IInv, TypeOK
<1>3. \A d \in Clients : status'[d] = "away" =>
         status[d] = "away" /\ disconnectedAt'[d] = disconnectedAt[d]
  BY <1>1 DEF IInv, TypeOK
<1>4. ClockFits' /\ QueueFits(backlog, emitted)' /\ AwayFits' /\ NothingKept' /\ NothingMissing'
  BY <1>1, <1>3, EventsFit
<1>5. ReceivedFits' /\ InOrderOnce'
  BY <1>1, <1>3, StillReceived DEF ReceivedFits, InOrderOnce
<1> QED
  BY <1>2, <1>4, <1>5 DEF IInv

LEMMA ClosingIInv == ASSUME IInv, NEW c \in Clients, Closing(c) PROVE IInv'
<1>1. /\ status' = [status EXCEPT ![c] = "closing"]
      /\ openUntil' = [openUntil EXCEPT ![c] = Len(emitted)]
      /\ UNCHANGED <<now, lastSeen, disconnectedAt, backlog, received, emitted, goneSince>>
  BY DEF Closing
<1>2. TypeOK'
  <2>1. Len(emitted) \in 0 .. MaxEmitted
    BY Constants DEF IInv, TypeOK
  <2> QED
    BY <1>1, <2>1 DEF IInv, TypeOK
<1>3. \A d \in Clients : status'[d] = "away" =>
         status[d] = "away" /\ disconnectedAt'[d] = disconnectedAt[d]
  BY <1>1 DEF IInv, TypeOK
<1>4. ClockFits' /\ QueueFits(backlog, emitted)' /\ AwayFits' /\ NothingKept' /\ NothingMissing'
  BY <1>1, <1>3, EventsFit
<1>5. ReceivedFits' /\ InOrderOnce'
  BY <1>1, <1>3, StillReceived DEF ReceivedFits, InOrderOnce
<1> QED
  BY <1>2, <1>4, <1>5 DEF IInv

LEMMA TouchIInv == ASSUME IInv, NEW c \in Clients, Touch(c) PROVE IInv'
<1>1. /\ lastSeen' = [lastSeen EXCEPT ![c] = now]
      /\ UNCHANGED <<now, status, disconnectedAt, backlog, received, emitted, openUntil, goneSince>>
  BY DEF Touch, historyVars
<1>2. TypeOK'
  BY <1>1 DEF IInv, TypeOK
<1>3. ClockFits' /\ QueueFits(backlog, emitted)' /\ AwayFits' /\ NothingKept' /\ NothingMissing'
  BY <1>1, EventsFit
<1>4. ReceivedFits' /\ InOrderOnce'
  BY <1>1, StillReceived DEF ReceivedFits, InOrderOnce
<1> QED
  BY <1>2, <1>3, <1>4 DEF IInv

LEMMA ForgetFits ==
    ASSUME IInv, NEW gone, Forget(gone)
    PROVE  /\ lastSeen' \in [Clients -> Times \cup {0}]
           /\ received' \in [Clients -> Seq(1 .. MaxEmitted)]
           /\ openUntil' \in [Clients -> 0 .. MaxEmitted]
           /\ \A c \in Clients : received'[c] \in {received[c], <<>>}
<1>1. <<>> \in Seq(1 .. MaxEmitted) /\ 0 \in 0 .. MaxEmitted
  BY Constants
<1>2. \A c \in Clients : received'[c] \in {received[c], <<>>}
  BY DEF Forget
<1> QED
  BY <1>1, <1>2 DEF Forget, IInv, TypeOK

\* Nothing is younger than a close that happens now.
LEMMA ClosedIInv == ASSUME IInv, NEW c \in Clients, Closed(c) PROVE IInv'
<1>1. status[c] = "closing" /\ UNCHANGED <<now, backlog, emitted>>
  BY DEF Closed
<1>2. CASE Retention = 0
  <2>1. /\ status' = [status EXCEPT ![c] = "absent"] /\ Forget({c})
        /\ UNCHANGED <<disconnectedAt, goneSince>>
    BY <1>2 DEF Closed
  <2>2. TypeOK'
    BY <1>1, <2>1, ForgetFits DEF IInv, TypeOK
  <2>3. \A d \in Clients : status'[d] = "away" =>
           status[d] = "away" /\ disconnectedAt'[d] = disconnectedAt[d]
    BY <2>1 DEF IInv, TypeOK
  <2>4. ClockFits' /\ QueueFits(backlog, emitted)' /\ AwayFits' /\ NothingKept' /\ NothingMissing'
    BY <1>1, <2>3, EventsFit
  <2>5. ReceivedFits' /\ InOrderOnce'
    BY <1>1, <2>1, <2>3, ForgetFits, StillReceived DEF ReceivedFits, InOrderOnce
  <2> QED
    BY <2>2, <2>4, <2>5 DEF IInv
<1>3. CASE Retention # 0
  <2>1. /\ status' = [status EXCEPT ![c] = "away"]
        /\ disconnectedAt' = [disconnectedAt EXCEPT ![c] = now]
        /\ goneSince' = [goneSince EXCEPT ![c] = Len(emitted)]
        /\ UNCHANGED <<lastSeen, received, openUntil>>
    BY <1>3 DEF Closed
  <2>2. status'[c] = "away" /\ disconnectedAt'[c] = now /\ now \in Int /\ Len(emitted) \in 0 .. MaxEmitted
    BY <2>1, Constants DEF IInv, TypeOK
  <2>3. \A d \in Clients \ {c} : status'[d] = status[d] /\ disconnectedAt'[d] = disconnectedAt[d]
    BY <2>1 DEF IInv, TypeOK
  <2>4. TypeOK'
    BY <1>1, <2>1, <2>2 DEF IInv, TypeOK
  <2>5. ClockFits' /\ QueueFits(backlog, emitted)' /\ NothingKept'
    BY <1>1 DEF IInv, ClockFits, NothingKept
  <2>6. AwayFits'
    <3>1. now <= now /\ Retention > 0
      BY <1>3, <2>2, Constants
    <3> QED
      BY <1>1, <2>2, <2>3, <3>1 DEF IInv, AwayFits
  <2>7. NothingMissing'
    <3>1. \A e \in DOMAIN emitted : ~(emitted[e] > now)
      BY <2>2, EventTimes
    <3>2. QueueComplete(backlog, emitted, now)
      BY <3>1 DEF QueueComplete
    <3>3. \A d \in Clients \ {c} : AwayRetained(d)' <=> AwayRetained(d)
      BY <1>1, <2>3 DEF AwayRetained
    <3> QED
      BY <1>1, <2>2, <2>3, <3>2, <3>3 DEF IInv, NothingMissing
  <2>8. ReceivedFits'
    <3>1. \A i \in DOMAIN received[c] : received[c][i] \in DOMAIN emitted
      BY DEF IInv, ReceivedFits
    <3>2. \A i \in DOMAIN received[c] : emitted[received[c][i]] <= now
      BY <3>1 DEF IInv, ClockFits
    <3> QED
      BY <1>1, <2>1, <2>2, <2>3, <3>1, <3>2 DEF IInv, ReceivedFits
  <2>9. InOrderOnce'
    BY <2>1 DEF IInv, InOrderOnce
  <2> QED
    BY <2>4, <2>5, <2>6, <2>7, <2>8, <2>9 DEF IInv
<1> QED
  BY <1>2, <1>3

\* What a resume replays is younger than all that the session has, in order.
LEMMA ReplayedFits ==
    ASSUME IInv, NEW c \in Clients, status[c] # "absent", NEW socket
    PROVE  LET s == Replayed(c, socket) IN
           /\ s \in Seq(1 .. MaxEmitted)
           /\ \A k \in DOMAIN s : s[k] \in DOMAIN emitted /\ emitted[s[k]] > ResumeFrom(c)
           /\ \A k, l \in DOMAIN s : k < l => s[k] < s[l]
           /\ \A k \in DOMAIN s : \E i \in DOMAIN backlog : s[k] = backlog[i].id
           /\ \A i \in DOMAIN backlog : socket = "open" /\ emitted[backlog[i].id] > ResumeFrom(c)
                 => \E k \in DOMAIN s : s[k] = backlog[i].id
<1> DEFINE s == Replayed(c, socket)
<1>1. /\ backlog \in Seq(Events) /\ Sorted(backlog)
      /\ \A i : i \in DOMAIN backlog <=> i \in 1 .. Len(backlog)
      /\ \A i \in DOMAIN backlog : backlog[i].id \in DOMAIN emitted
                                   /\ backlog[i].ts = emitted[backlog[i].id]
  BY DEF IInv, TypeOK, QueueFits, Sorted
<1>2. CASE socket = "open"
  <2>1. s = SentAfter(backlog, ResumeFrom(c))[Len(backlog)]
    BY <1>2 DEF Replayed
  <2>2. s \in Seq(1 .. MaxEmitted) /\ Selection(backlog, ResumeFrom(c), s, Len(backlog))
    BY <1>1, <2>1, ReplaySelects
  <2> HIDE DEF s
  <2>3. \A k \in DOMAIN s : s[k] \in DOMAIN emitted /\ emitted[s[k]] > ResumeFrom(c)
    BY <1>1, <2>2 DEF Selection, After
  <2>4. \A i \in DOMAIN backlog : emitted[backlog[i].id] > ResumeFrom(c)
           => \E k \in DOMAIN s : s[k] = backlog[i].id
    BY <1>1, <2>2 DEF Selection, After
  <2>5. \A k, l \in DOMAIN s : k < l => s[k] < s[l]
    BY <2>2 DEF Selection
  <2>6. \A k \in DOMAIN s : \E i \in DOMAIN backlog : s[k] = backlog[i].id
    BY <1>1, <2>2 DEF Selection
  <2> QED
    BY <2>2, <2>3, <2>4, <2>5, <2>6 DEF s
<1>3. CASE socket # "open"
  <2>1. s = <<>>
    BY <1>3 DEF Replayed
  <2> HIDE DEF s
  <2> QED
    BY <1>3, <2>1 DEF s
<1> QED
  BY <1>2, <1>3

\* What the session has when it resumes is not younger than its close.
LEMMA ReceivedBefore ==
    ASSUME IInv, NEW c \in Clients
    PROVE  /\ ResumeFrom(c) \in Int
           /\ \A i \in DOMAIN received[c] :
                 received[c][i] \in DOMAIN emitted /\ emitted[received[c][i]] <= ResumeFrom(c)
<1>1. \A i \in DOMAIN received[c] : received[c][i] \in DOMAIN emitted
  BY DEF IInv, ReceivedFits
<1>2. CASE status[c] = "away"
  <2>1. ResumeFrom(c) = disconnectedAt[c] /\ disconnectedAt[c] \in Times \cup {0}
    BY <1>2 DEF ResumeFrom, IInv, TypeOK
  <2>2. Times \cup {0} \subseteq Int
    BY DEF Times
  <2> QED
    BY <1>1, <1>2, <2>1, <2>2 DEF IInv, ReceivedFits
<1>3. CASE status[c] # "away"
  <2>1. ResumeFrom(c) = now /\ now \in Int
    BY <1>3, Constants DEF ResumeFrom, IInv, TypeOK
  <2> QED
    BY <1>1, <2>1, EventTimes
<1> QED
  BY <1>2, <1>3

\* The replay goes behind what the session has.
LEMMA ResumedInOrder ==
    ASSUME IInv, NEW c \in Clients, status[c] # "absent", NEW socket
    PROVE  LET r == received[c] \o Replayed(c, socket) IN
           /\ r \in Seq(1 .. MaxEmitted)
           /\ \A i \in DOMAIN r : r[i] \in DOMAIN emitted
           /\ \A i, j \in DOMAIN r : i < j => r[i] < r[j]
           /\ Range(r) = Range(received[c]) \cup Range(Replayed(c, socket))
<1> DEFINE h == received[c]
           s == Replayed(c, socket)
           r == h \o s
<1>1. h \in Seq(1 .. MaxEmitted)
  BY DEF IInv, TypeOK
<1>2. s \in Seq(1 .. MaxEmitted)
  BY ReplayedFits
<1>3. \A k \in DOMAIN s : s[k] \in DOMAIN emitted /\ emitted[s[k]] > ResumeFrom(c)
  BY ReplayedFits
<1>4. \A k, l \in DOMAIN s : k < l => s[k] < s[l]
  BY ReplayedFits
<1>5. /\ ResumeFrom(c) \in Int
      /\ \A i \in DOMAIN h : h[i] \in DOMAIN emitted /\ emitted[h[i]] <= ResumeFrom(c)
  BY ReceivedBefore
<1>6. \A i, j \in DOMAIN h : i < j => h[i] < h[j]
  BY DEF IInv, InOrderOnce
<1> HIDE DEF h, s
<1>7. /\ Len(h) \in Nat /\ Len(s) \in Nat
      /\ \A i : i \in DOMAIN h <=> i \in 1 .. Len(h)
      /\ \A i : i \in DOMAIN s <=> i \in 1 .. Len(s)
  BY <1>1, <1>2
<1>8. /\ r \in Seq(1 .. MaxEmitted) /\ Len(r) = Len(h) + Len(s)
      /\ \A i \in 1 .. Len(h) + Len(s) : r[i] = IF i <= Len(h) THEN h[i] ELSE s[i - Len(h)]
  BY <1>1, <1>2, ConcatProperties
<1> HIDE DEF r
<1>9. \A i : i \in DOMAIN r <=> i \in 1 .. Len(h) + Len(s)
  BY <1>8
<1>10. \A i \in DOMAIN r : \/ i \in DOMAIN h /\ r[i] = h[i]
                           \/ i - Len(h) \in DOMAIN s /\ r[i] = s[i - Len(h)] /\ i > Len(h)
  <2> SUFFICES ASSUME NEW i \in 1 .. Len(h) + Len(s)
               PROVE  \/ i \in DOMAIN h /\ r[i] = h[i]
                      \/ i - Len(h) \in DOMAIN s /\ r[i] = s[i - Len(h)] /\ i > Len(h)
    BY <1>9
  <2>1. CASE i <= Len(h)
    BY <1>7, <1>8, <2>1
  <2>2. CASE i > Len(h)
    <3>1. i - Len(h) \in 1 .. Len(s)
      BY <1>7, <2>2
    <3> QED
      BY <1>7, <1>8, <2>2, <3>1
  <2> QED
    BY <1>7, <2>1, <2>2
<1>11. \A i \in DOMAIN r : r[i] \in DOMAIN emitted
  BY <1>3, <1>5, <1>10
<1>12. ASSUME NEW i \in DOMAIN h, NEW k \in DOMAIN s PROVE h[i] < s[k]
  <2>1. /\ h[i] \in DOMAIN emitted /\ s[k] \in DOMAIN emitted
        /\ emitted[h[i]] \in Int /\ emitted[s[k]] \in Int
    BY <1>3, <1>5, EventTimes
  <2>2. emitted[h[i]] <= ResumeFrom(c) /\ emitted[s[k]] > ResumeFrom(c)
    BY <1>3, <1>5
  <2>3. ~(emitted[s[k]] <= emitted[h[i]])
    BY <1>5, <2>1, <2>2
  <2>4. ~(s[k] <= h[i])
    BY <2>1, <2>3 DEF IInv, ClockFits
  <2>5. s[k] \in Int /\ h[i] \in Int
    <3>1. \A e \in DOMAIN emitted : e \in Int
      BY DEF IInv, TypeOK
    <3> QED
      BY <2>1, <3>1
  <2> QED
    BY <2>4, <2>5
<1>13. ASSUME NEW i \in DOMAIN r, NEW j \in DOMAIN r, i < j PROVE r[i] < r[j]
  <2>0. i \in Int /\ j \in Int
    BY <1>7, <1>9
  <2>1. CASE j \in DOMAIN h /\ r[j] = h[j]
    <3>1. i \in DOMAIN h /\ r[i] = h[i]
      BY <1>7, <1>9, <1>8, <1>13, <2>0, <2>1
    <3> QED
      BY <1>6, <1>13, <2>1, <3>1
  <2>2. CASE j - Len(h) \in DOMAIN s /\ r[j] = s[j - Len(h)] /\ j > Len(h)
    <3>1. CASE i \in DOMAIN h /\ r[i] = h[i]
      BY <1>12, <2>2, <3>1
    <3>2. CASE i - Len(h) \in DOMAIN s /\ r[i] = s[i - Len(h)] /\ i > Len(h)
      <4>1. i - Len(h) < j - Len(h)
        BY <1>7, <1>13, <2>0
      <4> QED
        BY <1>4, <2>2, <3>2, <4>1
    <3> QED
      BY <1>10, <3>1, <3>2
  <2> QED
    BY <1>10, <2>1, <2>2
<1>14. ASSUME NEW k \in DOMAIN s PROVE s[k] \in Range(r)
  <2>1. k + Len(h) \in 1 .. Len(h) + Len(s) /\ ~(k + Len(h) <= Len(h)) /\ (k + Len(h)) - Len(h) = k
    BY <1>7
  <2>2. r[k + Len(h)] = s[k] /\ k + Len(h) \in DOMAIN r
    BY <1>8, <1>9, <2>1
  <2> QED
    BY <2>2 DEF Range
<1>15. ASSUME NEW k \in DOMAIN h PROVE h[k] \in Range(r)
  <2>1. k \in 1 .. Len(h) + Len(s) /\ k <= Len(h)
    BY <1>7
  <2>2. r[k] = h[k] /\ k \in DOMAIN r
    BY <1>8, <1>9, <2>1
  <2> QED
    BY <2>2 DEF Range
<1>16. Range(r) = Range(h) \cup Range(s)
  BY <1>10, <1>14, <1>15 DEF Range
<1> QED
  BY <1>8, <1>11, <1>13, <1>16 DEF r, h, s

\* attachSession, for all three ways to resume.
LEMMA AttachIInv ==
    ASSUME IInv, NEW c \in Clients, status[c] # "absent",
           NEW socket \in {"open", "closing"}, NEW replaced, Attach(c, socket, replaced)
    PROVE  IInv'
<1> DEFINE r == received[c] \o Replayed(c, socket)
<1>1. /\ status' = [d \in Clients |-> IF d = c THEN socket
                                      ELSE IF d \in replaced THEN "absent" ELSE status[d]]
      /\ lastSeen' = [d \in Clients |-> IF d = c THEN now
                                        ELSE IF d \in replaced THEN 0 ELSE lastSeen[d]]
      /\ disconnectedAt' = [disconnectedAt EXCEPT ![c] = 0]
      /\ received' = [d \in Clients |-> IF d = c THEN r
                                        ELSE IF d \in replaced THEN <<>> ELSE received[d]]
      /\ openUntil' = [d \in Clients |-> IF d \in replaced \cup {c} THEN 0 ELSE openUntil[d]]
      /\ goneSince' = [goneSince EXCEPT ![c] = 0]
      /\ UNCHANGED <<now, backlog, emitted>>
  BY DEF Attach
<1>2. /\ r \in Seq(1 .. MaxEmitted)
      /\ \A i \in DOMAIN r : r[i] \in DOMAIN emitted
      /\ \A i, j \in DOMAIN r : i < j => r[i] < r[j]
  BY ResumedInOrder
<1> HIDE DEF r
<1>3. TypeOK'
  <2>1. <<>> \in Seq(1 .. MaxEmitted) /\ 0 \in 0 .. MaxEmitted /\ now \in Times
    BY Constants DEF IInv, TypeOK
  <2>2. received' \in [Clients -> Seq(1 .. MaxEmitted)]
    BY <1>1, <1>2, <2>1 DEF IInv, TypeOK
  <2>3. status' \in [Clients -> {"absent", "open", "closing", "away"}]
    BY <1>1 DEF IInv, TypeOK
  <2>4. lastSeen' \in [Clients -> Times \cup {0}] /\ disconnectedAt' \in [Clients -> Times \cup {0}]
    BY <1>1, <2>1 DEF IInv, TypeOK
  <2>5. openUntil' \in [Clients -> 0 .. MaxEmitted] /\ goneSince' \in [Clients -> 0 .. MaxEmitted]
    BY <1>1, <2>1 DEF IInv, TypeOK
  <2> QED
    BY <1>1, <2>2, <2>3, <2>4, <2>5 DEF IInv, TypeOK
<1>4. \A d \in Clients : status'[d] = "away" =>
         status[d] = "away" /\ disconnectedAt'[d] = disconnectedAt[d] /\ d # c
  BY <1>1 DEF IInv, TypeOK
<1>5. ClockFits' /\ QueueFits(backlog, emitted)' /\ AwayFits' /\ NothingKept' /\ NothingMissing'
  BY <1>1, <1>4, EventsFit
<1>6. ASSUME NEW d \in Clients
      PROVE  /\ \A i \in DOMAIN received'[d] :
                   /\ received'[d][i] \in DOMAIN emitted'
                   /\ status'[d] = "away" => emitted'[received'[d][i]] <= disconnectedAt'[d]
             /\ \A i, j \in DOMAIN received'[d] : i < j => received'[d][i] < received'[d][j]
  <2>1. CASE d = c
    <3>1. received'[d] = r /\ status'[d] # "away"
      BY <1>1, <2>1
    <3> QED
      BY <1>1, <1>2, <3>1
  <2>2. CASE d # c
    <3>1. received'[d] \in {received[d], <<>>}
      BY <1>1, <2>2
    <3> QED
      BY <1>1, <1>4, <3>1, StillReceived
  <2> QED
    BY <2>1, <2>2
<1>7. ReceivedFits' /\ InOrderOnce'
  BY <1>6 DEF ReceivedFits, InOrderOnce
<1> QED
  BY <1>3, <1>5, <1>7 DEF IInv

\* The trim takes what is older than the retention, and who misses that is gone.
LEMMA HeartbeatIInv == ASSUME IInv, Heartbeat PROVE IInv'
<1> DEFINE gone == {c \in Clients : status[c] = "away" /\ now - disconnectedAt[c] > Retention}
<1>1. /\ status' = [c \in Clients |-> IF c \in gone THEN "absent" ELSE status[c]]
      /\ disconnectedAt' = [c \in Clients |-> IF c \in gone THEN 0 ELSE disconnectedAt[c]]
      /\ goneSince' = [c \in Clients |-> IF c \in gone THEN 0 ELSE goneSince[c]]
      /\ Forget(gone) /\ Backlog!Trimmed(backlog, now - Retention, backlog')
      /\ UNCHANGED <<now, emitted>>
  BY DEF Heartbeat
<1> HIDE DEF gone
<1>2. now \in Int /\ \A c \in Clients : disconnectedAt[c] \in Int
  <2>1. \A c \in Clients : disconnectedAt[c] \in Times \cup {0}
    BY DEF IInv, TypeOK
  <2>2. Times \cup {0} \subseteq Int
    BY DEF Times
  <2>3. \A c \in Clients : disconnectedAt[c] \in Int
    BY <2>1, <2>2, Zenon
  <2> QED
    BY <2>3, Constants DEF IInv, TypeOK
<1>3. backlog \in Seq(Events) /\ Len(backlog) <= MaxEvents /\ emitted \in Seq(Times)
  BY DEF IInv, TypeOK
<1>4. now - Retention \in Int
  BY <1>2, Constants
<1>5. /\ QueueFits(backlog', emitted)
      /\ \A since \in Int : since >= now - Retention /\ QueueComplete(backlog, emitted, since)
                              => QueueComplete(backlog', emitted, since)
  BY <1>1, <1>3, <1>4, TrimFits DEF IInv
<1>6. backlog' \in Seq(Events) /\ Len(backlog') <= MaxEvents
  <2>1. backlog' \in Seq(Events) /\ Len(backlog') <= Len(backlog)
    BY <1>1, <1>3, TrimFacts
  <2>2. Len(backlog') \in Nat /\ Len(backlog) \in Nat
    BY <1>3, <2>1
  <2> QED
    BY <1>3, <2>1, <2>2, Constants
<1>7. TypeOK'
  <2>1. 0 \in 0 .. MaxEmitted
    BY Constants
  <2>2. /\ status' \in [Clients -> {"absent", "open", "closing", "away"}]
        /\ disconnectedAt' \in [Clients -> Times \cup {0}]
        /\ goneSince' \in [Clients -> 0 .. MaxEmitted]
    BY <1>1, <2>1 DEF IInv, TypeOK
  <2> QED
    BY <1>1, <1>6, <2>2, ForgetFits DEF IInv, TypeOK
<1>8. \A c \in Clients : status'[c] = "away" =>
         status[c] = "away" /\ disconnectedAt'[c] = disconnectedAt[c]
  BY <1>1
<1>9. ReceivedFits' /\ InOrderOnce'
  BY <1>1, <1>8, ForgetFits, StillReceived DEF ReceivedFits, InOrderOnce
<1>10. ClockFits' /\ AwayFits' /\ NothingKept'
  <2>1. ClockFits' /\ AwayFits'
    BY <1>1, <1>8 DEF IInv, ClockFits, AwayFits
  <2>2. NothingKept'
    <3> SUFFICES ASSUME Retention = 0 \/ MaxEvents = 0 PROVE backlog' = <<>>
      BY DEF NothingKept
    <3>1. backlog = <<>>
      BY DEF IInv, NothingKept
    <3>2. backlog' \in Seq(Events) /\ Len(backlog') <= Len(backlog)
      BY <1>1, <1>3, TrimFacts
    <3>3. Len(backlog') = 0
      BY <3>1, <3>2
    <3> QED
      BY <3>2, <3>3, EmptySeq
  <2> QED
    BY <2>1, <2>2
<1>11. NothingMissing'
  <2> SUFFICES ASSUME NEW c \in Clients, AwayRetained(c)'
               PROVE  QueueComplete(backlog', emitted', disconnectedAt'[c])
    BY DEF NothingMissing
  <2>1. AwayRetained(c) /\ disconnectedAt'[c] = disconnectedAt[c]
    BY <1>1, <1>8 DEF AwayRetained
  <2>2. disconnectedAt[c] >= now - Retention
    BY <1>2, <2>1, Constants DEF AwayRetained
  <2>3. QueueComplete(backlog, emitted, disconnectedAt[c])
    BY <2>1 DEF IInv, NothingMissing
  <2> QED
    BY <1>1, <1>2, <1>5, <2>1, <2>2, <2>3
<1> QED
  BY <1>1, <1>5, <1>7, <1>9, <1>10, <1>11 DEF IInv

\* Time passes: fewer of those that are away may still resume.
LEMMA TickIInv == ASSUME IInv, Tick PROVE IInv'
<1>1. /\ now < MaxTime /\ now' = now + 1
      /\ UNCHANGED <<status, lastSeen, disconnectedAt, backlog, received, emitted, openUntil, goneSince>>
  BY DEF Tick, clientVars, historyVars
<1>2. now \in Int /\ now + 1 \in Times /\ \A c \in Clients : disconnectedAt[c] \in Int
  <2>1. \A c \in Clients : disconnectedAt[c] \in Times \cup {0}
    BY DEF IInv, TypeOK
  <2>2. Times \cup {0} \subseteq Int
    BY DEF Times
  <2>3. \A c \in Clients : disconnectedAt[c] \in Int
    BY <2>1, <2>2, Zenon
  <2>4. now \in 1 .. MaxTime
    BY DEF IInv, TypeOK, Times
  <2>5. now + 1 \in 1 .. MaxTime
    BY <1>1, <2>4, Constants
  <2> QED
    BY <2>3, <2>4, <2>5 DEF Times
<1>3. TypeOK'
  BY <1>1, <1>2 DEF IInv, TypeOK
<1>4. ClockFits'
  <2>1. \A e \in DOMAIN emitted : emitted[e] <= now + 1
    BY <1>2, EventTimes
  <2> QED
    BY <1>1, <2>1 DEF IInv, ClockFits
<1>5. AwayFits'
  <2>1. \A c \in Clients : disconnectedAt[c] <= now => disconnectedAt[c] <= now + 1
    BY <1>2
  <2> QED
    BY <1>1, <2>1 DEF IInv, AwayFits
<1>6. NothingMissing'
  <2>2. ASSUME NEW c \in Clients, AwayRetained(c)' PROVE AwayRetained(c)
    <3>1. status[c] = "away" /\ now' - disconnectedAt'[c] <= Retention
      BY <1>1, <2>2 DEF AwayRetained
    <3>2. now' = now + 1 /\ disconnectedAt'[c] = disconnectedAt[c] /\ disconnectedAt[c] \in Int
      BY <1>1, <1>2
    <3>3. now - disconnectedAt[c] <= Retention
      BY <1>2, <3>1, <3>2, Constants
    <3> QED
      BY <3>1, <3>3 DEF AwayRetained
  <2> QED
    BY <1>1, <2>2 DEF IInv, NothingMissing
<1>7. ReceivedFits' /\ InOrderOnce' /\ QueueFits(backlog, emitted)' /\ NothingKept'
  BY <1>1 DEF IInv, ReceivedFits, InOrderOnce, NothingKept
<1> QED
  BY <1>3, <1>4, <1>5, <1>6, <1>7 DEF IInv

LEMMA UnchangedIInv == ASSUME IInv, UNCHANGED vars PROVE IInv'
<1>1. UNCHANGED <<now, status, lastSeen, disconnectedAt, backlog, received, emitted,
                  openUntil, goneSince>>
  BY DEF vars
<1>2. TypeOK'
  BY <1>1 DEF IInv, TypeOK
<1>3. ClockFits' /\ QueueFits(backlog, emitted)' /\ AwayFits' /\ NothingKept' /\ NothingMissing'
  BY <1>1, EventsFit
<1>4. ReceivedFits' /\ InOrderOnce'
  BY <1>1 DEF IInv, ReceivedFits, InOrderOnce
<1> QED
  BY <1>2, <1>3, <1>4 DEF IInv

LEMMA ResumeIInv ==
    ASSUME IInv, NEW c \in Clients,
           \/ ResumeByConnect(c) \/ ResumeSelf(c)
           \/ \E other \in Clients : ResumeOther(c, other)
    PROVE  IInv'
<1>1. CASE ResumeByConnect(c)
  BY <1>1, AttachIInv DEF ResumeByConnect
<1>2. CASE ResumeSelf(c)
  <2>1. status[c] # "absent" /\ status[c] \in {"open", "closing"} /\ Attach(c, status[c], {})
    BY <1>2 DEF ResumeSelf
  <2> QED
    BY <2>1, AttachIInv
<1>3. ASSUME NEW other \in Clients, ResumeOther(c, other) PROVE IInv'
  <2>1. /\ status[c] # "absent" /\ status[other] \in {"open", "closing"}
        /\ Attach(c, status[other], {other})
    BY <1>3 DEF ResumeOther
  <2> QED
    BY <2>1, AttachIInv
<1> QED
  BY <1>1, <1>2, <1>3

LEMMA NextIInv == IInv /\ [Next]_vars => IInv'
<1> SUFFICES ASSUME IInv, [Next]_vars PROVE IInv'
  OBVIOUS
<1>1. CASE Emit
  BY <1>1, EmitIInv
<1>2. ASSUME NEW c \in Clients, Connect(c) \/ Closing(c) \/ Closed(c) \/ Touch(c) PROVE IInv'
  BY <1>2, ConnectIInv, ClosingIInv, ClosedIInv, TouchIInv
<1>3. ASSUME NEW c \in Clients,
             \/ ResumeByConnect(c) \/ ResumeSelf(c)
             \/ \E other \in Clients : ResumeOther(c, other)
      PROVE  IInv'
  BY <1>3, ResumeIInv
<1>4. CASE Heartbeat
  BY <1>4, HeartbeatIInv
<1>5. CASE Tick
  BY <1>5, TickIInv
<1>6. CASE UNCHANGED vars
  BY <1>6, UnchangedIInv
<1> QED
  BY <1>1, <1>2, <1>3, <1>4, <1>5, <1>6 DEF Next

LEMMA AlwaysIInv == Spec => []IInv
BY InitIInv, NextIInv, PTL DEF Spec

-----------------------------------------------------------------------------
(* The theorems.                                                           *)

\* The types; the backlog never exceeds grpcRetentionMaxEvents.
THEOREM ReplayTypeCorrect == Spec => []TypeOK
<1>1. IInv => TypeOK
  BY DEF IInv
<1> QED
  BY <1>1, AlwaysIInv, PTL

\* A session gets every event at most once and in order, by broadcast or replay.
THEOREM AlwaysInOrderOnce == Spec => []InOrderOnce
<1>1. IInv => InOrderOnce
  BY DEF IInv
<1> QED
  BY <1>1, AlwaysIInv, PTL

\* Only a resume makes a session that is away connected.
LEMMA OnlyAttachResumes ==
    ASSUME IInv, [Next]_vars, NEW c \in Clients, ResumesInTime(c)
    PROVE  received'[c] = received[c] \o Replayed(c, "open")
<1>1. status[c] = "away" /\ status'[c] = "open" /\ status \in [Clients -> {"absent", "open", "closing", "away"}]
  BY DEF ResumesInTime, IInv, TypeOK
<1>2. CASE Emit \/ Tick \/ UNCHANGED vars
  BY <1>1, <1>2 DEF Emit, Tick, clientVars, vars
<1>3. CASE Heartbeat
  BY <1>1, <1>3 DEF Heartbeat
<1>4. ASSUME NEW d \in Clients, Connect(d) \/ Closing(d) \/ Closed(d) \/ Touch(d) PROVE FALSE
  BY <1>1, <1>4 DEF Connect, Closing, Closed, Touch
<1>5. ASSUME NEW d \in Clients, NEW socket, NEW replaced, Attach(d, socket, replaced)
      PROVE  d = c /\ socket = "open" /\ received'[c] = received[c] \o Replayed(c, "open")
  <2>1. d = c /\ socket = "open"
    BY <1>1, <1>5 DEF Attach
  <2> QED
    BY <1>5, <2>1 DEF Attach
<1>6. ASSUME NEW d \in Clients, ResumeByConnect(d) \/ ResumeSelf(d)
      PROVE  received'[c] = received[c] \o Replayed(c, "open")
  BY <1>5, <1>6 DEF ResumeByConnect, ResumeSelf
<1>7. ASSUME NEW d \in Clients, NEW other \in Clients, ResumeOther(d, other)
      PROVE  received'[c] = received[c] \o Replayed(c, "open")
  BY <1>5, <1>7 DEF ResumeOther
<1> QED
  BY <1>2, <1>3, <1>4, <1>6, <1>7, <1>1 DEF Next

\* The backlog holds nothing but the newest events.
LEMMA BacklogNewest ==
    ASSUME IInv, NEW i \in DOMAIN backlog
    PROVE  backlog[i].id \in DOMAIN emitted /\ Newest(backlog[i].id)
<1>1. /\ backlog[i].id \in DOMAIN emitted
      /\ backlog[i].id + (Len(backlog) - i) = Len(emitted)
  BY DEF IInv, QueueFits
<1>2. /\ i \in 1 .. Len(backlog) /\ Len(backlog) \in Nat /\ Len(backlog) <= MaxEvents
      /\ MaxEvents \in Nat /\ DOMAIN emitted = 1 .. Len(emitted) /\ Len(emitted) \in Nat
  BY Constants DEF IInv, TypeOK
<1> DEFINE n == backlog[i].id
<1>3. n \in Int /\ n + (Len(backlog) - i) = Len(emitted)
  BY <1>1, <1>2
<1> HIDE DEF n
<1>4. Len(emitted) - n < MaxEvents
  BY <1>2, <1>3
<1> QED
  BY <1>1, <1>4 DEF n, Newest

\* A client that resumes within the retention gets what it misses, up to the
\* capacity of the backlog, and nothing else.
THEOREM AlwaysResumeExact == Spec => ResumeExact
<1>1. ASSUME IInv, [Next]_vars
      PROVE  \A c \in Clients : ResumesInTime(c) =>
                Range(received'[c]) = Range(received[c]) \cup
                   {e \in DOMAIN emitted : emitted[e] > disconnectedAt[c] /\ Newest(e)}
  <2> SUFFICES ASSUME NEW c \in Clients, ResumesInTime(c)
               PROVE  Range(received'[c]) = Range(received[c]) \cup
                         {e \in DOMAIN emitted : emitted[e] > disconnectedAt[c] /\ Newest(e)}
    OBVIOUS
  <2> DEFINE s == Replayed(c, "open")
  <2>1. status[c] # "absent" /\ ResumeFrom(c) = disconnectedAt[c] /\ AwayRetained(c)
    BY DEF ResumesInTime, ResumeFrom, AwayRetained
  <2>2. received'[c] = received[c] \o s
    BY <1>1, OnlyAttachResumes
  <2>3. Range(received'[c]) = Range(received[c]) \cup Range(s)
    BY <1>1, <2>1, <2>2, ResumedInOrder
  <2>4. ASSUME NEW e \in DOMAIN emitted, emitted[e] > disconnectedAt[c], Newest(e)
        PROVE  e \in Range(s)
    <3>1. PICK i \in DOMAIN backlog : backlog[i].id = e
      BY <1>1, <2>1, <2>4 DEF IInv, NothingMissing, QueueComplete, Newest
    <3>2. \E k \in DOMAIN s : s[k] = e
      BY <1>1, <2>1, <2>4, <3>1, ReplayedFits
    <3> QED
      BY <3>2 DEF Range
  <2>5. ASSUME NEW k \in DOMAIN s
        PROVE  s[k] \in DOMAIN emitted /\ emitted[s[k]] > disconnectedAt[c] /\ Newest(s[k])
    <3>1. emitted[s[k]] > ResumeFrom(c) /\ \E i \in DOMAIN backlog : s[k] = backlog[i].id
      BY <1>1, <2>1, ReplayedFits
    <3> QED
      BY <1>1, <2>1, <3>1, BacklogNewest
  <2> HIDE DEF s
  <2>6. Range(s) = {e \in DOMAIN emitted : emitted[e] > disconnectedAt[c] /\ Newest(e)}
    BY <2>4, <2>5 DEF Range
  <2> QED
    BY <2>3, <2>6
<1>2. IInv /\ [Next]_vars =>
         [\A c \in Clients : ResumesInTime(c) =>
             Range(received'[c]) = Range(received[c]) \cup
                {e \in DOMAIN emitted : emitted[e] > disconnectedAt[c] /\ Newest(e)}]_vars
  BY <1>1
<1> QED
  BY <1>2, AlwaysIInv, PTL DEF Spec, ResumeExact
=============================================================================
