-------------------------- MODULE RingBufferProofs --------------------------
(***************************************************************************)
(* RingBuffer implements BoundedQueue, for every capacity and every set of *)
(* items: the proof that the modular arithmetic is right.                  *)
(***************************************************************************)
EXTENDS RingBuffer, SequenceTheorems, TLAPS

\* The remainder of a sum that wraps at most once.
LEMMA ModOnce ==
    ASSUME NEW C \in Nat \ {0}, NEW h \in 0 .. (C - 1), NEW i \in 0 .. C
    PROVE  (h + i) % C = IF h + i < C THEN h + i ELSE h + i - C
<1>1. CASE h + i < C
  BY <1>1, SMT
<1>2. CASE h + i >= C
  BY <1>2, SMT
<1> QED
  BY <1>1, <1>2

\* Where the items are: a slot of the array for each place, no two the same.
LEMMA SlotPlaces ==
    ASSUME TypeOK, Capacity # 0
    PROVE  /\ \A i \in 0 .. Capacity :
                 /\ Slot(i) = IF head + i < Capacity THEN head + i ELSE head + i - Capacity
                 /\ Slot(i) \in Slots
           /\ \A i, j \in 0 .. (Capacity - 1) : Slot(i) = Slot(j) => i = j
           /\ Slot(0) = head
<1>1. /\ Capacity \in Nat \ {0} /\ head \in 0 .. (Capacity - 1)
  BY CapacityAssumption DEF TypeOK, Slots
<1>2. ASSUME NEW i \in 0 .. Capacity
      PROVE  Slot(i) = IF head + i < Capacity THEN head + i ELSE head + i - Capacity
  BY <1>1, ModOnce DEF Slot
<1>3. ASSUME NEW i \in 0 .. Capacity PROVE Slot(i) \in Slots
  BY <1>1, <1>2 DEF Slots
<1>4. ASSUME NEW i \in 0 .. (Capacity - 1), NEW j \in 0 .. (Capacity - 1),
             Slot(i) = Slot(j)
      PROVE  i = j
  BY <1>1, <1>2, <1>4
<1>5. Slot(0) = head
  BY <1>1, <1>2
<1> QED
  BY <1>2, <1>3, <1>4, <1>5

\* Moving head by k moves every place by k.
LEMMA SlotShift ==
    ASSUME TypeOK, Capacity # 0, NEW k \in 0 .. Capacity, NEW i \in 0 .. (Capacity - k)
    PROVE  (Slot(k) + i) % Capacity = Slot(k + i)
<1>1. /\ Capacity \in Nat \ {0} /\ head \in 0 .. (Capacity - 1)
      /\ k + i \in 0 .. Capacity /\ i \in 0 .. Capacity
  BY CapacityAssumption DEF TypeOK, Slots
<1>2. /\ Slot(k) = IF head + k < Capacity THEN head + k ELSE head + k - Capacity
      /\ Slot(k + i) = IF head + (k + i) < Capacity THEN head + (k + i)
                       ELSE head + (k + i) - Capacity
      /\ Slot(k) \in 0 .. (Capacity - 1)
  BY <1>1, SlotPlaces DEF Slots
<1>3. (Slot(k) + i) % Capacity = IF Slot(k) + i < Capacity THEN Slot(k) + i
                                 ELSE Slot(k) + i - Capacity
  BY <1>1, <1>2, ModOnce
<1> QED
  BY <1>1, <1>2, <1>3

Inv == TypeOK /\ LiveSlots

\* Contents is a sequence of items, as long as size says.
ContentsGood ==
    /\ Contents \in Seq(Items) /\ Len(Contents) = size /\ size \in Nat
    /\ \A i \in 1 .. size : Contents[i] = buffer[Slot(i - 1)]

\* In every state of the invariant.
LEMMA ContentsSeq == Inv => ContentsGood
<1> SUFFICES ASSUME Inv PROVE ContentsGood
  OBVIOUS
<1>1. size \in 0 .. Capacity /\ size \in Nat
  BY CapacityAssumption DEF Inv, TypeOK
<1>2. ASSUME NEW i \in 1 .. size PROVE buffer[Slot(i - 1)] \in Items
  <2>1. Capacity # 0 /\ i - 1 \in 0 .. (size - 1) /\ i - 1 \in 0 .. Capacity
    BY <1>1, CapacityAssumption
  <2>2. Slot(i - 1) \in Slots
    BY <2>1, SlotPlaces DEF Inv
  <2> QED
    BY <2>1, <2>2 DEF Inv, LiveSlots, TypeOK
<1>3. Contents \in [1 .. size -> Items]
  BY <1>2 DEF Contents
<1> QED
  BY <1>1, <1>3, LenProperties DEF Contents, ContentsGood

\* The initial state.
LEMMA InitInv == Init => Inv
<1> SUFFICES ASSUME Init PROVE Inv
  OBVIOUS
<1>1. TypeOK
  BY CapacityAssumption DEF Init, TypeOK, Slots
<1>2. LiveSlots
  BY <1>1 DEF Init, LiveSlots
<1> QED
  BY <1>1, <1>2 DEF Inv

-----------------------------------------------------------------------------
(* push.                                                                   *)

\* A push to a buffer that has room appends; the invariant survives.
LEMMA PushRoom ==
    ASSUME Inv, NEW x \in Items, Push(x), Capacity # 0, size < Capacity
    PROVE  Inv' /\ Contents' = Append(Contents, x)
<1>1. /\ buffer' = [buffer EXCEPT ![Slot(size)] = x]
      /\ size' = size + 1 /\ head' = head
  BY DEF Push
<1>2. size \in 0 .. (Capacity - 1) /\ Capacity \in Nat
  BY CapacityAssumption DEF Inv, TypeOK
<1>3. /\ Slot(size) \in Slots
      /\ \A i \in 0 .. (Capacity - 1) : Slot(i) \in Slots
      /\ \A i, j \in 0 .. (Capacity - 1) : Slot(i) = Slot(j) => i = j
  BY <1>2, SlotPlaces DEF Inv
<1>4. \A i : Slot(i)' = Slot(i)
  BY <1>1 DEF Slot
<1>5. TypeOK'
  BY <1>1, <1>2, <1>3 DEF Inv, TypeOK, Slots
<1>6. LiveSlots'
  <2>1. ASSUME NEW s \in Slots
        PROVE  buffer'[s] # Undefined <=> \E i \in 0 .. (size' - 1) : s = Slot(i)
    <3>1. CASE s = Slot(size)
      <4>1. buffer'[s] = x /\ x # Undefined
        BY <1>1, <1>3, <3>1, UndefinedAssumption DEF Inv, TypeOK
      <4>2. size \in 0 .. (size' - 1)
        BY <1>1, <1>2
      <4> QED
        BY <3>1, <4>1, <4>2
    <3>2. CASE s # Slot(size)
      <4>1. buffer'[s] = buffer[s]
        BY <1>1, <3>2 DEF Inv, TypeOK
      <4>2. (\E i \in 0 .. (size' - 1) : s = Slot(i)) <=> (\E i \in 0 .. (size - 1) : s = Slot(i))
        BY <1>1, <1>2, <3>2
      <4> QED
        BY <4>1, <4>2 DEF Inv, LiveSlots
    <3> QED
      BY <3>1, <3>2
  <2> QED
    BY <1>4, <2>1 DEF LiveSlots
<1>7. Inv'
  BY <1>5, <1>6 DEF Inv
<1>8. /\ Contents \in Seq(Items) /\ Len(Contents) = size
      /\ \A i \in 1 .. size : Contents[i] = buffer[Slot(i - 1)]
  BY ContentsSeq DEF ContentsGood
<1>9. /\ Contents' \in Seq(Items) /\ Len(Contents') = size + 1
      /\ \A i \in 1 .. (size + 1) : Contents'[i] = buffer'[Slot(i - 1)]
  <2>1. ContentsGood'
    BY <1>7, ContentsSeq, PTL
  <2> QED
    BY <1>1, <1>4, <2>1 DEF ContentsGood
<1>10. ASSUME NEW i \in 1 .. (size + 1) PROVE Contents'[i] = Append(Contents, x)[i]
  <2>1. CASE i = size + 1
    <3>1. Contents'[i] = x
      BY <1>1, <1>2, <1>3, <1>9, <2>1 DEF Inv, TypeOK
    <3> QED
      BY <1>8, <2>1, <3>1, AppendProperties
  <2>2. CASE i # size + 1
    <3>1. i \in 1 .. size /\ i - 1 \in 0 .. (Capacity - 1) /\ i - 1 # size
      BY <1>2, <2>2
    <3>2. buffer'[Slot(i - 1)] = buffer[Slot(i - 1)]
      BY <1>1, <1>2, <1>3, <3>1 DEF Inv, TypeOK
    <3> QED
      BY <1>8, <1>9, <3>1, <3>2, AppendProperties
  <2> QED
    BY <2>1, <2>2
<1>11. Append(Contents, x) \in Seq(Items) /\ Len(Append(Contents, x)) = size + 1
  BY <1>8, AppendProperties
<1> QED
  BY <1>7, <1>9, <1>10, <1>11, SeqEqual

\* A push to a full buffer drops the oldest item; the invariant survives.
LEMMA PushFull ==
    ASSUME Inv, NEW x \in Items, Push(x), Capacity # 0, ~(size < Capacity)
    PROVE  Inv' /\ Contents' = Append(Tail(Contents), x)
<1>1. /\ buffer' = [buffer EXCEPT ![head] = x]
      /\ size' = size /\ head' = Slot(1)
  BY DEF Push, OverwriteOldest
<1>2. size = Capacity /\ Capacity \in Nat \ {0} /\ head \in Slots
  BY CapacityAssumption DEF Inv, TypeOK, Slots
<1>3. /\ \A i \in 0 .. Capacity : Slot(i) \in Slots
      /\ \A i, j \in 0 .. (Capacity - 1) : Slot(i) = Slot(j) => i = j
      /\ Slot(0) = head
  BY <1>2, SlotPlaces DEF Inv
<1>4. \A i \in 0 .. (Capacity - 1) : (head' + i) % Capacity = Slot(i + 1)
  BY <1>1, <1>2, SlotShift DEF Inv
<1>5. Slot(Capacity) = head
  BY <1>2, SlotPlaces DEF Inv, Slots
<1>6. TypeOK'
  BY <1>1, <1>2, <1>3 DEF Inv, TypeOK, Slots
<1>7. LiveSlots'
  <2>1. ASSUME NEW s \in Slots
        PROVE  buffer'[s] # Undefined /\ \E i \in 0 .. (size' - 1) : s = (head' + i) % Capacity
    <3>1. buffer[s] # Undefined <=> \E i \in 0 .. (size - 1) : s = Slot(i)
      BY DEF Inv, LiveSlots
    <3>2. \E i \in 0 .. (Capacity - 1) : s = Slot(i)
      <4>1. /\ \A i \in 0 .. Capacity :
                  Slot(i) = IF head + i < Capacity THEN head + i ELSE head + i - Capacity
            /\ head \in 0 .. (Capacity - 1) /\ s \in 0 .. (Capacity - 1)
        BY <1>2, SlotPlaces DEF Inv, Slots
      <4>2. CASE s >= head
        <5>1. s - head \in 0 .. (Capacity - 1) /\ Slot(s - head) = s
          BY <1>2, <4>1, <4>2
        <5> QED
          BY <5>1
      <4>3. CASE s < head
        <5>1. s + Capacity - head \in 0 .. (Capacity - 1) /\ Slot(s + Capacity - head) = s
          BY <1>2, <4>1, <4>3
        <5> QED
          BY <5>1
      <4> QED
        BY <4>1, <4>2, <4>3
    <3>3. buffer'[s] # Undefined
      BY <1>1, <1>2, <3>1, <3>2, UndefinedAssumption DEF Inv, TypeOK
    <3>4. PICK i \in 0 .. (Capacity - 1) : s = Slot(i)
      BY <3>2
    <3>5. CASE i = 0
      <4>1. Capacity - 1 \in 0 .. (size' - 1) /\ (head' + (Capacity - 1)) % Capacity = s
        BY <1>1, <1>2, <1>3, <1>4, <1>5, <3>4, <3>5
      <4> QED
        BY <3>3, <4>1
    <3>6. CASE i # 0
      <4>1. i - 1 \in 0 .. (size' - 1) /\ (head' + (i - 1)) % Capacity = s
        BY <1>1, <1>2, <1>4, <3>4, <3>6
      <4> QED
        BY <3>3, <4>1
    <3> QED
      BY <3>5, <3>6
  <2> QED
    BY <2>1 DEF LiveSlots, Slot
<1>8. Inv'
  BY <1>6, <1>7 DEF Inv
<1>9. /\ Contents \in Seq(Items) /\ Len(Contents) = size
      /\ \A i \in 1 .. size : Contents[i] = buffer[Slot(i - 1)]
  BY ContentsSeq DEF ContentsGood
<1>10. /\ Contents' \in Seq(Items) /\ Len(Contents') = size
       /\ \A i \in 1 .. size : Contents'[i] = buffer'[Slot(i)]
  <2>1. ContentsGood'
    BY <1>8, ContentsSeq, PTL
  <2>2. \A i \in 1 .. size : (head' + (i - 1)) % Capacity = Slot(i)
    BY <1>2, <1>4
  <2> QED
    BY <1>1, <2>1, <2>2 DEF ContentsGood, Slot
<1>11. /\ Tail(Contents) \in Seq(Items) /\ Len(Tail(Contents)) = size - 1
       /\ \A i \in 1 .. (size - 1) : Tail(Contents)[i] = Contents[i + 1]
  BY <1>2, <1>9, HeadTailProperties, EmptySeq
<1>12. /\ Append(Tail(Contents), x) \in Seq(Items)
       /\ Len(Append(Tail(Contents), x)) = size
       /\ \A i \in 1 .. (size - 1) : Append(Tail(Contents), x)[i] = Contents[i + 1]
       /\ Append(Tail(Contents), x)[size] = x
  BY <1>2, <1>11, AppendProperties
<1>13. ASSUME NEW i \in 1 .. size PROVE Contents'[i] = Append(Tail(Contents), x)[i]
  <2>1. CASE i = size
    <3>1. Contents'[i] = x
      BY <1>1, <1>2, <1>5, <1>10, <2>1 DEF Inv, TypeOK
    <3> QED
      BY <1>12, <2>1, <3>1
  <2>2. CASE i # size
    <3>1. i \in 1 .. (size - 1) /\ i \in 0 .. (Capacity - 1) /\ i + 1 \in 1 .. size
      BY <1>2, <2>2
    <3>2. Slot(i) # head /\ Slot(i) \in Slots
      BY <1>2, <1>3, <3>1
    <3>3. buffer'[Slot(i)] = buffer[Slot(i)]
      BY <1>1, <3>2 DEF Inv, TypeOK
    <3>4. Contents[i + 1] = buffer[Slot(i)]
      BY <1>9, <3>1
    <3> QED
      BY <1>10, <1>12, <3>1, <3>3, <3>4
  <2> QED
    BY <2>1, <2>2
<1> QED
  BY <1>8, <1>10, <1>12, <1>13, SeqEqual

-----------------------------------------------------------------------------
(* trimBefore and clear.                                                   *)

\* Trimming drops what Trimmed says from the front; the invariant survives.
LEMMA TrimQueue ==
    ASSUME Inv, NEW cutoff \in Cutoffs, TrimBefore(cutoff), Capacity # 0
    PROVE  Inv' /\ Queue!Trimmed(Contents, cutoff, Contents')
<1>1. PICK k \in 0 .. size :
        /\ \A i \in 0 .. (k - 1) : buffer[Slot(i)] # Undefined /\ buffer[Slot(i)].ts < cutoff
        /\ k < size => buffer[Slot(k)] = Undefined \/ buffer[Slot(k)].ts >= cutoff
        /\ buffer' = [s \in Slots |-> IF \E i \in 0 .. (k - 1) : s = Slot(i)
                                      THEN Undefined ELSE buffer[s]]
        /\ head' = IF k = 0 THEN head ELSE Slot(k)
        /\ size' = size - k
  BY DEF TrimBefore
<1>2. /\ Capacity \in Nat \ {0} /\ size \in 0 .. Capacity /\ size' \in 0 .. Capacity
      /\ head \in Slots /\ k \in 0 .. Capacity
  BY <1>1, CapacityAssumption DEF Inv, TypeOK, Slots
<1>3. /\ \A i \in 0 .. Capacity : Slot(i) \in Slots
      /\ \A i, j \in 0 .. (Capacity - 1) : Slot(i) = Slot(j) => i = j
      /\ Slot(0) = head
  BY <1>2, SlotPlaces DEF Inv
<1>4. head' = Slot(k)
  BY <1>1, <1>3
<1>5. \A i \in 0 .. (size' - 1) : (head' + i) % Capacity = Slot(k + i)
  <2>1. \A i \in 0 .. (Capacity - k) : (Slot(k) + i) % Capacity = Slot(k + i)
    BY <1>2, SlotShift DEF Inv
  <2>2. \A i \in 0 .. (size' - 1) : i \in 0 .. (Capacity - k)
    BY <1>1, <1>2
  <2> QED
    BY <1>4, <2>1, <2>2
<1>6. TypeOK'
  <2>1. buffer' \in [Slots -> Items \cup {Undefined}]
    BY <1>1 DEF Inv, TypeOK
  <2>2. head' \in Slots
    BY <1>2, <1>3, <1>4
  <2> QED
    BY <1>2, <2>1, <2>2 DEF TypeOK
<1>7. LiveSlots'
  <2>1. ASSUME NEW s \in Slots
        PROVE  buffer'[s] # Undefined <=> \E i \in 0 .. (size' - 1) : s = (head' + i) % Capacity
    <3>1. buffer[s] # Undefined <=> \E j \in 0 .. (size - 1) : s = Slot(j)
      BY DEF Inv, LiveSlots
    <3>2. ASSUME buffer'[s] # Undefined
          PROVE  \E i \in 0 .. (size' - 1) : s = (head' + i) % Capacity
      <4>1. buffer[s] # Undefined /\ ~ \E i \in 0 .. (k - 1) : s = Slot(i)
        BY <1>1, <3>2
      <4>2. PICK j \in 0 .. (size - 1) : s = Slot(j)
        BY <3>1, <4>1
      <4>3. j - k \in 0 .. (size' - 1) /\ k + (j - k) = j
        BY <1>1, <1>2, <4>1, <4>2
      <4> QED
        BY <1>5, <4>2, <4>3
    <3>3. ASSUME NEW i \in 0 .. (size' - 1), s = (head' + i) % Capacity
          PROVE  buffer'[s] # Undefined
      <4>1. s = Slot(k + i) /\ k + i \in 0 .. (size - 1) /\ k + i \in 0 .. (Capacity - 1)
        BY <1>1, <1>2, <1>5, <3>3
      <4>2. ~ \E j \in 0 .. (k - 1) : s = Slot(j)
        <5>1. ASSUME NEW j \in 0 .. (k - 1), s = Slot(j) PROVE FALSE
          <6>1. j \in 0 .. (Capacity - 1) /\ j # k + i
            BY <1>1, <1>2, <3>3
          <6> QED
            BY <1>3, <4>1, <5>1, <6>1
        <5> QED
          BY <5>1
      <4> QED
        BY <1>1, <3>1, <4>1, <4>2
    <3> QED
      BY <3>2, <3>3
  <2> QED
    BY <2>1 DEF LiveSlots, Slot
<1>8. Inv'
  BY <1>6, <1>7 DEF Inv
<1>9. /\ Contents \in Seq(Items) /\ Len(Contents) = size
      /\ \A i \in 1 .. size : Contents[i] = buffer[Slot(i - 1)]
  BY ContentsSeq DEF ContentsGood
<1>10. /\ Contents' \in Seq(Items) /\ Len(Contents') = size - k
       /\ \A i \in 1 .. (size - k) : Contents'[i] = buffer[Slot(k + i - 1)]
  <2>1. ContentsGood'
    BY <1>8, ContentsSeq, PTL
  <2>2. ASSUME NEW i \in 1 .. (size - k) PROVE Contents'[i] = buffer[Slot(k + i - 1)]
    <3>1. i - 1 \in 0 .. (size' - 1) /\ k + (i - 1) = k + i - 1
      BY <1>1, <1>2
    <3>2. (head' + (i - 1)) % Capacity = Slot(k + i - 1)
      BY <1>5, <3>1
    <3>3. Contents'[i] = buffer'[Slot(k + i - 1)]
      BY <1>1, <2>1, <3>2 DEF ContentsGood, Slot
    <3>4. k + i - 1 \in 0 .. (size - 1)
      BY <1>1, <1>2
    <3>5. Slot(k + i - 1) \in Slots /\ ~ \E j \in 0 .. (k - 1) : Slot(k + i - 1) = Slot(j)
      BY <1>1, <1>2, <1>3, <3>4
    <3> QED
      BY <1>1, <3>3, <3>5
  <2> QED
    BY <1>1, <2>1, <2>2 DEF ContentsGood
<1>11. /\ SubSeq(Contents, k + 1, size) \in Seq(Items)
       /\ Len(SubSeq(Contents, k + 1, size)) = size - k
       /\ \A i \in 1 .. (size - k) : SubSeq(Contents, k + 1, size)[i] = Contents[k + i]
  <2>1. \A i \in (k + 1) .. size : Contents[i] \in Items
    <3>1. ASSUME NEW i \in (k + 1) .. size PROVE Contents[i] \in Items
      <4>1. i \in 1 .. Len(Contents)
        BY <1>1, <1>2, <1>9
      <4> QED
        BY <1>9, <4>1, ElementOfSeq
    <3> QED
      BY <3>1
  <2>2. /\ SubSeq(Contents, k + 1, size) \in Seq(Items)
        /\ Len(SubSeq(Contents, k + 1, size)) =
              IF k + 1 <= size THEN size - (k + 1) + 1 ELSE 0
        /\ \A i \in 1 .. (size - (k + 1) + 1) :
              SubSeq(Contents, k + 1, size)[i] = Contents[k + 1 + i - 1]
    BY <1>1, <1>2, <2>1, SubSeqProperties
  <2> QED
    BY <1>1, <1>2, <2>2
<1>12. Contents' = SubSeq(Contents, k + 1, size)
  <2>1. ASSUME NEW i \in 1 .. (size - k)
        PROVE  Contents'[i] = SubSeq(Contents, k + 1, size)[i]
    <3>1. k + i \in 1 .. size
      BY <1>1, <1>2
    <3>2. Contents[k + i] = buffer[Slot(k + i - 1)]
      BY <1>9, <3>1
    <3> QED
      BY <1>10, <1>11, <3>2
  <2> QED
    BY <1>10, <1>11, <2>1, SeqEqual
<1>13. \A i \in 1 .. k : Contents[i].ts < cutoff
  <2>1. \A i \in 1 .. k : i \in 1 .. size /\ i - 1 \in 0 .. (k - 1)
    BY <1>1, <1>2
  <2> QED
    BY <1>1, <1>9, <2>1
<1>14. k < size => Contents[k + 1].ts >= cutoff
  <2>1. ASSUME k < size PROVE Contents[k + 1].ts >= cutoff
    <3>1. k + 1 \in 1 .. size /\ k + 1 - 1 = k /\ k \in 0 .. (size - 1)
      BY <1>1, <1>2, <2>1
    <3>2. buffer[Slot(k)] # Undefined
      BY <1>2, <1>3, <3>1 DEF Inv, LiveSlots
    <3> QED
      BY <1>1, <1>9, <2>1, <3>1, <3>2
  <2> QED
    BY <2>1
<1> QED
  BY <1>1, <1>8, <1>9, <1>12, <1>13, <1>14 DEF Queue!Trimmed

\* An empty buffer holds the empty queue.
LEMMA EmptyContents == Inv /\ size = 0 => Contents = <<>>
BY ContentsSeq, EmptySeq DEF ContentsGood

\* Clearing empties the queue; the invariant survives.
LEMMA ClearQueue ==
    ASSUME Inv, Clear, Capacity # 0
    PROVE  Inv' /\ Contents' = <<>>
<1>1. buffer' = [s \in Slots |-> Undefined] /\ head' = 0 /\ size' = 0
  BY DEF Clear
<1>2. TypeOK'
  BY <1>1, CapacityAssumption DEF TypeOK
<1>3. LiveSlots'
  BY <1>1 DEF LiveSlots
<1>4. Inv'
  BY <1>2, <1>3 DEF Inv
<1>5. (Inv => ContentsGood)'
  BY ContentsSeq, PTL
<1> QED
  BY <1>1, <1>4, <1>5, EmptySeq DEF ContentsGood

\* A buffer of no capacity stays as it is.
LEMMA NoCapacity ==
    ASSUME Inv, Next, Capacity = 0
    PROVE  UNCHANGED vars
<1>1. size = 0 /\ buffer \in [{} -> Items \cup {Undefined}] /\ Slots = {}
  BY DEF Inv, TypeOK, Slots
<1>2. ASSUME NEW cutoff \in Cutoffs, TrimBefore(cutoff) PROVE UNCHANGED vars
  <2>1. PICK k \in 0 .. size :
          /\ buffer' = [s \in Slots |-> IF \E i \in 0 .. (k - 1) : s = Slot(i)
                                        THEN Undefined ELSE buffer[s]]
          /\ head' = IF k = 0 THEN head ELSE Slot(k)
          /\ size' = size - k
    BY <1>2 DEF TrimBefore
  <2>2. k = 0
    BY <1>1
  <2>3. buffer' = buffer
    BY <1>1, <2>1
  <2> QED
    BY <1>1, <2>1, <2>2, <2>3 DEF vars
<1> QED
  BY <1>2 DEF Next, Push, Clear, vars

-----------------------------------------------------------------------------
(* The refinement.                                                         *)

\* Every step keeps the invariant and is a step of the queue.
LEMMA NextQueue == Inv /\ [Next]_vars => Inv' /\ [Queue!Next]_Contents
<1> SUFFICES ASSUME Inv, [Next]_vars PROVE Inv' /\ [Queue!Next]_Contents
  OBVIOUS
<1>1. ASSUME UNCHANGED vars PROVE Inv' /\ Contents' = Contents
  BY <1>1 DEF vars, Inv, TypeOK, LiveSlots, Contents, Slot
<1>2. CASE Next /\ Capacity = 0
  BY <1>1, <1>2, NoCapacity
<1>3. ASSUME NEW x \in Items, Push(x), Capacity # 0
      PROVE  Inv' /\ Queue!Push(x)
  <2>1. Len(Contents) = size
    BY ContentsSeq DEF ContentsGood
  <2>2. CASE size < Capacity
    BY <1>3, <2>1, <2>2, PushRoom DEF Queue!Push, Queue!Pushed
  <2>3. CASE ~(size < Capacity)
    BY <1>3, <2>1, <2>3, PushFull DEF Queue!Push, Queue!Pushed
  <2> QED
    BY <2>2, <2>3
<1>4. ASSUME NEW cutoff \in Cutoffs, TrimBefore(cutoff), Capacity # 0
      PROVE  Inv' /\ Queue!TrimBefore(cutoff)
  BY <1>4, TrimQueue DEF Queue!TrimBefore
<1>5. ASSUME Clear, Capacity # 0 PROVE Inv' /\ Queue!Clear
  BY <1>5, ClearQueue DEF Queue!Clear
<1> QED
  BY <1>1, <1>2, <1>3, <1>4, <1>5 DEF Next, Queue!Next

\* The array slots in use are exactly those the size and head name, each with
\* an item, for any capacity.
THEOREM SlotsAlwaysLive == Spec => []LiveSlots
<1>1. Inv => LiveSlots
  BY DEF Inv
<1> QED
  BY <1>1, InitInv, NextQueue, PTL DEF Spec

\* Type correctness of the ring buffer.
THEOREM RingTypeCorrect == Spec => []TypeOK
<1>1. Inv => TypeOK
  BY DEF Inv
<1> QED
  BY <1>1, InitInv, NextQueue, PTL DEF Spec

\* The ring buffer is a bounded queue: what forEach visits evolves as
\* BoundedQueue says, for any capacity, items and cutoffs.
THEOREM RingBufferIsQueue == Spec => ImplementsQueue
<1>1. Init => Queue!Init
  <2>1. Init => Inv /\ size = 0
    BY InitInv DEF Init
  <2> QED
    BY <2>1, EmptyContents DEF Queue!Init
<1> QED
  BY <1>1, InitInv, NextQueue, PTL DEF Spec, ImplementsQueue, Queue!Spec
=============================================================================
