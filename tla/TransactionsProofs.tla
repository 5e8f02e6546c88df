-------------------------- MODULE TransactionsProofs --------------------------
(***************************************************************************)
(* Proofs about Transactions, for any transactions, watchlists and answers *)
(* of the node and any size of the cache: the cache is a map in the order  *)
(* of use that never exceeds its size, the lookups of a transformation     *)
(* never change once they are settled, so its transfers agree, and what a  *)
(* transaction says itself is still cached when its transfers are built.   *)
(***************************************************************************)
EXTENDS Transactions, SequenceTheorems, FiniteSetTheorems, TLAPS

-----------------------------------------------------------------------------
(* Loops: a function that takes n steps from a base exists.                *)

\* Induction by the least number for which the claim fails.
LEMMA SetInduction ==
    ASSUME NEW G, 0 \in G, \A n \in Nat : n \in G => n + 1 \in G
    PROVE  Nat \subseteq G
<1> DEFINE T == Nat \ G
           R == {r \in Nat \X Nat : r[1] < r[2]}
<1>1. SUFFICES ASSUME T # {} PROVE FALSE
  OBVIOUS
<1>2. R = OpToRel(<, Nat)
  BY DEF OpToRel
<1>3. IsWellFoundedOn(R, Nat) /\ T \subseteq Nat
  BY <1>2, NatLessThanWellFounded
<1>4. \A m, n \in Nat : n < m => <<n, m>> \in R
  OBVIOUS
<1> HIDE DEF R
<1>5. PICK m \in T : \A n \in T : ~(<<n, m>> \in R)
  BY <1>1, <1>3, WFMin
<1>6. m \in Nat \ {0} /\ m - 1 \in Nat /\ m - 1 < m /\ (m - 1) + 1 = m
  OBVIOUS
<1>7. m - 1 \in G
  BY <1>4, <1>5, <1>6
<1> QED
  BY <1>6, <1>7

IsLoop(f, n, base, step) == f[0] = base /\ \A i \in 1 .. n : f[i] = step[i][f[i - 1]]

LEMMA LoopExists ==
    ASSUME NEW S, NEW n \in Nat, NEW base \in S, NEW step \in [1 .. n -> [S -> S]]
    PROVE  \E f \in [0 .. n -> S] : IsLoop(f, n, base, step)
<1> DEFINE G == {k \in Nat : k <= n => \E f \in [0 .. k -> S] : IsLoop(f, k, base, step)}
<1>1. 0 \in G
  <2> DEFINE first == [i \in 0 .. 0 |-> base]
  <2>1. first \in [0 .. 0 -> S] /\ IsLoop(first, 0, base, step)
    BY DEF IsLoop
  <2> QED
    BY <2>1
<1>2. ASSUME NEW k \in Nat, k \in G PROVE k + 1 \in G
  <2> SUFFICES ASSUME k + 1 <= n
               PROVE  \E f \in [0 .. k + 1 -> S] : IsLoop(f, k + 1, base, step)
    OBVIOUS
  <2>1. PICK f \in [0 .. k -> S] : IsLoop(f, k, base, step)
    BY <1>2
  <2> DEFINE more == [i \in 0 .. k + 1 |-> IF i = k + 1 THEN step[k + 1][f[k]] ELSE f[i]]
  <2>2. step[k + 1][f[k]] \in S
    <3>1. k + 1 \in 1 .. n /\ f[k] \in S
      OBVIOUS
    <3>2. step[k + 1] \in [S -> S]
      BY <3>1
    <3> QED
      BY <3>1, <3>2
  <2>3. more \in [0 .. k + 1 -> S]
    BY <2>2
  <2>4. \A i \in 0 .. k : more[i] = f[i]
    OBVIOUS
  <2>5. more[k + 1] = step[k + 1][more[k]] /\ (k + 1) - 1 = k
    BY <2>4
  <2> HIDE DEF more
  <2>6. ASSUME NEW i \in 1 .. k PROVE more[i] = step[i][more[i - 1]]
    <3>1. i \in 0 .. k /\ i - 1 \in 0 .. k
      OBVIOUS
    <3>2. more[i] = f[i] /\ more[i - 1] = f[i - 1]
      BY <2>4, <3>1
    <3> QED
      BY <2>1, <3>2 DEF IsLoop
  <2>7. more[0] = base
    BY <2>1, <2>4 DEF IsLoop
  <2>8. \A i \in 1 .. k + 1 : i \in 1 .. k \/ i = k + 1
    OBVIOUS
  <2>9. IsLoop(more, k + 1, base, step)
    BY <2>5, <2>6, <2>7, <2>8 DEF IsLoop
  <2> QED
    BY <2>3, <2>9
<1> HIDE DEF G
<1>3. Nat \subseteq G
  BY <1>1, <1>2, SetInduction
<1>4. n \in G /\ n <= n
  BY <1>3
<1> QED
  BY <1>4 DEF G

-----------------------------------------------------------------------------
(* The cache: a map whose entries are in the order of their last use.      *)

Accounts(entries) == {entries[i].account : i \in DOMAIN entries}
Unique(entries) == \A i, k \in DOMAIN entries : entries[i].account = entries[k].account => i = k

LEMMA HoldsIffAccount ==
    ASSUME NEW entries, NEW a
    PROVE  /\ Holds(entries, a) <=> a \in Accounts(entries)
           /\ Holds(entries, a) => /\ PlaceOf(entries, a) \in DOMAIN entries
                                   /\ entries[PlaceOf(entries, a)].account = a
<1>1. Holds(entries, a) <=> \E i \in DOMAIN entries : entries[i].account = a
  BY DEF Holds, Range
<1> QED
  BY <1>1 DEF Accounts, PlaceOf

\* w is entries without the one at place p.
Gap(entries, w, p) ==
    /\ Len(w) = Len(entries) - 1
    /\ \A i : i \in DOMAIN w <=> i \in 1 .. Len(entries) - 1
    /\ \A i \in 1 .. Len(entries) - 1 : w[i] = IF i < p THEN entries[i] ELSE entries[i + 1]

LEMMA RemoveAtFacts ==
    ASSUME NEW S, NEW s \in Seq(S), NEW p \in DOMAIN s
    PROVE  RemoveAt(s, p) \in Seq(S) /\ Gap(s, RemoveAt(s, p), p)
<1> DEFINE left  == SubSeq(s, 1, p - 1)
           right == SubSeq(s, p + 1, Len(s))
<1>1. Len(s) \in Nat /\ p \in 1 .. Len(s) /\ p \in Int
  OBVIOUS
<1>2. \A i \in 1 .. Len(s) : s[i] \in S
  OBVIOUS
<1>3. /\ left \in Seq(S) /\ Len(left) = p - 1
      /\ \A i \in 1 .. p - 1 : left[i] = s[i]
  <2>1. \A i \in 1 .. p - 1 : s[i] \in S
    BY <1>1, <1>2
  <2>2. /\ left \in Seq(S) /\ Len(left) = IF 1 <= p - 1 THEN (p - 1) - 1 + 1 ELSE 0
        /\ \A i \in 1 .. (p - 1) - 1 + 1 : left[i] = s[1 + i - 1]
    BY <1>1, <2>1, SubSeqProperties
  <2> HIDE DEF left
  <2> QED
    BY <1>1, <2>2
<1>4. /\ right \in Seq(S) /\ Len(right) = Len(s) - p
      /\ \A i \in 1 .. Len(s) - p : right[i] = s[p + i]
  <2>1. \A i \in p + 1 .. Len(s) : s[i] \in S
    BY <1>1, <1>2
  <2>2. /\ right \in Seq(S) /\ Len(right) = IF p + 1 <= Len(s) THEN Len(s) - (p + 1) + 1 ELSE 0
        /\ \A i \in 1 .. Len(s) - (p + 1) + 1 : right[i] = s[(p + 1) + i - 1]
    BY <1>1, <2>1, SubSeqProperties
  <2> HIDE DEF right
  <2> QED
    BY <1>1, <2>2
<1> HIDE DEF left, right
<1>5. /\ left \o right \in Seq(S) /\ Len(left \o right) = Len(left) + Len(right)
      /\ \A i \in 1 .. Len(left) + Len(right) :
            (left \o right)[i] = IF i <= Len(left) THEN left[i] ELSE right[i - Len(left)]
  BY <1>3, <1>4, ConcatProperties
<1>6. RemoveAt(s, p) = left \o right
  BY DEF RemoveAt, left, right
<1> DEFINE w == RemoveAt(s, p)
<1>7. w \in Seq(S) /\ Len(w) = Len(s) - 1
  BY <1>1, <1>3, <1>4, <1>5, <1>6
<1>8. \A i : i \in DOMAIN w <=> i \in 1 .. Len(s) - 1
  BY <1>7
<1>9. ASSUME NEW i \in 1 .. Len(s) - 1
      PROVE  w[i] = IF i < p THEN s[i] ELSE s[i + 1]
  <2>0. i \in 1 .. Len(left) + Len(right) /\ Len(left) = p - 1
    BY <1>1, <1>3, <1>4
  <2>1. w[i] = IF i <= p - 1 THEN left[i] ELSE right[i - (p - 1)]
    BY <1>5, <1>6, <2>0
  <2> HIDE DEF w
  <2>2. CASE i < p
    BY <1>1, <1>3, <2>1, <2>2
  <2>3. CASE ~(i < p)
    <3>1. ~(i <= p - 1) /\ i - (p - 1) \in 1 .. Len(s) - p /\ p + (i - (p - 1)) = i + 1
      BY <1>1, <2>3
    <3> QED
      BY <1>4, <2>1, <2>3, <3>1
  <2> QED
    BY <2>2, <2>3
<1> QED
  BY <1>7, <1>8, <1>9 DEF Gap

LEMMA WithoutFacts ==
    ASSUME NEW S, NEW entries \in Seq(S), NEW a
    PROVE  LET w == Without(entries, a) IN
           /\ w \in Seq(S) /\ Len(w) <= Len(entries)
           /\ ~Holds(entries, a) => w = entries
           /\ Holds(entries, a) => \E p \in DOMAIN entries :
                                      entries[p].account = a /\ Gap(entries, w, p)
<1>1. Len(entries) \in Nat
  OBVIOUS
<1>2. CASE Holds(entries, a)
  <2> DEFINE p == PlaceOf(entries, a)
  <2>1. p \in DOMAIN entries /\ entries[p].account = a
    BY <1>2, HoldsIffAccount
  <2>2. Without(entries, a) = RemoveAt(entries, p)
    BY <1>2 DEF Without
  <2> HIDE DEF p
  <2>3. Without(entries, a) \in Seq(S) /\ Gap(entries, Without(entries, a), p)
    BY <2>1, <2>2, RemoveAtFacts
  <2>4. Len(Without(entries, a)) <= Len(entries)
    BY <1>1, <2>3 DEF Gap
  <2> QED
    BY <1>2, <2>1, <2>3, <2>4
<1>3. CASE ~Holds(entries, a)
  <2>1. Without(entries, a) = entries
    BY <1>3 DEF Without
  <2> QED
    BY <1>1, <1>3, <2>1
<1> QED
  BY <1>2, <1>3

\* The accounts in used were used later than the others and are all cached.
Recent(entries, used) ==
    /\ used \subseteq Accounts(entries)
    /\ \A i, k \in DOMAIN entries :
          i < k /\ entries[i].account \in used => entries[k].account \in used

\* Where an entry comes from when the one at place p of n goes to the end.
Source(i, p, n) == IF i < p THEN i ELSE IF i < n THEN i + 1 ELSE p

LEMMA Sources ==
    ASSUME NEW n \in Nat, NEW p \in 1 .. n
    PROVE  /\ \A i \in 1 .. n : Source(i, p, n) \in 1 .. n
           /\ \A i, k \in 1 .. n : i < k => k = n \/ Source(i, p, n) < Source(k, p, n)
           /\ \A i \in 1 .. n : i # n => Source(i, p, n) # p
           /\ \A i, k \in 1 .. n : Source(i, p, n) = Source(k, p, n) => i = k
           /\ \A k \in 1 .. n : \E i \in 1 .. n : Source(i, p, n) = k
<1>0. p \in Int
  OBVIOUS
<1>1. ASSUME NEW i \in 1 .. n
      PROVE  \/ i \in Int /\ i < p /\ Source(i, p, n) = i
             \/ i \in Int /\ p <= i /\ i < n /\ Source(i, p, n) = i + 1
             \/ i \in Int /\ i = n /\ Source(i, p, n) = p
  BY DEF Source
<1>2. ASSUME NEW i \in 1 .. n PROVE Source(i, p, n) \in 1 .. n
  BY <1>0, <1>1
<1>3. ASSUME NEW i \in 1 .. n, NEW k \in 1 .. n, i < k, k # n
      PROVE  Source(i, p, n) < Source(k, p, n)
  <2>1. i \in Int /\ k \in Int /\ k < n
    BY <1>1, <1>3
  <2>2. (i < p /\ Source(i, p, n) = i) \/ (p <= i /\ Source(i, p, n) = i + 1)
    BY <1>1, <1>3, <2>1
  <2>3. (k < p /\ Source(k, p, n) = k) \/ (p <= k /\ Source(k, p, n) = k + 1)
    BY <1>1, <1>3, <2>1
  <2> HIDE DEF Source
  <2> QED
    BY <1>0, <1>3, <2>1, <2>2, <2>3
<1>4. ASSUME NEW i \in 1 .. n, i # n PROVE Source(i, p, n) # p
  BY <1>0, <1>1, <1>4
<1>5. ASSUME NEW i \in 1 .. n, NEW k \in 1 .. n, i # k
      PROVE  Source(i, p, n) # Source(k, p, n)
  <2>1. CASE i < k
    <3>1. CASE k = n
      <4>1. i # n /\ Source(k, p, n) = p
        BY <1>0, <1>1, <1>5, <3>1
      <4> QED
        BY <1>4, <4>1
    <3>2. CASE k # n
      BY <1>2, <1>3, <2>1, <3>2
    <3> QED
      BY <3>1, <3>2
  <2>2. CASE k < i
    <3>1. CASE i = n
      <4>1. k # n /\ Source(i, p, n) = p
        BY <1>0, <1>1, <1>5, <3>1
      <4> QED
        BY <1>4, <4>1
    <3>2. CASE i # n
      BY <1>2, <1>3, <2>2, <3>2
    <3> QED
      BY <3>1, <3>2
  <2> QED
    BY <1>5, <2>1, <2>2
<1>6. ASSUME NEW k \in 1 .. n PROVE \E i \in 1 .. n : Source(i, p, n) = k
  <2>1. CASE k < p
    BY <2>1 DEF Source
  <2>2. CASE k = p
    BY <2>2 DEF Source
  <2>3. CASE k > p
    <3>1. k - 1 \in 1 .. n /\ ~(k - 1 < p) /\ k - 1 < n /\ (k - 1) + 1 = k
      BY <2>3
    <3>2. Source(k - 1, p, n) = k
      BY <3>1 DEF Source
    <3> QED
      BY <3>1, <3>2
  <2> QED
    BY <1>0, <2>1, <2>2, <2>3
<1> QED
  BY <1>2, <1>3, <1>4, <1>5, <1>6

\* The entry e goes behind those of entries without the one at place p.
LEMMA MoveToEnd ==
    ASSUME NEW S, NEW entries \in Seq(S), Unique(entries), NEW p \in DOMAIN entries,
           NEW w \in Seq(S), Gap(entries, w, p), NEW e, e.account = entries[p].account
    PROVE  /\ Len(Append(w, e)) = Len(entries)
           /\ Unique(Append(w, e)) /\ Accounts(Append(w, e)) = Accounts(entries)
           /\ \A used : Recent(entries, used) => Recent(Append(w, e), used \cup {e.account})
<1> DEFINE r == Append(w, e)
           From(i) == Source(i, p, Len(entries))
<1>1. /\ Len(entries) \in Nat /\ p \in Int /\ p \in 1 .. Len(entries)
      /\ \A i : i \in DOMAIN entries <=> i \in 1 .. Len(entries)
      /\ Len(w) = Len(entries) - 1
  BY DEF Gap
<1>2. /\ Len(r) = Len(w) + 1
      /\ \A i : i \in DOMAIN r <=> i \in 1 .. Len(w) + 1
      /\ \A i \in 1 .. Len(w) : r[i] = w[i]
      /\ r[Len(w) + 1] = e
  <2>1. w \in Seq(S \cup {e}) /\ e \in S \cup {e}
    OBVIOUS
  <2> QED
    BY <2>1, AppendProperties
<1> HIDE DEF r
<1>3. Len(r) = Len(entries) /\ \A i : i \in DOMAIN r <=> i \in 1 .. Len(entries)
  BY <1>1, <1>2
<1>4. \A i \in 1 .. Len(entries) - 1 : r[i] = IF i < p THEN entries[i] ELSE entries[i + 1]
  BY <1>1, <1>2 DEF Gap
<1>5. r[Len(entries)] = e
  BY <1>1, <1>2
<1>6. ASSUME NEW i \in 1 .. Len(entries)
      PROVE  From(i) \in 1 .. Len(entries) /\ r[i].account = entries[From(i)].account
  <2>0. From(i) \in 1 .. Len(entries)
    BY <1>1, Sources
  <2>1. CASE i < p
    <3>1. i \in 1 .. Len(entries) - 1 /\ From(i) = i
      BY <1>1, <2>1 DEF Source
    <3> QED
      BY <1>4, <2>0, <2>1, <3>1
  <2>2. CASE ~(i < p) /\ i < Len(entries)
    <3>1. i \in 1 .. Len(entries) - 1 /\ From(i) = i + 1
      BY <1>1, <2>2 DEF Source
    <3> QED
      BY <1>4, <2>0, <2>2, <3>1
  <2>3. CASE ~(i < p) /\ ~(i < Len(entries))
    <3>1. i = Len(entries) /\ From(i) = p
      BY <1>1, <2>3 DEF Source
    <3> QED
      BY <1>5, <2>0, <3>1
  <2> QED
    BY <2>1, <2>2, <2>3
<1>7. \A i, k \in 1 .. Len(entries) : From(i) = From(k) => i = k
  BY <1>1, Sources
<1>8. \A i, k \in 1 .. Len(entries) : i < k => k = Len(entries) \/ From(i) < From(k)
  BY <1>1, Sources
<1>9. \A k \in 1 .. Len(entries) : \E i \in 1 .. Len(entries) : From(i) = k
  BY <1>1, Sources
<1>p. \A i \in 1 .. Len(entries) : i # Len(entries) => From(i) # p
  BY <1>1, Sources
<1> HIDE DEF From
<1>10. Unique(r)
  <2> SUFFICES ASSUME NEW i \in 1 .. Len(entries), NEW k \in 1 .. Len(entries),
                      r[i].account = r[k].account
               PROVE  i = k
    BY <1>3 DEF Unique
  <2>1. entries[From(i)].account = entries[From(k)].account
    BY <1>6
  <2>2. From(i) \in DOMAIN entries /\ From(k) \in DOMAIN entries
    BY <1>1, <1>6
  <2> QED
    BY <1>7, <2>1, <2>2 DEF Unique
<1>11. Accounts(r) = Accounts(entries)
  <2>1. ASSUME NEW i \in DOMAIN r PROVE r[i].account \in Accounts(entries)
    BY <1>1, <1>3, <1>6 DEF Accounts
  <2>2. ASSUME NEW k \in DOMAIN entries PROVE entries[k].account \in Accounts(r)
    BY <1>1, <1>3, <1>6, <1>9 DEF Accounts
  <2> QED
    BY <2>1, <2>2 DEF Accounts
<1>12. ASSUME NEW used, Recent(entries, used)
       PROVE  Recent(r, used \cup {e.account})
  <2>1. used \cup {e.account} \subseteq Accounts(r)
    BY <1>11, <1>12 DEF Recent, Accounts
  <2>2. ASSUME NEW i \in DOMAIN r, NEW k \in DOMAIN r, i < k,
               r[i].account \in used \cup {e.account}
        PROVE  r[k].account \in used \cup {e.account}
    <3>1. CASE k = Len(entries)
      BY <1>5, <3>1
    <3>2. CASE k # Len(entries)
      <4>1. i \in 1 .. Len(entries) /\ k \in 1 .. Len(entries) /\ i # Len(entries)
        BY <1>1, <1>3, <2>2
      <4>2. From(i) < From(k) /\ From(i) \in DOMAIN entries /\ From(k) \in DOMAIN entries
        BY <1>1, <1>6, <1>8, <2>2, <3>2, <4>1
      <4>3. entries[From(i)].account # e.account
        BY <1>1, <1>p, <4>1, <4>2 DEF Unique
      <4>4. entries[From(i)].account \in used
        BY <1>6, <2>2, <4>1, <4>3
      <4>5. entries[From(k)].account \in used
        BY <1>12, <4>2, <4>4 DEF Recent
      <4> QED
        BY <1>6, <4>1, <4>5
    <3> QED
      BY <3>1, <3>2
  <2> QED
    BY <2>1, <2>2 DEF Recent
<1> QED
  BY <1>3, <1>10, <1>11, <1>12 DEF r

\* What the cache is: a list of entries, each account once, no more than fit.
CacheOf(entries, S) == entries \in Seq(S) /\ Unique(entries) /\ Len(entries) <= CacheSize

LEMMA RefreshedFacts ==
    ASSUME NEW S, NEW entries, CacheOf(entries, S), NEW a, Holds(entries, a)
    PROVE  LET r == Refreshed(entries, a) IN
           /\ CacheOf(r, S) /\ Accounts(r) = Accounts(entries)
           /\ \A used : Recent(entries, used) => Recent(r, used \cup {a})
<1> DEFINE w == Without(entries, a)
           e == InfoIn(entries, a)
<1>1. entries \in Seq(S) /\ Unique(entries) /\ Len(entries) <= CacheSize
  BY DEF CacheOf
<1>2. e.account = a /\ e \in S
  <2>1. PlaceOf(entries, a) \in DOMAIN entries /\ entries[PlaceOf(entries, a)].account = a
    BY HoldsIffAccount
  <2> QED
    BY <1>1, <2>1 DEF InfoIn
<1>3. w \in Seq(S)
  BY <1>1, WithoutFacts
<1>4. PICK p \in DOMAIN entries : entries[p].account = a /\ Gap(entries, w, p)
  BY <1>1, WithoutFacts
<1>5. Refreshed(entries, a) = Append(w, e)
  BY DEF Refreshed
<1> HIDE DEF w, e
<1>6. Append(w, e) \in Seq(S)
  BY <1>2, <1>3, AppendProperties
<1> QED
  BY <1>1, <1>2, <1>3, <1>4, <1>5, <1>6, MoveToEnd DEF CacheOf

\* As many accounts are cached as there are entries.
LEMMA AccountsCounted ==
    ASSUME NEW S, NEW entries \in Seq(S), Unique(entries)
    PROVE  IsFiniteSet(Accounts(entries)) /\ Cardinality(Accounts(entries)) = Len(entries)
<1> DEFINE n == Len(entries)
           f == [i \in 1 .. n |-> entries[i].account]
<1>1. n \in Nat /\ \A i : i \in DOMAIN entries <=> i \in 1 .. n
  OBVIOUS
<1>2. f \in [1 .. n -> Accounts(entries)]
  BY <1>1 DEF Accounts
<1>3. \A i, k \in 1 .. n : f[i] = f[k] => i = k
  BY <1>1 DEF Unique
<1>4. \A a \in Accounts(entries) : \E i \in 1 .. n : f[i] = a
  BY <1>1 DEF Accounts
<1> HIDE DEF f, n
<1>5. ExistsBijection(1 .. n, Accounts(entries))
  BY <1>2, <1>3, <1>4 DEF ExistsBijection, Bijection, Injection, Surjection, IsInjective
<1>6. IsFiniteSet(1 .. n) /\ Cardinality(1 .. n) = n
  BY <1>1, FS_Interval
<1> QED
  BY <1>5, <1>6, FS_Bijection DEF n

LEMMA EvictedFacts ==
    ASSUME NEW S, NEW s \in Seq(S), Unique(s), Len(s) <= CacheSize + 1
    PROVE  /\ CacheOf(Evicted(s), S) /\ Accounts(Evicted(s)) \subseteq Accounts(s)
           /\ \A used : Recent(s, used) /\ IsFiniteSet(used) /\ Cardinality(used) <= CacheSize
                           => Recent(Evicted(s), used)
<1>1. Len(s) \in Nat /\ CacheSize \in Nat
  BY CacheAssumption
<1>2. CASE Len(s) <= CacheSize
  <2>1. Evicted(s) = s
    BY <1>1, <1>2 DEF Evicted
  <2> QED
    BY <1>2, <2>1 DEF CacheOf
<1>3. CASE Len(s) > CacheSize
  <2> DEFINE t == Tail(s)
  <2>1. Evicted(s) = t /\ s # <<>>
    BY <1>1, <1>3 DEF Evicted
  <2>2. /\ t \in Seq(S) /\ Len(t) = Len(s) - 1
        /\ \A i \in 1 .. Len(t) : t[i] = s[i + 1]
    BY <2>1, HeadTailProperties
  <2> HIDE DEF t
  <2>3. /\ \A i : i \in DOMAIN s <=> i \in 1 .. Len(s)
        /\ \A i : i \in DOMAIN t <=> i \in 1 .. Len(s) - 1
    BY <2>2
  <2>4. \A i \in DOMAIN t : i \in Int /\ i + 1 \in DOMAIN s /\ t[i] = s[i + 1]
    BY <1>1, <2>2, <2>3
  <2>5. Unique(t)
    BY <2>4 DEF Unique
  <2>6. Accounts(t) \subseteq Accounts(s)
    BY <2>4 DEF Accounts
  <2>7. Len(t) <= CacheSize
    BY <1>1, <2>2
  <2>8. ASSUME NEW used, Recent(s, used), IsFiniteSet(used), Cardinality(used) <= CacheSize
        PROVE  Recent(t, used)
    <3>1. 1 \in DOMAIN s
      BY <1>1, <1>3, <2>3
    <3>2. s[1].account \notin used
      <4> SUFFICES ASSUME s[1].account \in used PROVE FALSE
        OBVIOUS
      <4>1. \A k \in DOMAIN s : s[k].account \in used
        <5>1. \A k \in DOMAIN s : k = 1 \/ 1 < k
          BY <1>1, <2>3
        <5> QED
          BY <2>8, <3>1, <5>1 DEF Recent
      <4>2. Accounts(s) \in SUBSET used
        BY <4>1 DEF Accounts
      <4>3. Cardinality(Accounts(s)) <= Cardinality(used)
        BY <2>8, <4>2, FS_Subset
      <4>4. Cardinality(Accounts(s)) = Len(s) /\ Cardinality(used) \in Nat
        BY <2>8, AccountsCounted, FS_CardinalityType
      <4> QED
        BY <1>1, <1>3, <2>8, <4>3, <4>4
    <3>3. used \subseteq Accounts(t)
      <4> SUFFICES ASSUME NEW a \in used PROVE a \in Accounts(t)
        OBVIOUS
      <4>1. PICK k \in DOMAIN s : s[k].account = a
        BY <2>8 DEF Recent, Accounts
      <4>2. k # 1
        BY <3>2, <4>1
      <4>3. k - 1 \in DOMAIN t /\ (k - 1) + 1 = k
        BY <1>1, <2>3, <4>2
      <4> QED
        BY <2>4, <4>1, <4>3 DEF Accounts
    <3>4. ASSUME NEW i \in DOMAIN t, NEW k \in DOMAIN t, i < k, t[i].account \in used
          PROVE  t[k].account \in used
      <4>1. i + 1 < k + 1
        BY <2>4, <3>4
      <4> QED
        BY <2>4, <2>8, <3>4, <4>1 DEF Recent
    <3> QED
      BY <3>3, <3>4 DEF Recent
  <2> QED
    BY <2>1, <2>2, <2>5, <2>6, <2>7, <2>8 DEF CacheOf
<1> QED
  BY <1>1, <1>2, <1>3

LEMMA PutFacts ==
    ASSUME NEW S, NEW entries, CacheOf(entries, S), NEW e \in S
    PROVE  /\ CacheOf(Put(entries, e), S)
           /\ \A used : (/\ ~Holds(entries, e.account) /\ Recent(entries, used)
                         /\ IsFiniteSet(used)
                         /\ Cardinality(used \cup {e.account}) <= CacheSize)
                        => Recent(Put(entries, e), used \cup {e.account})
<1> DEFINE a == e.account
           w == Without(entries, a)
           r == Append(w, e)
<1>1. entries \in Seq(S) /\ Unique(entries) /\ Len(entries) <= CacheSize /\ Len(entries) \in Nat
  BY DEF CacheOf
<1>2. w \in Seq(S)
  BY <1>1, WithoutFacts
<1>3. Put(entries, e) = Evicted(r)
  BY DEF Put
<1>4. r \in Seq(S)
  BY <1>2, AppendProperties
<1>5. CASE Holds(entries, a)
  <2>1. PICK p \in DOMAIN entries : entries[p].account = a /\ Gap(entries, w, p)
    BY <1>1, <1>5, WithoutFacts
  <2> HIDE DEF w
  <2>2. Unique(r) /\ Len(r) = Len(entries)
    BY <1>1, <1>2, <2>1, MoveToEnd
  <2>3. Len(r) <= CacheSize + 1
    BY <1>1, <2>2, CacheAssumption
  <2> HIDE DEF r
  <2>4. CacheOf(Evicted(r), S)
    BY <1>4, <2>2, <2>3, EvictedFacts
  <2> QED
    BY <1>3, <1>5, <2>4
<1>6. CASE ~Holds(entries, a)
  <2>1. w = entries
    BY <1>1, <1>6, WithoutFacts
  <2> HIDE DEF w
  <2>2. /\ Len(r) = Len(entries) + 1
        /\ \A i \in 1 .. Len(entries) : r[i] = entries[i]
        /\ r[Len(entries) + 1] = e
    BY <1>1, <2>1, AppendProperties
  <2> HIDE DEF r
  <2>3. /\ \A i : i \in DOMAIN entries <=> i \in 1 .. Len(entries)
        /\ \A i : i \in DOMAIN r <=> i \in 1 .. Len(entries) + 1
    BY <1>1, <1>4, <2>2
  <2>4. \A i \in DOMAIN r :
           \/ i \in DOMAIN entries /\ i # Len(entries) + 1 /\ r[i] = entries[i]
           \/ i = Len(entries) + 1 /\ r[i] = e
    BY <1>1, <2>2, <2>3
  <2>5. \A i \in DOMAIN entries : entries[i].account # a
    BY <1>6, HoldsIffAccount DEF Accounts
  <2>6. Unique(r)
    BY <1>1, <2>4, <2>5 DEF Unique
  <2>7. Len(r) <= CacheSize + 1
    BY <1>1, <2>2, CacheAssumption
  <2>8. CacheOf(Evicted(r), S)
    BY <1>4, <2>6, <2>7, EvictedFacts
  <2>9. ASSUME NEW used, Recent(entries, used) PROVE Recent(r, used \cup {a})
    <3>1. Len(entries) + 1 \in DOMAIN r /\ \A i \in DOMAIN entries : i \in DOMAIN r /\ r[i] = entries[i]
      BY <1>1, <2>2, <2>3
    <3>2. used \cup {a} \subseteq Accounts(r)
      BY <2>2, <2>9, <3>1 DEF Recent, Accounts
    <3>3. ASSUME NEW i \in DOMAIN r, NEW k \in DOMAIN r, i < k, r[i].account \in used \cup {a}
          PROVE  r[k].account \in used \cup {a}
      <4>1. CASE k = Len(entries) + 1
        BY <2>2, <4>1
      <4>2. CASE k # Len(entries) + 1
        <5>1. k \in DOMAIN entries /\ r[k] = entries[k]
          BY <2>4, <4>2
        <5>2. i # Len(entries) + 1
          BY <1>1, <2>3, <3>3, <4>2
        <5>3. i \in DOMAIN entries /\ r[i] = entries[i]
          BY <2>4, <5>2
        <5>4. entries[i].account \in used
          BY <2>5, <3>3, <5>3
        <5> QED
          BY <2>9, <3>3, <5>1, <5>3, <5>4 DEF Recent
      <4> QED
        BY <4>1, <4>2
    <3> QED
      BY <3>2, <3>3 DEF Recent
  <2>10. ASSUME NEW used, Recent(entries, used), IsFiniteSet(used),
                Cardinality(used \cup {a}) <= CacheSize
         PROVE  Recent(Evicted(r), used \cup {a})
    <3>1. IsFiniteSet(used \cup {a})
      BY <2>10, FS_AddElement
    <3>2. Recent(r, used \cup {a})
      BY <2>9, <2>10
    <3> HIDE DEF a
    <3> QED
      BY <1>4, <2>6, <2>7, <2>10, <3>1, <3>2, EvictedFacts
  <2> QED
    BY <1>3, <2>8, <2>10
<1> QED
  BY <1>5, <1>6

\* What populateFromTokenBalances does for one balance, and what it takes from it.
EntryOf(b, accounts) == [account |-> accounts[b.index], mint |-> b.mint, owner |-> b.owner]

LEMMA AddFacts ==
    ASSUME NEW S, NEW entries, CacheOf(entries, S), NEW b, NEW accounts,
           EntryOf(b, accounts) \in S
    PROVE  /\ CacheOf(Add(entries, b, accounts), S)
           /\ \A used : (/\ b.owner # None /\ Recent(entries, used) /\ IsFiniteSet(used)
                         /\ Cardinality(used \cup {accounts[b.index]}) <= CacheSize)
                        => Recent(Add(entries, b, accounts), used \cup {accounts[b.index]})
           /\ b.owner = None => Add(entries, b, accounts) = entries
<1> DEFINE a == accounts[b.index]
           e == EntryOf(b, accounts)
<1>1. e.account = a /\ e \in S
  BY DEF EntryOf
<1>2. CASE b.owner = None
  BY <1>2 DEF Add
<1>3. CASE b.owner # None /\ Holds(entries, a)
  <2>1. Add(entries, b, accounts) = Refreshed(entries, a)
    BY <1>3 DEF Add
  <2> QED
    BY <1>3, <2>1, RefreshedFacts
<1>4. CASE b.owner # None /\ ~Holds(entries, a)
  <2>1. Add(entries, b, accounts) = Put(entries, e)
    BY <1>4 DEF Add, EntryOf
  <2> HIDE DEF e
  <2>2. /\ CacheOf(Put(entries, e), S)
        /\ \A used : (/\ ~Holds(entries, e.account) /\ Recent(entries, used)
                      /\ IsFiniteSet(used)
                      /\ Cardinality(used \cup {e.account}) <= CacheSize)
                     => Recent(Put(entries, e), used \cup {e.account})
    BY <1>1, PutFacts
  <2> QED
    BY <1>1, <1>4, <2>1, <2>2
<1> QED
  BY <1>2, <1>3, <1>4

\* The accounts whose owners the first n balances name.
NamedIn(balances, accounts, n) ==
    {accounts[balances[i].index] : i \in {k \in 1 .. n : balances[k].owner # None}}

LEMMA NamedInNext ==
    ASSUME NEW balances, NEW accounts, NEW n \in Nat
    PROVE  /\ NamedIn(balances, accounts, 0) = {}
           /\ NamedIn(balances, accounts, n + 1) =
                 IF balances[n + 1].owner = None THEN NamedIn(balances, accounts, n)
                 ELSE NamedIn(balances, accounts, n) \cup {accounts[balances[n + 1].index]}
<1> DEFINE Of(m) == {k \in 1 .. m : balances[k].owner # None}
<1>1. Of(0) = {}
  OBVIOUS
<1>2. Of(n + 1) = IF balances[n + 1].owner = None THEN Of(n) ELSE Of(n) \cup {n + 1}
  <2>1. 1 .. n + 1 = (1 .. n) \cup {n + 1}
    OBVIOUS
  <2> QED
    BY <2>1
<1>3. \A m : NamedIn(balances, accounts, m) = {accounts[balances[i].index] : i \in Of(m)}
  BY DEF NamedIn
<1> HIDE DEF Of
<1>4. NamedIn(balances, accounts, 0) = {}
  BY <1>1, <1>3
<1>5. CASE balances[n + 1].owner = None
  BY <1>2, <1>3, <1>4, <1>5
<1>6. CASE balances[n + 1].owner # None
  BY <1>2, <1>3, <1>4, <1>6
<1> QED
  BY <1>5, <1>6

\* The loop of populateFromTokenBalances: the accounts that its balances name
\* are the ones used last, if they fit.
LEMMA PopulatedFacts ==
    ASSUME NEW S, NEW entries, CacheOf(entries, S), NEW accounts,
           NEW B, NEW balances \in Seq(B),
           \A i \in DOMAIN balances : EntryOf(balances[i], accounts) \in S,
           NEW used, IsFiniteSet(used), Recent(entries, used)
    PROVE  LET P     == Populated(entries, balances, accounts)
               named == NamedIn(balances, accounts, Len(balances))
           IN  /\ CacheOf(P, S)
               /\ IsFiniteSet(used \cup named)
               /\ Cardinality(used \cup named) <= CacheSize => Recent(P, used \cup named)
<1> DEFINE n == Len(balances)
           Caches == {x \in Seq(S) : CacheOf(x, S)}
           step == [i \in 1 .. n |-> [x \in Caches |-> Add(x, balances[i], accounts)]]
           Unfold(f) == [i \in 0 .. n |-> IF i = 0 THEN entries
                                          ELSE Add(f[i - 1], balances[i], accounts)]
           known == CHOOSE f : f = Unfold(f)
<1>1. n \in Nat /\ \A i : i \in DOMAIN balances <=> i \in 1 .. n
  OBVIOUS
<1>2. entries \in Caches /\ \A x : x \in Caches <=> CacheOf(x, S)
  BY DEF CacheOf
<1>3. \A i \in 1 .. n : \A x \in Caches : Add(x, balances[i], accounts) \in Caches
  BY <1>1, <1>2, AddFacts
<1>4. Populated(entries, balances, accounts) = known[n]
  BY DEF Populated
<1>5. known = Unfold(known)
  <2>1. step \in [1 .. n -> [Caches -> Caches]]
    BY <1>3
  <2>2. \A i \in 1 .. n : \A x \in Caches : step[i][x] = Add(x, balances[i], accounts)
    OBVIOUS
  <2> HIDE DEF step, Caches
  <2>3. PICK f \in [0 .. n -> Caches] : IsLoop(f, n, entries, step)
    BY <1>1, <1>2, <2>1, LoopExists
  <2>4. ASSUME NEW i \in 0 .. n PROVE f[i] = Unfold(f)[i]
    <3>1. CASE i = 0
      BY <2>3, <3>1 DEF IsLoop
    <3>2. CASE i \in 1 .. n
      <4>1. i - 1 \in 0 .. n
        BY <1>1, <3>2
      <4> QED
        BY <2>2, <2>3, <3>2, <4>1 DEF IsLoop
    <3> QED
      BY <1>1, <3>1, <3>2
  <2>5. DOMAIN Unfold(f) = 0 .. n /\ Unfold(f) = [i \in 0 .. n |-> Unfold(f)[i]]
    OBVIOUS
  <2> HIDE DEF Unfold
  <2>6. f = Unfold(f)
    BY <2>4, <2>5
  <2> QED
    BY <2>6
<1>6. known[0] = entries /\ \A i \in 1 .. n : known[i] = Add(known[i - 1], balances[i], accounts)
  <2>1. Unfold(known)[0] = entries
    BY <1>1
  <2>2. \A i \in 1 .. n : Unfold(known)[i] = Add(known[i - 1], balances[i], accounts)
    BY <1>1
  <2> HIDE DEF known, Unfold
  <2> QED
    BY <1>5, <2>1, <2>2
<1> HIDE DEF known, Unfold, Caches, step
<1> DEFINE Named(i) == used \cup NamedIn(balances, accounts, i)
           G == {i \in Nat : i <= n =>
                    /\ CacheOf(known[i], S) /\ IsFiniteSet(Named(i))
                    /\ Cardinality(Named(i)) <= CacheSize => Recent(known[i], Named(i))}
<1>7. 0 \in G
  <2>1. Named(0) = used
    BY NamedInNext, 0 \in Nat
  <2> HIDE DEF Named
  <2> QED
    BY <1>6, <2>1
<1>8. ASSUME NEW i \in Nat, i \in G PROVE i + 1 \in G
  <2> SUFFICES ASSUME i + 1 <= n
               PROVE  /\ CacheOf(known[i + 1], S) /\ IsFiniteSet(Named(i + 1))
                      /\ Cardinality(Named(i + 1)) <= CacheSize => Recent(known[i + 1], Named(i + 1))
    OBVIOUS
  <2> DEFINE b == balances[i + 1]
  <2>1. i + 1 \in 1 .. n /\ (i + 1) - 1 = i /\ i <= n
    BY <1>1
  <2>2. /\ CacheOf(known[i], S) /\ IsFiniteSet(Named(i))
        /\ Cardinality(Named(i)) <= CacheSize => Recent(known[i], Named(i))
    BY <1>8, <2>1
  <2>3. known[i + 1] = Add(known[i], b, accounts) /\ EntryOf(b, accounts) \in S
    BY <1>1, <1>6, <2>1
  <2>4. Named(i + 1) = IF b.owner = None THEN Named(i) ELSE Named(i) \cup {accounts[b.index]}
    <3>1. NamedIn(balances, accounts, i + 1) =
             IF b.owner = None THEN NamedIn(balances, accounts, i)
             ELSE NamedIn(balances, accounts, i) \cup {accounts[b.index]}
      BY NamedInNext
    <3> HIDE DEF b
    <3>2. CASE b.owner = None
      BY <3>1, <3>2
    <3>3. CASE b.owner # None
      BY <3>1, <3>3
    <3> QED
      BY <3>2, <3>3
  <2> HIDE DEF Named, b, G
  <2>5. CacheOf(known[i + 1], S)
    BY <2>2, <2>3, AddFacts
  <2>6. IsFiniteSet(Named(i + 1))
    <3>1. IsFiniteSet(Named(i) \cup {accounts[b.index]})
      BY <2>2, FS_AddElement
    <3> QED
      BY <2>2, <2>4, <3>1
  <2>7. ASSUME Cardinality(Named(i + 1)) <= CacheSize PROVE Recent(known[i + 1], Named(i + 1))
    <3>1. Cardinality(Named(i)) <= CacheSize
      <4>1. Named(i) \in SUBSET Named(i + 1)
        BY <2>4
      <4>2. Cardinality(Named(i)) <= Cardinality(Named(i + 1))
        BY <2>6, <4>1, FS_Subset
      <4>3. Cardinality(Named(i)) \in Nat /\ Cardinality(Named(i + 1)) \in Nat
        BY <2>2, <2>6, FS_CardinalityType
      <4> QED
        BY <2>7, <4>2, <4>3, CacheAssumption
    <3>2. Recent(known[i], Named(i))
      BY <2>2, <3>1
    <3>3. CASE b.owner = None
      <4>1. known[i + 1] = known[i]
        BY <2>2, <2>3, <3>3, AddFacts
      <4> QED
        BY <2>4, <3>2, <3>3, <4>1
    <3>4. CASE b.owner # None
      <4>1. Named(i + 1) = Named(i) \cup {accounts[b.index]}
        BY <2>4, <3>4
      <4>2. Recent(Add(known[i], b, accounts), Named(i) \cup {accounts[b.index]})
        BY <2>2, <2>3, <2>7, <3>2, <3>4, <4>1, AddFacts
      <4> QED
        BY <2>3, <4>1, <4>2
    <3> QED
      BY <3>3, <3>4
  <2> QED
    BY <2>5, <2>6, <2>7
<1> HIDE DEF G
<1>9. Nat \subseteq G
  BY <1>7, <1>8, SetInduction
<1>10. n \in G /\ n <= n
  BY <1>1, <1>9
<1> QED
  BY <1>4, <1>10 DEF G

-----------------------------------------------------------------------------
(* The invariant.                                                          *)

CacheFits == CacheOf(cache, Range(cache))

\* What a transfer says of its two token accounts is what was looked up.
Explained(t, looked) ==
    /\ t.from \in DOMAIN looked /\ t.to \in DOMAIN looked
    /\ t.toUser = IF looked[t.to] # None THEN looked[t.to].owner ELSE None
    /\ looked[t.from] # None => t.fromUser = looked[t.from].owner

Lookups(job) ==
    /\ job = [looked |-> job.looked, waiting |-> job.waiting, transfers |-> job.transfers]
    /\ job.waiting \cap DOMAIN job.looked = {}

Transfers(tx, job) ==
    /\ job.transfers \in Seq(Range(job.transfers))
    /\ DOMAIN job.transfers \subseteq DOMAIN TokenTransfers[tx]
    /\ \A k \in DOMAIN job.transfers : Explained(job.transfers[k], job.looked)

OwnSuffice(tx, job) ==
    job.transfers = <<>> /\ Cardinality(Listed(tx)) <= CacheSize =>
        job.waiting \cap Listed(tx) = {}

JobFits(tx, job) == Lookups(job) /\ Transfers(tx, job) /\ OwnSuffice(tx, job)

JobsFit ==
    /\ jobs = [tx \in DOMAIN jobs |-> jobs[tx]]
    /\ \A tx \in DOMAIN jobs : JobFits(tx, jobs[tx])

\* What was sent is the payload for the watchlists and options of now.
SentFits ==
    \A payload \in sent :
        payload.tx \in Txs /\ \E transfers : payload = Payload(payload.tx, transfers)

IInv == TypeOK /\ CacheFits /\ JobsFit /\ SentFits

-----------------------------------------------------------------------------
(* The lookups of a job.                                                   *)

LEMMA OwnRange == ASSUME NEW S, NEW s \in Seq(S) PROVE s \in Seq(Range(s))
<1>1. \A i \in 1 .. Len(s) : s[i] \in Range(s)
  BY DEF Range
<1> QED
  BY <1>1

LEMMA CacheOfMore ==
    ASSUME NEW S, NEW T, S \subseteq T, NEW entries, CacheOf(entries, S)
    PROVE  CacheOf(entries, T)
BY DEF CacheOf

\* A lookup never changes one that is settled.
Extends(f, g) == DOMAIN g \subseteq DOMAIN f /\ \A x \in DOMAIN g : f[x] = g[x]

StateFits(state, S) ==
    /\ state = [cache |-> state.cache, looked |-> state.looked, waiting |-> state.waiting]
    /\ CacheOf(state.cache, S)
    /\ state.waiting \cap DOMAIN state.looked = {}

\* What lookups make of a state: only what is not cached is waited for.
LookedUp(state, next) ==
    /\ Accounts(next.cache) = Accounts(state.cache)
    /\ Extends(next.looked, state.looked)
    /\ next.waiting \cap Accounts(state.cache) \subseteq state.waiting

LEMMA LookUpFits ==
    ASSUME NEW S, NEW state, StateFits(state, S), NEW a
    PROVE  StateFits(LookUp(state, a), S) /\ LookedUp(state, LookUp(state, a))
<1> DEFINE next == LookUp(state, a)
           looked2 == Bound(state.looked, a, InfoIn(state.cache, a))
<1>0. /\ state = [cache |-> state.cache, looked |-> state.looked, waiting |-> state.waiting]
      /\ CacheOf(state.cache, S)
      /\ state.waiting \cap DOMAIN state.looked = {}
  BY DEF StateFits
<1>1. CASE a \in DOMAIN state.looked \cup state.waiting
  <2>1. next = state
    BY <1>1 DEF LookUp
  <2> HIDE DEF next
  <2> QED
    BY <2>1 DEF LookedUp, Extends, next
<1>2. CASE a \notin DOMAIN state.looked \cup state.waiting /\ Holds(state.cache, a)
  <2> DEFINE cache2 == Refreshed(state.cache, a)
  <2>1. next = [cache |-> cache2, looked |-> looked2, waiting |-> state.waiting]
    <3>1. next = [state EXCEPT !.cache = cache2, !.looked = looked2]
      BY <1>2 DEF LookUp
    <3> HIDE DEF next, cache2, looked2
    <3> QED
      BY <1>0, <3>1
  <2>2. CacheOf(cache2, S) /\ Accounts(cache2) = Accounts(state.cache)
    BY <1>0, <1>2, RefreshedFacts
  <2>3. DOMAIN looked2 = DOMAIN state.looked \cup {a} /\ Extends(looked2, state.looked)
    BY <1>2 DEF Bound, Extends
  <2> HIDE DEF next, cache2, looked2
  <2>4. next.cache = cache2 /\ next.looked = looked2 /\ next.waiting = state.waiting
    BY <2>1
  <2>5. next.waiting \cap DOMAIN next.looked = {}
    BY <1>0, <1>2, <2>3, <2>4
  <2>6. next = [cache |-> next.cache, looked |-> next.looked, waiting |-> next.waiting]
    BY <2>1, <2>4
  <2>7. StateFits(next, S)
    BY <2>2, <2>4, <2>5, <2>6 DEF StateFits
  <2>8. LookedUp(state, next)
    BY <2>2, <2>3, <2>4 DEF LookedUp
  <2> QED
    BY <2>7, <2>8 DEF next
<1>3. CASE a \notin DOMAIN state.looked \cup state.waiting /\ ~Holds(state.cache, a)
  <2>1. next = [cache |-> state.cache, looked |-> state.looked, waiting |-> state.waiting \cup {a}]
    <3>1. next = [state EXCEPT !.waiting = state.waiting \cup {a}]
      BY <1>3 DEF LookUp
    <3> HIDE DEF next
    <3> QED
      BY <1>0, <3>1
  <2>2. a \notin Accounts(state.cache)
    BY <1>3, HoldsIffAccount
  <2> HIDE DEF next
  <2>3. /\ next.cache = state.cache /\ next.looked = state.looked
        /\ next.waiting = state.waiting \cup {a}
    BY <2>1
  <2>4. next.waiting \cap DOMAIN next.looked = {}
    BY <1>0, <1>3, <2>3
  <2>5. next = [cache |-> next.cache, looked |-> next.looked, waiting |-> next.waiting]
    BY <2>1, <2>3
  <2>6. StateFits(next, S)
    BY <1>0, <2>3, <2>4, <2>5 DEF StateFits
  <2>7. LookedUp(state, next)
    BY <2>2, <2>3 DEF LookedUp, Extends
  <2> QED
    BY <2>6, <2>7 DEF next
<1> QED
  BY <1>1, <1>2, <1>3

LEMMA ToAwaitFits ==
    ASSUME NEW S, NEW entries, CacheOf(entries, S), NEW tx, NEW job, Lookups(job)
    PROVE  LET next == ToAwait(entries, tx, job) IN
           /\ StateFits(next, S)
           /\ Extends(next.looked, job.looked)
           /\ next.waiting \cap Accounts(entries) \subseteq job.waiting
<1> DEFINE state == [cache |-> entries, looked |-> job.looked, waiting |-> job.waiting]
           next  == ToAwait(entries, tx, job)
           t     == TokenTransfers[tx][Len(job.transfers) + 1]
           one   == LookUp(state, t.from)
           two   == LookUp(one, t.to)
<1>1. /\ state.cache = entries /\ state.looked = job.looked /\ state.waiting = job.waiting
      /\ state = [cache |-> state.cache, looked |-> state.looked, waiting |-> state.waiting]
  OBVIOUS
<1>2. next = state \/ next = two
  BY DEF ToAwait
<1> HIDE DEF state, next, t
<1>3. StateFits(state, S)
  BY <1>1 DEF StateFits, Lookups
<1>4. StateFits(one, S) /\ LookedUp(state, one)
  BY <1>3, LookUpFits
<1> HIDE DEF one
<1>5. StateFits(two, S) /\ LookedUp(one, two)
  BY <1>4, LookUpFits
<1> HIDE DEF two
<1>6. LookedUp(state, two)
  BY <1>4, <1>5 DEF LookedUp, Extends
<1>7. LookedUp(state, state)
  BY DEF LookedUp, Extends
<1>8. StateFits(next, S) /\ LookedUp(state, next)
  BY <1>2, <1>3, <1>5, <1>6, <1>7
<1> QED
  BY <1>1, <1>8 DEF LookedUp, next

LEMMA ExplainedStill ==
    ASSUME NEW t, NEW f, NEW g, Explained(t, g), Extends(f, g)
    PROVE  Explained(t, f)
<1>1. /\ t.from \in DOMAIN f /\ t.to \in DOMAIN f
      /\ f[t.to] = g[t.to] /\ f[t.from] = g[t.from]
  BY DEF Explained, Extends
<1> QED
  BY <1>1 DEF Explained

LEMMA BuiltExplained ==
    ASSUME NEW t, NEW looked, t.from \in DOMAIN looked, t.to \in DOMAIN looked
    PROVE  Explained(Built(t, looked), looked)
BY DEF Built, Explained

\* A job that is new or goes on leaves the others alone.
LEMMA JobReplaced ==
    ASSUME JobsFit, NEW tx, NEW job, JobFits(tx, job), jobs' = Bound(jobs, tx, job)
    PROVE  JobsFit' /\ DOMAIN jobs' = DOMAIN jobs \cup {tx}
<1>1. jobs' = [t \in DOMAIN jobs \cup {tx} |-> IF t = tx THEN job ELSE jobs[t]]
  BY DEF Bound
<1>2. /\ DOMAIN jobs' = DOMAIN jobs \cup {tx} /\ jobs' = [t \in DOMAIN jobs' |-> jobs'[t]]
      /\ \A t \in DOMAIN jobs' : jobs'[t] = IF t = tx THEN job ELSE jobs[t]
  BY <1>1
<1>3. ASSUME NEW t \in DOMAIN jobs' PROVE JobFits(t, jobs'[t])
  <2>1. CASE t = tx
    BY <1>2, <2>1
  <2>2. CASE t # tx
    BY <1>2, <2>2 DEF JobsFit
  <2> QED
    BY <2>1, <2>2
<1> QED
  BY <1>2, <1>3 DEF JobsFit

\* What TypeOK says of the cache and the jobs is part of the rest of IInv.
LEMMA TypeFollows ==
    ASSUME CacheFits', JobsFit', DOMAIN jobs' \subseteq arrived' /\ arrived' \subseteq Txs,
           watchAccounts' \subseteq WatchableAccounts, watchMints' \subseteq WatchableMints,
           options' \in Options, SentFits'
    PROVE  IInv'
<1>1. /\ Len(cache') <= CacheSize
      /\ \A i, k \in DOMAIN cache' : cache'[i].account = cache'[k].account => i = k
  BY DEF CacheFits, CacheOf, Unique
<1>2. \A tx \in DOMAIN jobs' :
          /\ jobs'[tx].waiting \cap DOMAIN jobs'[tx].looked = {}
          /\ DOMAIN jobs'[tx].transfers \subseteq DOMAIN TokenTransfers[tx]
  BY DEF JobsFit, JobFits, Lookups, Transfers
<1>3. \A tx, transfers : Payload(tx, transfers)'.format \in {"raw", "enhanced"}
  BY DEF Payload, RawPayload, EnhancedPayload
<1>4. \A payload \in sent' : payload.tx \in Txs /\ payload.format \in {"raw", "enhanced"}
  BY <1>3 DEF SentFits
<1>5. TypeOK'
  BY <1>1, <1>2, <1>4 DEF TypeOK
<1> QED
  BY <1>5 DEF IInv

\* Nothing was sent.
LEMMA NothingSent == sent' = {} => SentFits'
BY DEF SentFits

-----------------------------------------------------------------------------
(* The steps.                                                              *)

LEMMA ListedNamed ==
    ASSUME NEW tx \in Txs
    PROVE  Listed(tx) = NamedIn(Raw[tx].pre, Raw[tx].accounts, Len(Raw[tx].pre))
                        \cup NamedIn(Raw[tx].post, Raw[tx].accounts, Len(Raw[tx].post))
<1> DEFINE accounts == Raw[tx].accounts
           Owned(balances) == {accounts[b.index] : b \in {l \in Range(balances) : l.owner # None}}
<1>1. ASSUME NEW balances, balances \in Seq(Range(balances))
      PROVE  Owned(balances) = NamedIn(balances, accounts, Len(balances))
  <2>1. Range(balances) = {balances[i] : i \in 1 .. Len(balances)}
    BY <1>1 DEF Range
  <2> QED
    BY <2>1 DEF NamedIn
<1>2. Raw[tx].pre \in Seq(Range(Raw[tx].pre)) /\ Raw[tx].post \in Seq(Range(Raw[tx].post))
  BY TxAssumption DEF IsList
<1>3. Listed(tx) = Owned(Raw[tx].pre) \cup Owned(Raw[tx].post)
  BY DEF Listed
<1> QED
  BY <1>1, <1>2, <1>3

\* The cache once it was populated from both lists of balances.
LEMMA KnownFits ==
    ASSUME CacheFits, NEW tx \in Txs
    PROVE  LET known == Populated(Populated(cache, Raw[tx].pre, Raw[tx].accounts),
                                  Raw[tx].post, Raw[tx].accounts)
           IN  /\ \E S : CacheOf(known, S)
               /\ Cardinality(Listed(tx)) <= CacheSize => Listed(tx) \subseteq Accounts(known)
<1> DEFINE pre      == Raw[tx].pre
           post     == Raw[tx].post
           accounts == Raw[tx].accounts
           first    == Populated(cache, pre, accounts)
           known    == Populated(first, post, accounts)
           before   == NamedIn(pre, accounts, Len(pre))
           after    == NamedIn(post, accounts, Len(post))
           S        == Range(cache) \cup {EntryOf(pre[i], accounts) : i \in DOMAIN pre}
                                    \cup {EntryOf(post[i], accounts) : i \in DOMAIN post}
<1>1. /\ pre \in Seq(Range(pre)) /\ post \in Seq(Range(post))
      /\ \A i \in DOMAIN pre : EntryOf(pre[i], accounts) \in S
      /\ \A i \in DOMAIN post : EntryOf(post[i], accounts) \in S
  BY TxAssumption DEF IsList
<1>2. CacheOf(cache, S)
  BY CacheOfMore DEF CacheFits
<1>3. Listed(tx) = before \cup after
  BY ListedNamed
<1> HIDE DEF pre, post, accounts, S
<1>4. \A entries : Recent(entries, {})
  BY DEF Recent
<1>5. /\ CacheOf(first, S) /\ IsFiniteSet(before)
      /\ Cardinality(before) <= CacheSize => Recent(first, before)
  <2>1. /\ CacheOf(first, S) /\ IsFiniteSet({} \cup before)
        /\ Cardinality({} \cup before) <= CacheSize => Recent(first, {} \cup before)
    BY <1>1, <1>2, <1>4, FS_EmptySet, PopulatedFacts
  <2>2. {} \cup before = before
    OBVIOUS
  <2> QED
    BY <2>1, <2>2
<1> HIDE DEF first, before
<1>6. CacheOf(known, S)
  BY <1>1, <1>4, <1>5, FS_EmptySet, PopulatedFacts
<1>7. ASSUME Cardinality(Listed(tx)) <= CacheSize PROVE Listed(tx) \subseteq Accounts(known)
  <2>1. IsFiniteSet(after)
    <3>1. IsFiniteSet({} \cup after)
      BY <1>1, <1>4, <1>5, FS_EmptySet, PopulatedFacts
    <3>2. {} \cup after = after
      OBVIOUS
    <3> QED
      BY <3>1, <3>2
  <2>2. IsFiniteSet(before \cup after)
    BY <1>5, <2>1, FS_Union
  <2>3. Cardinality(before) <= CacheSize
    <3>1. before \in SUBSET (before \cup after)
      OBVIOUS
    <3>2. Cardinality(before) <= Cardinality(before \cup after)
      BY <2>2, <3>1, FS_Subset
    <3>3. Cardinality(before) \in Nat /\ Cardinality(before \cup after) \in Nat
      BY <1>5, <2>2, FS_CardinalityType
    <3> QED
      BY <1>3, <1>7, <3>2, <3>3, CacheAssumption
  <2>4. Recent(first, before)
    BY <1>5, <2>3
  <2>5. Cardinality(before \cup after) <= CacheSize => Recent(known, before \cup after)
    BY <1>1, <1>5, <2>4, PopulatedFacts
  <2>6. Recent(known, before \cup after)
    BY <1>3, <1>7, <2>5
  <2> QED
    BY <1>3, <2>6 DEF Recent
<1> QED
  BY <1>6, <1>7 DEF known, first, pre, post, accounts

\* A job as its loop leaves it at the next await.
LEMMA JobGoesOn ==
    ASSUME NEW S, NEW entries, CacheOf(entries, S), NEW tx, NEW job, Lookups(job),
           Transfers(tx, job),
           \/ job.transfers # <<>>
           \/ job.waiting = {} /\ (Cardinality(Listed(tx)) <= CacheSize => Listed(tx) \subseteq Accounts(entries)),
           JobsFit, Resumes(tx, job, ToAwait(entries, tx, job))
    PROVE  CacheFits' /\ JobsFit' /\ DOMAIN jobs' = DOMAIN jobs \cup {tx}
<1> DEFINE state == ToAwait(entries, tx, job)
           goes  == [job EXCEPT !.looked = state.looked, !.waiting = state.waiting]
<1>1. /\ StateFits(state, S) /\ Extends(state.looked, job.looked)
      /\ state.waiting \cap Accounts(entries) \subseteq job.waiting
  BY ToAwaitFits
<1>2. cache' = state.cache /\ jobs' = Bound(jobs, tx, goes)
  BY DEF Resumes
<1> HIDE DEF state
<1>3. CacheFits'
  <2>1. CacheOf(cache', S)
    BY <1>1, <1>2 DEF StateFits
  <2> QED
    BY <2>1, OwnRange DEF CacheFits, CacheOf
<1>4. goes = [looked |-> state.looked, waiting |-> state.waiting, transfers |-> job.transfers]
  <2> DEFINE looked2  == state.looked
             waiting2 == state.waiting
  <2>1. job = [looked |-> job.looked, waiting |-> job.waiting, transfers |-> job.transfers]
    BY DEF Lookups
  <2>2. goes = [job EXCEPT !.looked = looked2, !.waiting = waiting2]
    OBVIOUS
  <2> HIDE DEF goes, looked2, waiting2
  <2>3. goes = [looked |-> looked2, waiting |-> waiting2, transfers |-> job.transfers]
    BY <2>1, <2>2
  <2> QED
    BY <2>3 DEF looked2, waiting2
<1> HIDE DEF goes
<1>5. /\ goes.looked = state.looked /\ goes.waiting = state.waiting
      /\ goes.transfers = job.transfers
      /\ goes = [looked |-> goes.looked, waiting |-> goes.waiting, transfers |-> goes.transfers]
  BY <1>4
<1>6. Lookups(goes)
  BY <1>1, <1>5 DEF Lookups, StateFits
<1>7. Transfers(tx, goes)
  BY <1>1, <1>5, ExplainedStill DEF Transfers
<1>8. OwnSuffice(tx, goes)
  BY <1>1, <1>5 DEF OwnSuffice
<1>9. JobFits(tx, goes)
  BY <1>6, <1>7, <1>8 DEF JobFits
<1> QED
  BY <1>2, <1>3, <1>9, JobReplaced

LEMMA ArriveIInv ==
    ASSUME IInv, NEW tx \in Txs, Arrive(tx) PROVE IInv'
<1> DEFINE known == Populated(Populated(cache, Raw[tx].pre, Raw[tx].accounts),
                              Raw[tx].post, Raw[tx].accounts)
<1>1. PICK S : CacheOf(known, S)
  BY KnownFits DEF IInv
<1>2. Cardinality(Listed(tx)) <= CacheSize => Listed(tx) \subseteq Accounts(known)
  BY KnownFits DEF IInv
<1>3. /\ Resumes(tx, NewJob, ToAwait(known, tx, NewJob))
      /\ arrived' = arrived \cup {tx} /\ sent' = {} /\ UNCHANGED sessionVars
  BY DEF Arrive
<1> HIDE DEF known
<1>4. NewJob.waiting = {} /\ NewJob.transfers = <<>> /\ Lookups(NewJob)
  BY DEF NewJob, Lookups
<1>5. Transfers(tx, NewJob)
  BY <1>4 DEF Transfers
<1>6. CacheFits' /\ JobsFit' /\ DOMAIN jobs' = DOMAIN jobs \cup {tx}
  BY <1>1, <1>2, <1>3, <1>4, <1>5, JobGoesOn DEF IInv
<1> QED
  BY <1>3, <1>6, NothingSent, TypeFollows DEF IInv, TypeOK, sessionVars

LEMMA FetchedIInv ==
    ASSUME IInv, NEW tx \in DOMAIN jobs, NEW account, NEW info, Fetched(tx, account, info)
    PROVE  IInv'
<1> DEFINE job  == jobs[tx]
           goes == [looked |-> Bound(job.looked, account, info),
                    waiting |-> job.waiting \ {account}, transfers |-> job.transfers]
<1>1. CacheFits'
  <2>1. CASE info = None
    BY <2>1 DEF Fetched, IInv, CacheFits
  <2>2. CASE info # None
    <3>1. CacheOf(cache, Range(cache) \cup {info})
      BY CacheOfMore DEF IInv, CacheFits
    <3>2. cache' = Put(cache, info)
      BY <2>2 DEF Fetched
    <3>3. CacheOf(cache', Range(cache) \cup {info})
      BY <3>1, <3>2, PutFacts
    <3> QED
      BY <3>3, OwnRange DEF CacheFits, CacheOf
  <2> QED
    BY <2>1, <2>2
<1>2. /\ JobFits(tx, job) /\ jobs = [t \in DOMAIN jobs |-> jobs[t]]
      /\ account \in job.waiting
  BY DEF IInv, JobsFit, Fetched
<1>3. jobs' = Bound(jobs, tx, goes)
  <2>1. jobs' = [jobs EXCEPT ![tx].waiting = @ \ {account}, ![tx].looked = Bound(@, account, info)]
    BY DEF Fetched
  <2> DEFINE looked2 == Bound(job.looked, account, info)
             one     == [job EXCEPT !.waiting = @ \ {account}]
             two     == [one EXCEPT !.looked = Bound(@, account, info)]
  <2>2. job = [looked |-> job.looked, waiting |-> job.waiting, transfers |-> job.transfers]
    BY <1>2 DEF JobFits, Lookups
  <2>3. DOMAIN jobs' = DOMAIN jobs /\ jobs' = [t \in DOMAIN jobs |-> jobs'[t]]
    BY <2>1
  <2>4. \A t \in DOMAIN jobs : jobs'[t] = IF t = tx THEN goes ELSE jobs[t]
    <3>1. \A t \in DOMAIN jobs : jobs'[t] = IF t = tx THEN two ELSE jobs[t]
      BY <1>2, <2>1
    <3> HIDE DEF job
    <3>2. one = [looked |-> job.looked, waiting |-> job.waiting \ {account},
                 transfers |-> job.transfers]
      BY <2>2
    <3> HIDE DEF one
    <3>3. one.looked = job.looked
      BY <3>2
    <3>4. two = [one EXCEPT !.looked = looked2]
      BY <3>3
    <3> HIDE DEF two, looked2
    <3>5. two = [looked |-> looked2, waiting |-> job.waiting \ {account},
                 transfers |-> job.transfers]
      BY <3>2, <3>4
    <3>6. two = goes
      BY <3>5 DEF looked2
    <3> QED
      BY <3>1, <3>6
  <2>5. DOMAIN jobs \cup {tx} = DOMAIN jobs
    OBVIOUS
  <2> HIDE DEF goes
  <2> QED
    BY <2>3, <2>4, <2>5 DEF Bound
<1> HIDE DEF job
<1>4. /\ goes.looked = Bound(job.looked, account, info)
      /\ goes.waiting = job.waiting \ {account} /\ goes.transfers = job.transfers
      /\ goes = [looked |-> goes.looked, waiting |-> goes.waiting, transfers |-> goes.transfers]
  OBVIOUS
<1> HIDE DEF goes
<1>5. job.waiting \cap DOMAIN job.looked = {}
  BY <1>2 DEF JobFits, Lookups
<1>6. DOMAIN goes.looked = DOMAIN job.looked \cup {account} /\ Extends(goes.looked, job.looked)
  BY <1>2, <1>4, <1>5 DEF Bound, Extends
<1>7. Lookups(goes)
  BY <1>4, <1>5, <1>6 DEF Lookups
<1>8. Transfers(tx, goes)
  BY <1>2, <1>4, <1>6, ExplainedStill DEF JobFits, Transfers
<1>9. OwnSuffice(tx, goes)
  BY <1>2, <1>4 DEF JobFits, OwnSuffice
<1>10. JobFits(tx, goes)
  BY <1>7, <1>8, <1>9 DEF JobFits
<1>11. JobsFit' /\ DOMAIN jobs' = DOMAIN jobs \cup {tx}
  BY <1>3, <1>10, JobReplaced DEF IInv
<1>12. sent' = {} /\ UNCHANGED <<sessionVars, arrived>>
  BY DEF Fetched
<1> QED
  BY <1>1, <1>11, <1>12, NothingSent, TypeFollows DEF IInv, TypeOK, sessionVars

LEMMA PushTransferIInv ==
    ASSUME IInv, NEW tx \in DOMAIN jobs, PushTransfer(tx) PROVE IInv'
<1> DEFINE job  == jobs[tx]
           next == Len(job.transfers) + 1
           t    == TokenTransfers[tx][next]
           b    == Built(t, job.looked)
           more == [job EXCEPT !.transfers = Append(@, b)]
<1>1. /\ next \in DOMAIN TokenTransfers[tx]
      /\ {t.from, t.to} \subseteq DOMAIN job.looked
      /\ Resumes(tx, more, ToAwait(cache, tx, more))
      /\ sent' = {} /\ UNCHANGED <<sessionVars, arrived>>
  BY DEF PushTransfer
<1>2. Explained(b, job.looked)
  <2> HIDE DEF t, job
  <2> QED
    BY <1>1, BuiltExplained
<1>3. JobFits(tx, job)
  BY DEF IInv, JobsFit
<1>4. more = [looked |-> job.looked, waiting |-> job.waiting, transfers |-> Append(job.transfers, b)]
  <2> HIDE DEF b, job
  <2>1. PICK l, w, r : job = [looked |-> l, waiting |-> w, transfers |-> r]
    BY <1>3 DEF JobFits, Lookups
  <2> QED
    BY <2>1
<1> HIDE DEF more, b, job, t
<1>5. /\ more.looked = job.looked /\ more.waiting = job.waiting
      /\ more.transfers = Append(job.transfers, b)
      /\ more = [looked |-> more.looked, waiting |-> more.waiting, transfers |-> more.transfers]
  BY <1>4
<1>6. job.transfers \in Seq(Range(job.transfers)) /\ Len(job.transfers) \in Nat
  BY <1>3 DEF JobFits, Transfers
<1>7. /\ more.transfers \in Seq(Range(job.transfers) \cup {b}) /\ Len(more.transfers) = next
      /\ \A k \in 1 .. Len(job.transfers) : more.transfers[k] = job.transfers[k]
      /\ more.transfers[next] = b
  <2>1. job.transfers \in Seq(Range(job.transfers) \cup {b}) /\ b \in Range(job.transfers) \cup {b}
    BY <1>6
  <2> QED
    BY <1>5, <2>1, AppendProperties
<1> HIDE DEF next
<1>8. \A k : k \in DOMAIN more.transfers => k \in DOMAIN job.transfers \/ k = next
  BY <1>6, <1>7 DEF next
<1>9. \A k \in DOMAIN job.transfers : more.transfers[k] = job.transfers[k]
  BY <1>6, <1>7
<1>10. Lookups(more)
  BY <1>3, <1>5 DEF JobFits, Lookups
<1>11. Transfers(tx, more)
  <2>1. more.transfers \in Seq(Range(more.transfers))
    BY <1>7, OwnRange
  <2>2. DOMAIN more.transfers \subseteq DOMAIN TokenTransfers[tx]
    BY <1>1, <1>3, <1>8 DEF JobFits, Transfers
  <2>3. \A k \in DOMAIN more.transfers : Explained(more.transfers[k], more.looked)
    BY <1>2, <1>3, <1>5, <1>7, <1>8, <1>9 DEF JobFits, Transfers
  <2> QED
    BY <2>1, <2>2, <2>3 DEF Transfers
<1>12. more.transfers # <<>>
  BY <1>6, <1>7 DEF next
<1>13. CacheFits' /\ JobsFit' /\ DOMAIN jobs' = DOMAIN jobs \cup {tx}
  BY <1>1, <1>10, <1>11, <1>12, JobGoesOn DEF IInv, CacheFits
<1> QED
  BY <1>1, <1>13, NothingSent, TypeFollows DEF IInv, TypeOK, sessionVars

LEMMA BroadcastIInv ==
    ASSUME IInv, NEW tx \in DOMAIN jobs, Broadcast(tx) PROVE IInv'
<1>1. /\ sent' = IF MatchesWatchlist(tx) THEN {Payload(tx, jobs[tx].transfers)} ELSE {}
      /\ jobs' = [t \in DOMAIN jobs \ {tx} |-> jobs[t]]
      /\ UNCHANGED <<sessionVars, cache, arrived>>
  BY DEF Broadcast
<1>2. CacheFits'
  BY <1>1 DEF IInv, CacheFits
<1>3. JobsFit' /\ DOMAIN jobs' \subseteq DOMAIN jobs
  BY <1>1 DEF IInv, JobsFit
<1>4. SentFits'
  <2>1. watchAccounts' = watchAccounts /\ watchMints' = watchMints /\ options' = options
    BY <1>1 DEF sessionVars
  <2>2. ASSUME NEW transfers PROVE Payload(tx, transfers)' = Payload(tx, transfers)
    BY <2>1, Zenon DEF Payload, RawPayload, EnhancedPayload, FilterChanges, FilterAccountData
  <2>3. \A transfers : Payload(tx, transfers).tx = tx
    BY DEF Payload, RawPayload, EnhancedPayload
  <2>4. tx \in Txs
    BY DEF IInv, TypeOK
  <2>5. \A payload \in sent' : payload = Payload(tx, jobs[tx].transfers)
    BY <1>1
  <2> QED
    BY <2>2, <2>3, <2>4, <2>5 DEF SentFits
<1> QED
  BY <1>1, <1>2, <1>3, <1>4, TypeFollows DEF IInv, TypeOK, sessionVars

\* The client changes what it watches or how it is told of it.
LEMMA ClientIInv ==
    ASSUME IInv, UNCHANGED <<cache, jobs, arrived>>, sent' = {},
           watchAccounts' \subseteq WatchableAccounts, watchMints' \subseteq WatchableMints,
           options' \in Options
    PROVE  IInv'
<1>1. CacheFits' /\ JobsFit'
  BY DEF IInv, CacheFits, JobsFit
<1> QED
  BY <1>1, NothingSent, TypeFollows DEF IInv, TypeOK

LEMMA InitIInv == ASSUME Init PROVE IInv
<1>1. TypeOK
  BY CacheAssumption DEF Init, TypeOK, Options
<1>2. CacheFits
  BY CacheAssumption DEF Init, CacheFits, CacheOf, Unique
<1>3. JobsFit
  BY DEF Init, JobsFit
<1>4. SentFits
  BY DEF Init, SentFits
<1> QED
  BY <1>1, <1>2, <1>3, <1>4 DEF IInv

LEMMA NextIInv == ASSUME IInv, [Next]_vars PROVE IInv'
<1>1. ASSUME NEW tx \in Txs, Arrive(tx) PROVE IInv'
  BY <1>1, ArriveIInv
<1>2. ASSUME NEW tx \in DOMAIN jobs, NEW a \in TokenAccounts, NEW info \in Known(a),
             Fetched(tx, a, info)
      PROVE  IInv'
  BY <1>2, FetchedIInv
<1>3. ASSUME NEW tx \in DOMAIN jobs, PushTransfer(tx) PROVE IInv'
  BY <1>3, PushTransferIInv
<1>4. ASSUME NEW tx \in DOMAIN jobs, Broadcast(tx) PROVE IInv'
  BY <1>4, BroadcastIInv
<1>5. ASSUME NEW accounts \in SUBSET WatchableAccounts, WatchAccounts(accounts) PROVE IInv'
  BY <1>5, ClientIInv DEF WatchAccounts, IInv, TypeOK
<1>6. ASSUME NEW mints \in SUBSET WatchableMints, WatchMints(mints) PROVE IInv'
  BY <1>6, ClientIInv DEF WatchMints, IInv, TypeOK
<1>7. ASSUME NEW chosen \in Options, UpdateClientOptions(chosen) PROVE IInv'
  BY <1>7, ClientIInv DEF UpdateClientOptions, IInv, TypeOK
<1>8. CASE UNCHANGED vars
  <2>1. /\ watchAccounts' = watchAccounts /\ watchMints' = watchMints /\ options' = options
        /\ cache' = cache /\ jobs' = jobs /\ sent' = sent /\ arrived' = arrived
    BY <1>8 DEF vars
  <2>2. CacheFits' /\ JobsFit'
    BY <2>1 DEF IInv, CacheFits, JobsFit
  <2>3. ASSUME NEW tx, NEW transfers PROVE Payload(tx, transfers)' = Payload(tx, transfers)
    BY <2>1, Zenon DEF Payload, RawPayload, EnhancedPayload, FilterChanges, FilterAccountData
  <2>4. SentFits'
    BY <2>1, <2>3 DEF IInv, SentFits
  <2> QED
    BY <2>1, <2>2, <2>4, TypeFollows DEF IInv, TypeOK
<1> QED
  BY <1>1, <1>2, <1>3, <1>4, <1>5, <1>6, <1>7, <1>8 DEF Next

-----------------------------------------------------------------------------
(* What the balances say, and the changes made of them.                    *)

SumsUp(f, numbers, n) == f[0] = 0 /\ \A i \in 1 .. n : f[i] = f[i - 1] + numbers[i]

LEMMA SummedFacts ==
    ASSUME NEW numbers \in Seq(Int)
    PROVE  \E f \in [0 .. Len(numbers) -> Int] :
              SumsUp(f, numbers, Len(numbers)) /\ Summed(numbers) = f[Len(numbers)]
<1> DEFINE n == Len(numbers)
           step == [i \in 1 .. n |-> [x \in Int |-> x + numbers[i]]]
           Unfold(f) == [i \in 0 .. n |-> IF i = 0 THEN 0 ELSE f[i - 1] + numbers[i]]
           sum == CHOOSE f : f = Unfold(f)
<1>1. n \in Nat /\ \A i \in 1 .. n : numbers[i] \in Int
  OBVIOUS
<1>2. Summed(numbers) = sum[n]
  BY DEF Summed
<1>3. step \in [1 .. n -> [Int -> Int]]
  BY <1>1
<1>4. \A i \in 1 .. n : \A x \in Int : step[i][x] = x + numbers[i]
  OBVIOUS
<1> HIDE DEF step, n
<1>5. PICK f \in [0 .. n -> Int] : IsLoop(f, n, 0, step)
  <2>1. n \in Nat /\ 0 \in Int
    BY <1>1
  <2> QED
    BY <1>3, <2>1, LoopExists, Zenon
<1>6. SumsUp(f, numbers, n)
  <2>1. ASSUME NEW i \in 1 .. n PROVE f[i] = f[i - 1] + numbers[i]
    <3>1. i - 1 \in 0 .. n
      BY <1>1
    <3>2. f[i - 1] \in Int
      BY <3>1
    <3> QED
      BY <1>4, <1>5, <3>2 DEF IsLoop
  <2> QED
    BY <1>5, <2>1 DEF IsLoop, SumsUp
<1>7. f = Unfold(f)
  <2>1. ASSUME NEW i \in 0 .. n PROVE f[i] = Unfold(f)[i]
    <3>1. i = 0 \/ i \in 1 .. n
      BY <1>1
    <3> QED
      BY <1>6, <3>1 DEF SumsUp
  <2>2. DOMAIN Unfold(f) = 0 .. n /\ Unfold(f) = [i \in 0 .. n |-> Unfold(f)[i]]
    OBVIOUS
  <2> HIDE DEF Unfold
  <2> QED
    BY <2>1, <2>2
<1> HIDE DEF Unfold
<1>8. sum = Unfold(sum)
  BY <1>7
<1>9. sum[0] = 0 /\ \A i \in 1 .. n : sum[i] = sum[i - 1] + numbers[i]
  <2>1. Unfold(sum)[0] = 0 /\ \A i \in 1 .. n : Unfold(sum)[i] = sum[i - 1] + numbers[i]
    BY <1>1 DEF Unfold
  <2> HIDE DEF sum
  <2> QED
    BY <1>8, <2>1
<1> HIDE DEF sum
<1> DEFINE G == {i \in Nat : i <= n => sum[i] = f[i]}
<1>10. 0 \in G
  BY <1>6, <1>9 DEF SumsUp
<1>11. ASSUME NEW i \in Nat, i \in G PROVE i + 1 \in G
  <2> SUFFICES ASSUME i + 1 <= n PROVE sum[i + 1] = f[i + 1]
    OBVIOUS
  <2>1. i + 1 \in 1 .. n /\ (i + 1) - 1 = i /\ i <= n
    BY <1>1
  <2>2. sum[i] = f[i]
    BY <1>11, <2>1
  <2>3. sum[i + 1] = sum[(i + 1) - 1] + numbers[i + 1] /\ f[i + 1] = f[(i + 1) - 1] + numbers[i + 1]
    BY <1>6, <1>9, <2>1 DEF SumsUp
  <2> QED
    BY <2>1, <2>2, <2>3
<1> HIDE DEF G
<1>12. Nat \subseteq G
  BY <1>10, <1>11, SetInduction
<1>13. n \in G /\ n <= n
  BY <1>1, <1>12
<1>14. sum[n] = f[n]
  BY <1>1, <1>13 DEF G
<1> QED
  BY <1>2, <1>6, <1>14 DEF n

\* All but one of the numbers are 0.
LEMMA OneSummand ==
    ASSUME NEW numbers \in Seq(Int), NEW p \in Int,
           \A i \in DOMAIN numbers : i # p => numbers[i] = 0
    PROVE  Summed(numbers) = IF p \in 1 .. Len(numbers) THEN numbers[p] ELSE 0
<1> DEFINE n == Len(numbers)
<1>1. n \in Nat /\ (\A i : i \in DOMAIN numbers <=> i \in 1 .. n) /\ \A i \in 1 .. n : numbers[i] \in Int
  OBVIOUS
<1> HIDE DEF n
<1>2. PICK f \in [0 .. n -> Int] : SumsUp(f, numbers, n) /\ Summed(numbers) = f[n]
  BY SummedFacts DEF n
<1> DEFINE G == {i \in Nat : i <= n => f[i] = IF p \in 1 .. i THEN numbers[p] ELSE 0}
<1>3. 0 \in G
  BY <1>2 DEF SumsUp
<1>4. ASSUME NEW i \in Nat, i \in G PROVE i + 1 \in G
  <2> SUFFICES ASSUME i + 1 <= n
               PROVE  f[i + 1] = IF p \in 1 .. i + 1 THEN numbers[p] ELSE 0
    OBVIOUS
  <2>1. i + 1 \in 1 .. n /\ (i + 1) - 1 = i /\ i <= n /\ i \in 0 .. n
    BY <1>1
  <2>2. f[i] = IF p \in 1 .. i THEN numbers[p] ELSE 0
    BY <1>4, <2>1
  <2>3. f[i + 1] = f[(i + 1) - 1] + numbers[i + 1]
    BY <1>2, <2>1 DEF SumsUp
  <2>4. f[i + 1] = f[i] + numbers[i + 1] /\ f[i] \in Int /\ numbers[i + 1] \in Int
    BY <1>1, <2>1, <2>3
  <2>5. CASE p = i + 1
    <3>1. f[i] = 0 /\ p \in 1 .. i + 1
      BY <2>2, <2>5
    <3> QED
      BY <2>4, <2>5, <3>1
  <2>6. CASE p # i + 1
    <3>1. numbers[i + 1] = 0
      BY <1>1, <2>1, <2>6
    <3>2. p \in 1 .. i + 1 <=> p \in 1 .. i
      BY <2>6
    <3>3. f[i + 1] = f[i]
      BY <2>4, <3>1
    <3> QED
      BY <2>2, <3>2, <3>3
  <2> QED
    BY <2>5, <2>6
<1> HIDE DEF G
<1>5. Nat \subseteq G
  BY <1>3, <1>4, SetInduction
<1>6. n \in G /\ n <= n
  BY <1>1, <1>5
<1>7. f[n] = IF p \in 1 .. n THEN numbers[p] ELSE 0
  BY <1>1, <1>6 DEF G
<1> QED
  BY <1>2, <1>7 DEF n

\* What the balances say of an account and a mint is what the one entry says
\* that there is for them at most.
LEMMA EntryHolds ==
    ASSUME NEW tx \in Txs, NEW balances \in {Raw[tx].pre, Raw[tx].post},
           NEW index \in DOMAIN Raw[tx].accounts, NEW mint
    PROVE  LET account == Raw[tx].accounts[index]
               key == <<index, mint>>
           IN  /\ Holding(tx, balances, account, mint) = AmountAt(balances, key)
               /\ Owners(tx, balances, account, mint) = {OwnerAt(balances, key)} \ {None}
<1> DEFINE account == Raw[tx].accounts[index]
           key == <<index, mint>>
           n == Len(balances)
           Is(b) == b.index = index /\ b.mint = mint
           numbers == [i \in DOMAIN balances |-> IF Is(balances[i]) THEN balances[i].amount ELSE 0]
<1>1. /\ balances \in Seq(Range(balances))
      /\ \A b \in Range(balances) : b.index \in DOMAIN Raw[tx].accounts /\ b.amount \in Nat
  BY TxAssumption DEF IsList
<1>2. \A i, k \in DOMAIN balances :
         <<balances[i].index, balances[i].mint>> = <<balances[k].index, balances[k].mint>> => i = k
  BY TxAssumption DEF IsList
<1>3. IsInjective(Raw[tx].accounts)
  BY TxAssumption DEF IsList
<1>4. n \in Nat /\ \A i : i \in DOMAIN balances <=> i \in 1 .. n
  BY <1>1
<1>5. \A b : b \in Range(balances) <=> \E i \in DOMAIN balances : b = balances[i]
  BY DEF Range
<1>6. \A b \in Range(balances) : IsOf(tx, b, account, mint) <=> Is(b)
  BY <1>1, <1>3 DEF IsOf, IsInjective
<1>7. /\ numbers \in Seq(Int) /\ Len(numbers) = n
      /\ \A i \in DOMAIN balances : numbers[i] = IF Is(balances[i]) THEN balances[i].amount ELSE 0
  <2>1. \A i \in DOMAIN balances : balances[i].amount \in Int
    BY <1>1, <1>5
  <2>2. DOMAIN balances = 1 .. n
    BY <1>1
  <2>3. numbers \in [1 .. n -> Int]
    BY <2>1, <2>2
  <2> QED
    BY <1>4, <2>3
<1>8. Holding(tx, balances, account, mint) = Summed(numbers)
  <2>1. \A i \in DOMAIN balances : IsOf(tx, balances[i], account, mint) <=> Is(balances[i])
    BY <1>5, <1>6
  <2>2. numbers = [i \in DOMAIN balances |->
                      IF IsOf(tx, balances[i], account, mint) THEN balances[i].amount ELSE 0]
    BY <2>1
  <2> HIDE DEF numbers, account
  <2> QED
    BY <2>2 DEF Holding
<1>9. At(balances, key) = {b \in Range(balances) : Is(b)}
  <2>1. \A b : <<b.index, b.mint>> = key <=> Is(b)
    OBVIOUS
  <2> QED
    BY <2>1 DEF At
<1>10. Owners(tx, balances, account, mint) = {b.owner : b \in {l \in Range(balances) : Is(l)}} \ {None}
  <2>1. {l \in Range(balances) : IsOf(tx, l, account, mint)} = {l \in Range(balances) : Is(l)}
    BY <1>6
  <2> HIDE DEF account, Is
  <2> QED
    BY <2>1 DEF Owners
<1> HIDE DEF numbers, n, account, key
<1>11. CASE \A i \in DOMAIN balances : ~Is(balances[i])
  <2>1. At(balances, key) = {}
    BY <1>5, <1>9, <1>11
  <2>2. AmountAt(balances, key) = 0 /\ OwnerAt(balances, key) = None
    BY <2>1 DEF AmountAt, OwnerAt
  <2>3. \A i \in DOMAIN numbers : numbers[i] = 0
    BY <1>4, <1>7, <1>11
  <2>4. Summed(numbers) = 0
    BY <1>7, <2>3, 0 \notin 1 .. Len(numbers), OneSummand
  <2>5. Owners(tx, balances, account, mint) = {}
    BY <1>5, <1>10, <1>11
  <2> QED
    BY <1>8, <2>2, <2>4, <2>5 DEF account, key
<1>12. CASE \E i \in DOMAIN balances : Is(balances[i])
  <2>1. PICK p \in DOMAIN balances : Is(balances[p])
    BY <1>12
  <2>2. \A i \in DOMAIN balances : Is(balances[i]) => i = p
    BY <1>2, <2>1
  <2>3. {b \in Range(balances) : Is(b)} = {balances[p]}
    BY <1>5, <2>1, <2>2
  <2>4. At(balances, key) = {balances[p]} /\ At(balances, key) # {}
    BY <1>9, <2>3
  <2>5. (CHOOSE b \in At(balances, key) : TRUE) = balances[p]
    BY <2>4
  <2>6. AmountAt(balances, key) = balances[p].amount /\ OwnerAt(balances, key) = balances[p].owner
    BY <2>4, <2>5 DEF AmountAt, OwnerAt
  <2>7. p \in Int /\ p \in 1 .. Len(numbers) /\ numbers[p] = balances[p].amount
    BY <1>4, <1>7, <2>1
  <2>8. \A i \in DOMAIN numbers : i # p => numbers[i] = 0
    <3>1. \A i \in DOMAIN numbers : i \in DOMAIN balances
      BY <1>4, <1>7
    <3> QED
      BY <1>7, <2>2, <3>1
  <2>9. Summed(numbers) = balances[p].amount
    BY <1>7, <2>7, <2>8, OneSummand
  <2>10. Owners(tx, balances, account, mint) = {balances[p].owner} \ {None}
    BY <1>10, <2>3
  <2> QED
    BY <1>8, <2>6, <2>9, <2>10 DEF account, key
<1> QED
  BY <1>11, <1>12

\* The balances that moved, and the entry that is made of each.
ChangedKeys(tx) ==
    {k \in BalanceKeys(tx) : AmountAt(Raw[tx].pre, k) # AmountAt(Raw[tx].post, k)}
ChangeOf(tx, key) ==
    [account |-> Raw[tx].accounts[key[1]], mint |-> key[2],
     owner |-> IF OwnerAt(Raw[tx].post, key) # None THEN OwnerAt(Raw[tx].post, key)
               ELSE OwnerAt(Raw[tx].pre, key),
     delta |-> Delta(tx, key)]

LEMMA ChangesOfKeys ==
    ASSUME NEW tx \in Txs
    PROVE  /\ TokenBalanceChanges(tx) = {ChangeOf(tx, key) : key \in ChangedKeys(tx)}
           /\ \A key \in ChangedKeys(tx) :
                 /\ key[1] \in DOMAIN Raw[tx].accounts /\ key[2] \in MintsOf(tx)
                 /\ key = <<key[1], key[2]>>
<1>1. TokenBalanceChanges(tx) = {ChangeOf(tx, key) : key \in ChangedKeys(tx)}
  BY Zenon DEF TokenBalanceChanges, ChangeOf, ChangedKeys
<1>2. \A b \in Range(Raw[tx].pre) \cup Range(Raw[tx].post) : b.index \in DOMAIN Raw[tx].accounts
  BY TxAssumption DEF IsList
<1>3. ASSUME NEW key \in BalanceKeys(tx)
      PROVE  /\ key[1] \in DOMAIN Raw[tx].accounts /\ key[2] \in MintsOf(tx)
             /\ key = <<key[1], key[2]>>
  <2>1. PICK b \in Range(Raw[tx].pre) \cup Range(Raw[tx].post) : key = <<b.index, b.mint>>
    BY DEF BalanceKeys
  <2>2. key[1] = b.index /\ key[2] = b.mint
    BY <2>1
  <2> QED
    BY <1>2, <2>1, <2>2 DEF MintsOf
<1> QED
  BY <1>1, <1>3 DEF ChangedKeys

\* An account's balance of a mint moved if and only if a key of it changed.
LEMMA MovedIffChanged ==
    ASSUME NEW tx \in Txs, NEW index \in DOMAIN Raw[tx].accounts, NEW mint
    PROVE  Moved(tx, Raw[tx].accounts[index], mint) <=> <<index, mint>> \in ChangedKeys(tx)
<1> DEFINE key == <<index, mint>>
<1>1. Moved(tx, Raw[tx].accounts[index], mint)
          <=> AmountAt(Raw[tx].pre, key) # AmountAt(Raw[tx].post, key)
  <2>1. Holding(tx, Raw[tx].pre, Raw[tx].accounts[index], mint) = AmountAt(Raw[tx].pre, key)
    BY EntryHolds
  <2>2. Holding(tx, Raw[tx].post, Raw[tx].accounts[index], mint) = AmountAt(Raw[tx].post, key)
    BY EntryHolds
  <2> QED
    BY <2>1, <2>2 DEF Moved
<1>2. ASSUME key \notin BalanceKeys(tx)
      PROVE  AmountAt(Raw[tx].pre, key) = AmountAt(Raw[tx].post, key)
  <2>1. At(Raw[tx].pre, key) = {} /\ At(Raw[tx].post, key) = {}
    BY <1>2 DEF At, BalanceKeys
  <2> QED
    BY <2>1 DEF AmountAt
<1> QED
  BY <1>1, <1>2 DEF ChangedKeys

\* Whom a change concerns: filterTokenBalanceChanges keeps it for them.
LEMMA KeptIfConcerned ==
    ASSUME TypeOK, NEW tx \in Txs, NEW key \in ChangedKeys(tx)
    PROVE  LET c == ChangeOf(tx, key) IN
           Concerns(tx, c.account, c.mint)
               <=> c.account \in watchAccounts \/ c.owner \in watchAccounts \/ c.mint \in watchMints
<1> DEFINE c == ChangeOf(tx, key)
           after  == OwnerAt(Raw[tx].post, key)
           before == OwnerAt(Raw[tx].pre, key)
<1>1. /\ key[1] \in DOMAIN Raw[tx].accounts /\ key = <<key[1], key[2]>>
  BY ChangesOfKeys
<1>2. /\ c.account = Raw[tx].accounts[key[1]] /\ c.mint = key[2]
      /\ c.owner = IF after # None THEN after ELSE before
  BY DEF ChangeOf
<1>3. Owners(tx, Raw[tx].post, c.account, c.mint) = {after} \ {None}
  <2>1. Owners(tx, Raw[tx].post, Raw[tx].accounts[key[1]], key[2])
            = {OwnerAt(Raw[tx].post, <<key[1], key[2]>>)} \ {None}
    BY <1>1, EntryHolds
  <2> HIDE DEF c
  <2> QED
    BY <1>1, <1>2, <2>1
<1>4. Owners(tx, Raw[tx].pre, c.account, c.mint) = {before} \ {None}
  <2>1. Owners(tx, Raw[tx].pre, Raw[tx].accounts[key[1]], key[2])
            = {OwnerAt(Raw[tx].pre, <<key[1], key[2]>>)} \ {None}
    BY <1>1, EntryHolds
  <2> HIDE DEF c
  <2> QED
    BY <1>1, <1>2, <2>1
<1> HIDE DEF c, after, before
<1>5. LastOwners(tx, c.account, c.mint) = {c.owner} \ {None}
  <2>1. CASE after # None
    <3>1. {after} \ {None} = {after} /\ {after} # {} /\ c.owner = after
      BY <1>2, <2>1
    <3> QED
      BY <1>3, <2>1, <3>1 DEF LastOwners
  <2>2. CASE after = None
    <3>1. {after} \ {None} = {} /\ c.owner = before
      BY <1>2, <2>2
    <3> QED
      BY <1>3, <1>4, <3>1 DEF LastOwners
  <2> QED
    BY <2>1, <2>2
<1>6. None \notin watchAccounts
  BY WatchableAssumption DEF TypeOK
<1>7. LastOwners(tx, c.account, c.mint) \cap watchAccounts # {} <=> c.owner \in watchAccounts
  BY <1>5, <1>6
<1>8. Concerns(tx, c.account, c.mint)
          <=> c.account \in watchAccounts \/ c.owner \in watchAccounts \/ c.mint \in watchMints
  BY <1>7 DEF Concerns
<1> QED
  BY <1>8 DEF c

\* matchesWatchlist is what the client is promised.
LEMMA MatchesIfInteresting ==
    ASSUME TypeOK, NEW tx \in Txs
    PROVE  MatchesWatchlist(tx) <=> Interesting(tx)
<1> DEFINE Keeps(c) == c.account \in watchAccounts \/ c.owner \in watchAccounts \/ c.mint \in watchMints
<1>1. FilterChanges(TokenBalanceChanges(tx)) # {}
          <=> \E key \in ChangedKeys(tx) : Keeps(ChangeOf(tx, key))
  BY ChangesOfKeys DEF FilterChanges
<1>2. \A key \in ChangedKeys(tx) :
         Keeps(ChangeOf(tx, key)) <=> Concerns(tx, Raw[tx].accounts[key[1]], key[2])
  <2>1. \A key : ChangeOf(tx, key).account = Raw[tx].accounts[key[1]] /\ ChangeOf(tx, key).mint = key[2]
    BY DEF ChangeOf
  <2> QED
    BY <2>1, KeptIfConcerned
<1> HIDE DEF Keeps
<1>3. ASSUME NEW key \in ChangedKeys(tx), Concerns(tx, Raw[tx].accounts[key[1]], key[2])
      PROVE  Interesting(tx)
  <2>1. /\ key[1] \in DOMAIN Raw[tx].accounts /\ key[2] \in MintsOf(tx)
        /\ key = <<key[1], key[2]>>
    BY ChangesOfKeys
  <2>2. Moved(tx, Raw[tx].accounts[key[1]], key[2])
    BY <2>1, MovedIffChanged
  <2>3. Raw[tx].accounts[key[1]] \in Range(Raw[tx].accounts)
    BY <2>1 DEF Range
  <2> QED
    BY <1>3, <2>1, <2>2, <2>3 DEF Interesting
<1>4. ASSUME NEW a \in Range(Raw[tx].accounts), NEW m \in MintsOf(tx), Moved(tx, a, m),
             Concerns(tx, a, m)
      PROVE  \E key \in ChangedKeys(tx) : Concerns(tx, Raw[tx].accounts[key[1]], key[2])
  <2>1. PICK index \in DOMAIN Raw[tx].accounts : a = Raw[tx].accounts[index]
    BY DEF Range
  <2>2. <<index, m>> \in ChangedKeys(tx) /\ <<index, m>>[1] = index /\ <<index, m>>[2] = m
    BY <1>4, <2>1, MovedIffChanged
  <2> QED
    BY <1>4, <2>1, <2>2
<1>5. Range(Raw[tx].accounts) \cap (watchAccounts \cup watchMints) # {}
          <=> \E a \in Range(Raw[tx].accounts) : a \in watchAccounts \/ a \in watchMints
  OBVIOUS
<1> QED
  BY <1>1, <1>2, <1>3, <1>4, <1>5 DEF MatchesWatchlist, Interesting

\* What a payload carries, in either format.
LEMMA PayloadCarries ==
    ASSUME NEW tx \in Txs, NEW transfers
    PROVE  ChangesIn(Payload(tx, transfers)) =
              IF ~options.includeTokenBalanceChanges THEN {}
              ELSE IF options.filterTokenBalances THEN FilterChanges(TokenBalanceChanges(tx))
              ELSE TokenBalanceChanges(tx)
<1> DEFINE all == TokenBalanceChanges(tx)
           Accs == Range(Raw[tx].accounts)
           Keeps(c) == c.account \in watchAccounts \/ c.owner \in watchAccounts \/ c.mint \in watchMints
           payload == Payload(tx, transfers)
           data == AccountData(tx)
<1>1. \A c \in all : c.account \in Accs
  <2>1. \A key \in ChangedKeys(tx) : ChangeOf(tx, key).account \in Accs
    BY ChangesOfKeys DEF ChangeOf, Range
  <2> QED
    BY <2>1, ChangesOfKeys
<1>2. DOMAIN data = Accs /\ \A a \in Accs : data[a].changes = {c \in all : c.account = a}
  BY DEF AccountData
<1>3. /\ DOMAIN WithoutChanges(data) = Accs
      /\ \A a \in Accs : WithoutChanges(data)[a].changes = {}
  <2>1. \A a \in Accs : "changes" \in DOMAIN data[a]
    BY DEF AccountData
  <2> HIDE DEF data
  <2> QED
    BY <1>2, <2>1 DEF WithoutChanges
<1>4. /\ DOMAIN FilterAccountData(data) = Accs
      /\ \A a \in Accs : FilterAccountData(data)[a].changes = {c \in all : c.account = a /\ Keeps(c)}
  <2>1. \A a \in Accs : "changes" \in DOMAIN data[a]
    BY DEF AccountData
  <2> HIDE DEF data
  <2>2. /\ DOMAIN FilterAccountData(data) = Accs
        /\ \A a \in Accs : FilterAccountData(data)[a].changes = {c \in data[a].changes : Keeps(c)}
    BY <1>2, <2>1 DEF FilterAccountData
  <2> HIDE DEF Keeps, all, Accs
  <2> QED
    BY <1>2, <2>2
<1>5. FilterChanges(all) = {c \in all : Keeps(c)}
  BY DEF FilterChanges
<1> HIDE DEF data, all, Accs, Keeps
<1>6. CASE options.eventFormat = "raw"
  <2>1. payload = RawPayload(tx)
    BY <1>6 DEF Payload
  <2> HIDE DEF payload
  <2>2. payload.format = "raw" /\
        payload.changes = IF ~options.includeTokenBalanceChanges THEN {}
                          ELSE IF options.filterTokenBalances THEN FilterChanges(all)
                          ELSE all
    BY <2>1 DEF RawPayload, all
  <2>3. ChangesIn(payload) = payload.changes
    BY <2>2 DEF ChangesIn
  <2> QED
    BY <2>2, <2>3 DEF payload, all
<1>7. CASE options.eventFormat # "raw"
  <2>1. payload = EnhancedPayload(tx, transfers)
    BY <1>7 DEF Payload
  <2> HIDE DEF payload
  <2>2. /\ payload.format = "enhanced"
        /\ payload.data = IF ~options.includeTokenBalanceChanges THEN WithoutChanges(data)
                          ELSE IF options.filterTokenBalances THEN FilterAccountData(data)
                          ELSE data
    BY <2>1 DEF EnhancedPayload, data
  <2>3. ChangesIn(payload) = UNION {payload.data[a].changes : a \in DOMAIN payload.data}
    BY <2>2 DEF ChangesIn
  <2>4. CASE ~options.includeTokenBalanceChanges
    <3>1. payload.data = WithoutChanges(data)
      BY <2>2, <2>4
    <3>2. ChangesIn(payload) = {}
      BY <1>3, <2>3, <3>1
    <3> QED
      BY <2>4, <3>2 DEF payload
  <2>5. CASE options.includeTokenBalanceChanges /\ options.filterTokenBalances
    <3>1. payload.data = FilterAccountData(data)
      BY <2>2, <2>5
    <3>2. ChangesIn(payload) = UNION {{c \in all : c.account = a /\ Keeps(c)} : a \in Accs}
      BY <1>4, <2>3, <3>1
    <3>3. ChangesIn(payload) = FilterChanges(all)
      BY <1>1, <1>5, <3>2
    <3> QED
      BY <2>5, <3>3 DEF payload, all
  <2>6. CASE options.includeTokenBalanceChanges /\ ~options.filterTokenBalances
    <3>1. payload.data = data
      BY <2>2, <2>6
    <3>2. ChangesIn(payload) = UNION {{c \in all : c.account = a} : a \in Accs}
      BY <1>2, <2>3, <3>1
    <3>3. ChangesIn(payload) = all
      BY <1>1, <3>2
    <3> QED
      BY <2>6, <3>3 DEF payload, all
  <2> QED
    BY <2>4, <2>5, <2>6
<1> QED
  BY <1>6, <1>7

-----------------------------------------------------------------------------
(* Sums of lists that say the same in another order.                       *)

LEMMA FunctionsAreLists ==
    ASSUME NEW S, NEW n \in Nat, NEW f \in [1 .. n -> S]
    PROVE  f \in Seq(S) /\ Len(f) = n
OBVIOUS

LEMMA SumExists ==
    ASSUME NEW n \in Nat, NEW a \in [1 .. n -> Int]
    PROVE  \E f \in [0 .. n -> Int] : SumsUp(f, a, n) /\ Summed(a) = f[n]
<1>1. a \in Seq(Int) /\ Len(a) = n
  BY FunctionsAreLists
<1> QED
  BY <1>1, SummedFacts

LEMMA SummedSum ==
    ASSUME NEW n \in Nat, NEW a \in [1 .. n -> Int], NEW b \in [1 .. n -> Int],
           NEW c \in [1 .. n -> Int], \A i \in 1 .. n : c[i] = a[i] + b[i]
    PROVE  /\ Summed(c) = Summed(a) + Summed(b)
           /\ Summed(a) \in Int /\ Summed(b) \in Int /\ Summed(c) \in Int
<1>1. PICK fa \in [0 .. n -> Int] : SumsUp(fa, a, n) /\ Summed(a) = fa[n]
  BY SumExists
<1>2. PICK fb \in [0 .. n -> Int] : SumsUp(fb, b, n) /\ Summed(b) = fb[n]
  BY SumExists
<1>3. PICK fc \in [0 .. n -> Int] : SumsUp(fc, c, n) /\ Summed(c) = fc[n]
  BY SumExists
<1> DEFINE G == {i \in Nat : i <= n => fc[i] = fa[i] + fb[i]}
<1>4. 0 \in G
  BY <1>1, <1>2, <1>3 DEF SumsUp
<1>5. ASSUME NEW i \in Nat, i \in G PROVE i + 1 \in G
  <2> SUFFICES ASSUME i + 1 <= n PROVE fc[i + 1] = fa[i + 1] + fb[i + 1]
    OBVIOUS
  <2>1. i + 1 \in 1 .. n /\ (i + 1) - 1 = i /\ i <= n /\ i \in 0 .. n
    OBVIOUS
  <2>2. fc[i] = fa[i] + fb[i]
    BY <1>5, <2>1
  <2>3. /\ fa[i + 1] = fa[i] + a[i + 1] /\ fb[i + 1] = fb[i] + b[i + 1]
        /\ fc[i + 1] = fc[i] + c[i + 1]
    BY <1>1, <1>2, <1>3, <2>1 DEF SumsUp
  <2>4. /\ fa[i] \in Int /\ fb[i] \in Int /\ a[i + 1] \in Int /\ b[i + 1] \in Int
        /\ c[i + 1] = a[i + 1] + b[i + 1]
    BY <2>1
  <2> DEFINE w == fa[i]
             x == fb[i]
             y == a[i + 1]
             z == b[i + 1]
  <2>5. w \in Int /\ x \in Int /\ y \in Int /\ z \in Int
    BY <2>4
  <2>6. fa[i + 1] = w + y /\ fb[i + 1] = x + z
    BY <2>3
  <2>7. fc[i + 1] = (w + x) + (y + z)
    BY <2>2, <2>3, <2>4
  <2> HIDE DEF w, x, y, z
  <2>8. (w + x) + (y + z) = (w + y) + (x + z)
    BY <2>5
  <2> QED
    BY <2>6, <2>7, <2>8, Zenon
<1> HIDE DEF G
<1>6. Nat \subseteq G
  BY <1>4, <1>5, SetInduction
<1>7. n \in G /\ n <= n /\ n \in 0 .. n
  BY <1>6
<1>8. fc[n] = fa[n] + fb[n] /\ fa[n] \in Int /\ fb[n] \in Int /\ fc[n] \in Int
  BY <1>7 DEF G
<1> QED
  BY <1>1, <1>2, <1>3, <1>8

LEMMA AllZero ==
    ASSUME NEW n \in Nat, NEW a \in [1 .. n -> Int], \A i \in 1 .. n : a[i] = 0
    PROVE  Summed(a) = 0
<1>1. a \in Seq(Int) /\ Len(a) = n /\ 0 \in Int /\ 0 \notin 1 .. n
  BY FunctionsAreLists
<1>2. \A i \in DOMAIN a : a[i] = 0
  OBVIOUS
<1> QED
  BY <1>1, <1>2, OneSummand

LEMMA OnlyOne ==
    ASSUME NEW n \in Nat, NEW a \in [1 .. n -> Int], NEW p \in 1 .. n,
           \A i \in 1 .. n : i # p => a[i] = 0
    PROVE  Summed(a) = a[p]
<1>1. a \in Seq(Int) /\ Len(a) = n /\ p \in Int /\ p \in 1 .. Len(a)
  BY FunctionsAreLists
<1>2. \A i \in DOMAIN a : i # p => a[i] = 0
  OBVIOUS
<1> QED
  BY <1>1, <1>2, OneSummand

\* c and d are the numbers of keys kc and kd, each key once: what is not 0 in the
\* one list is in the other, anywhere.
Once(keys, n) == \A i, k \in 1 .. n : keys[i] = keys[k] => i = k
Finds(c, kc, n, d, kd, m) ==
    \A k \in 1 .. n : c[k] # 0 => \E i \in 1 .. m : kd[i] = kc[k] /\ d[i] = c[k]

LEMMA SameSum ==
    ASSUME NEW n \in Nat, NEW c \in [1 .. n -> Int], NEW kc,
           NEW m \in Nat, NEW d \in [1 .. m -> Int], NEW kd,
           Once(kc, n), Once(kd, m), Finds(c, kc, n, d, kd, m), Finds(d, kd, m, c, kc, n)
    PROVE  Summed(c) = Summed(d)
<1> DEFINE In(k, j) == \E i \in 1 .. j : kd[i] = kc[k]
           Part(j) == [k \in 1 .. n |-> IF In(k, j) THEN c[k] ELSE 0]
           At1(j) == [k \in 1 .. n |-> IF kd[j] = kc[k] THEN c[k] ELSE 0]
<1>1. PICK f \in [0 .. m -> Int] : SumsUp(f, d, m) /\ Summed(d) = f[m]
  BY SumExists
<1>2. \A j : Part(j) \in [1 .. n -> Int] /\ \A k \in 1 .. n : Part(j)[k] = IF In(k, j) THEN c[k] ELSE 0
  <2>1. \A k \in 1 .. n : c[k] \in Int /\ 0 \in Int
    OBVIOUS
  <2> HIDE DEF In
  <2> QED
    BY <2>1
<1>3. \A j : At1(j) \in [1 .. n -> Int] /\ \A k \in 1 .. n : At1(j)[k] = IF kd[j] = kc[k] THEN c[k] ELSE 0
  OBVIOUS
<1> HIDE DEF Part, At1
<1> DEFINE G == {j \in Nat : j <= m => Summed(Part(j)) = f[j]}
<1>4. 0 \in G
  <2>1. \A k \in 1 .. n : ~In(k, 0)
    OBVIOUS
  <2> HIDE DEF In
  <2>2. \A k \in 1 .. n : Part(0)[k] = 0
    BY <1>2, <2>1
  <2>3. Summed(Part(0)) = 0
    BY <1>2, <2>2, AllZero
  <2> QED
    BY <1>1, <2>3 DEF SumsUp
<1>5. ASSUME NEW j \in Nat, j \in G PROVE j + 1 \in G
  <2> SUFFICES ASSUME j + 1 <= m PROVE Summed(Part(j + 1)) = f[j + 1]
    OBVIOUS
  <2>1. j + 1 \in 1 .. m /\ (j + 1) - 1 = j /\ j <= m /\ j \in 0 .. m
    OBVIOUS
  <2>2. Summed(Part(j)) = f[j]
    BY <1>5, <2>1
  <2> DEFINE now  == Part(j)
             then == Part(j + 1)
             one  == At1(j + 1)
  <2>a. /\ now \in [1 .. n -> Int] /\ then \in [1 .. n -> Int]
        /\ \A k \in 1 .. n : now[k] = IF In(k, j) THEN c[k] ELSE 0
        /\ \A k \in 1 .. n : then[k] = IF In(k, j + 1) THEN c[k] ELSE 0
    <3> HIDE DEF In
    <3> QED
      BY <1>2
  <2>b. /\ one \in [1 .. n -> Int]
        /\ \A k \in 1 .. n : one[k] = IF kd[j + 1] = kc[k] THEN c[k] ELSE 0
    BY <1>3
  <2> HIDE DEF now, then, one
  <2>3. ASSUME NEW k \in 1 .. n PROVE then[k] = now[k] + one[k]
    <3>1. In(k, j + 1) <=> In(k, j) \/ kd[j + 1] = kc[k]
      <4>1. 1 .. j + 1 = (1 .. j) \cup {j + 1}
        OBVIOUS
      <4> QED
        BY <4>1
    <3>2. In(k, j) => kd[j + 1] # kc[k]
      <4> SUFFICES ASSUME NEW i \in 1 .. j, kd[i] = kc[k], kd[j + 1] = kc[k] PROVE FALSE
        OBVIOUS
      <4>1. i \in 1 .. m /\ i # j + 1
        BY <2>1
      <4> QED
        BY <2>1, <4>1 DEF Once
    <3> HIDE DEF In
    <3>3. c[k] \in Int
      OBVIOUS
    <3> QED
      BY <2>a, <2>b, <3>1, <3>2, <3>3
  <2>4. Summed(then) = Summed(now) + Summed(one)
    BY <2>a, <2>b, <2>3, SummedSum
  <2>5. Summed(one) = d[j + 1]
    <3>1. CASE d[j + 1] # 0
      <4>1. PICK p \in 1 .. n : kc[p] = kd[j + 1] /\ c[p] = d[j + 1]
        BY <2>1, <3>1 DEF Finds
      <4>2. \A k \in 1 .. n : k # p => one[k] = 0
        BY <2>b, <4>1 DEF Once
      <4>3. one[p] = c[p]
        BY <2>b, <4>1
      <4> QED
        <5>1. Summed(one) = one[p]
          BY <2>b, <4>2, OnlyOne
        <5> QED
          BY <4>1, <4>3, <5>1
    <3>2. CASE d[j + 1] = 0
      <4>1. ASSUME NEW k \in 1 .. n, kd[j + 1] = kc[k] PROVE c[k] = 0
        <5> SUFFICES ASSUME c[k] # 0 PROVE FALSE
          OBVIOUS
        <5>1. PICK i \in 1 .. m : kd[i] = kc[k] /\ d[i] = c[k]
          BY DEF Finds
        <5>2. i = j + 1
          BY <2>1, <4>1, <5>1 DEF Once
        <5> QED
          BY <3>2, <5>1, <5>2
      <4>2. \A k \in 1 .. n : one[k] = 0
        BY <2>b, <4>1
      <4> QED
        BY <2>b, <3>2, <4>2, AllZero
    <3> QED
      BY <3>1, <3>2
  <2>6. f[j + 1] = f[j] + d[j + 1]
    BY <1>1, <2>1 DEF SumsUp
  <2> QED
    BY <2>2, <2>4, <2>5, <2>6 DEF now, then
<1> HIDE DEF G
<1>6. Nat \subseteq G
  BY <1>4, <1>5, SetInduction
<1>7. m \in G /\ m <= m
  BY <1>6
<1>8. Summed(Part(m)) = f[m]
  BY <1>7 DEF G
<1>9. Part(m) = c
  <2>1. \A k \in 1 .. n : Part(m)[k] = c[k]
    <3> SUFFICES ASSUME NEW k \in 1 .. n PROVE Part(m)[k] = c[k]
      OBVIOUS
    <3>1. c[k] # 0 => In(k, m)
      BY DEF Finds
    <3> HIDE DEF In
    <3> QED
      BY <1>2, <3>1
  <2> QED
    BY <1>2, <2>1
<1> QED
  BY <1>1, <1>8, <1>9

Alike(n, c, kc, m, d, kd) ==
    /\ n \in Nat /\ c \in [1 .. n -> Int] /\ m \in Nat /\ d \in [1 .. m -> Int]
    /\ Once(kc, n) /\ Once(kd, m)
    /\ Finds(c, kc, n, d, kd, m) /\ Finds(d, kd, m, c, kc, n)

LEMMA AlikeSum ==
    ASSUME NEW n, NEW c, NEW kc, NEW m, NEW d, NEW kd, Alike(n, c, kc, m, d, kd)
    PROVE  Summed(c) = Summed(d)
<1>1. n \in Nat /\ c \in [1 .. n -> Int] /\ m \in Nat /\ d \in [1 .. m -> Int]
  BY DEF Alike
<1>2. Once(kc, n) /\ Once(kd, m) /\ Finds(c, kc, n, d, kd, m) /\ Finds(d, kd, m, c, kc, n)
  BY DEF Alike
<1> QED
  BY <1>1, <1>2, SameSum

\* SetToSeq lists a finite set: each element once.
LEMMA SetListed ==
    ASSUME NEW S, IsFiniteSet(S)
    PROVE  /\ SetToSeq(S) \in [1 .. Cardinality(S) -> S] /\ Cardinality(S) \in Nat
           /\ Once(SetToSeq(S), Cardinality(S))
           /\ \A x \in S : \E i \in 1 .. Cardinality(S) : SetToSeq(S)[i] = x
<1> DEFINE n == Cardinality(S)
           list == SetToSeq(S)
<1>1. n \in Nat /\ ExistsBijection(1 .. n, S)
  BY FS_CardinalityType
<1> HIDE DEF n
<1>2. PICK f \in [1 .. n -> S] : IsInjective(f)
  BY <1>1 DEF ExistsBijection, Bijection, Injection
<1>3. list \in [1 .. n -> S] /\ IsInjective(list)
  BY <1>2 DEF SetToSeq, n
<1> HIDE DEF list
<1>4. Once(list, n)
  BY <1>3 DEF IsInjective, Once
<1>5. list \in Injection(1 .. n, S)
  BY <1>3 DEF Injection
<1>6. IsFiniteSet(1 .. n) /\ Cardinality(1 .. n) = n
  BY <1>1, FS_Interval
<1>7. list \in Surjection(1 .. n, S)
  BY <1>5, <1>6, FS_Injection DEF n
<1>8. \A x \in S : \E i \in 1 .. n : list[i] = x
  BY <1>7 DEF Surjection
<1> QED
  BY <1>1, <1>3, <1>4, <1>8 DEF list, n

-----------------------------------------------------------------------------
(* The deltas: the balances of a mint are those that moved, which the       *)
(* changes list in another order, and those that did not.                  *)

KeyOf(b) == <<b.index, b.mint>>
Keys(balances) == [i \in 1 .. Len(balances) |-> KeyOf(balances[i])]

LEMMA EntryAmounts ==
    ASSUME NEW tx \in Txs, NEW balances \in {Raw[tx].pre, Raw[tx].post}
    PROVE  /\ Len(balances) \in Nat /\ DOMAIN balances = 1 .. Len(balances)
           /\ Once(Keys(balances), Len(balances))
           /\ \A i \in 1 .. Len(balances) :
                 /\ balances[i].amount \in Int
                 /\ AmountAt(balances, KeyOf(balances[i])) = balances[i].amount
                 /\ KeyOf(balances[i]) \in BalanceKeys(tx)
           /\ \A key : /\ AmountAt(balances, key) \in Int
                       /\ AmountAt(balances, key) # 0 =>
                             \E i \in 1 .. Len(balances) : KeyOf(balances[i]) = key
<1> DEFINE n == Len(balances)
<1>1. balances \in Seq(Range(balances)) /\ \A b \in Range(balances) : b.amount \in Nat
  BY TxAssumption DEF IsList
<1>2. \A i, k \in DOMAIN balances :
         <<balances[i].index, balances[i].mint>> = <<balances[k].index, balances[k].mint>> => i = k
  BY TxAssumption DEF IsList
<1>3. n \in Nat /\ DOMAIN balances = 1 .. n
  BY <1>1
<1>4. \A b : b \in Range(balances) <=> \E i \in 1 .. n : b = balances[i]
  BY <1>3 DEF Range
<1> HIDE DEF n
<1>5. Once(Keys(balances), n)
  BY <1>2, <1>3 DEF Once, Keys, KeyOf, n
<1>6. \A key : At(balances, key) = {b \in Range(balances) : KeyOf(b) = key}
  BY DEF At, KeyOf
<1>7. ASSUME NEW i \in 1 .. n
      PROVE  /\ balances[i].amount \in Int
             /\ AmountAt(balances, KeyOf(balances[i])) = balances[i].amount
             /\ KeyOf(balances[i]) \in BalanceKeys(tx)
  <2>1. balances[i] \in Range(balances)
    BY <1>4
  <2>2. \A b \in Range(balances) : KeyOf(b) = KeyOf(balances[i]) => b = balances[i]
    BY <1>2, <1>3, <1>4 DEF KeyOf
  <2>3. At(balances, KeyOf(balances[i])) = {balances[i]}
    BY <1>6, <2>1, <2>2
  <2>4. AmountAt(balances, KeyOf(balances[i])) = balances[i].amount
    BY <2>3 DEF AmountAt
  <2>5. KeyOf(balances[i]) \in BalanceKeys(tx)
    BY <2>1 DEF BalanceKeys, KeyOf
  <2> QED
    BY <1>1, <2>1, <2>4, <2>5
<1>8. ASSUME NEW key
      PROVE  /\ AmountAt(balances, key) \in Int
             /\ AmountAt(balances, key) # 0 => \E i \in 1 .. n : KeyOf(balances[i]) = key
  <2>1. CASE At(balances, key) = {}
    BY <2>1 DEF AmountAt
  <2>2. CASE At(balances, key) # {}
    <3>1. (CHOOSE b \in At(balances, key) : TRUE) \in At(balances, key)
      BY <2>2
    <3>2. AmountAt(balances, key) = (CHOOSE b \in At(balances, key) : TRUE).amount
      BY <2>2 DEF AmountAt
    <3>3. PICK b \in Range(balances) : KeyOf(b) = key /\ AmountAt(balances, key) = b.amount
      BY <1>6, <3>1, <3>2
    <3> QED
      BY <1>1, <1>4, <3>3
  <2> QED
    BY <2>1, <2>2
<1> QED
  BY <1>3, <1>5, <1>7, <1>8 DEF n

Amounts(balances, mint, keys) ==
    [i \in 1 .. Len(balances) |->
        IF balances[i].mint = mint /\ KeyOf(balances[i]) \in keys THEN balances[i].amount ELSE 0]

\* The numbers a are amounts of the balances with these keys and 0 elsewhere.
Says(a, balances, mint, keys) ==
    /\ a \in [1 .. Len(balances) -> Int]
    /\ \A i \in 1 .. Len(balances) :
          IF balances[i].mint = mint /\ KeyOf(balances[i]) \in keys
          THEN a[i] = AmountAt(balances, KeyOf(balances[i]))
          ELSE a[i] = 0

LEMMA AmountsType ==
    ASSUME NEW tx \in Txs, NEW balances \in {Raw[tx].pre, Raw[tx].post}, NEW mint, NEW keys
    PROVE  Says(Amounts(balances, mint, keys), balances, mint, keys)
BY EntryAmounts DEF Amounts, Says

Still(tx) == BalanceKeys(tx) \ ChangedKeys(tx)

LEMMA TotalParts ==
    ASSUME NEW tx \in Txs, NEW balances \in {Raw[tx].pre, Raw[tx].post}, NEW mint
    PROVE  /\ Total(balances, mint) = Summed(Amounts(balances, mint, ChangedKeys(tx)))
                                      + Summed(Amounts(balances, mint, Still(tx)))
           /\ Summed(Amounts(balances, mint, ChangedKeys(tx))) \in Int
           /\ Summed(Amounts(balances, mint, Still(tx))) \in Int
<1> DEFINE n == Len(balances)
           all == [i \in 1 .. n |-> IF balances[i].mint = mint THEN balances[i].amount ELSE 0]
           moved == Amounts(balances, mint, ChangedKeys(tx))
           still == Amounts(balances, mint, Still(tx))
<1>1. /\ n \in Nat /\ DOMAIN balances = 1 .. n
      /\ \A i \in 1 .. n : balances[i].amount \in Int /\ KeyOf(balances[i]) \in BalanceKeys(tx)
  BY EntryAmounts
<1>2. Total(balances, mint) = Summed(all)
  BY <1>1 DEF Total
<1>3. all \in [1 .. n -> Int]
  BY <1>1
<1>4. moved \in [1 .. n -> Int] /\ still \in [1 .. n -> Int]
  <2>1. Says(moved, balances, mint, ChangedKeys(tx)) /\ Says(still, balances, mint, Still(tx))
    BY AmountsType
  <2> QED
    BY <2>1 DEF Says
<1>5. ASSUME NEW i \in 1 .. n PROVE all[i] = moved[i] + still[i]
  <2>1. KeyOf(balances[i]) \in ChangedKeys(tx) <=> KeyOf(balances[i]) \notin Still(tx)
    BY <1>1 DEF Still
  <2> DEFINE b == balances[i]
  <2>2. /\ all[i] = IF b.mint = mint THEN b.amount ELSE 0
        /\ moved[i] = IF b.mint = mint /\ KeyOf(b) \in ChangedKeys(tx) THEN b.amount ELSE 0
        /\ still[i] = IF b.mint = mint /\ KeyOf(b) \in Still(tx) THEN b.amount ELSE 0
        /\ b.amount \in Int
    BY <1>1 DEF Amounts
  <2> HIDE DEF all, moved, still, b
  <2>3. KeyOf(b) \in ChangedKeys(tx) <=> KeyOf(b) \notin Still(tx)
    BY <2>1 DEF b
  <2> QED
    BY <2>2, <2>3
<1> HIDE DEF all, moved, still, n
<1>6. /\ Summed(all) = Summed(moved) + Summed(still)
      /\ Summed(moved) \in Int /\ Summed(still) \in Int
  BY <1>1, <1>3, <1>4, <1>5, SummedSum
<1> QED
  BY <1>2, <1>6 DEF moved, still

\* What did not move is the same on both sides.
LEMMA StillTheSame ==
    ASSUME NEW tx \in Txs, NEW mint
    PROVE  Summed(Amounts(Raw[tx].pre, mint, Still(tx))) = Summed(Amounts(Raw[tx].post, mint, Still(tx)))
<1> DEFINE both == {Raw[tx].pre, Raw[tx].post}
           Part(balances) == Amounts(balances, mint, Still(tx))
<1>a. ASSUME NEW balances \in both
      PROVE  Says(Part(balances), balances, mint, Still(tx))
  BY AmountsType
<1>b. ASSUME NEW balances \in both
      PROVE  \A key : AmountAt(balances, key) # 0 =>
                \E i \in 1 .. Len(balances) : KeyOf(balances[i]) = key
  BY EntryAmounts
<1> HIDE DEF Part
<1>1. ASSUME NEW one \in both, NEW other \in both
      PROVE  Finds(Part(one), Keys(one), Len(one), Part(other), Keys(other), Len(other))
  <2> SUFFICES ASSUME NEW k \in 1 .. Len(one), Part(one)[k] # 0
               PROVE  \E i \in 1 .. Len(other) : /\ Keys(other)[i] = Keys(one)[k]
                                                 /\ Part(other)[i] = Part(one)[k]
    BY DEF Finds
  <2> DEFINE key == KeyOf(one[k])
  <2>1. one[k].mint = mint /\ key \in Still(tx) /\ Part(one)[k] = AmountAt(one, key)
    BY <1>a DEF Says
  <2>2. AmountAt(Raw[tx].pre, key) = AmountAt(Raw[tx].post, key)
    BY <2>1 DEF Still, ChangedKeys
  <2>3. AmountAt(other, key) = AmountAt(one, key)
    BY <2>2
  <2>4. AmountAt(other, key) # 0
    BY <2>1, <2>3
  <2>5. PICK i \in 1 .. Len(other) : KeyOf(other[i]) = key
    BY <1>b, <2>4
  <2>6. other[i].mint = mint
    BY <2>1, <2>5 DEF KeyOf
  <2>7. Part(other)[i] = AmountAt(other, key)
    BY <1>a, <2>1, <2>5, <2>6 DEF Says
  <2>8. Keys(other)[i] = Keys(one)[k]
    BY <2>5 DEF Keys
  <2> QED
    BY <2>1, <2>3, <2>7, <2>8
<1>2. \A balances \in both : /\ Part(balances) \in [1 .. Len(balances) -> Int]
                             /\ Once(Keys(balances), Len(balances)) /\ Len(balances) \in Nat
  BY <1>a, EntryAmounts DEF Says
<1>3. Raw[tx].pre \in both /\ Raw[tx].post \in both
  OBVIOUS
<1> HIDE DEF both, Part
<1>4. Summed(Part(Raw[tx].pre)) = Summed(Part(Raw[tx].post))
  <2> DEFINE pre == Raw[tx].pre
             post == Raw[tx].post
             c == Part(pre)
             d == Part(post)
             n == Len(pre)
             m == Len(post)
             kc == Keys(pre)
             kd == Keys(post)
  <2>1. /\ n \in Nat /\ c \in [1 .. n -> Int] /\ Once(kc, n)
        /\ m \in Nat /\ d \in [1 .. m -> Int] /\ Once(kd, m)
    BY <1>2, <1>3
  <2>2. Finds(c, kc, n, d, kd, m) /\ Finds(d, kd, m, c, kc, n)
    BY <1>1, <1>3
  <2> HIDE DEF c, d, n, m, kc, kd
  <2>3. Summed(c) = Summed(d)
    BY <2>1, <2>2, SameSum
  <2> QED
    BY <2>3 DEF c, d
<1> QED
  BY <1>4 DEF Part

\* What moved, by a list of the keys that changed.
Changed(balances, mint, n, keys) ==
    [k \in 1 .. n |-> IF keys[k][2] = mint THEN AmountAt(balances, keys[k]) ELSE 0]

LEMMA MovedListed ==
    ASSUME NEW tx \in Txs, NEW balances \in {Raw[tx].pre, Raw[tx].post}, NEW mint,
           NEW n \in Nat, NEW keys \in [1 .. n -> ChangedKeys(tx)], Once(keys, n),
           \A key \in ChangedKeys(tx) : \E k \in 1 .. n : keys[k] = key
    PROVE  /\ Changed(balances, mint, n, keys) \in [1 .. n -> Int]
           /\ Summed(Changed(balances, mint, n, keys)) = Summed(Amounts(balances, mint, ChangedKeys(tx)))
<1> DEFINE m == Len(balances)
           c == Changed(balances, mint, n, keys)
           d == Amounts(balances, mint, ChangedKeys(tx))
<1>a. Says(d, balances, mint, ChangedKeys(tx))
  BY AmountsType
<1>b. \A key : AmountAt(balances, key) # 0 => \E i \in 1 .. m : KeyOf(balances[i]) = key
  BY EntryAmounts
<1>c. \A key : AmountAt(balances, key) \in Int
  BY EntryAmounts
<1>1. c \in [1 .. n -> Int]
  <2>1. \A k \in 1 .. n : AmountAt(balances, keys[k]) \in Int /\ 0 \in Int
    BY <1>c
  <2> QED
    BY <2>1 DEF Changed
<1>2. m \in Nat /\ d \in [1 .. m -> Int] /\ Once(Keys(balances), m)
  BY <1>a, EntryAmounts DEF Says
<1> HIDE DEF m, d
<1>3. Finds(c, keys, n, d, Keys(balances), m)
  <2> SUFFICES ASSUME NEW k \in 1 .. n, c[k] # 0
               PROVE  \E i \in 1 .. m : Keys(balances)[i] = keys[k] /\ d[i] = c[k]
    BY DEF Finds
  <2>1. keys[k][2] = mint /\ c[k] = AmountAt(balances, keys[k]) /\ keys[k] \in ChangedKeys(tx)
    BY DEF Changed
  <2>2. PICK i \in 1 .. m : KeyOf(balances[i]) = keys[k]
    BY <1>b, <2>1
  <2>3. balances[i].mint = mint
    BY <2>1, <2>2 DEF KeyOf
  <2>4. d[i] = AmountAt(balances, keys[k])
    BY <1>a, <2>1, <2>2, <2>3 DEF Says, m
  <2>5. Keys(balances)[i] = keys[k]
    BY <2>2 DEF Keys, m
  <2> QED
    BY <2>1, <2>4, <2>5
<1>4. Finds(d, Keys(balances), m, c, keys, n)
  <2> SUFFICES ASSUME NEW i \in 1 .. m, d[i] # 0
               PROVE  \E k \in 1 .. n : keys[k] = Keys(balances)[i] /\ c[k] = d[i]
    BY DEF Finds
  <2> DEFINE key == KeyOf(balances[i])
  <2>1. balances[i].mint = mint /\ key \in ChangedKeys(tx) /\ d[i] = AmountAt(balances, key)
    BY <1>a DEF Says, m
  <2>2. PICK k \in 1 .. n : keys[k] = key
    BY <2>1
  <2>3. key[2] = mint
    BY <2>1 DEF KeyOf
  <2>4. c[k] = AmountAt(balances, key)
    BY <2>2, <2>3 DEF Changed
  <2>5. Keys(balances)[i] = key
    BY DEF Keys, m
  <2> QED
    BY <2>1, <2>2, <2>4, <2>5
<1> HIDE DEF c, d, m
<1>5. Summed(c) = Summed(d)
  <2> DEFINE there == Keys(balances)
  <2>1. n \in Nat /\ m \in Nat /\ Once(keys, n) /\ Once(there, m)
    BY <1>2
  <2>2. Finds(c, keys, n, d, there, m) /\ Finds(d, there, m, c, keys, n)
    BY <1>3, <1>4
  <2>3. c \in [1 .. n -> Int] /\ d \in [1 .. m -> Int]
    BY <1>1, <1>2
  <2> HIDE DEF there
  <2>4. Alike(n, c, keys, m, d, there)
    BY <2>1, <2>2, <2>3 DEF Alike
  <2> QED
    BY <2>4, AlikeSum
<1> QED
  BY <1>1, <1>5 DEF c, d

LEMMA ImageFinite ==
    ASSUME NEW S, IsFiniteSet(S), NEW f, DOMAIN f = S
    PROVE  IsFiniteSet({f[x] : x \in S})
<1> DEFINE g == [x \in S |-> f[x]]
           T == {f[x] : x \in S}
<1>1. g \in Surjection(S, T)
  BY DEF Surjection
<1> HIDE DEF g, T
<1>2. IsFiniteSet(T)
  BY <1>1, FS_Surjection
<1> QED
  BY <1>2 DEF T

LEMMA ChangesFinite == ASSUME NEW tx \in Txs PROVE IsFiniteSet(TokenBalanceChanges(tx))
<1> DEFINE all == Range(Raw[tx].pre) \cup Range(Raw[tx].post)
           f == [b \in all |-> <<b.index, b.mint>>]
           g == [key \in ChangedKeys(tx) |-> ChangeOf(tx, key)]
<1>1. ASSUME NEW balances \in {Raw[tx].pre, Raw[tx].post} PROVE IsFiniteSet(Range(balances))
  <2>1. Len(balances) \in Nat /\ DOMAIN balances = 1 .. Len(balances)
    BY EntryAmounts
  <2>2. IsFiniteSet(1 .. Len(balances))
    BY <2>1, FS_Interval
  <2>3. IsFiniteSet(DOMAIN balances)
    BY <2>1, <2>2
  <2> QED
    BY <2>3, ImageFinite DEF Range
<1>2. IsFiniteSet(all)
  BY <1>1, FS_Union
<1>3. BalanceKeys(tx) = {f[b] : b \in all}
  BY DEF BalanceKeys
<1>4. DOMAIN f = all
  OBVIOUS
<1> HIDE DEF f, all
<1>5. IsFiniteSet(BalanceKeys(tx))
  BY <1>2, <1>3, <1>4, ImageFinite
<1>6. ChangedKeys(tx) \in SUBSET BalanceKeys(tx)
  BY DEF ChangedKeys
<1>7. IsFiniteSet(ChangedKeys(tx))
  BY <1>5, <1>6, FS_Subset
<1>8. TokenBalanceChanges(tx) = {g[key] : key \in ChangedKeys(tx)} /\ DOMAIN g = ChangedKeys(tx)
  BY ChangesOfKeys
<1> HIDE DEF g
<1> QED
  BY <1>7, <1>8, ImageFinite

\* The changes of a transaction, each with the key it was made for.
LEMMA ChangesListed ==
    ASSUME NEW tx \in Txs
    PROVE  LET n    == Cardinality(TokenBalanceChanges(tx))
               list == SetToSeq(TokenBalanceChanges(tx))
           IN  /\ n \in Nat /\ DOMAIN list = 1 .. n
               /\ \E keys \in [1 .. n -> ChangedKeys(tx)] :
                     /\ Once(keys, n)
                     /\ \A key \in ChangedKeys(tx) : \E k \in 1 .. n : keys[k] = key
                     /\ \A k \in 1 .. n : list[k] = ChangeOf(tx, keys[k])
<1> DEFINE all  == TokenBalanceChanges(tx)
           n    == Cardinality(all)
           list == SetToSeq(all)
           keys == [k \in 1 .. n |-> CHOOSE key \in ChangedKeys(tx) : list[k] = ChangeOf(tx, key)]
<1>1. all = {ChangeOf(tx, key) : key \in ChangedKeys(tx)}
  BY ChangesOfKeys
<1>2. IsFiniteSet(all)
  BY ChangesFinite
<1> HIDE DEF all
<1>3. /\ list \in [1 .. n -> all] /\ n \in Nat /\ Once(list, n)
      /\ \A x \in all : \E i \in 1 .. n : list[i] = x
  BY <1>2, SetListed
<1> HIDE DEF list, n
<1>4. ASSUME NEW k \in 1 .. n
      PROVE  keys[k] \in ChangedKeys(tx) /\ list[k] = ChangeOf(tx, keys[k])
  <2>1. list[k] \in all
    BY <1>3
  <2>2. \E key \in ChangedKeys(tx) : list[k] = ChangeOf(tx, key)
    BY <1>1, <2>1
  <2> QED
    BY <2>2
<1>5. keys \in [1 .. n -> ChangedKeys(tx)]
  BY <1>4
<1> HIDE DEF keys
<1>6. Once(keys, n)
  <2> SUFFICES ASSUME NEW i \in 1 .. n, NEW k \in 1 .. n, keys[i] = keys[k] PROVE i = k
    BY DEF Once
  <2>1. list[i] = list[k]
    BY <1>4
  <2> QED
    BY <1>3, <2>1 DEF Once
<1>7. ASSUME NEW one \in ChangedKeys(tx), NEW other \in ChangedKeys(tx),
             ChangeOf(tx, one) = ChangeOf(tx, other)
      PROVE  one = other
  <2>1. /\ one[1] \in DOMAIN Raw[tx].accounts /\ one = <<one[1], one[2]>>
        /\ other[1] \in DOMAIN Raw[tx].accounts /\ other = <<other[1], other[2]>>
    BY ChangesOfKeys
  <2>2. Raw[tx].accounts[one[1]] = Raw[tx].accounts[other[1]] /\ one[2] = other[2]
    BY <1>7 DEF ChangeOf
  <2>3. IsInjective(Raw[tx].accounts)
    BY TxAssumption DEF IsList
  <2>4. one[1] = other[1]
    BY <2>1, <2>2, <2>3 DEF IsInjective
  <2> QED
    BY <2>1, <2>2, <2>4
<1>8. ASSUME NEW key \in ChangedKeys(tx) PROVE \E k \in 1 .. n : keys[k] = key
  <2>1. ChangeOf(tx, key) \in all
    BY <1>1
  <2>2. PICK k \in 1 .. n : list[k] = ChangeOf(tx, key)
    BY <1>3, <2>1
  <2>3. keys[k] = key
    BY <1>4, <1>7, <2>2
  <2> QED
    BY <2>3
<1>9. DOMAIN list = 1 .. n
  BY <1>3
<1> QED
  BY <1>3, <1>4, <1>5, <1>6, <1>8, <1>9 DEF all, list, n

LEMMA DeltasOfChanges ==
    ASSUME NEW tx \in Txs, NEW mint
    PROVE  TotalDelta(TokenBalanceChanges(tx), mint)
               = Total(Raw[tx].post, mint) - Total(Raw[tx].pre, mint)
<1> DEFINE pre  == Raw[tx].pre
           post == Raw[tx].post
           n    == Cardinality(TokenBalanceChanges(tx))
           list == SetToSeq(TokenBalanceChanges(tx))
           d    == [k \in DOMAIN list |-> IF list[k].mint = mint THEN list[k].delta ELSE 0]
<1>1. n \in Nat /\ DOMAIN list = 1 .. n
  BY ChangesListed
<1>2. PICK keys \in [1 .. n -> ChangedKeys(tx)] :
         /\ Once(keys, n)
         /\ \A key \in ChangedKeys(tx) : \E k \in 1 .. n : keys[k] = key
         /\ \A k \in 1 .. n : list[k] = ChangeOf(tx, keys[k])
  BY ChangesListed
<1> DEFINE before == Changed(pre, mint, n, keys)
           after  == Changed(post, mint, n, keys)
<1>3. TotalDelta(TokenBalanceChanges(tx), mint) = Summed(d)
  BY DEF TotalDelta
<1> HIDE DEF list, n
<1>4. /\ before \in [1 .. n -> Int]
      /\ Summed(before) = Summed(Amounts(pre, mint, ChangedKeys(tx)))
  <2>1. pre \in {Raw[tx].pre, Raw[tx].post}
    OBVIOUS
  <2> QED
    BY <1>1, <1>2, <2>1, MovedListed
<1>5. /\ after \in [1 .. n -> Int]
      /\ Summed(after) = Summed(Amounts(post, mint, ChangedKeys(tx)))
  <2>1. post \in {Raw[tx].pre, Raw[tx].post}
    OBVIOUS
  <2> QED
    BY <1>1, <1>2, <2>1, MovedListed
<1>6. ASSUME NEW k \in 1 .. n
      PROVE  d[k] \in Int /\ after[k] = before[k] + d[k]
  <2> DEFINE x == AmountAt(pre, keys[k])
             y == AmountAt(post, keys[k])
  <2>1. x \in Int /\ y \in Int
    BY EntryAmounts
  <2>2. list[k].mint = keys[k][2] /\ list[k].delta = y - x
    <3>1. list[k] = ChangeOf(tx, keys[k])
      BY <1>2
    <3>2. ASSUME NEW key
          PROVE  /\ ChangeOf(tx, key).mint = key[2]
                 /\ ChangeOf(tx, key).delta = AmountAt(post, key) - AmountAt(pre, key)
      BY DEF ChangeOf, Delta
    <3> QED
      BY <3>1, <3>2
  <2>3. /\ d[k] = IF keys[k][2] = mint THEN y - x ELSE 0
        /\ before[k] = IF keys[k][2] = mint THEN x ELSE 0
        /\ after[k] = IF keys[k][2] = mint THEN y ELSE 0
    BY <1>1, <2>2 DEF Changed
  <2> HIDE DEF x, y, d, before, after
  <2> QED
    BY <2>1, <2>3
<1>7. d \in [1 .. n -> Int]
  BY <1>1, <1>6
<1> HIDE DEF d, before, after
<1>8. Summed(after) = Summed(before) + Summed(d) /\ Summed(before) \in Int /\ Summed(d) \in Int
  BY <1>1, <1>4, <1>5, <1>6, <1>7, SummedSum
<1> DEFINE still(balances) == Summed(Amounts(balances, mint, Still(tx)))
           moved(balances) == Summed(Amounts(balances, mint, ChangedKeys(tx)))
<1>9. Total(pre, mint) = moved(pre) + still(pre) /\ moved(pre) \in Int /\ still(pre) \in Int
  BY TotalParts
<1>10. Total(post, mint) = moved(post) + still(post) /\ moved(post) \in Int /\ still(post) \in Int
  BY TotalParts
<1>11. still(pre) = still(post)
  BY StillTheSame
<1>12. moved(pre) = Summed(before) /\ moved(post) = Summed(after)
  BY <1>4, <1>5
<1> HIDE DEF still, moved
<1>13. Summed(d) = Total(post, mint) - Total(pre, mint)
  <2> DEFINE a == Summed(before)
             b == Summed(after)
             c == Summed(d)
             e == still(pre)
             t == Total(pre, mint)
             u == Total(post, mint)
  <2>1. /\ a \in Int /\ c \in Int /\ e \in Int
        /\ b = a + c /\ t = a + e /\ u = b + e
    BY <1>8, <1>9, <1>10, <1>11, <1>12
  <2> HIDE DEF a, b, c, e, t, u
  <2>2. c = u - t
    BY <2>1
  <2> QED
    BY <2>2 DEF c, t, u
<1> QED
  BY <1>3, <1>13

-----------------------------------------------------------------------------
(* The transfers of lamports: what the code collects is what moves them.   *)

LEMMA MaxMember ==
    ASSUME NEW n \in Nat, NEW S \in SUBSET (1 .. n), S # {}
    PROVE  Max(S) \in S
<1> DEFINE HasMax(R) == \E x \in R : \A y \in R : x >= y
           G == {k \in Nat : S \cap (1 .. k) # {} => HasMax(S \cap (1 .. k))}
<1>1. 0 \in G
  OBVIOUS
<1>2. ASSUME NEW k \in Nat, k \in G PROVE k + 1 \in G
  <2>1. CASE k + 1 \in S
    <3>1. k + 1 \in S \cap (1 .. k + 1) /\ \A y \in S \cap (1 .. k + 1) : k + 1 >= y
      BY <2>1
    <3> QED
      BY <3>1
  <2>2. CASE k + 1 \notin S
    <3>1. S \cap (1 .. k + 1) = S \cap (1 .. k)
      BY <2>2
    <3> HIDE DEF HasMax
    <3> QED
      BY <1>2, <3>1
  <2> QED
    BY <2>1, <2>2
<1> HIDE DEF G
<1>3. Nat \subseteq G
  BY <1>1, <1>2, SetInduction
<1>4. n \in G /\ S \cap (1 .. n) = S
  BY <1>3
<1>5. HasMax(S)
  BY <1>4 DEF G
<1> QED
  BY <1>5 DEF Max

LEMMA SummedConcat ==
    ASSUME NEW n \in Nat, NEW m \in Nat, NEW a \in [1 .. n -> Int], NEW b \in [1 .. m -> Int],
           NEW c \in [1 .. n + m -> Int],
           \A i \in 1 .. n : c[i] = a[i], \A i \in 1 .. m : c[n + i] = b[i]
    PROVE  Summed(c) = Summed(a) + Summed(b) /\ Summed(a) \in Int /\ Summed(b) \in Int
<1>1. PICK fa \in [0 .. n -> Int] : SumsUp(fa, a, n) /\ Summed(a) = fa[n]
  BY SumExists
<1>2. PICK fb \in [0 .. m -> Int] : SumsUp(fb, b, m) /\ Summed(b) = fb[m]
  BY SumExists
<1>3. n + m \in Nat
  OBVIOUS
<1>4. PICK fc \in [0 .. n + m -> Int] : SumsUp(fc, c, n + m) /\ Summed(c) = fc[n + m]
  BY <1>3, SumExists
<1> DEFINE G == {i \in Nat : i <= n => fc[i] = fa[i]}
<1>5. 0 \in G
  BY <1>1, <1>4 DEF SumsUp
<1>6. ASSUME NEW i \in Nat, i \in G PROVE i + 1 \in G
  <2> SUFFICES ASSUME i + 1 <= n PROVE fc[i + 1] = fa[i + 1]
    OBVIOUS
  <2>1. i + 1 \in 1 .. n /\ i + 1 \in 1 .. n + m /\ (i + 1) - 1 = i /\ i <= n
    OBVIOUS
  <2>2. fc[i + 1] = fc[i] + c[i + 1] /\ fa[i + 1] = fa[i] + a[i + 1]
    BY <1>1, <1>4, <2>1 DEF SumsUp
  <2> QED
    BY <1>6, <2>1, <2>2
<1> HIDE DEF G
<1>7. Nat \subseteq G
  BY <1>5, <1>6, SetInduction
<1>8. n \in G /\ n <= n
  BY <1>7
<1>9. fc[n] = fa[n]
  BY <1>8 DEF G
<1> DEFINE H == {i \in Nat : i <= m => fc[n + i] = fa[n] + fb[i]}
<1>10. 0 \in H
  <2>1. fa[n] \in Int /\ n + 0 = n
    OBVIOUS
  <2>2. fb[0] = 0
    BY <1>2 DEF SumsUp
  <2> QED
    BY <1>9, <2>1, <2>2
<1>11. ASSUME NEW i \in Nat, i \in H PROVE i + 1 \in H
  <2> SUFFICES ASSUME i + 1 <= m PROVE fc[n + (i + 1)] = fa[n] + fb[i + 1]
    OBVIOUS
  <2>1. /\ i + 1 \in 1 .. m /\ n + (i + 1) \in 1 .. n + m /\ (i + 1) - 1 = i /\ i <= m
        /\ (n + (i + 1)) - 1 = n + i
    OBVIOUS
  <2>2. /\ fc[n + (i + 1)] = fc[n + i] + c[n + (i + 1)]
        /\ fb[i + 1] = fb[i] + b[i + 1]
    BY <1>2, <1>4, <2>1 DEF SumsUp
  <2>3. c[n + (i + 1)] = b[i + 1] /\ b[i + 1] \in Int /\ fb[i] \in Int /\ fa[n] \in Int
    BY <2>1
  <2>4. fc[n + i] = fa[n] + fb[i]
    BY <1>11, <2>1
  <2> DEFINE w == fa[n]
             x == fb[i]
             y == b[i + 1]
  <2>5. w \in Int /\ x \in Int /\ y \in Int
    BY <2>3
  <2>6. fc[n + (i + 1)] = (w + x) + y
    <3>1. c[n + (i + 1)] = y
      BY <2>3
    <3>2. fc[n + (i + 1)] = fc[n + i] + c[n + (i + 1)] /\ fc[n + i] = w + x
      BY <2>2, <2>4
    <3> HIDE DEF w, x, y
    <3> QED
      BY <3>1, <3>2, Zenon
  <2>7. fb[i + 1] = x + y
    BY <2>2
  <2> HIDE DEF w, x, y
  <2>8. (w + x) + y = w + (x + y)
    BY <2>5
  <2>9. fa[n] = w
    BY DEF w
  <2> QED
    BY <2>6, <2>7, <2>8, <2>9, Zenon
<1> HIDE DEF H
<1>12. Nat \subseteq H
  BY <1>10, <1>11, SetInduction
<1>13. m \in H /\ m <= m
  BY <1>12
<1>14. fc[n + m] = fa[n] + fb[m]
  BY <1>13 DEF H
<1>15. fa[n] \in Int /\ fb[m] \in Int
  OBVIOUS
<1> QED
  BY <1>1, <1>2, <1>4, <1>14, <1>15

\* c is the numbers of a, then those of b.
Joined(c, n, a, m, b) ==
    /\ n \in Nat /\ m \in Nat /\ a \in [1 .. n -> Int] /\ b \in [1 .. m -> Int]
    /\ c \in [1 .. n + m -> Int]
    /\ \A i \in 1 .. n : c[i] = a[i]
    /\ \A i \in 1 .. m : c[n + i] = b[i]

LEMMA JoinedSum ==
    ASSUME NEW c, NEW n, NEW a, NEW m, NEW b, Joined(c, n, a, m, b)
    PROVE  Summed(c) = Summed(a) + Summed(b) /\ Summed(a) \in Int /\ Summed(b) \in Int
<1>1. n \in Nat /\ m \in Nat
  BY DEF Joined
<1>2. a \in [1 .. n -> Int] /\ b \in [1 .. m -> Int] /\ c \in [1 .. n + m -> Int]
  BY DEF Joined
<1>3. (\A i \in 1 .. n : c[i] = a[i]) /\ \A i \in 1 .. m : c[n + i] = b[i]
  BY DEF Joined
<1> QED
  BY <1>1, <1>2, <1>3, SummedConcat

\* FlattenSeq as a loop.
LEMMA FlattenLoop ==
    ASSUME NEW T, NEW n \in Nat, NEW s \in [1 .. n -> Seq(T)]
    PROVE  \E f \in [0 .. n -> Seq(T)] :
              /\ f[0] = <<>>
              /\ \A i \in 1 .. n : f[i] = f[i - 1] \o s[i]
              /\ FlattenSeq(s) = f[n]
<1> DEFINE step == [i \in 1 .. n |-> [x \in Seq(T) |-> x \o s[i]]]
           Unfold(f) == [i \in 1 .. n |-> IF i = 1 THEN s[i] ELSE f[i - 1] \o s[i]]
           flat == CHOOSE f : f = Unfold(f)
<1>1. s \in Seq(Seq(T)) /\ Len(s) = n
  BY FunctionsAreLists
<1>2. FlattenSeq(s) = IF n = 0 THEN s ELSE flat[n]
  BY <1>1 DEF FlattenSeq
<1>3. step \in [1 .. n -> [Seq(T) -> Seq(T)]]
  <2>1. \A i \in 1 .. n : s[i] \in Seq(T)
    OBVIOUS
  <2>2. \A x, y \in Seq(T) : x \o y \in Seq(T)
    OBVIOUS
  <2> QED
    BY <2>1, <2>2
<1>4. \A i \in 1 .. n : \A x \in Seq(T) : step[i][x] = x \o s[i]
  OBVIOUS
<1> HIDE DEF step
<1>5. PICK f \in [0 .. n -> Seq(T)] : IsLoop(f, n, <<>>, step)
  <2>1. <<>> \in Seq(T)
    OBVIOUS
  <2> QED
    BY <1>3, <2>1, LoopExists, Zenon
<1>6. f[0] = <<>> /\ \A i \in 1 .. n : f[i] = f[i - 1] \o s[i]
  <2>1. ASSUME NEW i \in 1 .. n PROVE f[i] = f[i - 1] \o s[i]
    <3>1. i - 1 \in 0 .. n
      OBVIOUS
    <3>2. f[i - 1] \in Seq(T)
      BY <3>1
    <3> QED
      BY <1>4, <1>5, <3>2 DEF IsLoop
  <2> QED
    BY <1>5, <2>1 DEF IsLoop
<1>7. CASE n = 0
  <2>1. s = <<>>
    BY <1>1, <1>7
  <2> QED
    BY <1>2, <1>6, <1>7, <2>1
<1>8. CASE n # 0
  <2> DEFINE g == [i \in 1 .. n |-> f[i]]
  <2>1. f[1] = s[1]
    <3>1. 1 \in 1 .. n /\ 1 - 1 = 0
      BY <1>8
    <3>2. s[1] \in Seq(T)
      BY <3>1
    <3>3. <<>> \o s[1] = s[1]
      BY <3>2
    <3> QED
      BY <1>6, <3>1, <3>3
  <2>2. g = Unfold(g)
    <3>1. ASSUME NEW i \in 1 .. n PROVE g[i] = Unfold(g)[i]
      <4>1. i = 1 \/ (i # 1 /\ i - 1 \in 1 .. n)
        OBVIOUS
      <4>2. g[i] = f[i] /\ (i # 1 => g[i - 1] = f[i - 1])
        BY <4>1
      <4> HIDE DEF g
      <4>3. Unfold(g)[i] = IF i = 1 THEN s[i] ELSE g[i - 1] \o s[i]
        OBVIOUS
      <4> QED
        BY <1>6, <2>1, <4>1, <4>2, <4>3
    <3>2. DOMAIN Unfold(g) = 1 .. n /\ DOMAIN g = 1 .. n
      OBVIOUS
    <3>3. g = [i \in 1 .. n |-> g[i]] /\ Unfold(g) = [i \in 1 .. n |-> Unfold(g)[i]]
      OBVIOUS
    <3> HIDE DEF Unfold, g
    <3> QED
      BY <3>1, <3>3
  <2> HIDE DEF g, Unfold
  <2>3. flat = Unfold(flat)
    BY <2>2
  <2>4. \A i \in 1 .. n : flat[i] = IF i = 1 THEN s[i] ELSE flat[i - 1] \o s[i]
    <3>1. \A i \in 1 .. n : Unfold(flat)[i] = IF i = 1 THEN s[i] ELSE flat[i - 1] \o s[i]
      BY DEF Unfold
    <3> HIDE DEF flat
    <3> QED
      BY <2>3, <3>1
  <2> HIDE DEF flat
  <2> DEFINE G == {i \in Nat : i \in 1 .. n => flat[i] = f[i]}
  <2>5. 0 \in G
    OBVIOUS
  <2>6. ASSUME NEW i \in Nat, i \in G PROVE i + 1 \in G
    <3> SUFFICES ASSUME i + 1 \in 1 .. n PROVE flat[i + 1] = f[i + 1]
      OBVIOUS
    <3>1. (i + 1) - 1 = i /\ (i + 1 # 1 => i \in 1 .. n) /\ (i + 1 = 1 => i = 0)
      OBVIOUS
    <3>2. f[i + 1] = f[i] \o s[i + 1]
      BY <1>6, <3>1
    <3>3. flat[i + 1] = IF i + 1 = 1 THEN s[i + 1] ELSE flat[i] \o s[i + 1]
      BY <2>4, <3>1
    <3>4. i + 1 # 1 => flat[i] = f[i]
      BY <2>6, <3>1
    <3> QED
      BY <2>1, <3>2, <3>3, <3>4
  <2> HIDE DEF G
  <2>7. Nat \subseteq G
    BY <2>5, <2>6, SetInduction
  <2>8. n \in G /\ n \in 1 .. n
    BY <1>8, <2>7
  <2>9. flat[n] = f[n]
    BY <2>8 DEF G
  <2> QED
    BY <1>2, <1>6, <1>8, <2>9
<1> QED
  BY <1>7, <1>8

\* NativesOf as a loop, over instructions from T.
NativesIn(T) == {ParsedNative(ix) : ix \in {x \in T : IsNativeTransfer(x)}}

LEMMA NativesLoop ==
    ASSUME NEW T, NEW n \in Nat, NEW ixs \in [1 .. n -> T]
    PROVE  \E f \in [0 .. n -> Seq(NativesIn(T))] :
              /\ f[0] = <<>>
              /\ \A i \in 1 .. n :
                    f[i] = IF IsNativeTransfer(ixs[i]) THEN Append(f[i - 1], ParsedNative(ixs[i]))
                           ELSE f[i - 1]
              /\ NativesOf(ixs) = f[n]
<1> DEFINE N == NativesIn(T)
           After(x, i) == IF IsNativeTransfer(ixs[i]) THEN Append(x, ParsedNative(ixs[i])) ELSE x
           step == [i \in 1 .. n |-> [x \in Seq(N) |-> After(x, i)]]
           Unfold(f) == [i \in 0 .. n |->
                            IF i = 0 THEN <<>>
                            ELSE IF IsNativeTransfer(ixs[i])
                            THEN Append(f[i - 1], ParsedNative(ixs[i]))
                            ELSE f[i - 1]]
           loop == CHOOSE f : f = Unfold(f)
<1>1. ixs \in Seq(T) /\ Len(ixs) = n
  BY FunctionsAreLists
<1>2. NativesOf(ixs) = loop[n]
  BY <1>1 DEF NativesOf
<1>3. \A i \in 1 .. n : IsNativeTransfer(ixs[i]) => ParsedNative(ixs[i]) \in N
  BY DEF NativesIn
<1> HIDE DEF N
<1>4. \A i \in 1 .. n : \A x \in Seq(N) : After(x, i) \in Seq(N)
  BY <1>3
<1>5. step \in [1 .. n -> [Seq(N) -> Seq(N)]]
  <2> HIDE DEF After
  <2> QED
    BY <1>4
<1>6. \A i \in 1 .. n : \A x \in Seq(N) : step[i][x] = After(x, i)
  <2> HIDE DEF After
  <2> QED
    OBVIOUS
<1> HIDE DEF step
<1>7. PICK f \in [0 .. n -> Seq(N)] : IsLoop(f, n, <<>>, step)
  <2>1. <<>> \in Seq(N)
    OBVIOUS
  <2> QED
    BY <1>5, <2>1, LoopExists, Zenon
<1>8. f[0] = <<>> /\ \A i \in 1 .. n : f[i] = After(f[i - 1], i)
  <2> HIDE DEF After
  <2>1. ASSUME NEW i \in 1 .. n PROVE f[i] = After(f[i - 1], i)
    <3>1. i - 1 \in 0 .. n
      OBVIOUS
    <3>2. f[i - 1] \in Seq(N)
      BY <3>1
    <3> QED
      BY <1>6, <1>7, <3>2 DEF IsLoop
  <2> QED
    BY <1>7, <2>1 DEF IsLoop
<1>9. \A g : /\ Unfold(g)[0] = <<>> /\ \A i \in 1 .. n : Unfold(g)[i] = After(g[i - 1], i)
             /\ Unfold(g) = [i \in 0 .. n |-> Unfold(g)[i]]
  OBVIOUS
<1> HIDE DEF Unfold, After
<1>10. f = Unfold(f)
  <2>1. ASSUME NEW i \in 0 .. n PROVE f[i] = Unfold(f)[i]
    <3>1. i = 0 \/ i \in 1 .. n
      OBVIOUS
    <3> QED
      BY <1>8, <1>9, <3>1
  <2> QED
    BY <1>9, <2>1
<1>11. loop = Unfold(loop)
  BY <1>10
<1>12. loop[0] = <<>> /\ \A i \in 1 .. n : loop[i] = After(loop[i - 1], i)
  <2> HIDE DEF loop
  <2> QED
    BY <1>9, <1>11
<1> HIDE DEF loop
<1> DEFINE G == {i \in Nat : i <= n => loop[i] = f[i]}
<1>13. 0 \in G
  BY <1>8, <1>12
<1>14. ASSUME NEW i \in Nat, i \in G PROVE i + 1 \in G
  <2> SUFFICES ASSUME i + 1 <= n PROVE loop[i + 1] = f[i + 1]
    OBVIOUS
  <2>1. i + 1 \in 1 .. n /\ (i + 1) - 1 = i /\ i <= n
    OBVIOUS
  <2>2. loop[i + 1] = After(loop[i], i + 1) /\ f[i + 1] = After(f[i], i + 1)
    BY <1>8, <1>12, <2>1
  <2> QED
    BY <1>14, <2>1, <2>2
<1> HIDE DEF G
<1>15. Nat \subseteq G
  BY <1>13, <1>14, SetInduction
<1>16. n \in G /\ n <= n
  BY <1>15
<1>17. loop[n] = f[n]
  BY <1>16 DEF G
<1> QED
  BY <1>2, <1>8, <1>17 DEF After, N

\* One transfer more.
ToOrFrom(t, side, account) == IF t[side] = account THEN t.amount ELSE 0

LEMMA TotalMore ==
    ASSUME NEW N, \A t \in N : t.amount \in Int, NEW natives \in Seq(N), NEW t \in N,
           NEW side, NEW account
    PROVE  /\ TotalNative(natives, side, account) \in Int
           /\ TotalNative(Append(natives, t), side, account) =
                 TotalNative(natives, side, account) + ToOrFrom(t, side, account)
<1> DEFINE n == Len(natives)
           more == Append(natives, t)
           a == [i \in 1 .. n |-> ToOrFrom(natives[i], side, account)]
           b == [i \in 1 .. 1 |-> ToOrFrom(t, side, account)]
           c == [i \in 1 .. n + 1 |-> ToOrFrom(more[i], side, account)]
<1>1. /\ n \in Nat /\ DOMAIN natives = 1 .. n /\ DOMAIN more = 1 .. n + 1
      /\ \A i \in 1 .. n : natives[i] \in N /\ more[i] = natives[i]
      /\ more[n + 1] = t
  OBVIOUS
<1>2. TotalNative(natives, side, account) = Summed(a) /\ TotalNative(more, side, account) = Summed(c)
  BY <1>1 DEF TotalNative, ToOrFrom
<1>3. \A x \in N : ToOrFrom(x, side, account) \in Int
  BY DEF ToOrFrom
<1> HIDE DEF n, more
<1>4. a \in [1 .. n -> Int] /\ b \in [1 .. 1 -> Int]
  BY <1>1, <1>3
<1>5. c \in [1 .. n + 1 -> Int]
  <2>1. \A i \in 1 .. n + 1 : i \in 1 .. n \/ i = n + 1
    BY <1>1
  <2>2. \A i \in 1 .. n + 1 : more[i] \in N
    BY <1>1, <2>1
  <2> QED
    BY <1>3, <2>2
<1>6. \A i \in 1 .. n : c[i] = a[i]
  BY <1>1
<1>7. \A i \in 1 .. 1 : c[n + i] = b[i]
  <2>1. \A i \in 1 .. 1 : n + i = n + 1 /\ n + 1 \in 1 .. n + 1
    BY <1>1
  <2> QED
    BY <1>1, <2>1
<1>8. b[1] = ToOrFrom(t, side, account) /\ 1 \in Nat /\ 1 \in 1 .. 1 /\ \A i \in 1 .. 1 : i # 1 => b[i] = 0
  OBVIOUS
<1> HIDE DEF a, b, c
<1>9. Summed(c) = Summed(a) + Summed(b) /\ Summed(a) \in Int
  <2>1. Joined(c, n, a, 1, b)
    BY <1>1, <1>4, <1>5, <1>6, <1>7, <1>8 DEF Joined
  <2> QED
    BY <2>1, JoinedSum
<1>10. Summed(b) = b[1]
  BY <1>4, <1>8, OnlyOne
<1> QED
  BY <1>2, <1>8, <1>9, <1>10 DEF more

AmountsIn(N) == \A t \in N : t.amount \in Int

LEMMA TotalAppend ==
    \A N, natives, t, side, account :
        AmountsIn(N) /\ natives \in Seq(N) /\ t \in N =>
            TotalNative(Append(natives, t), side, account) =
                TotalNative(natives, side, account) + ToOrFrom(t, side, account)
BY TotalMore DEF AmountsIn

-----------------------------------------------------------------------------
(* Rounding: what a number may be off, and that this adds up.              *)

Near(x, y, d) == x \in Int /\ y \in Int /\ d \in Int /\ x - y <= d /\ y - x <= d

LEMMA NearSum ==
    ASSUME NEW x, NEW y, NEW d, Near(x, y, d), NEW p, NEW q, NEW e, Near(p, q, e)
    PROVE  Near(x + p, y + q, d + e) /\ Near(x - p, y - q, d + e)
BY DEF Near

LEMMA LeastExists ==
    ASSUME NEW S, S \subseteq Nat, S # {}
    PROVE  \E m \in S : \A n \in S : m <= n
<1> DEFINE R == {r \in Nat \X Nat : r[1] < r[2]}
<1>1. R = OpToRel(<, Nat)
  BY DEF OpToRel
<1>2. IsWellFoundedOn(R, Nat)
  BY <1>1, NatLessThanWellFounded
<1>3. \A m, n \in Nat : n < m => <<n, m>> \in R
  OBVIOUS
<1> HIDE DEF R
<1>4. PICK m \in S : \A n \in S : ~(<<n, m>> \in R)
  BY <1>2, WFMin
<1>5. ASSUME NEW n \in S PROVE m <= n
  <2>1. m \in Nat /\ n \in Nat /\ ~(n < m)
    BY <1>3, <1>4
  <2> QED
    BY <2>1
<1> QED
  BY <1>5

\* The nearest multiple of a unit is half a unit away at most.
LEMMA NearestNear ==
    ASSUME NEW n \in Nat, NEW u \in Nat \ {0}
    PROVE  Near(Nearest(n, u), n, u \div 2)
<1> DEFINE rest == n % u
           half == u \div 2
<1>1. rest \in Nat /\ rest < u
  OBVIOUS
<1>2. half \in Nat /\ 2 * half <= u /\ u <= 2 * half + 1
  OBVIOUS
<1>3. \/ Nearest(n, u) = n - rest /\ 2 * rest <= u
      \/ Nearest(n, u) = n - rest + u /\ 2 * rest >= u
  BY <1>1 DEF Nearest
<1> HIDE DEF rest, half
<1>4. Near(Nearest(n, u), n, half)
  BY <1>1, <1>2, <1>3 DEF Near
<1> QED
  BY <1>4 DEF half

LEMMA NumberNear ==
    ASSUME NEW n \in Int, \E u \in Units : Size(n) <= Exact * u
    PROVE  Near(Number(n), n, Rounding(n))
<1> DEFINE Fitting == {u \in Units : Size(n) <= Exact * u}
<1>1. Unit(n) \in Nat \ {0}
  <2>1. Fitting \subseteq Nat /\ Fitting # {}
    BY NumberAssumption
  <2>2. \E u \in Fitting : \A v \in Fitting : u <= v
    <3> HIDE DEF Fitting
    <3> QED
      BY <2>1, LeastExists
  <2>3. \E u \in Units : Size(n) <= Exact * u /\ \A v \in Units : Size(n) <= Exact * v => u <= v
    BY <2>2
  <2>4. Unit(n) \in Units
    BY <2>3 DEF Unit
  <2> QED
    BY <2>4, NumberAssumption
<1> DEFINE u == Unit(n)
<1> HIDE DEF u
<1>2. u \in Nat \ {0} /\ Rounding(n) = u \div 2
  BY <1>1 DEF u, Rounding
<1>3. CASE n < 0
  <2>1. -n \in Nat /\ Number(n) = -Nearest(-n, u)
    BY <1>3 DEF Number, u
  <2>2. Near(Nearest(-n, u), -n, u \div 2)
    BY <1>2, <2>1, NearestNear
  <2> QED
    BY <1>2, <2>1, <2>2 DEF Near
<1>4. CASE ~(n < 0)
  <2>1. n \in Nat /\ Number(n) = Nearest(n, u)
    BY <1>4 DEF Number, u
  <2> QED
    BY <1>2, <2>1, NearestNear
<1> QED
  BY <1>3, <1>4

LEMMA LamportsNear ==
    ASSUME NEW n, IsLamports(n)
    PROVE  n \in Int /\ Near(Number(n), n, Rounding(n))
<1>1. n \in Int /\ Size(n) = n
  BY DEF IsLamports, Size
<1> QED
  BY <1>1, NumberNear DEF IsLamports

\* What a balance of lamports changes by fits too.
LEMMA ChangeNear ==
    ASSUME NEW n, IsLamports(n), NEW m, IsLamports(m)
    PROVE  Near(Number(n - m), n - m, Rounding(n - m))
<1>1. n \in Nat /\ m \in Nat /\ n - m \in Int
  BY DEF IsLamports
<1>2. PICK u \in Units, v \in Units : n <= Exact * u /\ m <= Exact * v
  BY DEF IsLamports
<1>3. Exact * u \in Int /\ Exact * v \in Int
  BY NumberAssumption
<1> DEFINE p == Exact * u
           q == Exact * v
<1>4. p \in Int /\ q \in Int /\ n <= p /\ m <= q
  BY <1>2, <1>3
<1> HIDE DEF p, q
<1>5. Size(n - m) <= p \/ Size(n - m) <= q
  BY <1>1, <1>4 DEF Size
<1>6. \E w \in Units : Size(n - m) <= Exact * w
  BY <1>5 DEF p, q
<1> QED
  BY <1>1, <1>6, NumberNear

-----------------------------------------------------------------------------
(* Lamports: what a list of instructions is reported to transfer is what   *)
(* it moves, up to rounding.                                               *)

Sound(ix) == MovesLamports(ix) => /\ IsLamports(ix.amount) /\ ix.amount # None
                                  /\ Len(ix.accounts) >= Receiver(ix)

LEMMA SoundFacts ==
    ASSUME NEW ix, Sound(ix), NEW account
    PROVE  /\ IsNativeTransfer(ix) <=> MovesLamports(ix)
           /\ Gained(ix, account) \in Int /\ RoundingIn(ix, account) \in Int
           /\ IsNativeTransfer(ix) =>
                 /\ ParsedNative(ix).amount \in Int
                 /\ Near(ToOrFrom(ParsedNative(ix), "to", account)
                           - ToOrFrom(ParsedNative(ix), "from", account),
                         Gained(ix, account), RoundingIn(ix, account))
           /\ ~IsNativeTransfer(ix) => Gained(ix, account) = 0 /\ RoundingIn(ix, account) = 0
<1>1. Recipient(ix.kind) = Receiver(ix)
  BY DEF Recipient, Receiver
<1>2. IsNativeTransfer(ix) <=> MovesLamports(ix)
  BY <1>1 DEF IsNativeTransfer, MovesLamports, Sound
<1>3. CASE ~MovesLamports(ix)
  BY <1>2, <1>3 DEF Gained, RoundingIn
<1>4. CASE MovesLamports(ix)
  <2> DEFINE t == ParsedNative(ix)
             to == ix.accounts[Receiver(ix)]
             from == ix.accounts[1]
             amount == ix.amount
             number == Number(amount)
             half == Rounding(amount)
  <2>1. t.amount = number /\ t["to"] = to /\ t["from"] = from
    BY <1>1 DEF ParsedNative
  <2>2. Near(number, amount, half)
    BY <1>4, LamportsNear DEF Sound
  <2>3. /\ Gained(ix, account) = (IF to = account THEN amount ELSE 0)
                                 - (IF from = account THEN amount ELSE 0)
        /\ RoundingIn(ix, account) = (IF to = account THEN half ELSE 0)
                                     + (IF from = account THEN half ELSE 0)
    BY <1>4 DEF Gained, RoundingIn
  <2>4. /\ ToOrFrom(t, "to", account) = IF to = account THEN number ELSE 0
        /\ ToOrFrom(t, "from", account) = IF from = account THEN number ELSE 0
    BY <2>1 DEF ToOrFrom
  <2> HIDE DEF t, to, from, amount, number, half
  <2>5. Near(0, 0, 0)
    BY DEF Near
  <2>6. Near(ToOrFrom(t, "to", account) - ToOrFrom(t, "from", account),
             Gained(ix, account), RoundingIn(ix, account))
    BY <2>2, <2>3, <2>4 DEF Near
  <2>7. t.amount \in Int /\ Gained(ix, account) \in Int /\ RoundingIn(ix, account) \in Int
    BY <2>1, <2>2, <2>6 DEF Near
  <2> QED
    BY <1>2, <1>4, <2>6, <2>7 DEF t
<1> QED
  BY <1>3, <1>4

LEMMA NativesAdd ==
    ASSUME NEW T, NEW n \in Nat, NEW ixs \in [1 .. n -> T], \A ix \in T : Sound(ix), NEW account
    PROVE  Near(TotalNative(NativesOf(ixs), "to", account)
                  - TotalNative(NativesOf(ixs), "from", account),
                GainedBy(ixs, account), RoundingBy(ixs, account))
<1> DEFINE N == NativesIn(T)
           gains == [k \in 1 .. n |-> Gained(ixs[k], account)]
           halves == [k \in 1 .. n |-> RoundingIn(ixs[k], account)]
<1>1. GainedBy(ixs, account) = Summed(gains) /\ RoundingBy(ixs, account) = Summed(halves)
  BY DEF GainedBy, RoundingBy
<1>2. \A k \in 1 .. n : ixs[k] \in T /\ Sound(ixs[k])
  OBVIOUS
<1>3. gains \in [1 .. n -> Int] /\ halves \in [1 .. n -> Int]
  <2>1. \A k \in 1 .. n : Gained(ixs[k], account) \in Int /\ RoundingIn(ixs[k], account) \in Int
    BY <1>2, SoundFacts
  <2> QED
    BY <2>1
<1>4. \A t \in N : t.amount \in Int
  BY SoundFacts DEF NativesIn
<1>5. \A k \in 1 .. n : /\ gains[k] = Gained(ixs[k], account)
                         /\ halves[k] = RoundingIn(ixs[k], account)
  OBVIOUS
<1>6. \A k \in 1 .. n : IsNativeTransfer(ixs[k]) => ParsedNative(ixs[k]) \in N
  BY <1>2 DEF NativesIn
<1> HIDE DEF gains, halves
<1>7. PICK f \in [0 .. n -> Seq(N)] :
         /\ f[0] = <<>>
         /\ \A i \in 1 .. n :
               f[i] = IF IsNativeTransfer(ixs[i]) THEN Append(f[i - 1], ParsedNative(ixs[i]))
                      ELSE f[i - 1]
         /\ NativesOf(ixs) = f[n]
  BY NativesLoop
<1>8. PICK g \in [0 .. n -> Int] : SumsUp(g, gains, n) /\ Summed(gains) = g[n]
  BY <1>3, SumExists
<1>9. PICK h \in [0 .. n -> Int] : SumsUp(h, halves, n) /\ Summed(halves) = h[n]
  BY <1>3, SumExists
<1> HIDE DEF N
<1> DEFINE To(s) == TotalNative(s, "to", account)
           From(s) == TotalNative(s, "from", account)
           G == {i \in Nat : i <= n => /\ To(f[i]) \in Int /\ From(f[i]) \in Int
                                       /\ Near(To(f[i]) - From(f[i]), g[i], h[i])}
<1>10. 0 \in G
  <2> DEFINE none == [i \in 1 .. 0 |-> 0]
  <2>1. \A side : TotalNative(<<>>, side, account) = 0
    <3> SUFFICES ASSUME NEW side PROVE TotalNative(<<>>, side, account) = 0
      OBVIOUS
    <3> DEFINE a == [i \in DOMAIN <<>> |-> IF <<>>[i][side] = account THEN <<>>[i].amount ELSE 0]
    <3>1. a \in [1 .. 0 -> Int] /\ 0 \in Nat /\ \A i \in 1 .. 0 : a[i] = 0
      OBVIOUS
    <3>2. Summed(a) = 0
      <4> HIDE DEF a
      <4> QED
        BY <3>1, AllZero
    <3> QED
      BY <3>2 DEF TotalNative
  <2> QED
    BY <1>7, <1>8, <1>9, <2>1 DEF SumsUp, Near
<1> HIDE DEF To, From
<1>11. ASSUME NEW i \in Nat, i \in G PROVE i + 1 \in G
  <2> SUFFICES ASSUME i + 1 <= n
               PROVE  /\ To(f[i + 1]) \in Int /\ From(f[i + 1]) \in Int
                      /\ Near(To(f[i + 1]) - From(f[i + 1]), g[i + 1], h[i + 1])
    OBVIOUS
  <2>1. i + 1 \in 1 .. n /\ (i + 1) - 1 = i /\ i <= n /\ i \in 0 .. n
    OBVIOUS
  <2>2. To(f[i]) \in Int /\ From(f[i]) \in Int /\ Near(To(f[i]) - From(f[i]), g[i], h[i])
    BY <1>11, <2>1
  <2> DEFINE ix == ixs[i + 1]
             t  == ParsedNative(ix)
  <2>3. /\ g[i + 1] = g[i] + Gained(ix, account)
        /\ h[i + 1] = h[i] + RoundingIn(ix, account)
        /\ f[i + 1] = IF IsNativeTransfer(ix) THEN Append(f[i], t) ELSE f[i]
        /\ f[i] \in Seq(N)
    BY <1>5, <1>7, <1>8, <1>9, <2>1 DEF SumsUp
  <2>4. Sound(ix) /\ (IsNativeTransfer(ix) => t \in N)
    BY <1>2, <1>6, <2>1
  <2> HIDE DEF ix
  <2>5. CASE IsNativeTransfer(ix)
    <3>1. Near(ToOrFrom(t, "to", account) - ToOrFrom(t, "from", account),
               Gained(ix, account), RoundingIn(ix, account))
      BY <2>4, <2>5, SoundFacts
    <3>2. t \in N /\ f[i + 1] = Append(f[i], t)
      BY <2>3, <2>4, <2>5
    <3> DEFINE s == f[i]
               p == To(s)
               q == From(s)
               x == ToOrFrom(t, "to", account)
               y == ToOrFrom(t, "from", account)
    <3> HIDE DEF t
    <3>3. s \in Seq(N)
      BY <2>3
    <3>4. p \in Int /\ q \in Int /\ Near(p - q, g[i], h[i])
      BY <2>2
    <3> HIDE DEF s
    <3>5. ASSUME NEW side
          PROVE  TotalNative(Append(s, t), side, account) =
                    TotalNative(s, side, account) + ToOrFrom(t, side, account)
      <4>1. AmountsIn(N) /\ s \in Seq(N) /\ t \in N
        BY <1>4, <3>2, <3>3 DEF AmountsIn
      <4> QED
        BY <4>1, TotalAppend
    <3>6. To(Append(s, t)) = p + x /\ From(Append(s, t)) = q + y
      BY <3>5 DEF To, From
    <3>7. x \in Int /\ y \in Int
      BY <1>4, <3>2 DEF ToOrFrom
    <3>8. Near((p - q) + (x - y), g[i + 1], h[i + 1])
      <4>1. Near(p - q, g[i], h[i]) /\ Near(x - y, Gained(ix, account), RoundingIn(ix, account))
        BY <3>1, <3>4
      <4> HIDE DEF p, q, x, y
      <4> QED
        BY <2>3, <4>1, NearSum
    <3>9. To(f[i + 1]) = p + x /\ From(f[i + 1]) = q + y
      BY <3>2, <3>6 DEF s
    <3> HIDE DEF p, q, x, y
    <3>10. p + x \in Int /\ q + y \in Int /\ (p - q) + (x - y) = (p + x) - (q + y)
      BY <3>4, <3>7
    <3> QED
      BY <3>8, <3>9, <3>10, Zenon
  <2>6. CASE ~IsNativeTransfer(ix)
    <3>1. Gained(ix, account) = 0 /\ RoundingIn(ix, account) = 0
      BY <2>4, <2>6, SoundFacts
    <3>2. g[i + 1] = g[i] /\ h[i + 1] = h[i] /\ f[i + 1] = f[i]
      BY <2>2, <2>3, <2>6, <3>1 DEF Near
    <3> QED
      BY <2>2, <3>2
  <2> QED
    BY <2>5, <2>6
<1> HIDE DEF G
<1>12. Nat \subseteq G
  BY <1>10, <1>11, SetInduction
<1>13. n \in G /\ n <= n
  BY <1>12
<1>14. Near(To(f[n]) - From(f[n]), g[n], h[n])
  BY <1>13 DEF G
<1> QED
  BY <1>1, <1>7, <1>8, <1>9, <1>14 DEF To, From

\* What lists of instructions move, one after the other.
LEMMA GainsJoined ==
    ASSUME NEW T, NEW account, \A ix \in T : Gained(ix, account) \in Int,
           NEW u \in Seq(T), NEW v \in Seq(T)
    PROVE  /\ GainedBy(u, account) \in Int
           /\ GainedBy(u \o v, account) = GainedBy(u, account) + GainedBy(v, account)
<1> DEFINE n == Len(u)
           m == Len(v)
           w == u \o v
           a == [i \in 1 .. n |-> Gained(u[i], account)]
           b == [i \in 1 .. m |-> Gained(v[i], account)]
           c == [i \in 1 .. n + m |-> Gained(w[i], account)]
<1>1. /\ n \in Nat /\ m \in Nat
      /\ DOMAIN u = 1 .. n /\ DOMAIN v = 1 .. m /\ DOMAIN w = 1 .. n + m
      /\ \A i \in 1 .. n : u[i] \in T
      /\ \A i \in 1 .. m : v[i] \in T
      /\ \A i \in 1 .. n : w[i] = u[i]
      /\ \A i \in 1 .. m : w[n + i] = v[i]
  OBVIOUS
<1>2. \A i \in 1 .. n + m : w[i] \in T
  <2>1. w \in Seq(T) /\ Len(w) = n + m
    OBVIOUS
  <2> HIDE DEF w, n, m
  <2> QED
    BY <2>1
<1>3. /\ GainedBy(u, account) = Summed(a) /\ GainedBy(v, account) = Summed(b)
      /\ GainedBy(w, account) = Summed(c)
  <2> HIDE DEF w, n, m
  <2> QED
    BY <1>1 DEF GainedBy
<1> HIDE DEF w, n, m
<1>4. a \in [1 .. n -> Int] /\ b \in [1 .. m -> Int] /\ c \in [1 .. n + m -> Int]
  BY <1>1, <1>2
<1>5. \A i \in 1 .. n : c[i] = a[i]
  <2>1. \A i \in 1 .. n : i \in 1 .. n + m
    BY <1>1
  <2> QED
    BY <1>1, <2>1
<1>6. \A i \in 1 .. m : c[n + i] = b[i]
  <2>1. \A i \in 1 .. m : n + i \in 1 .. n + m
    BY <1>1
  <2> QED
    BY <1>1, <2>1
<1> HIDE DEF a, b, c
<1>7. Joined(c, n, a, m, b)
  BY <1>1, <1>4, <1>5, <1>6 DEF Joined
<1> QED
  BY <1>3, <1>7, JoinedSum DEF w

SumOfGains(s, n, account) == Summed([i \in 1 .. n |-> GainedBy(s[i], account)])

LEMMA GainsFlattened ==
    ASSUME NEW T, NEW account, \A ix \in T : Gained(ix, account) \in Int,
           NEW n \in Nat, NEW s \in [1 .. n -> Seq(T)]
    PROVE  /\ FlattenSeq(s) \in Seq(T)
           /\ GainedBy(FlattenSeq(s), account) = SumOfGains(s, n, account)
<1> DEFINE a == [i \in 1 .. n |-> GainedBy(s[i], account)]
<1>1. PICK f \in [0 .. n -> Seq(T)] :
         /\ f[0] = <<>>
         /\ \A i \in 1 .. n : f[i] = f[i - 1] \o s[i]
         /\ FlattenSeq(s) = f[n]
  BY FlattenLoop
<1>2. \A i \in 1 .. n : s[i] \in Seq(T) /\ a[i] = GainedBy(s[i], account)
  OBVIOUS
<1>3. a \in [1 .. n -> Int]
  <2>1. \A i \in 1 .. n : GainedBy(s[i], account) \in Int
    BY <1>2, GainsJoined
  <2> QED
    BY <2>1
<1> HIDE DEF a
<1>4. PICK g \in [0 .. n -> Int] : SumsUp(g, a, n) /\ Summed(a) = g[n]
  BY <1>3, SumExists
<1> DEFINE G == {i \in Nat : i <= n => GainedBy(f[i], account) = g[i]}
<1>5. 0 \in G
  <2> DEFINE none == [k \in DOMAIN <<>> |-> Gained(<<>>[k], account)]
  <2>1. none \in [1 .. 0 -> Int] /\ 0 \in Nat /\ \A i \in 1 .. 0 : none[i] = 0
    OBVIOUS
  <2>2. GainedBy(<<>>, account) = Summed(none)
    BY DEF GainedBy
  <2> HIDE DEF none
  <2>3. Summed(none) = 0
    BY <2>1, AllZero
  <2> QED
    BY <1>1, <1>4, <2>2, <2>3 DEF SumsUp
<1>6. ASSUME NEW i \in Nat, i \in G PROVE i + 1 \in G
  <2> SUFFICES ASSUME i + 1 <= n PROVE GainedBy(f[i + 1], account) = g[i + 1]
    OBVIOUS
  <2>1. i + 1 \in 1 .. n /\ (i + 1) - 1 = i /\ i <= n /\ i \in 0 .. n
    OBVIOUS
  <2>2. f[i + 1] = f[i] \o s[i + 1] /\ f[i] \in Seq(T) /\ s[i + 1] \in Seq(T)
    BY <1>1, <1>2, <2>1
  <2>3. GainedBy(f[i] \o s[i + 1], account) = GainedBy(f[i], account) + GainedBy(s[i + 1], account)
    BY <2>2, GainsJoined
  <2>4. g[i + 1] = g[i] + a[i + 1] /\ a[i + 1] = GainedBy(s[i + 1], account)
    BY <1>2, <1>4, <2>1 DEF SumsUp
  <2>5. GainedBy(f[i], account) = g[i]
    BY <1>6, <2>1
  <2> QED
    BY <2>2, <2>3, <2>4, <2>5
<1> HIDE DEF G
<1>7. Nat \subseteq G
  BY <1>5, <1>6, SetInduction
<1>8. n \in G /\ n <= n /\ n \in 0 .. n
  BY <1>7
<1>9. GainedBy(f[n], account) = g[n] /\ f[n] \in Seq(T)
  BY <1>8 DEF G
<1> QED
  BY <1>1, <1>4, <1>9 DEF a, SumOfGains

\* An instruction and its inner ones are a list.
LEMMA InnerList ==
    ASSUME NEW tx \in Txs, NEW index
    PROVE  InnerOf(tx, index) \in Seq(Range(InnerOf(tx, index)))
<1> DEFINE inner == Raw[tx].inner
           n == Len(inner)
           groups == {g \in DOMAIN inner : inner[g].index = index}
<1>1. n \in Nat /\ DOMAIN inner = 1 .. n
  <2>1. inner \in Seq(Range(inner))
    BY TxAssumption DEF IsList
  <2> HIDE DEF inner
  <2> QED
    BY <2>1
<1>2. InnerOf(tx, index) = IF groups = {} THEN <<>> ELSE inner[Max(groups)].instructions
  BY DEF InnerOf
<1>3. \A i \in DOMAIN inner : inner[i].instructions \in Seq(Range(inner[i].instructions))
  <2>1. \A group \in Range(inner) : IsList(group.instructions)
    BY TxAssumption
  <2> HIDE DEF inner
  <2> QED
    BY <2>1 DEF IsList, Range
<1> HIDE DEF inner, n
<1>4. CASE groups = {}
  BY <1>2, <1>4
<1>5. CASE groups # {}
  <2>1. groups \in SUBSET (1 .. n)
    BY <1>1
  <2> HIDE DEF groups
  <2>2. Max(groups) \in groups
    BY <1>1, <1>5, <2>1, MaxMember
  <2>3. Max(groups) \in DOMAIN inner
    BY <1>1, <2>1, <2>2
  <2> QED
    BY <1>2, <1>3, <1>5, <2>3
<1> QED
  BY <1>4, <1>5

LEMMA FamilyList ==
    ASSUME NEW tx \in Txs, NEW i
    PROVE  Family(tx, i) \in Seq(Range(Family(tx, i)))
<1> DEFINE first == <<Raw[tx].instructions[i]>>
           inner == InnerOf(tx, i)
           all == first \o inner
           n == Len(all)
<1>1. n \in Nat /\ DOMAIN all = 1 .. n
  <2>1. inner \in Seq(Range(inner))
    BY InnerList
  <2> HIDE DEF inner
  <2> QED
    BY <2>1
<1>2. Family(tx, i) = [k \in 1 .. n |-> Decoded(tx, all[k])]
  <2> HIDE DEF n, all
  <2>1. Family(tx, i) = [k \in DOMAIN all |-> Decoded(tx, all[k])]
    BY DEF Family, all
  <2> QED
    BY <1>1, <2>1
<1> HIDE DEF n, all
<1> DEFINE family == [k \in 1 .. n |-> Decoded(tx, all[k])]
<1>3. family \in [1 .. n -> Range(family)]
  BY DEF Range
<1> HIDE DEF family
<1>4. family \in Seq(Range(family))
  BY <1>1, <1>3, FunctionsAreLists
<1> QED
  BY <1>2, <1>4, Zenon DEF family

\* The reported transfers are what the families of instructions move, up to rounding.
LEMMA NativesOfFamilies ==
    ASSUME NEW tx \in Txs, NEW account,
           \A i \in DOMAIN Raw[tx].instructions : \A ix \in Range(Family(tx, i)) : Sound(ix)
    PROVE  Near(TotalNative(NativeTransfers[tx], "to", account)
                  - TotalNative(NativeTransfers[tx], "from", account),
                Summed([i \in DOMAIN Raw[tx].instructions |-> GainedBy(Family(tx, i), account)]),
                RoundingBy(Instructions[tx], account))
<1> DEFINE n == Len(Raw[tx].instructions)
           s == [i \in DOMAIN Raw[tx].instructions |-> Family(tx, i)]
           T == UNION {Range(Family(tx, i)) : i \in DOMAIN Raw[tx].instructions}
           all == FlattenSeq(s)
<1>1. n \in Nat /\ DOMAIN Raw[tx].instructions = 1 .. n
  <2>1. Raw[tx].instructions \in Seq(Range(Raw[tx].instructions))
    BY TxAssumption DEF IsList
  <2> QED
    BY <2>1
<1>2. \A ix \in T : Sound(ix) /\ Gained(ix, account) \in Int
  BY SoundFacts
<1>3. ASSUME NEW i \in 1 .. n PROVE Family(tx, i) \in Seq(T)
  <2>1. Range(Family(tx, i)) \subseteq T
    BY <1>1
  <2> HIDE DEF T
  <2>2. Family(tx, i) \in Seq(Range(Family(tx, i)))
    BY FamilyList
  <2> QED
    BY <2>1, <2>2
<1>4. Instructions[tx] = all
  BY DEF Instructions
<1>5. [i \in DOMAIN Raw[tx].instructions |-> GainedBy(Family(tx, i), account)] =
         [i \in 1 .. n |-> GainedBy(s[i], account)]
  BY <1>1
<1> HIDE DEF n, T
<1>6. s \in [1 .. n -> Seq(T)]
  BY <1>1, <1>3
<1> HIDE DEF s
<1>7. all \in Seq(T) /\ GainedBy(all, account) = SumOfGains(s, n, account)
  <2>1. \A ix \in T : Gained(ix, account) \in Int
    BY <1>2
  <2> QED
    BY <1>1, <1>6, <2>1, GainsFlattened
<1> HIDE DEF all
<1>8. Len(all) \in Nat /\ all \in [1 .. Len(all) -> T]
  BY <1>7
<1>9. Near(TotalNative(NativesOf(all), "to", account)
             - TotalNative(NativesOf(all), "from", account),
           GainedBy(all, account), RoundingBy(all, account))
  BY <1>2, <1>8, NativesAdd
<1>10. NativeTransfers[tx] = NativesOf(all)
  BY <1>4 DEF NativeTransfers
<1> QED
  BY <1>4, <1>5, <1>7, <1>9, <1>10 DEF SumOfGains

-----------------------------------------------------------------------------
(* The theorems.                                                           *)

THEOREM InvariantHolds == Spec => []IInv
BY InitIInv, NextIInv, PTL DEF Spec

\* The token account cache never holds more than maxSize entries nor two for one
\* account, a transformation waits for no lookup that is settled and builds no
\* more transfers than the transaction has, and a payload has one of the formats.
THEOREM TransactionsTypeCorrect == Spec => []TypeOK
<1>1. IInv => TypeOK
  BY DEF IInv
<1> QED
  BY <1>1, InvariantHolds, PTL

\* The transfers of one transaction agree on whose a token account is: each was
\* built from the lookups of buildTokenTransfers, and a lookup that is settled
\* never changes, whatever is evicted, refreshed or fetched meanwhile.
THEOREM HopsAlwaysAgree == Spec => []HopsAgree
<1>1. ASSUME IInv PROVE HopsAgree
  <2> SUFFICES ASSUME NEW tx \in DOMAIN jobs, NEW x \in Range(jobs[tx].transfers),
                      NEW y \in Range(jobs[tx].transfers)
               PROVE  /\ x.to = y.to => x.toUser = y.toUser
                      /\ x.to = y.from /\ x.toUser # None => y.fromUser = x.toUser
    BY DEF HopsAgree
  <2>1. \A k \in DOMAIN jobs[tx].transfers : Explained(jobs[tx].transfers[k], jobs[tx].looked)
    BY <1>1 DEF IInv, JobsFit, JobFits, Transfers
  <2>2. Explained(x, jobs[tx].looked) /\ Explained(y, jobs[tx].looked)
    BY <2>1 DEF Range
  <2> QED
    BY <2>2 DEF Explained
<1> QED
  BY <1>1, InvariantHolds, PTL

\* The node is not asked for an account whose owner the transaction itself names,
\* if those accounts fit the cache: populateFromTokenBalances leaves them as the
\* ones used last, so that no eviction hits them before their lookup.
THEOREM OwnBalancesAlwaysSuffice == Spec => []OwnBalancesSuffice
<1>1. IInv => OwnBalancesSuffice
  BY DEF IInv, JobsFit, JobFits, OwnSuffice, OwnBalancesSuffice
<1> QED
  BY <1>1, InvariantHolds, PTL

\* "Changes apply immediately": whatever happens while a transformation waits, the
\* client is told of the transaction exactly if it touches, by an account or by a
\* balance that moved, what is watched when the transformation ends.
THEOREM ToldIffWatched == Spec => SentIffWatched
<1>1. ASSUME IInv, [Next]_vars
      PROVE  \A tx \in DOMAIN jobs \ DOMAIN jobs' : (sent' # {}) <=> Interesting(tx)
  <2> SUFFICES ASSUME NEW tx \in DOMAIN jobs, tx \notin DOMAIN jobs'
               PROVE  (sent' # {}) <=> Interesting(tx)
    OBVIOUS
  <2>1. ASSUME NEW t, NEW job, NEW state, Resumes(t, job, state) PROVE FALSE
    BY <2>1 DEF Resumes, Bound
  <2>2. ASSUME NEW t \in Txs, Arrive(t) PROVE FALSE
    BY <2>1, <2>2 DEF Arrive
  <2>3. ASSUME NEW t \in DOMAIN jobs, PushTransfer(t) PROVE FALSE
    BY <2>1, <2>3 DEF PushTransfer
  <2>4. ASSUME NEW t, NEW a, NEW info, Fetched(t, a, info) PROVE FALSE
    <3>1. DOMAIN jobs' = DOMAIN jobs
      BY <2>4 DEF Fetched
    <3> QED
      BY <3>1
  <2>5. ASSUME jobs' = jobs PROVE FALSE
    BY <2>5
  <2>6. PICK t \in DOMAIN jobs : Broadcast(t)
    BY <1>1, <2>2, <2>3, <2>4, <2>5
       DEF Next, WatchAccounts, WatchMints, UpdateClientOptions, vars
  <2>7. /\ sent' = IF MatchesWatchlist(t) THEN {Payload(t, jobs[t].transfers)} ELSE {}
        /\ DOMAIN jobs' = DOMAIN jobs \ {t}
    BY <2>6 DEF Broadcast
  <2>8. t = tx
    BY <2>7
  <2>9. tx \in Txs
    BY <1>1 DEF IInv, TypeOK
  <2>10. (sent' # {}) <=> MatchesWatchlist(tx)
    BY <2>7, <2>8
  <2> QED
    BY <1>1, <2>9, <2>10, MatchesIfInteresting DEF IInv
<1> QED
  BY <1>1, InvariantHolds, PTL DEF Spec, SentIffWatched

\* Both formats carry exactly the balances that moved, if they carry any, and
\* filtered those that concern what is watched, for any transaction.
THEOREM ChangesAlwaysExact == Spec => []ChangesExact
<1>1. ASSUME IInv PROVE ChangesExact
  <2> SUFFICES ASSUME NEW payload \in sent
               PROVE  {<<c.account, c.mint>> : c \in ChangesIn(payload)} =
                         {pair \in Range(Raw[payload.tx].accounts) \X MintsOf(payload.tx) :
                             /\ options.includeTokenBalanceChanges
                             /\ Moved(payload.tx, pair[1], pair[2])
                             /\ options.filterTokenBalances
                                => Concerns(payload.tx, pair[1], pair[2])}
    BY DEF ChangesExact
  <2> DEFINE tx == payload.tx
             Kept == {key \in ChangedKeys(tx) :
                         /\ options.includeTokenBalanceChanges
                         /\ options.filterTokenBalances
                            => Concerns(tx, Raw[tx].accounts[key[1]], key[2])}
             PairOf(key) == <<Raw[tx].accounts[key[1]], key[2]>>
             Pairs == {pair \in Range(Raw[tx].accounts) \X MintsOf(tx) :
                         /\ options.includeTokenBalanceChanges
                         /\ Moved(tx, pair[1], pair[2])
                         /\ options.filterTokenBalances => Concerns(tx, pair[1], pair[2])}
  <2>1. tx \in Txs /\ \E transfers : payload = Payload(tx, transfers)
    BY <1>1 DEF IInv, SentFits
  <2> HIDE DEF tx
  <2>2. ChangesIn(payload) =
           IF ~options.includeTokenBalanceChanges THEN {}
           ELSE IF options.filterTokenBalances THEN FilterChanges(TokenBalanceChanges(tx))
           ELSE TokenBalanceChanges(tx)
    BY <2>1, PayloadCarries
  <2>3. \A key : /\ ChangeOf(tx, key).account = Raw[tx].accounts[key[1]]
                 /\ ChangeOf(tx, key).mint = key[2]
    BY DEF ChangeOf
  <2>4. TokenBalanceChanges(tx) = {ChangeOf(tx, key) : key \in ChangedKeys(tx)}
    BY <2>1, ChangesOfKeys
  <2>5. FilterChanges(TokenBalanceChanges(tx)) =
           {ChangeOf(tx, key) : key \in {k \in ChangedKeys(tx) :
                                           Concerns(tx, Raw[tx].accounts[k[1]], k[2])}}
    <3>1. \A key \in ChangedKeys(tx) :
             LET c == ChangeOf(tx, key) IN
             Concerns(tx, Raw[tx].accounts[key[1]], key[2])
                 <=> c.account \in watchAccounts \/ c.owner \in watchAccounts \/ c.mint \in watchMints
      BY <1>1, <2>1, <2>3, KeptIfConcerned DEF IInv
    <3> QED
      BY <2>4, <3>1 DEF FilterChanges
  <2>6. ChangesIn(payload) = {ChangeOf(tx, key) : key \in Kept}
    BY <2>2, <2>4, <2>5
  <2>7. {<<c.account, c.mint>> : c \in ChangesIn(payload)} = {PairOf(key) : key \in Kept}
    BY <2>3, <2>6
  <2>8. ASSUME NEW key \in Kept PROVE PairOf(key) \in Pairs
    <3>1. /\ key[1] \in DOMAIN Raw[tx].accounts /\ key[2] \in MintsOf(tx)
          /\ key = <<key[1], key[2]>>
      BY <2>1, ChangesOfKeys
    <3>2. Moved(tx, Raw[tx].accounts[key[1]], key[2])
      BY <2>1, <3>1, MovedIffChanged
    <3>3. Raw[tx].accounts[key[1]] \in Range(Raw[tx].accounts)
      BY <3>1 DEF Range
    <3> QED
      BY <3>1, <3>2, <3>3
  <2>9. ASSUME NEW pair \in Pairs PROVE \E key \in Kept : pair = PairOf(key)
    <3>1. PICK index \in DOMAIN Raw[tx].accounts : pair[1] = Raw[tx].accounts[index]
      BY DEF Range
    <3> DEFINE key == <<index, pair[2]>>
    <3>2. key \in ChangedKeys(tx) /\ key[1] = index /\ key[2] = pair[2]
      BY <2>1, <3>1, MovedIffChanged
    <3> HIDE DEF key
    <3>3. key \in Kept
      BY <3>1, <3>2
    <3>4. pair = <<pair[1], pair[2]>>
      OBVIOUS
    <3> QED
      BY <3>1, <3>2, <3>3, <3>4
  <2> HIDE DEF Kept, Pairs, PairOf
  <2>10. {<<c.account, c.mint>> : c \in ChangesIn(payload)} = Pairs
    BY <2>7, <2>8, <2>9
  <2> QED
    BY <2>10 DEF Pairs, tx
<1> QED
  BY <1>1, InvariantHolds, PTL

\* The deltas a client gets add up: over all changes of a mint they are what the
\* balances of the transaction gained or lost, for any balances in any order.
THEOREM DeltasAlwaysAddUp == Spec => []DeltasAddUp
<1>1. ASSUME IInv PROVE DeltasAddUp
  <2> SUFFICES ASSUME options.includeTokenBalanceChanges, ~options.filterTokenBalances,
                      NEW payload \in sent, NEW m \in MintsOf(payload.tx)
               PROVE  TotalDelta(ChangesIn(payload), m) =
                         Total(Raw[payload.tx].post, m) - Total(Raw[payload.tx].pre, m)
    BY DEF DeltasAddUp
  <2>1. payload.tx \in Txs /\ \E transfers : payload = Payload(payload.tx, transfers)
    BY <1>1 DEF IInv, SentFits
  <2> DEFINE tx == payload.tx
  <2> HIDE DEF tx
  <2>2. tx \in Txs /\ \E transfers : payload = Payload(tx, transfers)
    BY <2>1 DEF tx
  <2>3. ChangesIn(payload) = TokenBalanceChanges(tx)
    BY <2>2, PayloadCarries
  <2>4. TotalDelta(TokenBalanceChanges(tx), m) = Total(Raw[tx].post, m) - Total(Raw[tx].pre, m)
    BY <2>2, DeltasOfChanges
  <2> QED
    BY <2>3, <2>4 DEF tx
<1> QED
  BY <1>1, InvariantHolds, PTL

\* The two accounts of lamports in an enhanced event agree: if the ledger moves
\* lamports by the instructions of the System program, calls included, and by the
\* fee, then what deriveNativeTransfers finds leaves nothing of a reported change
\* unexplained but the rounding of the doubles it is reported in, for any
\* instructions, nested in any way, and any amounts of 64 bits.
THEOREM NativesAlwaysExplain == ASSUME LedgerMoves PROVE Spec => []NativesExplain
<1>1. ASSUME IInv PROVE NativesExplain
  <2> SUFFICES ASSUME NEW payload \in sent, payload.format = "enhanced", OnlyTransfers(payload.tx),
                      NEW n \in DOMAIN Raw[payload.tx].accounts
               PROVE  LET a == Raw[payload.tx].accounts[n]
                          explained == TotalNative(payload.natives, "to", a)
                                       - TotalNative(payload.natives, "from", a)
                                       - (IF n = 1 THEN payload.fee ELSE 0)
                      IN  Size(payload.data[a].native - explained) <= RoundingOf(payload.tx, n)
    BY DEF NativesExplain
  <2>1. PICK transfers : payload.tx \in Txs /\ payload = Payload(payload.tx, transfers)
    BY <1>1 DEF IInv, SentFits
  <2> DEFINE tx == payload.tx
             accounts == Raw[tx].accounts
             a == accounts[n]
             data == AccountData(tx)
             transferred == TotalNative(NativeTransfers[tx], "to", a)
                            - TotalNative(NativeTransfers[tx], "from", a)
             gained == Summed([i \in DOMAIN Raw[tx].instructions |-> GainedBy(Family(tx, i), a)])
             fee == Raw[tx].fee
             change == Raw[tx].after[n] - Raw[tx].before[n]
             rounding == RoundingBy(Instructions[tx], a)
  <2>2. payload = EnhancedPayload(tx, transfers)
    BY <2>1 DEF Payload, RawPayload
  <2>3. /\ payload.natives = NativeTransfers[tx] /\ payload.fee = Number(fee)
        /\ payload.data \in {data, WithoutChanges(data), FilterAccountData(data)}
    BY <2>2 DEF EnhancedPayload
  <2>4. tx \in Txs /\ OnlyTransfers(tx) /\ n \in DOMAIN accounts
    BY <2>1
  <2> HIDE DEF tx
  <2>5. a \in Range(accounts)
    BY <2>4 DEF Range
  <2>6. payload.data[a].native = data[a].native
    <3>1. DOMAIN data = Range(accounts) /\ \A x \in DOMAIN data : DOMAIN data[x] = {"native", "changes"}
      BY DEF AccountData
    <3> HIDE DEF data, accounts, a
    <3>2. CASE payload.data = data
      BY <3>2
    <3>3. CASE payload.data = WithoutChanges(data)
      BY <2>5, <3>1, <3>3 DEF WithoutChanges
    <3>4. CASE payload.data = FilterAccountData(data)
      BY <2>5, <3>1, <3>4 DEF FilterAccountData
    <3> QED
      BY <2>3, <3>2, <3>3, <3>4
  <2>7. IsInjective(accounts)
    BY <2>4, TxAssumption
  <2>8. (CHOOSE i \in DOMAIN accounts : accounts[i] = a) = n
    <3> HIDE DEF accounts
    <3>1. \A i \in DOMAIN accounts : accounts[i] = a => i = n
      BY <2>4, <2>7 DEF IsInjective
    <3> QED
      BY <2>4, <3>1
  <2>9. data[a].native = NativeBalanceChange(tx, n)
    BY <2>5, <2>8 DEF AccountData
  <2>10. /\ IsLamports(fee)
         /\ DOMAIN Raw[tx].before = DOMAIN accounts /\ DOMAIN Raw[tx].after = DOMAIN accounts
         /\ IsLamports(Raw[tx].before[n]) /\ IsLamports(Raw[tx].after[n])
         /\ \A i \in DOMAIN Raw[tx].instructions : \A ix \in Range(Family(tx, i)) : Sound(ix)
         /\ change = gained - (IF n = 1 THEN fee ELSE 0)
    BY <2>4 DEF LedgerMoves, Sound
  <2>11. data[a].native = Number(change)
    BY <2>4, <2>9, <2>10 DEF NativeBalanceChange
  <2>12. Near(Number(change), change, Rounding(change)) /\ Near(Number(fee), fee, Rounding(fee))
    BY <2>10, ChangeNear, LamportsNear
  <2>13. Near(transferred, gained, rounding)
    BY <2>4, <2>10, NativesOfFamilies
  <2>14. RoundingOf(tx, n) = rounding + Rounding(change) + (IF n = 1 THEN Rounding(fee) ELSE 0)
    BY DEF RoundingOf
  <2> DEFINE number == Number(change)
             half == Rounding(change)
             feeNumber == Number(fee)
             feeHalf == Rounding(fee)
             explained == transferred - (IF n = 1 THEN feeNumber ELSE 0)
  <2> HIDE DEF accounts, a, data, transferred, gained, fee, change, rounding,
               number, half, feeNumber, feeHalf
  <2>15. /\ Near(number, change, half) /\ Near(feeNumber, fee, feeHalf)
         /\ change = gained - (IF n = 1 THEN fee ELSE 0)
         /\ RoundingOf(tx, n) = rounding + half + (IF n = 1 THEN feeHalf ELSE 0)
    BY <2>10, <2>12, <2>14 DEF number, half, feeNumber, feeHalf
  <2>16. Size(number - explained) <= RoundingOf(tx, n)
    BY <2>13, <2>15 DEF Near, Size
  <2>17. payload.data[a].native = number /\ payload.fee = feeNumber
    BY <2>3, <2>6, <2>11 DEF number, feeNumber
  <2> QED
    BY <2>3, <2>16, <2>17 DEF tx, accounts, a, transferred, feeNumber
<1> QED
  BY <1>1, InvariantHolds, PTL
=============================================================================
