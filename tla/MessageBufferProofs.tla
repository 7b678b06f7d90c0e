------------------------ MODULE MessageBufferProofs ------------------------
(***************************************************************************)
(* Proofs about MessageBuffer, for any number of ports, addresses,         *)
(* latencies and setups of the controller.  The heap's operators come      *)
(* first (what renumbering and push_heap do to a sequence in heap order),  *)
(* then the buffer's operations, then the controller's steps.              *)
(***************************************************************************)
EXTENDS MessageBuffer, FiniteSetTheorems, SequenceTheorems, WellFoundedInduction, TLAPS

\* First-order leaves go to Zenon, the others name their solver.
USE Zenon

\* The numbers from 1 to n are n numbers.
LEMMA IntervalCardinality == ASSUME NEW n \in Nat PROVE Cardinality(1 .. n) = n
BY FS_Interval, SMTT(20)

\* A non-empty set of natural numbers has a least element.
LEMMA LeastNat ==
    ASSUME NEW T \in SUBSET Nat, T # {}
    PROVE  \E x \in T : \A y \in T : x <= y
<1>. DEFINE R == {ss \in Nat \X Nat : ss[1] < ss[2]}
<1>1. IsWellFoundedOn(R, Nat)
    BY NatLessThanWellFounded DEF OpToRel
<1>2. PICK x \in T : \A y \in T : ~(<<y, x>> \in R)
    <2>. HIDE DEF R
    <2>. QED BY <1>1, WFMin
<1>3. ASSUME NEW y \in T PROVE x <= y
    <2>1. y < x => <<y, x>> \in R
        OBVIOUS
    <2>2. x \in Nat /\ y \in Nat
        OBVIOUS
    <2>. HIDE DEF R
    <2>. QED BY <1>2, <2>1, <2>2, SMTT(20)
<1>. QED BY <1>3

\* A set of positions that has every smaller one is an initial segment, and its
\* cardinality is its length.
LEMMA InitialSegment ==
    ASSUME NEW n \in Nat, NEW D \in SUBSET (1 .. n),
           \A i \in D, j \in 1 .. n : j < i => j \in D
    PROVE  Cardinality(D) \in 0 .. n /\ D = 1 .. Cardinality(D)
<1>. DEFINE T == {m \in Nat : m + 1 \notin D}
<1>1. n \in T
    BY SMTT(20) DEF T
<1>2. PICK m \in T : \A k \in T : m <= k
    <2>1. T \in SUBSET Nat /\ T # {}
        BY <1>1
    <2>. HIDE DEF T
    <2>. QED BY <2>1, LeastNat
<1>3. m \in 0 .. n /\ m + 1 \notin D
    BY <1>1, <1>2, SMTT(20)
<1>4. ASSUME NEW i \in 1 .. m PROVE i \in D
    <2>1. i - 1 \in Nat /\ ~(m <= i - 1)
        BY <1>3, SMTT(20)
    <2>2. i - 1 \notin T
        BY <1>2, <2>1
    <2>. QED BY <2>1, <2>2, <1>3, SMTT(20)
<1>5. ASSUME NEW i \in D, i > m PROVE FALSE
    <2>1. m + 1 \in 1 .. n /\ (m + 1 = i \/ m + 1 < i)
        BY <1>3, <1>5, SMTT(20)
    <2>. QED BY <1>3, <1>5, <2>1
<1>6. D = 1 .. m
    <2>1. \A i \in D : i \in 1 .. n /\ ~(i > m)
        BY <1>5
    <2>2. \A i \in D : i \in 1 .. m
        BY <1>3, <2>1, SMTT(20)
    <2>. QED BY <1>4, <2>2
<1>7. m \in Nat
    BY <1>3, SMTT(20)
<1>8. Cardinality(1 .. m) = m
    BY <1>7, IntervalCardinality
<1>. QED BY <1>3, <1>6, <1>8

-----------------------------------------------------------------------------
HeapOK(s) == s \in Seq(Entries) /\ Ordered(s) /\ \A i \in 1 .. Len(s) : s[i].counter <= Len(s)

\* Renumbering changes the counters only, and keeps their order.
LEMMA RenumberedEntries ==
    ASSUME NEW s \in Seq(Entries)
    PROVE  /\ Renumbered(s) \in Seq(Entries) /\ Len(Renumbered(s)) = Len(s)
           /\ \A i \in 1 .. Len(s) :
                 /\ Renumbered(s)[i].addr = s[i].addr /\ Renumbered(s)[i].due = s[i].due
                 /\ Renumbered(s)[i].counter = Cardinality({j \in 1 .. Len(s) : s[j].counter <= s[i].counter})
                 /\ Renumbered(s)[i].counter \in 0 .. Len(s)
           /\ \A i, j \in 1 .. Len(s) : s[i].counter <= s[j].counter
                 => Renumbered(s)[i].counter <= Renumbered(s)[j].counter
<1>. DEFINE C(i) == {j \in 1 .. Len(s) : s[j].counter <= s[i].counter}
<1>1. Len(s) \in Nat /\ DOMAIN s = 1 .. Len(s) /\ \A i \in 1 .. Len(s) : s[i] \in Entries
    BY SMTT(20)
<1>2. ASSUME NEW S \in SUBSET (1 .. Len(s)), NEW T \in SUBSET S
      PROVE  /\ IsFiniteSet(S) /\ Cardinality(S) \in 0 .. Len(s)
             /\ Cardinality(T) \in Nat /\ Cardinality(T) <= Cardinality(S)
    <2>1. IsFiniteSet(1 .. Len(s)) /\ Cardinality(1 .. Len(s)) = Len(s)
        <3>1. PICK n \in Nat : n = Len(s)
            BY <1>1
        <3>2. IsFiniteSet(1 .. n) /\ Cardinality(1 .. n) = n
            BY FS_Interval, SMTT(20)
        <3>. QED BY <3>1, <3>2
    <2>2. IsFiniteSet(S) /\ Cardinality(S) <= Len(s)
        BY <2>1, FS_Subset
    <2>3. IsFiniteSet(T) /\ Cardinality(T) <= Cardinality(S)
        BY <2>2, FS_Subset
    <2>4. Cardinality(S) \in Nat /\ Cardinality(T) \in Nat
        BY <2>2, <2>3, FS_CardinalityType
    <2>. QED BY <1>1, <2>2, <2>3, <2>4, SMTT(20)
<1>3. \A i : C(i) \in SUBSET (1 .. Len(s))
    OBVIOUS
<1>4. \A i \in 1 .. Len(s) : Cardinality(C(i)) \in 0 .. Len(s)
    <2>. HIDE DEF C
    <2>. QED BY <1>2, <1>3
<1>5. \A i, j \in 1 .. Len(s) : s[i].counter <= s[j].counter => Cardinality(C(i)) <= Cardinality(C(j))
    <2>1. ASSUME NEW i \in 1 .. Len(s), NEW j \in 1 .. Len(s), s[i].counter <= s[j].counter
          PROVE  C(i) \in SUBSET C(j)
        BY <1>1, <2>1, SMTT(20) DEF Entries
    <2>. HIDE DEF C
    <2>. QED BY <1>2, <1>3, <2>1
<1>6. Renumbered(s) = [i \in 1 .. Len(s) |-> [s[i] EXCEPT !.counter = Cardinality(C(i))]]
    BY <1>1 DEF Renumbered
<1>. HIDE DEF C
<1>7. ASSUME NEW i \in 1 .. Len(s)
      PROVE  /\ [s[i] EXCEPT !.counter = Cardinality(C(i))] \in Entries
             /\ [s[i] EXCEPT !.counter = Cardinality(C(i))].addr = s[i].addr
             /\ [s[i] EXCEPT !.counter = Cardinality(C(i))].due = s[i].due
             /\ [s[i] EXCEPT !.counter = Cardinality(C(i))].counter = Cardinality(C(i))
    BY <1>1, <1>4, SMTT(20) DEF Entries
<1>8. Renumbered(s) \in Seq(Entries) /\ Len(Renumbered(s)) = Len(s)
    <2>1. Renumbered(s) \in [1 .. Len(s) -> Entries]
        BY <1>6, <1>7
    <2>2. \A f \in [1 .. Len(s) -> Entries] : f \in Seq(Entries) /\ Len(f) = Len(s)
        BY <1>1, SMTT(20)
    <2>. QED BY <2>1, <2>2
<1>9. ASSUME NEW i \in 1 .. Len(s)
      PROVE  /\ Renumbered(s)[i].addr = s[i].addr /\ Renumbered(s)[i].due = s[i].due
             /\ Renumbered(s)[i].counter = Cardinality(C(i))
    BY <1>6, <1>7
<1>. QED BY <1>4, <1>5, <1>8, <1>9 DEF C

\* A list kept in order is a heap once its counters are renumbered.
LEMMA RenumberedHeap ==
    ASSUME NEW s \in Seq(Entries), Ordered(s)
    PROVE  HeapOK(Renumbered(s))
<1>1. Len(s) \in Nat /\ \A i \in 1 .. Len(s) : s[i] \in Entries
    BY SMTT(20)
<1>2. ASSUME NEW i \in 1 .. Len(s), NEW j \in 1 .. Len(s), i < j
      PROVE  Precedes(Renumbered(s)[i], Renumbered(s)[j])
    <2>1. Precedes(s[i], s[j])
        BY <1>2 DEF Ordered
    <2>. QED BY <2>1, RenumberedEntries DEF Precedes
<1>3. Ordered(Renumbered(s))
    BY <1>2, RenumberedEntries DEF Ordered
<1>4. \A i \in 1 .. Len(s) : Renumbered(s)[i].counter <= Len(s)
    <2>1. \A i \in 1 .. Len(s) : Renumbered(s)[i].counter \in 0 .. Len(s)
        BY RenumberedEntries
    <2>. QED BY <1>1, <2>1, SMTT(20)
<1>. QED BY <1>3, <1>4, RenumberedEntries DEF HeapOK

\* Entries put into a sequence after its first k.
Inserted(s, k, back) == SubSeq(s, 1, k) \o back \o SubSeq(s, k + 1, Len(s))

\* What stands where after the entries of back went in behind the k-th of s.
LEMMA InsertedEntries ==
    ASSUME NEW s \in Seq(Entries), NEW back \in Seq(Entries), NEW k \in 0 .. Len(s)
    PROVE  /\ Inserted(s, k, back) \in Seq(Entries)
           /\ Len(Inserted(s, k, back)) = Len(s) + Len(back)
           /\ \A i \in 1 .. Len(s) + Len(back) :
                 Inserted(s, k, back)[i] = IF i <= k THEN s[i]
                                           ELSE IF i <= k + Len(back) THEN back[i - k]
                                           ELSE s[i - Len(back)]
<1>1. Len(s) \in Nat /\ Len(back) \in Nat
    BY SMTT(20)
<1>2. PICK p : p = SubSeq(s, 1, k)
    OBVIOUS
<1>3. p \in Seq(Entries) /\ Len(p) = k /\ \A i \in 1 .. k : p[i] = s[i]
    <2>1. \A i \in 1 .. k : s[i] \in Entries
        BY <1>1, SMTT(20)
    <2>2. /\ SubSeq(s, 1, k) \in Seq(Entries)
          /\ Len(SubSeq(s, 1, k)) = IF 1 <= k THEN k - 1 + 1 ELSE 0
          /\ \A i \in 1 .. k - 1 + 1 : SubSeq(s, 1, k)[i] = s[1 + i - 1]
        BY <1>1, <2>1, SubSeqProperties, SMTT(20)
    <2>3. (IF 1 <= k THEN k - 1 + 1 ELSE 0) = k /\ k - 1 + 1 = k /\ \A i \in 1 .. k : 1 + i - 1 = i
        BY <1>1, SMTT(20)
    <2>. QED BY <1>2, <2>2, <2>3
<1>4. PICK q : q = SubSeq(s, k + 1, Len(s))
    OBVIOUS
<1>5. /\ q \in Seq(Entries) /\ Len(q) = Len(s) - k
      /\ \A i \in 1 .. Len(s) - k : q[i] = s[k + i]
    <2>1. \A i \in k + 1 .. Len(s) : s[i] \in Entries
        BY <1>1, SMTT(20)
    <2>2. /\ SubSeq(s, k + 1, Len(s)) \in Seq(Entries)
          /\ Len(SubSeq(s, k + 1, Len(s))) = IF k + 1 <= Len(s) THEN Len(s) - (k + 1) + 1 ELSE 0
          /\ \A i \in 1 .. Len(s) - (k + 1) + 1 : SubSeq(s, k + 1, Len(s))[i] = s[k + 1 + i - 1]
        BY <1>1, <2>1, SubSeqProperties, SMTT(20)
    <2>3. /\ (IF k + 1 <= Len(s) THEN Len(s) - (k + 1) + 1 ELSE 0) = Len(s) - k
          /\ Len(s) - (k + 1) + 1 = Len(s) - k
          /\ \A i \in 1 .. Len(s) - k : k + 1 + i - 1 = k + i
        BY <1>1, SMTT(20)
    <2>. QED BY <1>4, <2>2, <2>3
<1>6. PICK u : u = p \o back
    OBVIOUS
<1>7. /\ u \in Seq(Entries) /\ Len(u) = k + Len(back)
      /\ \A i \in 1 .. k + Len(back) : u[i] = IF i <= k THEN p[i] ELSE back[i - k]
    BY <1>3, <1>6, ConcatProperties
<1>8. Inserted(s, k, back) = u \o q
    BY <1>2, <1>4, <1>6 DEF Inserted
<1>9. u \o q \in Seq(Entries) /\ Len(u \o q) = Len(s) + Len(back)
    <2>1. u \o q \in Seq(Entries) /\ Len(u \o q) = k + Len(back) + (Len(s) - k)
        <3>1. u \in Seq(Entries) /\ q \in Seq(Entries) /\ Len(u) = k + Len(back) /\ Len(q) = Len(s) - k
            BY <1>5, <1>7
        <3>2. u \o q \in Seq(Entries) /\ Len(u \o q) = Len(u) + Len(q)
            BY <3>1, ConcatProperties
        <3>. QED BY <3>1, <3>2
    <2>2. k + Len(back) + (Len(s) - k) = Len(s) + Len(back)
        BY <1>1, SMTT(20)
    <2>. QED BY <2>1, <2>2
<1>10. ASSUME NEW i \in 1 .. Len(s) + Len(back)
       PROVE  (u \o q)[i] = IF i <= k THEN s[i]
                            ELSE IF i <= k + Len(back) THEN back[i - k] ELSE s[i - Len(back)]
    <2>1. (u \o q)[i] = IF i <= Len(u) THEN u[i] ELSE q[i - Len(u)]
        <3>1. i \in 1 .. Len(u) + Len(q)
            BY <1>1, <1>5, <1>7, SMTT(20)
        <3>. QED BY <1>5, <1>7, <3>1, ConcatProperties
    <2>2. CASE i <= k
        BY <1>1, <1>3, <1>7, <2>1, <2>2, SMTT(20)
    <2>3. CASE ~(i <= k) /\ i <= k + Len(back)
        BY <1>1, <1>7, <2>1, <2>3, SMTT(20)
    <2>4. CASE ~(i <= k + Len(back))
        <3>1. i - Len(u) \in 1 .. Len(s) - k /\ k + (i - Len(u)) = i - Len(back) /\ ~(i <= k)
            BY <1>1, <1>7, <2>4, SMTT(20)
        <3>. QED BY <1>5, <1>7, <2>1, <2>4, <3>1
    <2>. QED BY <2>2, <2>3, <2>4
<1>. QED BY <1>8, <1>9, <1>10

\* The result is in heap order when the new entries come between the old ones.
LEMMA InsertedOrdered ==
    ASSUME NEW s \in Seq(Entries), NEW back \in Seq(Entries), NEW k \in 0 .. Len(s),
           Ordered(s), Ordered(back),
           \A i \in 1 .. k, j \in 1 .. Len(back) : Precedes(s[i], back[j]),
           \A i \in k + 1 .. Len(s), j \in 1 .. Len(back) : Precedes(back[j], s[i])
    PROVE  Ordered(Inserted(s, k, back))
<1>1. PICK n \in Nat, b \in Nat : n = Len(s) /\ b = Len(back)
    BY SMTT(20)
<1>2. PICK v : v = Inserted(s, k, back)
    OBVIOUS
<1>3. /\ Len(v) = n + b
      /\ \A i \in 1 .. n + b : v[i] = IF i <= k THEN s[i] ELSE IF i <= k + b THEN back[i - k] ELSE s[i - b]
    BY <1>1, <1>2, InsertedEntries
<1>4. ASSUME NEW i \in 1 .. n + b, NEW j \in 1 .. n + b, i < j
      PROVE  Precedes(v[i], v[j])
    <2>. DEFINE V(x) == IF x <= k THEN s[x] ELSE IF x <= k + b THEN back[x - k] ELSE s[x - b]
    <2>0. v[i] = V(i) /\ v[j] = V(j) /\ k \in 0 .. n
        BY <1>1, <1>3
    <2>1. CASE j <= k
        <3>1. i <= k /\ i \in 1 .. n /\ j \in 1 .. n
            BY <1>4, <2>0, <2>1, SMTT(20)
        <3>. QED BY <1>1, <1>4, <2>0, <2>1, <3>1 DEF Ordered
    <2>2. CASE i <= k /\ ~(j <= k) /\ j <= k + b
        <3>1. i \in 1 .. k /\ j - k \in 1 .. b
            BY <2>0, <2>2, SMTT(20)
        <3>. QED BY <1>1, <2>0, <2>2, <3>1
    <2>3. CASE i <= k /\ ~(j <= k + b)
        <3>1. ~(j <= k) /\ j - b \in 1 .. n /\ i \in 1 .. n /\ i < j - b
            BY <2>0, <2>3, SMTT(20)
        <3>. QED BY <1>1, <2>0, <2>3, <3>1 DEF Ordered
    <2>4. CASE ~(i <= k) /\ j <= k + b
        <3>1. /\ i <= k + b /\ ~(j <= k)
              /\ i - k \in 1 .. b /\ j - k \in 1 .. b /\ i - k < j - k
            BY <1>4, <2>0, <2>4, SMTT(20)
        <3>. QED BY <1>1, <2>0, <2>4, <3>1 DEF Ordered
    <2>5. CASE ~(i <= k) /\ i <= k + b /\ ~(j <= k + b)
        <3>1. ~(j <= k) /\ i - k \in 1 .. b /\ j - b \in k + 1 .. n
            BY <2>0, <2>5, SMTT(20)
        <3>. QED BY <1>1, <2>0, <2>5, <3>1
    <2>6. CASE ~(i <= k + b)
        <3>1. /\ ~(i <= k) /\ ~(j <= k) /\ ~(j <= k + b)
              /\ i - b \in 1 .. n /\ j - b \in 1 .. n /\ i - b < j - b
            BY <1>4, <2>0, <2>6, SMTT(20)
        <3>. QED BY <1>1, <2>0, <2>6, <3>1 DEF Ordered
    <2>. QED BY <1>1, <1>4, <2>1, <2>2, <2>3, <2>4, <2>5, <2>6
<1>. QED BY <1>2, <1>3, <1>4 DEF Ordered

\* A list of one entry is in order.
LEMMA SingletonEntry ==
    ASSUME NEW m \in Entries
    PROVE  <<m>> \in Seq(Entries) /\ Len(<<m>>) = 1 /\ <<m>>[1] = m /\ Ordered(<<m>>)
<1>1. <<m>> \in Seq(Entries) /\ Len(<<m>>) = 1 /\ <<m>>[1] = m
    BY SMTT(20)
<1>. QED BY <1>1, SMTT(20) DEF Ordered

\* push_heap of a message that is not yet due keeps the heap in order; the times in
\* it are the old ones and that of the message.
LEMMA PushHeapOK ==
    ASSUME NEW s \in Seq(Entries), Ordered(s), NEW node \in Entries, node.due > 0
    PROVE  /\ HeapOK(PushHeap(s, node)) /\ Len(PushHeap(s, node)) = Len(s) + 1
           /\ \A i \in 1 .. Len(s) + 1 :
                 \/ PushHeap(s, node)[i].due = node.due
                 \/ \E j \in 1 .. Len(s) : PushHeap(s, node)[i].due = s[j].due
<1>. DEFINE Before(n) == n.due < node.due \/ (n.due = node.due /\ n.counter < node.counter)
            D == {i \in 1 .. Len(s) : Before(s[i])}
<1>1. Len(s) \in Nat /\ DOMAIN s = 1 .. Len(s) /\ \A i \in 1 .. Len(s) : s[i] \in Entries
    BY SMTT(20)
<1>2. PICK k : k = Cardinality(D)
    OBVIOUS
<1>3. PushHeap(s, node) = Renumbered(Inserted(s, k, <<node>>))
    BY <1>1, <1>2 DEF PushHeap, Inserted
<1>4. k \in 0 .. Len(s) /\ D = 1 .. k
    <2>1. ASSUME NEW i \in D, NEW j \in 1 .. Len(s), j < i PROVE j \in D
        <3>1. Precedes(s[j], s[i]) /\ s[i] \in Entries /\ s[j] \in Entries /\ Before(s[i])
            BY <1>1, <2>1 DEF Ordered
        <3>2. s[i].due \in Nat /\ s[j].due \in Nat /\ s[i].counter \in Nat /\ s[j].counter \in Nat
              /\ node.due \in Nat /\ node.counter \in Nat
            BY <3>1 DEF Entries
        <3>3. PICK dj \in Nat, di \in Nat, d \in Nat, cj \in Nat, ci \in Nat, c \in Nat :
                 /\ dj = s[j].due /\ di = s[i].due /\ d = node.due
                 /\ cj = s[j].counter /\ ci = s[i].counter /\ c = node.counter
            BY <3>2
        <3>4. d > 0 /\ dj <= di /\ (dj = di /\ dj > 0 => cj <= ci) /\ (di < d \/ (di = d /\ ci < c))
            BY <3>1, <3>3 DEF Precedes
        <3>5. dj < d \/ (dj = d /\ cj < c)
            BY <3>4, SMTT(20)
        <3>6. Before(s[j])
            BY <3>3, <3>5
        <3>. QED BY <3>6
    <2>2. D \in SUBSET (1 .. Len(s))
        OBVIOUS
    <2>. HIDE DEF D
    <2>. QED BY <1>1, <1>2, <2>1, <2>2, InitialSegment, SMTT(20)
<1>5. ASSUME NEW i \in 1 .. Len(s)
      PROVE  /\ i \in 1 .. k => Precedes(s[i], node)
             /\ i \in k + 1 .. Len(s) => Precedes(node, s[i])
    <2>1. s[i].due \in Nat /\ s[i].counter \in Nat /\ node.due \in Nat /\ node.counter \in Nat
        BY <1>1 DEF Entries
    <2>2. i \in 1 .. k <=> Before(s[i])
        BY <1>4
    <2>3. Before(s[i]) => Precedes(s[i], node)
        BY <2>1, SMTT(20) DEF Precedes
    <2>4. ~Before(s[i]) => Precedes(node, s[i])
        BY <2>1, SMTT(20) DEF Precedes
    <2>5. i \in k + 1 .. Len(s) => i \notin 1 .. k
        BY <1>1, <1>4, SMTT(20)
    <2>. QED BY <2>2, <2>3, <2>4, <2>5
<1>. HIDE DEF D, Before
<1>6. PICK one : one = <<node>>
    OBVIOUS
<1>7. one \in Seq(Entries) /\ Len(one) = 1 /\ one[1] = node /\ Ordered(one)
    BY <1>6, SingletonEntry
<1>8. PICK v : v = Inserted(s, k, one)
    OBVIOUS
<1>9. Ordered(v)
    <2>1. \A i \in 1 .. k, j \in 1 .. Len(one) : Precedes(s[i], one[j])
        BY <1>1, <1>4, <1>5, <1>7, SMTT(20)
    <2>2. \A i \in k + 1 .. Len(s), j \in 1 .. Len(one) : Precedes(one[j], s[i])
        BY <1>1, <1>4, <1>5, <1>7, SMTT(20)
    <2>. QED BY <1>4, <1>7, <1>8, <2>1, <2>2, InsertedOrdered
<1>10. /\ v \in Seq(Entries) /\ Len(v) = Len(s) + 1
       /\ \A i \in 1 .. Len(s) + 1 : v[i] = IF i <= k THEN s[i] ELSE IF i <= k + 1 THEN one[i - k] ELSE s[i - 1]
    <2>1. /\ v \in Seq(Entries) /\ Len(v) = Len(s) + Len(one)
          /\ \A i \in 1 .. Len(s) + Len(one) :
                v[i] = IF i <= k THEN s[i]
                       ELSE IF i <= k + Len(one) THEN one[i - k] ELSE s[i - Len(one)]
        BY <1>4, <1>7, <1>8, InsertedEntries
    <2>. QED BY <1>7, <2>1
<1>11. /\ HeapOK(Renumbered(v)) /\ Len(Renumbered(v)) = Len(v)
       /\ \A i \in 1 .. Len(v) : Renumbered(v)[i].due = v[i].due
    BY <1>9, <1>10, RenumberedHeap, RenumberedEntries
<1>12. ASSUME NEW i \in 1 .. Len(s) + 1
       PROVE  v[i].due = node.due \/ \E j \in 1 .. Len(s) : v[i].due = s[j].due
    <2>1. CASE i <= k
        BY <1>1, <1>4, <1>10, <2>1, SMTT(20)
    <2>2. CASE i = k + 1
        <3>1. v[i] = one[1]
            BY <1>4, <1>10, <2>2, SMTT(20)
        <3>. QED BY <1>7, <3>1
    <2>3. CASE i > k + 1
        <3>1. v[i] = s[i - 1] /\ i - 1 \in 1 .. Len(s)
            BY <1>1, <1>4, <1>10, <2>3, SMTT(20)
        <3>. QED BY <3>1
    <2>. QED BY <1>1, <1>4, <2>1, <2>2, <2>3, SMTT(20)
<1>13. PushHeap(s, node) = Renumbered(v)
    BY <1>3, <1>6, <1>8
<1>14. Len(v) = Len(s) + 1
    BY <1>10
<1>. QED BY <1>11, <1>12, <1>13, <1>14

\* Taking the head away.
LEMMA TailOrdered ==
    ASSUME NEW s \in Seq(Entries), Ordered(s), s # << >>
    PROVE  /\ Tail(s) \in Seq(Entries) /\ Ordered(Tail(s)) /\ Len(Tail(s)) = Len(s) - 1
           /\ \A i \in 1 .. Len(s) - 1 : Tail(s)[i] = s[i + 1]
           /\ Head(s) = s[1] /\ Head(s) \in Entries /\ Len(s) \in Nat /\ Len(s) > 0
<1>1. /\ Head(s) \in Entries /\ Tail(s) \in Seq(Entries) /\ Len(Tail(s)) = Len(s) - 1
      /\ \A i \in 1 .. Len(Tail(s)) : Tail(s)[i] = s[i + 1]
    BY HeadTailProperties
<1>2. Len(s) \in Nat /\ Len(s) > 0 /\ Head(s) = s[1]
    BY SMTT(20)
<1>3. ASSUME NEW i \in 1 .. Len(s) - 1, NEW j \in 1 .. Len(s) - 1, i < j
      PROVE  Precedes(Tail(s)[i], Tail(s)[j])
    <2>1. i + 1 \in 1 .. Len(s) /\ j + 1 \in 1 .. Len(s) /\ i + 1 < j + 1
        BY <1>2, <1>3, SMTT(20)
    <2>2. Tail(s)[i] = s[i + 1] /\ Tail(s)[j] = s[j + 1]
        BY <1>1
    <2>. QED BY <2>1, <2>2 DEF Ordered
<1>. QED BY <1>1, <1>2, <1>3 DEF Ordered

-----------------------------------------------------------------------------
BufOK(x) == x \in BufferTypes /\ HeapOK(x.heap)

\* W has the time of every message that is still to come.
Dues(x, W) == \A i \in 1 .. Len(x.heap) : x.heap[i].due > 0 => x.heap[i].due \in W

\* enqueue() keeps a buffer well formed and due only at times a wakeup is scheduled for.
LEMMA EnqueueOK ==
    ASSUME NEW x \in BufferTypes, Ordered(x.heap), NEW addr \in Addrs, NEW d \in Nat \ {0}
    PROVE  /\ BufOK(enqueue(x, addr, d)) /\ enqueue(x, addr, d).stalled = x.stalled
           /\ enqueue(x, addr, d).heap = PushHeap(x.heap, Node(addr, d, x.heap))
           /\ enqueue(x, addr, d).m_last_arrival_time = d
           /\ \A W : Dues(x, W) => Dues(enqueue(x, addr, d), W \cup {d})
<1>1. PICK h : h = PushHeap(x.heap, Node(addr, d, x.heap))
    OBVIOUS
<1>2. x.heap \in Seq(Entries) /\ Len(x.heap) \in Nat
    BY SMTT(20) DEF BufferTypes
<1>3. Node(addr, d, x.heap) \in Entries /\ Node(addr, d, x.heap).due = d /\ d > 0
    BY <1>2, SMTT(20) DEF Node, Entries
<1>4. /\ HeapOK(h) /\ Len(h) = Len(x.heap) + 1
      /\ \A i \in 1 .. Len(x.heap) + 1 :
            h[i].due = d \/ \E j \in 1 .. Len(x.heap) : h[i].due = x.heap[j].due
    BY <1>1, <1>2, <1>3, PushHeapOK
<1>5. h \in Seq(Entries)
    BY <1>4 DEF HeapOK
<1>6. /\ enqueue(x, addr, d) \in BufferTypes
      /\ enqueue(x, addr, d).heap = h /\ enqueue(x, addr, d).stalled = x.stalled
      /\ enqueue(x, addr, d).m_last_arrival_time = d
    <2>1. enqueue(x, addr, d) = [x EXCEPT !.heap = h, !.size = x.size + 1, !.enqueued = TRUE,
                                          !.m_msgs_this_cycle = x.m_msgs_this_cycle + 1,
                                          !.m_last_arrival_time = d]
        BY <1>1 DEF enqueue
    <2>2. x.size + 1 \in Int /\ x.m_msgs_this_cycle + 1 \in Nat
        BY SMTT(20) DEF BufferTypes
    <2>. QED BY <1>5, <2>1, <2>2 DEF BufferTypes
<1>7. ASSUME NEW W, Dues(x, W) PROVE Dues(enqueue(x, addr, d), W \cup {d})
    BY <1>4, <1>6, <1>7 DEF Dues
<1>. QED BY <1>1, <1>4, <1>6, <1>7 DEF BufOK

\* The heap without its head, renumbered.
LEMMA HeadTaken ==
    ASSUME NEW x, BufOK(x), x.heap # << >>
    PROVE  LET h == Renumbered(Tail(x.heap))
           IN /\ HeapOK(h) /\ h \in Seq(Entries) /\ Len(h) = Len(x.heap) - 1
              /\ \A i \in 1 .. Len(h) : i + 1 \in 1 .. Len(x.heap) /\ h[i].due = x.heap[i + 1].due
<1>. DEFINE t == Tail(x.heap)
<1>1. /\ t \in Seq(Entries) /\ Ordered(t) /\ Len(t) = Len(x.heap) - 1
      /\ \A i \in 1 .. Len(x.heap) - 1 : t[i] = x.heap[i + 1]
      /\ Len(x.heap) \in Nat /\ Len(x.heap) > 0
    BY TailOrdered DEF BufOK, HeapOK
<1>. HIDE DEF t
<1>2. /\ HeapOK(Renumbered(t)) /\ Renumbered(t) \in Seq(Entries) /\ Len(Renumbered(t)) = Len(t)
      /\ \A i \in 1 .. Len(t) : Renumbered(t)[i].due = t[i].due
    BY <1>1, RenumberedHeap, RenumberedEntries
<1>3. \A i \in 1 .. Len(x.heap) - 1 : i + 1 \in 1 .. Len(x.heap)
    BY <1>1, SMTT(20)
<1>. QED BY <1>1, <1>2, <1>3 DEF t

\* pop() keeps a buffer well formed.
LEMMA PopOK ==
    ASSUME NEW x, BufOK(x), x.heap # << >>
    PROVE  /\ BufOK(pop(x)) /\ pop(x).stalled = x.stalled
           /\ pop(x).heap = Renumbered(Tail(x.heap))
           /\ pop(x).m_last_arrival_time = x.m_last_arrival_time
           /\ \A W : Dues(x, W) => Dues(pop(x), W)
<1>1. PICK h : h = Renumbered(Tail(x.heap))
    OBVIOUS
<1>2. /\ HeapOK(h) /\ h \in Seq(Entries)
      /\ \A i \in 1 .. Len(h) : i + 1 \in 1 .. Len(x.heap) /\ h[i].due = x.heap[i + 1].due
    BY <1>1, HeadTaken
<1>3. /\ x \in BufferTypes /\ x.size \in Int /\ x.m_size_at_cycle_start \in Int
      /\ x.size - 1 \in Int
    BY SMTT(20) DEF BufOK, BufferTypes
<1>4. PICK n \in Int : n = IF x.popped THEN x.m_size_at_cycle_start ELSE x.size
    BY <1>3
<1>5. pop(x) = [x EXCEPT !.heap = h, !.size = x.size - 1, !.popped = TRUE, !.m_size_at_cycle_start = n]
    BY <1>1, <1>4 DEF pop
<1>6. /\ pop(x) \in BufferTypes /\ pop(x).heap = h /\ pop(x).stalled = x.stalled
      /\ pop(x).m_last_arrival_time = x.m_last_arrival_time
    BY <1>2, <1>3, <1>5 DEF BufferTypes
<1>. QED BY <1>1, <1>2, <1>6 DEF BufOK, Dues

\* recycle() keeps a buffer well formed; the message is due again after the latency.
LEMMA RecycleOK ==
    ASSUME NEW x, BufOK(x), x.heap # << >>
    PROVE  /\ BufOK(recycle(x)) /\ recycle(x).stalled = x.stalled
           /\ \A W : Dues(x, W) => Dues(recycle(x), W \cup {RecycleLatency})
<1>. DEFINE t == Tail(x.heap)
            node == [Head(x.heap) EXCEPT !.due = RecycleLatency]
<1>1. /\ t \in Seq(Entries) /\ Ordered(t) /\ Len(t) = Len(x.heap) - 1
      /\ \A i \in 1 .. Len(x.heap) - 1 : t[i] = x.heap[i + 1]
      /\ Len(x.heap) \in Nat /\ Len(x.heap) > 0 /\ Head(x.heap) \in Entries
    BY TailOrdered DEF BufOK, HeapOK
<1>2. node \in Entries /\ node.due = RecycleLatency /\ RecycleLatency > 0
    <2>1. RecycleLatency \in Nat /\ RecycleLatency > 0
        BY UsesAssumption, SMTT(20)
    <2>2. PICK e \in Entries : e = Head(x.heap)
        BY <1>1
    <2>3. [e EXCEPT !.due = RecycleLatency] \in Entries /\ [e EXCEPT !.due = RecycleLatency].due = RecycleLatency
        BY <2>1 DEF Entries
    <2>. QED BY <2>1, <2>2, <2>3
<1>3. recycle(x) = [x EXCEPT !.heap = PushHeap(t, node)]
    BY DEF recycle
<1>. HIDE DEF t, node
<1>4. PICK h : h = PushHeap(t, node)
    OBVIOUS
<1>5. /\ HeapOK(h) /\ Len(h) = Len(t) + 1
      /\ \A i \in 1 .. Len(t) + 1 :
            h[i].due = node.due \/ \E j \in 1 .. Len(t) : h[i].due = t[j].due
    BY <1>1, <1>2, <1>4, PushHeapOK
<1>6. recycle(x) \in BufferTypes /\ recycle(x).heap = h /\ recycle(x).stalled = x.stalled
    BY <1>3, <1>4, <1>5 DEF BufOK, BufferTypes, HeapOK
<1>7. \A j \in 1 .. Len(t) : j + 1 \in 1 .. Len(x.heap) /\ t[j] = x.heap[j + 1]
    BY <1>1, SMTT(20)
<1>8. ASSUME NEW W, Dues(x, W) PROVE Dues(recycle(x), W \cup {RecycleLatency})
    <2>1. ASSUME NEW i \in 1 .. Len(h), h[i].due > 0 PROVE h[i].due \in W \cup {RecycleLatency}
        <3>1. h[i].due = node.due \/ \E j \in 1 .. Len(t) : h[i].due = t[j].due
            BY <1>5
        <3>. QED BY <1>2, <1>7, <1>8, <2>1, <3>1 DEF Dues
    <2>. QED BY <1>6, <2>1 DEF Dues
<1>. QED BY <1>5, <1>6, <1>8 DEF BufOK

\* stallMessage() moves the head to the stalled messages of its address.
LEMMA StallOK ==
    ASSUME NEW x, BufOK(x), x.heap # << >>
    PROVE  /\ BufOK(stallMessage(x)) /\ x.heap[1].addr \in Addrs
           /\ stallMessage(x).stalled = [x.stalled EXCEPT ![x.heap[1].addr] = @ + 1]
           /\ \A W : Dues(x, W) => Dues(stallMessage(x), W)
<1>1. x.heap[1] \in Entries /\ x.stalled \in [Addrs -> Nat]
    BY SMTT(20) DEF BufOK, BufferTypes
<1>2. PICK a \in Addrs : a = x.heap[1].addr
    BY <1>1 DEF Entries
<1>3. PICK y : y = pop(x)
    OBVIOUS
<1>4. BufOK(y) /\ y.stalled = x.stalled /\ \A W : Dues(x, W) => Dues(y, W)
    BY <1>3, PopOK
<1>5. PICK c \in [Addrs -> Nat] : c = [x.stalled EXCEPT ![a] = @ + 1]
    <2>1. x.stalled[a] + 1 \in Nat
        BY <1>1, SMTT(20)
    <2>. QED BY <1>1, <2>1
<1>6. stallMessage(x) = [y EXCEPT !.stalled = c]
    BY <1>2, <1>3, <1>4, <1>5 DEF stallMessage
<1>7. /\ stallMessage(x) \in BufferTypes /\ stallMessage(x).stalled = c
      /\ stallMessage(x).heap = y.heap
    BY <1>4, <1>6 DEF BufOK, BufferTypes
<1>. QED BY <1>2, <1>4, <1>5, <1>7 DEF BufOK, Dues

\* delayHead() keeps a buffer well formed; the head is due again in the next cycle.
LEMMA DelayOK ==
    ASSUME NEW x, BufOK(x), x.heap # << >>
    PROVE  /\ BufOK(delayHead(x)) /\ delayHead(x).stalled = x.stalled
           /\ \A W : Dues(x, W) => Dues(delayHead(x), W \cup {1})
<1>1. x.heap[1] \in Entries /\ x \in BufferTypes
    BY SMTT(20) DEF BufOK, BufferTypes
<1>2. PICK a \in Addrs : a = x.heap[1].addr
    BY <1>1 DEF Entries
<1>3. PICK h : h = Renumbered(Tail(x.heap))
    OBVIOUS
<1>4. /\ HeapOK(h) /\ h \in Seq(Entries)
      /\ \A i \in 1 .. Len(h) : i + 1 \in 1 .. Len(x.heap) /\ h[i].due = x.heap[i + 1].due
    BY <1>3, HeadTaken
<1>5. PICK y : y = [x EXCEPT !.heap = h]
    OBVIOUS
<1>6. y \in BufferTypes /\ y.heap = h /\ y.stalled = x.stalled
    BY <1>1, <1>4, <1>5 DEF BufferTypes
<1>7. delayHead(x) = enqueue(y, a, 1)
    BY <1>2, <1>3, <1>5 DEF delayHead
<1>8. \A W : Dues(x, W) => Dues(y, W)
    BY <1>4, <1>6 DEF Dues
<1>9. /\ BufOK(enqueue(y, a, 1)) /\ enqueue(y, a, 1).stalled = y.stalled
      /\ \A W : Dues(y, W) => Dues(enqueue(y, a, 1), W \cup {1})
    <2>1. Ordered(y.heap) /\ 1 \in Nat \ {0}
        BY <1>4, <1>6, SMTT(20) DEF HeapOK
    <2>. QED BY <1>6, <2>1, EnqueueOK
<1>. QED BY <1>6, <1>7, <1>8, <1>9

\* The stalled messages go behind those that are due in the next cycle or before.
LEMMA ReanalyzeOK ==
    ASSUME NEW x, BufOK(x), NEW addr \in Addrs
    PROVE  /\ BufOK(reanalyzeMessages(x, addr))
           /\ reanalyzeMessages(x, addr).stalled = [x.stalled EXCEPT ![addr] = 0]
           /\ \A W : Dues(x, W) => Dues(reanalyzeMessages(x, addr), W \cup {1})
<1>. DEFINE s == x.heap
            D == {i \in 1 .. Len(s) : s[i].due <= 1}
            E(i) == [addr |-> addr, due |-> 1, counter |-> Len(s) + i]
<1>1. /\ s \in Seq(Entries) /\ Len(s) \in Nat /\ DOMAIN s = 1 .. Len(s) /\ Ordered(s)
      /\ x.stalled[addr] \in Nat /\ x \in BufferTypes /\ x.stalled \in [Addrs -> Nat]
      /\ \A i \in 1 .. Len(s) : s[i] \in Entries /\ s[i].counter <= Len(s)
    BY SMTT(20) DEF BufOK, BufferTypes, HeapOK
<1>2. PICK b \in Nat : b = x.stalled[addr]
    BY <1>1
<1>3. PICK k : k = Cardinality(D)
    OBVIOUS
<1>4. PICK back : back = [i \in 1 .. b |-> E(i)]
    OBVIOUS
<1>5. reanalyzeMessages(x, addr) = [x EXCEPT !.heap = Renumbered(Inserted(s, k, back)),
                                             !.stalled[addr] = 0]
    BY <1>1, <1>2, <1>3, <1>4 DEF reanalyzeMessages, Inserted
<1>6. k \in 0 .. Len(s) /\ D = 1 .. k
    <2>1. ASSUME NEW i \in D, NEW j \in 1 .. Len(s), j < i PROVE j \in D
        <3>1. s[j].due \in Nat /\ s[i].due \in Nat /\ s[j].due <= s[i].due /\ s[i].due <= 1
            BY <1>1, <2>1 DEF Ordered, Precedes, Entries
        <3>. QED BY <3>1, SMTT(20)
    <2>2. D \in SUBSET (1 .. Len(s))
        OBVIOUS
    <2>. HIDE DEF D
    <2>. QED BY <1>1, <1>3, <2>1, <2>2, InitialSegment
<1>7. \A i \in 1 .. b : E(i) \in Entries /\ E(i).due = 1 /\ E(i).counter = Len(s) + i
    BY <1>1, <1>2, SMTT(20) DEF Entries
<1>8. ASSUME NEW i \in 1 .. Len(s), NEW j \in 1 .. b
      PROVE  /\ i \in 1 .. k => Precedes(s[i], E(j))
             /\ i \in k + 1 .. Len(s) => Precedes(E(j), s[i])
    <2>1. s[i].due \in Nat /\ s[i].counter \in Nat /\ s[i].counter <= Len(s)
        BY <1>1 DEF Entries
    <2>2. i \in 1 .. k <=> s[i].due <= 1
        BY <1>6
    <2>3. i \in k + 1 .. Len(s) => i \notin 1 .. k
        BY <1>1, <1>6, SMTT(20)
    <2>. HIDE DEF E
    <2>4. E(j).due = 1 /\ E(j).counter = Len(s) + j
        BY <1>7
    <2>5. s[i].counter <= Len(s) + j
        BY <1>1, <1>2, <2>1, SMTT(20)
    <2>6. s[i].due <= 1 => Precedes(s[i], E(j))
        BY <2>1, <2>4, <2>5 DEF Precedes
    <2>7. ~(s[i].due <= 1) => Precedes(E(j), s[i])
        BY <2>1, <2>4, SMTT(20) DEF Precedes
    <2>. QED BY <2>2, <2>3, <2>6, <2>7
<1>9. ASSUME NEW i \in 1 .. b, NEW j \in 1 .. b, i < j PROVE Precedes(E(i), E(j))
    BY <1>1, <1>2, <1>7, <1>9, SMTT(20) DEF Precedes
<1>. HIDE DEF D, E
<1>10. back \in Seq(Entries) /\ Len(back) = b /\ \A i \in 1 .. b : back[i] = E(i)
    <2>1. back \in [1 .. b -> Entries]
        BY <1>4, <1>7
    <2>2. \A f \in [1 .. b -> Entries] : f \in Seq(Entries) /\ Len(f) = b
        BY <1>2, SMTT(20)
    <2>. QED BY <1>4, <2>1, <2>2
<1>11. Ordered(back)
    BY <1>9, <1>10 DEF Ordered
<1>12. PICK v : v = Inserted(s, k, back)
    OBVIOUS
<1>13. Ordered(v)
    <2>1. \A i \in 1 .. k, j \in 1 .. Len(back) : Precedes(s[i], back[j])
        BY <1>1, <1>6, <1>8, <1>10, SMTT(20)
    <2>2. \A i \in k + 1 .. Len(s), j \in 1 .. Len(back) : Precedes(back[j], s[i])
        BY <1>1, <1>6, <1>8, <1>10, SMTT(20)
    <2>. QED BY <1>1, <1>6, <1>10, <1>11, <1>12, <2>1, <2>2, InsertedOrdered
<1>14. /\ v \in Seq(Entries) /\ Len(v) = Len(s) + Len(back)
       /\ \A i \in 1 .. Len(s) + Len(back) : v[i] = IF i <= k THEN s[i]
                                          ELSE IF i <= k + Len(back) THEN back[i - k] ELSE s[i - Len(back)]
    <2>. HIDE DEF s
    <2>1. s \in Seq(Entries) /\ back \in Seq(Entries) /\ k \in 0 .. Len(s)
        BY <1>1, <1>6, <1>10
    <2>. QED BY <1>12, <2>1, InsertedEntries
<1>15. PICK h : h = Renumbered(v)
    OBVIOUS
<1>16. HeapOK(h) /\ h \in Seq(Entries) /\ Len(h) = Len(v) /\ \A i \in 1 .. Len(v) : h[i].due = v[i].due
    BY <1>13, <1>14, <1>15, RenumberedHeap, RenumberedEntries
<1>17. ASSUME NEW i \in 1 .. Len(v)
       PROVE  v[i].due = 1 \/ \E j \in 1 .. Len(s) : v[i] = s[j]
    <2>1. CASE i <= k
        BY <1>1, <1>6, <1>14, <2>1, SMTT(20)
    <2>2. CASE ~(i <= k) /\ i <= k + Len(back)
        <3>1. i - k \in 1 .. b /\ v[i] = back[i - k]
            BY <1>1, <1>2, <1>6, <1>10, <1>14, <2>2, SMTT(20)
        <3>. QED BY <1>7, <1>10, <3>1
    <2>3. CASE ~(i <= k + Len(back))
        <3>1. PICK n \in Nat : n = Len(s)
            BY <1>1
        <3>2. /\ i \in 1 .. n + b /\ ~(i <= k + b) /\ k \in 0 .. n
            BY <1>6, <1>10, <1>14, <2>3, <3>1
        <3>3. ~(i <= k) /\ i - b \in 1 .. n
            BY <3>2, SMTT(20)
        <3>4. v[i] = IF i <= k THEN s[i] ELSE IF i <= k + b THEN back[i - k] ELSE s[i - b]
            BY <1>10, <1>14, <3>1, <3>2
        <3>5. v[i] = s[i - b] /\ i - b \in 1 .. Len(s)
            BY <3>1, <3>2, <3>3, <3>4
        <3>. QED BY <3>5
    <2>. QED BY <2>1, <2>2, <2>3
<1>18. PICK c \in [Addrs -> Nat] : c = [x.stalled EXCEPT ![addr] = 0]
    BY <1>1
<1>19. reanalyzeMessages(x, addr) = [x EXCEPT !.heap = h, !.stalled = c]
    BY <1>5, <1>12, <1>15, <1>18
<1>20. /\ reanalyzeMessages(x, addr) \in BufferTypes /\ reanalyzeMessages(x, addr).heap = h
       /\ reanalyzeMessages(x, addr).stalled = c
    BY <1>1, <1>16, <1>19 DEF BufferTypes
<1>21. ASSUME NEW W, Dues(x, W) PROVE Dues(reanalyzeMessages(x, addr), W \cup {1})
    BY <1>16, <1>17, <1>20, <1>21, SMTT(20) DEF Dues
<1>. QED BY <1>16, <1>18, <1>20, <1>21 DEF BufOK

-----------------------------------------------------------------------------
\* A cycle passes.
LEMMA AgedOK ==
    ASSUME NEW x, BufOK(x)
    PROVE  /\ BufOK(Aged(x)) /\ Aged(x).stalled = x.stalled
           /\ Aged(x).m_last_arrival_time = Earlier(x.m_last_arrival_time)
           /\ Len(Aged(x).heap) = Len(x.heap)
           /\ \A i \in 1 .. Len(x.heap) : /\ Aged(x).heap[i].due = Earlier(x.heap[i].due)
                                          /\ Aged(x).heap[i].counter = x.heap[i].counter
           /\ \A W : Dues(x, W) => Dues(Aged(x), {w - 1 : w \in W})
<1>. DEFINE s == x.heap
<1>1. /\ s \in Seq(Entries) /\ DOMAIN s = 1 .. Len(s) /\ Len(s) \in Nat /\ Ordered(s)
      /\ \A i \in 1 .. Len(s) : s[i] \in Entries /\ s[i].counter <= Len(s)
      /\ x \in BufferTypes
    BY SMTT(20) DEF BufOK, BufferTypes, HeapOK
<1>2. PICK h : h = [i \in 1 .. Len(s) |-> [s[i] EXCEPT !.due = Earlier(@)]]
    OBVIOUS
<1>3. ASSUME NEW i \in 1 .. Len(s)
      PROVE  /\ h[i] \in Entries /\ h[i].due = Earlier(s[i].due) /\ h[i].counter = s[i].counter
             /\ Earlier(s[i].due) \in Nat
    <2>1. s[i] \in Entries /\ s[i].due \in Nat
        BY <1>1 DEF Entries
    <2>2. Earlier(s[i].due) \in Nat
        BY <2>1, SMTT(20) DEF Earlier
    <2>. QED BY <1>2, <2>1, <2>2 DEF Entries
<1>4. h \in Seq(Entries) /\ Len(h) = Len(s)
    <2>1. h \in [1 .. Len(s) -> Entries]
        BY <1>2, <1>3
    <2>2. PICK n \in Nat : n = Len(s)
        BY <1>1
    <2>3. \A f \in [1 .. n -> Entries] : f \in Seq(Entries) /\ Len(f) = n
        BY SMTT(20)
    <2>. QED BY <2>1, <2>2, <2>3
<1>5. Ordered(h)
    <2>1. SUFFICES ASSUME NEW i \in 1 .. Len(s), NEW j \in 1 .. Len(s), i < j
                   PROVE  Precedes(h[i], h[j])
        BY <1>4 DEF Ordered
    <2>2. Precedes(s[i], s[j]) /\ s[i].due \in Nat /\ s[j].due \in Nat
        BY <1>1, <2>1, SMTT(20) DEF Ordered, Entries
    <2>3. PICK a \in Nat, b \in Nat : a = s[i].due /\ b = s[j].due
        BY <2>2
    <2>4. h[i].due = Earlier(a) /\ h[j].due = Earlier(b)
        BY <1>3, <2>3
    <2>5. h[i].counter = s[i].counter /\ h[j].counter = s[j].counter
        BY <1>3
    <2>6. a <= b /\ (a = b /\ a > 0 => s[i].counter <= s[j].counter)
        BY <2>2, <2>3 DEF Precedes
    <2>7. /\ Earlier(a) <= Earlier(b)
          /\ Earlier(a) = Earlier(b) /\ Earlier(a) > 0 => a = b /\ a > 0
        BY <2>6, SMTT(20) DEF Earlier
    <2>. QED BY <2>4, <2>5, <2>6, <2>7 DEF Precedes
<1>6. Earlier(x.m_last_arrival_time) \in Nat
    BY <1>1, SMTT(20) DEF BufferTypes, Earlier
<1>7. PICK l \in Nat : l = Earlier(x.m_last_arrival_time)
    BY <1>6
<1>8. /\ Aged(x) \in BufferTypes /\ Aged(x).heap = h /\ Aged(x).stalled = x.stalled
      /\ Aged(x).m_last_arrival_time = Earlier(x.m_last_arrival_time)
    <2>1. Aged(x) = [x EXCEPT !.heap = h, !.popped = FALSE, !.enqueued = FALSE,
                              !.m_size_at_cycle_start = 0, !.m_msgs_this_cycle = 0,
                              !.m_last_arrival_time = l]
        BY <1>1, <1>2, <1>7 DEF Aged
    <2>2. h \in Seq(Entries) /\ 0 \in Int /\ 0 \in Nat /\ FALSE \in BOOLEAN
        BY <1>4, SMTT(20)
    <2>. QED BY <1>1, <1>7, <2>1, <2>2 DEF BufferTypes
<1>9. HeapOK(h)
    BY <1>1, <1>3, <1>4, <1>5 DEF HeapOK
<1>10. ASSUME NEW W, Dues(x, W) PROVE Dues(Aged(x), {w - 1 : w \in W})
    <2>1. SUFFICES ASSUME NEW i \in 1 .. Len(s), h[i].due > 0
                   PROVE  h[i].due \in {w - 1 : w \in W}
        BY <1>4, <1>8 DEF Dues
    <2>2. PICK d \in Nat : d = s[i].due
        BY <1>1 DEF Entries
    <2>3. d > 0 /\ h[i].due = d - 1
        BY <1>3, <2>1, <2>2, SMTT(20) DEF Earlier
    <2>4. d \in W
        BY <1>10, <2>2, <2>3 DEF Dues
    <2>. QED BY <2>3, <2>4
<1>. QED BY <1>3, <1>4, <1>8, <1>9, <1>10 DEF BufOK

-----------------------------------------------------------------------------
(***************************************************************************)
(* The inductive invariant of the controller.  Its loop owes a later       *)
(* wakeup to every port it has passed with a message left; asleep, it owes *)
(* one to every port.                                                      *)
(***************************************************************************)
Scheduled ==
    /\ \A r \in Ranks : Dues(buf[r], wakeups)
    /\ loop # Asleep => /\ 0 \in wakeups
                        /\ \A r \in Ranks : r > loop.port /\ isReady(buf[r]) => 1 \in wakeups
    /\ loop = Asleep => \A r \in Ranks : isReady(buf[r]) => wakeups # {}

MsgInv ==
    /\ setup \in Setups
    /\ buf \in [Ranks -> BufferTypes] /\ \A r \in Ranks : BufOK(buf[r])
    /\ wakeups \subseteq Nat
    /\ waiting \in [Addrs -> SUBSET Ranks]
    /\ loop \in [port : -2 .. MaxRank, counter : 0 .. TransitionsPerCycle]
    /\ Scheduled

\* The empty buffers satisfy the invariant.
LEMMA InitMsg == Init => MsgInv
<1>. SUFFICES ASSUME Init PROVE MsgInv
    OBVIOUS
<1>1. EmptyBuffer \in BufferTypes
    <2>1. [a \in Addrs |-> 0] \in [Addrs -> Nat] /\ << >> \in Seq(Entries)
        BY SMTT(20)
    <2>. QED BY <2>1, SMTT(20) DEF EmptyBuffer, BufferTypes
<1>2. EmptyBuffer.heap = << >>
    BY DEF EmptyBuffer
<1>3. BufOK(EmptyBuffer) /\ Dues(EmptyBuffer, {}) /\ ~isReady(EmptyBuffer)
    BY <1>1, <1>2, SMTT(20) DEF BufOK, HeapOK, Ordered, Dues, isReady
<1>4. loop \in [port : -2 .. MaxRank, counter : 0 .. TransitionsPerCycle]
    BY UsesAssumption, SMTT(20) DEF Init, Asleep
<1>. QED BY <1>1, <1>3, <1>4 DEF Init, MsgInv, Scheduled

\* After a transition the loop starts again at the highest port, and owes nothing.
LEMMA AgainInv ==
    ASSUME MsgInv, NEW r \in Ranks, At(r), NEW n \in {0, 1}, Again(n), setup' = setup,
           buf' \in [Ranks -> BufferTypes], \A k \in Ranks : BufOK(buf'[k]) /\ Dues(buf'[k], wakeups'),
           wakeups \subseteq wakeups', wakeups' \subseteq Nat,
           waiting' \in [Addrs -> SUBSET Ranks]
    PROVE  MsgInv'
<1>1. MaxRank \in Nat /\ TransitionsPerCycle \in Nat
    BY UsesAssumption
<1>2. loop.counter \in 0 .. TransitionsPerCycle /\ loop.counter < TransitionsPerCycle /\ loop.port = r
    BY DEF MsgInv, At
<1>3. loop # Asleep
    BY <1>2, SMTT(20) DEF Asleep, Ranks
<1>4. loop.counter + n \in 0 .. TransitionsPerCycle /\ MaxRank \in -2 .. MaxRank
    BY <1>1, <1>2, SMTT(20)
<1>5. loop' = [port |-> MaxRank, counter |-> loop.counter + n]
    BY DEF Again
<1>6. loop' \in [port : -2 .. MaxRank, counter : 0 .. TransitionsPerCycle] /\ loop'.port = MaxRank
    BY <1>4, <1>5
<1>7. loop' # Asleep
    BY <1>1, <1>6, SMTT(20) DEF Asleep
<1>8. \A k \in Ranks : ~(k > loop'.port)
    BY <1>1, <1>6, SMTT(20) DEF Ranks
<1>9. 0 \in wakeups'
    BY <1>3 DEF MsgInv, Scheduled
<1>10. Asleep' = Asleep /\ Ranks' = Ranks /\ Setups' = Setups
    BY DEF Asleep, Ranks
<1>11. Scheduled'
    BY <1>7, <1>8, <1>9 DEF Scheduled
<1>. QED BY <1>6, <1>11 DEF MsgInv


\* A port that has a message is a port of the loop, and the buffer has the message.
LEMMA AtPort ==
    ASSUME MsgInv, NEW r \in Ranks, At(r)
    PROVE  BufOK(buf[r]) /\ buf[r].heap # << >> /\ Dues(buf[r], wakeups)
           /\ buf[r].heap[1].addr \in Addrs
<1>1. BufOK(buf[r]) /\ buf[r].heap # << >> /\ Dues(buf[r], wakeups)
    BY DEF MsgInv, Scheduled, At, isReady
<1>2. buf[r].heap[1] \in Entries
    BY <1>1, SMTT(20) DEF BufOK, BufferTypes
<1>. QED BY <1>1, <1>2 DEF Entries

\* One port's buffer changes, and the wakeups it needs are added.
LEMMA OneBuffer ==
    ASSUME MsgInv, NEW r \in Ranks, NEW y, BufOK(y), NEW W,
           buf' = [buf EXCEPT ![r] = y], wakeups' = wakeups \cup W, W \subseteq Nat,
           Dues(y, wakeups \cup W)
    PROVE  /\ buf' \in [Ranks -> BufferTypes]
           /\ \A k \in Ranks : BufOK(buf'[k]) /\ Dues(buf'[k], wakeups')
           /\ wakeups \subseteq wakeups' /\ wakeups' \subseteq Nat
<1>1. buf' \in [Ranks -> BufferTypes] /\ buf'[r] = y /\ \A k \in Ranks \ {r} : buf'[k] = buf[k]
    BY DEF MsgInv, BufOK
<1>2. ASSUME NEW k \in Ranks \ {r} PROVE BufOK(buf'[k]) /\ Dues(buf'[k], wakeups')
    BY <1>1 DEF MsgInv, Scheduled, Dues
<1>3. BufOK(buf'[r]) /\ Dues(buf'[r], wakeups')
    BY <1>1
<1>. QED BY <1>1, <1>2, <1>3 DEF MsgInv

\* A message arriving from another controller keeps the invariant.
LEMMA ProduceInv ==
    ASSUME MsgInv, NEW r \in Ranks, NEW addr \in Addrs, NEW delta \in Deltas[r],
           Produce(r, addr, delta), setup' = setup
    PROVE  MsgInv'
<1>1. delta \in Nat \ {0}
    BY UsesAssumption
<1>2. loop = Asleep /\ loop' = loop /\ waiting' = waiting
    BY DEF Produce
<1>3. CASE UNCHANGED <<buf, wakeups>>
    BY <1>2, <1>3 DEF MsgInv, Scheduled
<1>4. CASE buf' = [buf EXCEPT ![r] = enqueue(@, addr, delta)] /\ wakeups' = wakeups \cup {delta}
    <2>1. BufOK(buf[r]) /\ Dues(buf[r], wakeups)
        BY DEF MsgInv, Scheduled
    <2>2. buf[r] \in BufferTypes /\ Ordered(buf[r].heap)
        BY <2>1 DEF BufOK, HeapOK
    <2>3. PICK y : y = enqueue(buf[r], addr, delta)
        OBVIOUS
    <2>4. BufOK(y) /\ Dues(y, wakeups \cup {delta})
        BY <1>1, <2>1, <2>2, <2>3, EnqueueOK
    <2>5. buf' = [buf EXCEPT ![r] = y]
        BY <1>4, <2>3
    <2>6. /\ buf' \in [Ranks -> BufferTypes] /\ \A k \in Ranks : BufOK(buf'[k]) /\ Dues(buf'[k], wakeups')
          /\ wakeups' \subseteq Nat
        <3>1. PICK W : W = {delta}
            OBVIOUS
        <3>2. W \subseteq Nat /\ wakeups' = wakeups \cup W /\ Dues(y, wakeups \cup W) /\ BufOK(y)
            BY <1>1, <1>4, <2>4, <3>1
        <3>. QED BY <2>5, <3>2, OneBuffer
    <2>7. wakeups' # {}
        BY <1>4
    <2>8. Scheduled'
        BY <1>2, <2>6, <2>7 DEF Scheduled
    <2>. QED BY <1>2, <2>6, <2>8 DEF MsgInv
<1>. QED BY <1>3, <1>4 DEF Produce

\* So does the start of a wakeup,
LEMMA WakeupInv == ASSUME MsgInv, Wakeup, setup' = setup PROVE MsgInv'
<1>1. MaxRank \in Nat /\ TransitionsPerCycle \in Nat
    BY UsesAssumption
<1>2. /\ loop' \in [port : -2 .. MaxRank, counter : 0 .. TransitionsPerCycle]
      /\ loop'.port = MaxRank
    <2>1. loop' = [port |-> MaxRank, counter |-> 0]
        BY DEF Wakeup, Top
    <2>2. MaxRank \in -2 .. MaxRank /\ 0 \in 0 .. TransitionsPerCycle
        BY <1>1, SMTT(20)
    <2>. QED BY <2>1, <2>2
<1>3. loop' # Asleep /\ \A k \in Ranks : ~(k > loop'.port)
    BY <1>1, <1>2, SMTT(20) DEF Asleep, Ranks
<1>4. UNCHANGED <<buf, wakeups, waiting>> /\ 0 \in wakeups
    BY DEF Wakeup
<1>5. Scheduled'
    BY <1>3, <1>4 DEF MsgInv, Scheduled
<1>. QED BY <1>2, <1>4, <1>5 DEF MsgInv

\* The loop goes on to the next port.
LEMMA NextPortInv ==
    ASSUME MsgInv, NEW r \in Ranks, ResourceStall(r) \/ NotReady(r), setup' = setup
    PROVE  MsgInv'
<1>1. MaxRank \in Nat /\ r \in 0 .. MaxRank /\ r \in Int
    BY UsesAssumption, SMTT(20) DEF Ranks
<1>2. /\ loop.port = r /\ loop \in [port : -2 .. MaxRank, counter : 0 .. TransitionsPerCycle]
      /\ loop' = [loop EXCEPT !.port = r - 1] /\ UNCHANGED <<buf, waiting>>
    BY DEF ResourceStall, NotReady, At, MsgInv
<1>3. r - 1 \in -2 .. MaxRank
    BY <1>1, SMTT(20)
<1>4. loop' \in [port : -2 .. MaxRank, counter : 0 .. TransitionsPerCycle] /\ loop'.port = r - 1
    BY <1>2, <1>3
<1>5. loop # Asleep /\ loop' # Asleep
    BY <1>1, <1>2, <1>4, SMTT(20) DEF Asleep
<1>6. 0 \in wakeups /\ \A k \in Ranks : k > r /\ isReady(buf[k]) => 1 \in wakeups
    BY <1>2, <1>5 DEF MsgInv, Scheduled
<1>7. /\ wakeups \subseteq wakeups' /\ wakeups' \subseteq Nat
      /\ isReady(buf[r]) => 1 \in wakeups'
    BY SMTT(20) DEF ResourceStall, NotReady, MsgInv
<1>8. \A k \in Ranks : k > r - 1 => k > r \/ k = r
    BY <1>1, SMTT(20) DEF Ranks
<1>9. Scheduled'
    <2>1. \A k \in Ranks : k > loop'.port /\ isReady(buf'[k]) => 1 \in wakeups'
        BY <1>2, <1>4, <1>6, <1>7, <1>8
    <2>2. \A k \in Ranks : Dues(buf'[k], wakeups')
        BY <1>2, <1>7 DEF MsgInv, Scheduled, Dues
    <2>. QED BY <1>5, <1>6, <1>7, <2>1, <2>2 DEF Scheduled, isReady
<1>. QED BY <1>2, <1>4, <1>7, <1>9 DEF MsgInv

\* its end,
LEMMA ReturnInv == ASSUME MsgInv, Return, setup' = setup PROVE MsgInv'
<1>1. loop # Asleep /\ loop' = Asleep /\ UNCHANGED <<buf, waiting>>
    BY DEF Return
<1>2. loop' \in [port : -2 .. MaxRank, counter : 0 .. TransitionsPerCycle]
    BY UsesAssumption, <1>1, SMTT(20) DEF Asleep
<1>3. wakeups \ {0} \subseteq wakeups' /\ wakeups' \subseteq Nat
    <2>1. wakeups \subseteq Nat
        BY DEF MsgInv
    <2>2. wakeups' = (wakeups \cup {1}) \ {0} \/ wakeups' = wakeups \ {0}
        BY DEF Return
    <2>3. 1 \in Nat
        OBVIOUS
    <2>. QED BY <2>1, <2>2, <2>3
<1>4. ASSUME NEW r \in Ranks, isReady(buf[r]) PROVE wakeups' # {}
    <2>1. CASE wakeups' = (wakeups \cup {1}) \ {0}
        <3>1. 1 \in wakeups'
            BY <2>1, SMTT(20)
        <3>. QED BY <3>1
    <2>2. CASE loop.port = -1
        <3>1. r > loop.port
            BY <2>2, SMTT(20) DEF Ranks
        <3>2. 1 \in wakeups
            BY <1>1, <1>4, <3>1 DEF MsgInv, Scheduled
        <3>. QED BY <1>3, <3>2, SMTT(20)
    <2>. QED BY <2>1, <2>2 DEF Return
<1>5. ASSUME NEW r \in Ranks PROVE Dues(buf[r], wakeups')
    <2>1. \A i \in 1 .. Len(buf[r].heap) : buf[r].heap[i].due > 0 =>
              buf[r].heap[i].due \in wakeups /\ buf[r].heap[i].due # 0
        BY SMTT(20) DEF MsgInv, Scheduled, Dues
    <2>. QED BY <1>3, <2>1 DEF Dues
<1>6. Scheduled'
    BY <1>1, <1>4, <1>5 DEF Scheduled, isReady, Dues
<1>. QED BY <1>1, <1>2, <1>3, <1>6 DEF MsgInv


\* the passing of a cycle,
LEMMA TickInv == ASSUME MsgInv, Tick, setup' = setup PROVE MsgInv'
<1>1. /\ loop = Asleep /\ UNCHANGED <<loop, waiting>> /\ 0 \notin wakeups
      /\ buf' = [r \in Ranks |-> Aged(buf[r])] /\ wakeups' = {w - 1 : w \in wakeups}
    BY DEF Tick
<1>2. wakeups \subseteq Nat /\ \A r \in Ranks : BufOK(buf[r]) /\ Dues(buf[r], wakeups)
    BY DEF MsgInv, Scheduled
<1>3. wakeups' \subseteq Nat
    <2>1. ASSUME NEW w \in wakeups PROVE w - 1 \in Nat
        <3>1. w \in Nat /\ w # 0
            BY <1>1, <1>2
        <3>. QED BY <3>1, SMTT(20)
    <2>. QED BY <1>1, <2>1
<1>4. ASSUME NEW r \in Ranks PROVE BufOK(buf'[r]) /\ Dues(buf'[r], wakeups')
    BY <1>1, <1>2, AgedOK
<1>5. ASSUME NEW r \in Ranks, isReady(buf'[r]) PROVE wakeups' # {}
    <2>1. buf'[r] = Aged(buf[r]) /\ BufOK(buf[r])
        BY <1>1, <1>2
    <2>2. PICK h : h = buf[r].heap
        OBVIOUS
    <2>3. h \in Seq(Entries)
        BY <2>1, <2>2 DEF BufOK, BufferTypes
    <2>4. PICK g : g = Aged(buf[r]).heap
        OBVIOUS
    <2>5. g \in Seq(Entries) /\ Len(g) = Len(h) /\ \A i \in 1 .. Len(h) : g[i].due = Earlier(h[i].due)
        BY <2>1, <2>2, <2>4, AgedOK DEF BufOK, BufferTypes
    <2>6. g # << >> /\ g[1].due = 0
        BY <1>5, <2>1, <2>4 DEF isReady
    <2>7. 1 \in 1 .. Len(h) /\ h # << >>
        BY <2>3, <2>5, <2>6, SMTT(20)
    <2>8. PICK d \in Nat : d = h[1].due
        <3>1. h[1] \in Entries
            BY <2>3, <2>7, SMTT(20)
        <3>. QED BY <3>1 DEF Entries
    <2>9. Earlier(d) = 0
        BY <2>5, <2>6, <2>7, <2>8
    <2>10. d = 0 \/ d = 1
        BY <2>9, SMTT(20) DEF Earlier
    <2>11. wakeups # {}
        <3>1. CASE d = 0
            <4>1. isReady(buf[r])
                BY <2>2, <2>7, <2>8, <3>1 DEF isReady
            <4>. QED BY <1>1, <4>1 DEF MsgInv, Scheduled
        <3>2. CASE d = 1
            <4>1. h[1].due > 0 => h[1].due \in wakeups
                BY <1>2, <2>2, <2>7 DEF Dues
            <4>. QED BY <2>8, <3>2, <4>1, SMTT(20)
        <3>. QED BY <2>10, <3>1, <3>2
    <2>. QED BY <1>1, <2>11
<1>6. Scheduled'
    BY <1>1, <1>4, <1>5 DEF Scheduled
<1>7. buf' \in [Ranks -> BufferTypes]
    <2>1. \A r \in Ranks : Aged(buf[r]) \in BufferTypes
        BY <1>1, <1>4 DEF BufOK
    <2>. QED BY <1>1, <2>1
<1>. QED BY <1>1, <1>3, <1>4, <1>6, <1>7 DEF MsgInv

\* a recycled head,
LEMMA RecycleInv == ASSUME MsgInv, NEW r \in Ranks, Recycle(r), setup' = setup PROVE MsgInv'
<1>1. At(r) /\ Again(1) /\ waiting' = waiting
    BY DEF Recycle
<1>2. PICK y : y = recycle(buf[r])
    OBVIOUS
<1>3. PICK W : W = {RecycleLatency}
    OBVIOUS
<1>4. BufOK(y) /\ Dues(y, wakeups \cup W)
    BY <1>1, <1>2, <1>3, AtPort, RecycleOK
<1>5. buf' = [buf EXCEPT ![r] = y] /\ wakeups' = wakeups \cup W
    BY <1>2, <1>3 DEF Recycle
<1>6. W \subseteq Nat
    BY <1>3, UsesAssumption
<1>7. /\ buf' \in [Ranks -> BufferTypes] /\ \A k \in Ranks : BufOK(buf'[k]) /\ Dues(buf'[k], wakeups')
      /\ wakeups \subseteq wakeups' /\ wakeups' \subseteq Nat
    BY <1>4, <1>5, <1>6, OneBuffer
<1>8. waiting' \in [Addrs -> SUBSET Ranks]
    BY <1>1 DEF MsgInv
<1>. QED BY <1>1, <1>7, <1>8, AgainInv

\* a stalled head,
LEMMA StallInv == ASSUME MsgInv, NEW r \in Ranks, StallAndWait(r), setup' = setup PROVE MsgInv'
<1>1. At(r) /\ Again(1) /\ wakeups' = wakeups
    BY DEF StallAndWait
<1>2. PICK y : y = stallMessage(buf[r])
    OBVIOUS
<1>3. PICK W : W = {}
    OBVIOUS
<1>4. BufOK(y) /\ Dues(y, wakeups)
    BY <1>1, <1>2, AtPort, StallOK
<1>5. buf' = [buf EXCEPT ![r] = y] /\ wakeups' = wakeups \cup W /\ W \subseteq Nat
    BY <1>1, <1>2, <1>3 DEF StallAndWait
<1>6. wakeups \cup W = wakeups
    BY <1>3
<1>7. /\ buf' \in [Ranks -> BufferTypes] /\ \A k \in Ranks : BufOK(buf'[k]) /\ Dues(buf'[k], wakeups')
      /\ wakeups \subseteq wakeups' /\ wakeups' \subseteq Nat
    BY <1>4, <1>5, <1>6, OneBuffer
<1>8. waiting' \in [Addrs -> SUBSET Ranks]
    <2>1. PICK a : a = buf[r].heap[1].addr
        OBVIOUS
    <2>2. a \in Addrs /\ waiting \in [Addrs -> SUBSET Ranks]
        BY <1>1, <2>1, AtPort DEF MsgInv
    <2>3. waiting' = [waiting EXCEPT ![a] = @ \cup {r}]
        BY <2>1 DEF StallAndWait
    <2>. QED BY <2>2, <2>3
<1>. QED BY <1>1, <1>7, <1>8, AgainInv

\* a delayed head,
LEMMA DelayInv == ASSUME MsgInv, NEW r \in Ranks, Delay(r), setup' = setup PROVE MsgInv'
<1>1. At(r) /\ Again(0) /\ waiting' = waiting
    BY DEF Delay
<1>2. waiting' \in [Addrs -> SUBSET Ranks]
    BY <1>1 DEF MsgInv
<1>3. CASE UNCHANGED <<buf, wakeups>>
    <2>1. /\ buf' \in [Ranks -> BufferTypes] /\ \A k \in Ranks : BufOK(buf'[k]) /\ Dues(buf'[k], wakeups')
          /\ wakeups \subseteq wakeups' /\ wakeups' \subseteq Nat
        BY <1>3 DEF MsgInv, Scheduled
    <2>. QED BY <1>1, <1>2, <2>1, AgainInv
<1>4. CASE buf' = [buf EXCEPT ![r] = delayHead(@)] /\ wakeups' = wakeups \cup {1}
    <2>1. PICK y : y = delayHead(buf[r])
        OBVIOUS
    <2>2. PICK W : W = {1}
        OBVIOUS
    <2>3. BufOK(y) /\ Dues(y, wakeups \cup W)
        BY <1>1, <2>1, <2>2, AtPort, DelayOK
    <2>4. buf' = [buf EXCEPT ![r] = y] /\ wakeups' = wakeups \cup W /\ W \subseteq Nat
        BY <1>4, <2>1, <2>2, SMTT(20)
    <2>5. /\ buf' \in [Ranks -> BufferTypes] /\ \A k \in Ranks : BufOK(buf'[k]) /\ Dues(buf'[k], wakeups')
          /\ wakeups \subseteq wakeups' /\ wakeups' \subseteq Nat
        BY <2>3, <2>4, OneBuffer
    <2>. QED BY <1>1, <1>2, <2>5, AgainInv
<1>. QED BY <1>3, <1>4 DEF Delay


\* What wakeUpBuffers does to the buffers.
LEMMA WokenBuffers ==
    ASSUME NEW b, NEW r, NEW addr \in Addrs, NEW W,
           \A k \in Ranks : BufOK(b[k]) /\ Dues(b[k], W)
    PROVE  LET c == wakeUpBuffers(b, r, addr)
               woken == {k \in waiting[addr] : k < r}
           IN /\ c \in [Ranks -> BufferTypes]
              /\ \A k \in Ranks : BufOK(c[k]) /\ Dues(c[k], W \cup {1 : j \in woken})
<1>. DEFINE c == wakeUpBuffers(b, r, addr)
            woken == {k \in waiting[addr] : k < r}
<1>1. ASSUME NEW k \in Ranks PROVE BufOK(c[k]) /\ Dues(c[k], W \cup {1 : j \in woken})
    <2>1. CASE k \in woken
        <3>1. PICK y : y = reanalyzeMessages(b[k], addr)
            OBVIOUS
        <3>2. BufOK(y) /\ Dues(y, W \cup {1})
            BY <3>1, ReanalyzeOK
        <3>3. c[k] = y
            BY <2>1, <3>1 DEF wakeUpBuffers
        <3>4. {1} \subseteq {1 : j \in woken}
            BY <2>1
        <3>. QED BY <3>2, <3>3, <3>4 DEF Dues
    <2>2. CASE k \notin woken
        <3>1. c[k] = b[k]
            BY <2>2 DEF wakeUpBuffers
        <3>. QED BY <3>1 DEF Dues
    <2>. QED BY <2>1, <2>2
<1>2. \A k \in Ranks : c[k] \in BufferTypes
    BY <1>1 DEF BufOK
<1>3. c \in [Ranks -> BufferTypes]
    BY <1>2 DEF wakeUpBuffers
<1>. QED BY <1>1, <1>3

\* A message is taken, and nobody is woken.
LEMMA PopInv ==
    ASSUME MsgInv, NEW r \in Ranks, At(r)
    PROVE  LET b == [buf EXCEPT ![r] = pop(@)]
           IN /\ b \in [Ranks -> BufferTypes] /\ \A k \in Ranks : BufOK(b[k]) /\ Dues(b[k], wakeups)
              /\ \A k \in Ranks : b[k].stalled = buf[k].stalled
<1>1. PICK y : y = pop(buf[r])
    OBVIOUS
<1>2. BufOK(y) /\ Dues(y, wakeups) /\ y.stalled = buf[r].stalled
    BY <1>1, AtPort, PopOK
<1>3. buf \in [Ranks -> BufferTypes] /\ \A k \in Ranks : BufOK(buf[k]) /\ Dues(buf[k], wakeups)
    BY DEF MsgInv, Scheduled
<1>4. y \in BufferTypes
    BY <1>2 DEF BufOK
<1>5. PICK b : b = [buf EXCEPT ![r] = y]
    OBVIOUS
<1>6. b \in [Ranks -> BufferTypes] /\ b[r] = y /\ \A k \in Ranks \ {r} : b[k] = buf[k]
    BY <1>3, <1>4, <1>5
<1>7. \A k \in Ranks : BufOK(b[k]) /\ Dues(b[k], wakeups) /\ b[k].stalled = buf[k].stalled
    BY <1>2, <1>3, <1>6
<1>. QED BY <1>1, <1>5, <1>6, <1>7

\* and a head that is processed, with the messages it wakes up.
LEMMA DequeueInv == ASSUME MsgInv, NEW r \in Ranks, Dequeue(r), setup' = setup PROVE MsgInv'
<1>1. At(r) /\ Again(1)
    BY DEF Dequeue
<1>2. PICK b : b = [buf EXCEPT ![r] = pop(@)]
    OBVIOUS
<1>3. b \in [Ranks -> BufferTypes] /\ \A k \in Ranks : BufOK(b[k]) /\ Dues(b[k], wakeups)
    BY <1>1, <1>2, PopInv
<1>4. PICK addr : addr = buf[r].heap[1].addr
    OBVIOUS
<1>5. addr \in Addrs
    BY <1>1, <1>4, AtPort
<1>6. wakeups \subseteq Nat /\ waiting \in [Addrs -> SUBSET Ranks]
    BY DEF MsgInv
<1>7. CASE buf' = b /\ UNCHANGED <<wakeups, waiting>>
    BY <1>1, <1>3, <1>6, <1>7, AgainInv
<1>8. CASE /\ wakeups' = wakeups \cup {1 : k \in {j \in waiting[addr] : j < r}}
           /\ buf' = wakeUpBuffers(b, r, addr)
           /\ waiting' = [waiting EXCEPT ![addr] = {}]
    <2>1. /\ buf' \in [Ranks -> BufferTypes]
          /\ \A k \in Ranks : BufOK(buf'[k]) /\ Dues(buf'[k], wakeups')
        BY <1>3, <1>5, <1>8, WokenBuffers
    <2>2. wakeups \subseteq wakeups' /\ wakeups' \subseteq Nat
        <3>1. 1 \in Nat
            OBVIOUS
        <3>. QED BY <1>6, <1>8, <3>1
    <2>3. waiting' \in [Addrs -> SUBSET Ranks]
        BY <1>5, <1>6, <1>8
    <2>. QED BY <1>1, <2>1, <2>2, <2>3, AgainInv
<1>. QED BY <1>2, <1>4, <1>7, <1>8 DEF Dequeue

\* Every step keeps the invariant.
LEMMA NextMsg == ASSUME MsgInv, [Next]_vars PROVE MsgInv'
<1>1. CASE UNCHANGED vars
    BY <1>1 DEF vars, MsgInv, Scheduled
<1>2. CASE Step /\ setup' = setup
    <2>1. ASSUME NEW r \in Ranks, NEW addr \in Addrs, NEW delta \in Deltas[r], Produce(r, addr, delta)
          PROVE  MsgInv'
        BY <1>2, <2>1, ProduceInv
    <2>2. ASSUME NEW r \in Ranks, Dequeue(r) \/ Recycle(r) \/ StallAndWait(r) \/ Delay(r)
                                  \/ ResourceStall(r) \/ NotReady(r)
          PROVE  MsgInv'
        BY <1>2, <2>2, DequeueInv, RecycleInv, StallInv, DelayInv, NextPortInv
    <2>3. Wakeup \/ Return \/ Tick => MsgInv'
        BY <1>2, WakeupInv, ReturnInv, TickInv
    <2>. QED BY <1>2, <2>1, <2>2, <2>3 DEF Step
<1>. QED BY <1>1, <1>2 DEF Next

\* The inductive invariant of the controller and its buffers.
THEOREM MessagesInvariance == Spec => []MsgInv
<1>1. MsgInv /\ [Next]_vars => MsgInv'
    BY NextMsg
<1>. QED BY InitMsg, <1>1, PTL DEF Spec

\* The types of the controller's state, and the order of every heap by time.
THEOREM MessageTypeCorrect == Spec => []TypeOK
<1>1. ASSUME MsgInv PROVE TypeOK
    <2>1. ASSUME NEW r \in Ranks PROVE buf[r] \in BufferTypes /\ HeapOK(buf[r].heap)
        BY <1>1 DEF MsgInv, BufOK
    <2>. QED BY <1>1, <2>1 DEF MsgInv, TypeOK, HeapOK
<1>. QED BY <1>1, MessagesInvariance, PTL

\* Whatever its ports do with their messages, the controller is scheduled for
\* every message that one of its buffers holds.
THEOREM NoWakeupLost == Spec => []NoLostWakeup
<1>1. ASSUME MsgInv PROVE NoLostWakeup
    <2>1. SUFFICES ASSUME loop = Asleep, NEW r \in Ranks, NEW i \in DOMAIN buf[r].heap
                   PROVE  IF buf[r].heap[i].due > 0 THEN buf[r].heap[i].due \in wakeups
                                                    ELSE wakeups # {}
        BY DEF NoLostWakeup
    <2>2. PICK h : h = buf[r].heap
        OBVIOUS
    <2>3. h \in Seq(Entries) /\ Ordered(h) /\ DOMAIN h = 1 .. Len(h) /\ i \in 1 .. Len(h)
        BY <1>1, <2>2, SMTT(20) DEF MsgInv, BufOK, HeapOK
    <2>4. h[i].due > 0 => h[i].due \in wakeups
        BY <1>1, <2>2, <2>3 DEF MsgInv, Scheduled, Dues
    <2>5. ASSUME ~(h[i].due > 0) PROVE wakeups # {}
        <3>1. h # << >> /\ 1 \in 1 .. Len(h)
            BY <2>3, SMTT(20)
        <3>2. h[i] \in Entries /\ h[1] \in Entries
            BY <2>3, <3>1, SMTT(20)
        <3>3. h[i].due \in Nat /\ h[1].due \in Nat
            BY <3>2 DEF Entries
        <3>4. h[1].due <= h[i].due
            <4>1. CASE i = 1
                BY <3>3, <4>1, SMTT(20)
            <4>2. CASE i # 1
                BY <2>3, <3>1, <4>2, SMTT(20) DEF Ordered, Precedes
            <4>. QED BY <4>1, <4>2
        <3>5. h[1].due = 0
            BY <2>5, <3>3, <3>4, SMTT(20)
        <3>6. isReady(buf[r])
            BY <2>2, <3>1, <3>5 DEF isReady
        <3>. QED BY <1>1, <2>1, <3>6 DEF MsgInv, Scheduled
    <2>. QED BY <2>2, <2>4, <2>5
<1>. QED BY <1>1, MessagesInvariance, PTL


-----------------------------------------------------------------------------
(***************************************************************************)
(* Order.  In an ordered buffer whose messages are only dequeued, the heap *)
(* is a queue: a new message is due no earlier than any that is in it.     *)
(***************************************************************************)
LEMMA RenumberedInOrder ==
    ASSUME NEW s \in Seq(Entries), NEW c \in Nat, \A i \in 1 .. Len(s) : s[i].counter = i + c
    PROVE  \A i \in 1 .. Len(s) : Renumbered(s)[i].counter = i
<1>1. SUFFICES ASSUME NEW i \in 1 .. Len(s) PROVE Renumbered(s)[i].counter = i
    OBVIOUS
<1>2. PICK n \in Nat : n = Len(s)
    BY SMTT(20)
<1>3. {j \in 1 .. n : s[j].counter <= s[i].counter} = 1 .. i
    <2>1. \A j \in 1 .. n : s[j].counter <= s[i].counter <=> j + c <= i + c
        BY <1>2
    <2>2. \A j \in 1 .. n : j + c <= i + c <=> j \in 1 .. i
        BY <1>2, SMTT(20)
    <2>3. \A j \in 1 .. i : j \in 1 .. n
        BY <1>2, SMTT(20)
    <2>. QED BY <2>1, <2>2, <2>3
<1>4. Cardinality(1 .. i) = i
    <2>1. i \in Nat /\ i >= 1
        BY <1>2, SMTT(20)
    <2>. QED BY <2>1, IntervalCardinality
<1>5. Renumbered(s)[i].counter = Cardinality({j \in 1 .. Len(s) : s[j].counter <= s[i].counter})
    BY RenumberedEntries
<1>. QED BY <1>2, <1>3, <1>4, <1>5

\* A message that is due no earlier than the others is pushed to the end.
LEMMA PushHeapLast ==
    ASSUME NEW s \in Seq(Entries), NEW node \in Entries, node.counter = Len(s) + 1,
           \A i \in 1 .. Len(s) : s[i].counter = i /\ s[i].due <= node.due
    PROVE  \A i \in 1 .. Len(s) + 1 : PushHeap(s, node)[i].counter = i
<1>. DEFINE Before(n) == n.due < node.due \/ (n.due = node.due /\ n.counter < node.counter)
            D == {i \in 1 .. Len(s) : Before(s[i])}
<1>1. Len(s) \in Nat /\ DOMAIN s = 1 .. Len(s) /\ \A i \in 1 .. Len(s) : s[i] \in Entries
    BY SMTT(20)
<1>2. ASSUME NEW i \in 1 .. Len(s) PROVE Before(s[i])
    <2>1. s[i] \in Entries
        BY <1>1
    <2>2. s[i].due \in Nat /\ node.due \in Nat
        BY <2>1 DEF Entries
    <2>3. s[i].due <= node.due /\ s[i].counter < node.counter
        BY <1>1, SMTT(20)
    <2>. QED BY <2>2, <2>3, SMTT(20)
<1>3. D = 1 .. Len(s)
    BY <1>2
<1>4. Cardinality(D) = Len(s)
    <2>1. PICK n \in Nat : n = Len(s)
        BY <1>1
    <2>2. Cardinality(1 .. n) = n
        BY IntervalCardinality
    <2>. HIDE DEF D
    <2>. QED BY <1>3, <2>1, <2>2
<1>5. PICK v : v = Inserted(s, Len(s), <<node>>)
    OBVIOUS
<1>6. PushHeap(s, node) = Renumbered(v)
    BY <1>1, <1>4, <1>5 DEF PushHeap, Inserted
<1>. HIDE DEF D, Before
<1>7. PICK one : one = <<node>>
    OBVIOUS
<1>8. one \in Seq(Entries) /\ Len(one) = 1 /\ one[1] = node
    BY <1>7, SingletonEntry
<1>9. PICK n \in Nat : n = Len(s)
    BY <1>1
<1>10. /\ v \in Seq(Entries) /\ Len(v) = Len(s) + Len(one)
       /\ \A i \in 1 .. Len(s) + Len(one) :
             v[i] = IF i <= n THEN s[i] ELSE IF i <= n + Len(one) THEN one[i - n] ELSE s[i - Len(one)]
    <2>1. n \in 0 .. Len(s) /\ v = Inserted(s, n, one)
        BY <1>5, <1>7, <1>9, SMTT(20)
    <2>2. one \in Seq(Entries)
        BY <1>8
    <2>. QED BY ONLY <2>1, <2>2, InsertedEntries, s \in Seq(Entries)
<1>11. ASSUME NEW i \in 1 .. Len(v) PROVE v[i].counter = i + 0
    <2>1. i \in 1 .. n + 1 /\ Len(v) = n + 1
        BY <1>8, <1>9, <1>10
    <2>2. CASE i <= n
        <3>1. v[i] = s[i] /\ i \in 1 .. Len(s)
            BY <1>8, <1>9, <1>10, <2>1, <2>2, SMTT(20)
        <3>. QED BY <3>1, SMTT(20)
    <2>3. CASE i = n + 1
        <3>1. v[i] = one[1]
            BY <1>8, <1>9, <1>10, <2>1, <2>3, SMTT(20)
        <3>. QED BY <1>8, <1>9, <2>3, <3>1, SMTT(20)
    <2>. QED BY <2>1, <2>2, <2>3, SMTT(20)
<1>12. \A i \in 1 .. Len(v) : Renumbered(v)[i].counter = i
    BY <1>10, <1>11, RenumberedInOrder
<1>. QED BY <1>6, <1>8, <1>10, <1>12

FifoBuf(x) ==
    \A i \in 1 .. Len(x.heap) : x.heap[i].counter = i /\ x.heap[i].due <= x.m_last_arrival_time

\* enqueue() keeps an ordered buffer first in first out,
LEMMA EnqueueFifo ==
    ASSUME NEW x, BufOK(x), FifoBuf(x), NEW addr \in Addrs, NEW d \in Nat \ {0},
           x.m_last_arrival_time <= d
    PROVE  FifoBuf(enqueue(x, addr, d))
<1>1. PICK s : s = x.heap
    OBVIOUS
<1>2. s \in Seq(Entries) /\ Ordered(s) /\ Len(s) \in Nat /\ x.m_last_arrival_time \in Nat
    BY <1>1, SMTT(20) DEF BufOK, HeapOK, BufferTypes
<1>3. PICK node : node = Node(addr, d, s)
    OBVIOUS
<1>4. node \in Entries /\ node.due = d /\ node.counter = Len(s) + 1 /\ node.due > 0
    BY <1>2, <1>3, SMTT(20) DEF Node, Entries
<1>5. PICK y : y = enqueue(x, addr, d)
    OBVIOUS
<1>6. x \in BufferTypes /\ Ordered(x.heap)
    BY DEF BufOK, HeapOK
<1>7. y.heap = PushHeap(s, node) /\ y.m_last_arrival_time = d
    BY <1>1, <1>3, <1>5, <1>6, EnqueueOK
<1>8. ASSUME NEW i \in 1 .. Len(s)
      PROVE  s[i].counter = i /\ s[i].due <= d /\ s[i].due \in Nat
    <2>1. s[i] \in Entries /\ s[i].counter = i /\ s[i].due <= x.m_last_arrival_time
        BY <1>1, <1>2, SMTT(20) DEF FifoBuf
    <2>2. s[i].due \in Nat
        BY <2>1 DEF Entries
    <2>. QED BY <1>2, <2>1, <2>2, SMTT(20)
<1>9. \A i \in 1 .. Len(s) + 1 : PushHeap(s, node)[i].counter = i
    BY <1>2, <1>4, <1>8, PushHeapLast
<1>10. /\ Len(PushHeap(s, node)) = Len(s) + 1
       /\ \A i \in 1 .. Len(s) + 1 : \/ PushHeap(s, node)[i].due = node.due
                                     \/ \E j \in 1 .. Len(s) : PushHeap(s, node)[i].due = s[j].due
    BY <1>2, <1>4, PushHeapOK
<1>11. \A i \in 1 .. Len(s) + 1 : PushHeap(s, node)[i].due <= d
    BY <1>4, <1>8, <1>10, SMTT(20)
<1>. QED BY <1>5, <1>7, <1>9, <1>10, <1>11 DEF FifoBuf

\* and so do pop()
LEMMA PopFifo ==
    ASSUME NEW x, BufOK(x), x.heap # << >>, FifoBuf(x)
    PROVE  FifoBuf(pop(x))
<1>1. PICK t : t = Tail(x.heap)
    OBVIOUS
<1>2. PICK n \in Nat : n = Len(x.heap)
    BY SMTT(20) DEF BufOK, BufferTypes
<1>3. t \in Seq(Entries) /\ Len(t) = n - 1 /\ \A i \in 1 .. n - 1 : t[i] = x.heap[i + 1]
    BY <1>1, <1>2, HeadTailProperties DEF BufOK, BufferTypes
<1>4. ASSUME NEW i \in 1 .. Len(t)
      PROVE  t[i].counter = i + 1 /\ t[i].due <= x.m_last_arrival_time
    <2>1. i + 1 \in 1 .. n /\ t[i] = x.heap[i + 1]
        BY <1>2, <1>3, SMTT(20)
    <2>. QED BY <1>2, <2>1 DEF FifoBuf
<1>5. \A i \in 1 .. Len(t) : Renumbered(t)[i].counter = i
    BY <1>3, <1>4, RenumberedInOrder
<1>6. Len(Renumbered(t)) = Len(t) /\ \A i \in 1 .. Len(t) : Renumbered(t)[i].due = t[i].due
    BY <1>3, RenumberedEntries
<1>7. pop(x).heap = Renumbered(t) /\ pop(x).m_last_arrival_time = x.m_last_arrival_time
    BY <1>1, PopOK
<1>. QED BY <1>4, <1>5, <1>6, <1>7 DEF FifoBuf

\* and the passing of a cycle.
LEMMA AgedFifo == ASSUME NEW x, BufOK(x), FifoBuf(x) PROVE FifoBuf(Aged(x))
<1>1. PICK g : g = Aged(x).heap
    OBVIOUS
<1>2. /\ Aged(x).m_last_arrival_time = Earlier(x.m_last_arrival_time)
      /\ Len(g) = Len(x.heap)
      /\ \A i \in 1 .. Len(x.heap) : g[i].due = Earlier(x.heap[i].due) /\ g[i].counter = x.heap[i].counter
    BY <1>1, AgedOK
<1>3. ASSUME NEW i \in 1 .. Len(x.heap)
      PROVE  g[i].counter = i /\ g[i].due <= Earlier(x.m_last_arrival_time)
    <2>1. x.heap[i] \in Entries /\ x.m_last_arrival_time \in Nat
        BY SMTT(20) DEF BufOK, BufferTypes
    <2>2. PICK d \in Nat, l \in Nat : d = x.heap[i].due /\ l = x.m_last_arrival_time
        BY <2>1 DEF Entries
    <2>3. d <= l /\ x.heap[i].counter = i
        BY <2>2 DEF FifoBuf
    <2>4. Earlier(d) <= Earlier(l)
        BY <2>3, SMTT(20) DEF Earlier
    <2>. QED BY <1>2, <2>2, <2>3, <2>4
<1>. QED BY <1>1, <1>2, <1>3 DEF FifoBuf


\* An ordered buffer whose port only takes messages (or leaves them).
Plain(r) == r \in Strict /\ Uses[r] \subseteq {"wake", "resource"}

FifoInv ==
    /\ \A r \in Ranks : Plain(r) => FifoBuf(buf[r])
    /\ \A a \in Addrs : \A r \in waiting[a] : "stall" \in Uses[r]

\* The empty buffers are first in first out.
LEMMA InitFifo == Init => FifoInv
<1>1. FifoBuf(EmptyBuffer)
    BY SMTT(20) DEF FifoBuf, EmptyBuffer
<1>. QED BY <1>1 DEF Init, FifoInv

\* Every step keeps the buffers that are set up as ordered first in first out.
LEMMA NextFifo == ASSUME MsgInv, FifoInv, [Next]_vars PROVE FifoInv'
<1>1. CASE UNCHANGED vars
    BY <1>1 DEF vars, FifoInv, Plain, Strict, Uses
<1>2. CASE Step /\ setup' = setup
    <2>1. Uses' = Uses /\ \A k \in Ranks : Plain(k)' <=> Plain(k)
        BY <1>2 DEF Plain, Strict, Uses
    <2>2. /\ \A k \in Ranks : BufOK(buf[k]) /\ (Plain(k) => FifoBuf(buf[k]))
          /\ \A a \in Addrs : \A k \in waiting[a] : "stall" \in Uses[k]
          /\ buf \in [Ranks -> BufferTypes] /\ waiting \in [Addrs -> SUBSET Ranks]
        BY DEF MsgInv, FifoInv
    <2>3. SUFFICES /\ \A k \in Ranks : Plain(k) => FifoBuf(buf'[k])
                   /\ \A a \in Addrs : \A k \in waiting'[a] : "stall" \in Uses[k]
        BY <2>1 DEF FifoInv, FifoBuf
    <2>4. CASE UNCHANGED <<buf, waiting>>
        BY <2>2, <2>4
    <2>5. ASSUME NEW r \in Ranks, NEW addr \in Addrs, NEW delta \in Deltas[r], Produce(r, addr, delta),
                 ~UNCHANGED <<buf, waiting>>
          PROVE  /\ \A k \in Ranks : Plain(k) => FifoBuf(buf'[k])
                 /\ \A a \in Addrs : \A k \in waiting'[a] : "stall" \in Uses[k]
        <3>1. PICK y : y = enqueue(buf[r], addr, delta)
            OBVIOUS
        <3>2. buf' = [buf EXCEPT ![r] = y] /\ waiting' = waiting /\ ~TooEarly(r, buf[r], delta)
            BY <2>5, <3>1 DEF Produce
        <3>3. ASSUME Plain(r) PROVE FifoBuf(y)
            <4>1. delta \in Nat \ {0} /\ buf[r].m_last_arrival_time \in Nat
                BY <2>2, UsesAssumption DEF BufferTypes
            <4>2. buf[r].m_last_arrival_time <= delta
                BY <3>2, <3>3, <4>1, SMTT(20) DEF TooEarly, Plain
            <4>. QED BY <2>2, <3>1, <3>3, <4>1, <4>2, EnqueueFifo
        <3>. QED BY <2>2, <3>2, <3>3
    <2>6. ASSUME NEW r \in Ranks, Dequeue(r)
          PROVE  /\ \A k \in Ranks : Plain(k) => FifoBuf(buf'[k])
                 /\ \A a \in Addrs : \A k \in waiting'[a] : "stall" \in Uses[k]
        <3>1. PICK y : y = pop(buf[r])
            OBVIOUS
        <3>2. PICK b : b = [buf EXCEPT ![r] = y]
            OBVIOUS
        <3>3. At(r)
            BY <2>6 DEF Dequeue
        <3>4. Plain(r) => FifoBuf(y)
            BY <2>2, <3>1, <3>3, AtPort, PopFifo
        <3>5. \A k \in Ranks : Plain(k) => FifoBuf(b[k])
            BY <2>2, <3>2, <3>4
        <3>6. PICK addr : addr = buf[r].heap[1].addr
            OBVIOUS
        <3>7. addr \in Addrs
            BY <3>3, <3>6, AtPort
        <3>8. CASE buf' = b /\ waiting' = waiting
            BY <2>2, <3>5, <3>8
        <3>9. CASE /\ buf' = wakeUpBuffers(b, r, addr)
                   /\ waiting' = [waiting EXCEPT ![addr] = {}]
            <4>1. ASSUME NEW k \in Ranks, Plain(k) PROVE buf'[k] = b[k]
                <5>1. k \notin waiting[addr]
                    BY <2>2, <3>7, <4>1 DEF Plain
                <5>. QED BY <3>9, <5>1 DEF wakeUpBuffers
            <4>2. \A a \in Addrs : waiting'[a] \subseteq waiting[a]
                BY <2>2, <3>9
            <4>. QED BY <2>2, <3>5, <4>1, <4>2
        <3>. QED BY <2>6, <3>1, <3>2, <3>6, <3>8, <3>9 DEF Dequeue
    <2>7. ASSUME NEW r \in Ranks, Recycle(r) \/ StallAndWait(r) \/ Delay(r),
                 ~UNCHANGED <<buf, waiting>>
          PROVE  /\ \A k \in Ranks : Plain(k) => FifoBuf(buf'[k])
                 /\ \A a \in Addrs : \A k \in waiting'[a] : "stall" \in Uses[k]
        <3>1. ~Plain(r)
            BY <2>7 DEF Recycle, StallAndWait, Delay, Plain
        <3>2. \A k \in Ranks \ {r} : buf'[k] = buf[k]
            BY <2>2, <2>7 DEF Recycle, StallAndWait, Delay
        <3>3. \A a \in Addrs : \A k \in waiting'[a] : k \in waiting[a] \/ (k = r /\ "stall" \in Uses[r])
            <4>1. CASE waiting' = waiting
                BY <4>1
            <4>2. CASE StallAndWait(r)
                <5>1. PICK addr : addr = buf[r].heap[1].addr
                    OBVIOUS
                <5>2. waiting' = [waiting EXCEPT ![addr] = @ \cup {r}] /\ "stall" \in Uses[r]
                    BY <4>2, <5>1 DEF StallAndWait
                <5>. QED BY <2>2, <5>2
            <4>. QED BY <2>7, <4>1, <4>2 DEF Recycle, Delay
        <3>. QED BY <2>2, <3>1, <3>2, <3>3
    <2>8. ASSUME Tick
          PROVE  /\ \A k \in Ranks : Plain(k) => FifoBuf(buf'[k])
                 /\ \A a \in Addrs : \A k \in waiting'[a] : "stall" \in Uses[k]
        <3>1. waiting' = waiting /\ \A k \in Ranks : buf'[k] = Aged(buf[k])
            BY <2>8 DEF Tick
        <3>. QED BY <2>2, <3>1, AgedFifo
    <2>9. Wakeup \/ Return \/ (\E r \in Ranks : ResourceStall(r) \/ NotReady(r)) => UNCHANGED <<buf, waiting>>
        BY DEF Wakeup, Return, ResourceStall, NotReady
    <2>. QED BY <1>2, <2>4, <2>5, <2>6, <2>7, <2>8, <2>9 DEF Step
<1>. QED BY <1>1, <1>2 DEF Next

\* Buffers that deliver in order by their setup stay first in first out: no message
\* of theirs is recycled, stalled or delayed, and arrival times never decrease.
THEOREM FifoInvariance == Spec => [](MsgInv /\ FifoInv)
<1>1. MsgInv /\ FifoInv /\ [Next]_vars => MsgInv' /\ FifoInv'
    BY NextMsg, NextFifo
<1>. QED BY InitMsg, InitFifo, <1>1, PTL DEF Spec

\* In every setup, an ordered buffer whose port only takes its messages hands
\* them out in the order in which they came.
THEOREM OrderedBuffersAreFifo == Spec => []FifoOrder
<1>1. ASSUME MsgInv, FifoInv PROVE FifoOrder
    <2>1. setup \in [uses : [Ranks -> SUBSET UseKinds], strict : SUBSET Ranks,
                     m_max_size : Nat \cup {-1}, messages : Nat \ {0}]
        BY <1>1, UsesAssumption DEF MsgInv
    <2>2. Strict \subseteq Ranks
        BY <2>1 DEF Strict
    <2>3. ASSUME NEW r \in Strict, Uses[r] \subseteq {"wake", "resource"}, NEW i \in DOMAIN buf[r].heap
          PROVE  buf[r].heap[i].counter = i
        <3>1. r \in Ranks /\ FifoBuf(buf[r]) /\ BufOK(buf[r])
            BY <1>1, <2>2, <2>3 DEF FifoInv, Plain, MsgInv
        <3>2. DOMAIN buf[r].heap = 1 .. Len(buf[r].heap)
            BY <3>1, SMTT(20) DEF BufOK, BufferTypes
        <3>. QED BY <3>1, <3>2 DEF FifoBuf
    <2>. QED BY <2>3 DEF FifoOrder
<1>. QED BY <1>1, FifoInvariance, PTL


-----------------------------------------------------------------------------
(***************************************************************************)
(* Stalled messages.  wakeUpBuffers looks only at the ports of lower rank  *)
(* and then forgets every port that waits for the address, so what it      *)
(* promises needs that messages stall only on ports below those that wake. *)
(***************************************************************************)
WakersAbove ==
    \A u \in Setups : \A r, k \in Ranks : "wake" \in u.uses[r] /\ "stall" \in u.uses[k] => k < r

\* Every step keeps a way to wake up the stalled messages.
LEMMA NextStalled ==
    ASSUME WakersAbove, MsgInv, FifoInv, StalledCanWake, [Next]_vars
    PROVE  StalledCanWake'
<1>1. CASE UNCHANGED vars
    BY <1>1 DEF vars, StalledCanWake
<1>2. CASE Step /\ setup' = setup
    <2>1. /\ \A k \in Ranks : BufOK(buf[k]) /\ buf[k].stalled \in [Addrs -> Nat]
          /\ buf \in [Ranks -> BufferTypes] /\ waiting \in [Addrs -> SUBSET Ranks]
          /\ \A a \in Addrs : \A k \in waiting[a] : "stall" \in Uses[k]
          /\ \A a \in Addrs, r \in Ranks : buf[r].stalled[a] > 0 <=> r \in waiting[a]
          /\ aborted # "assert"
        BY DEF MsgInv, FifoInv, BufOK, BufferTypes, StalledCanWake
    <2>2. ASSUME aborted' # "assert", waiting' = waiting,
                 \A k \in Ranks : buf'[k].stalled = buf[k].stalled
          PROVE  StalledCanWake'
        BY <2>1, <2>2 DEF StalledCanWake
    <2>3. ASSUME NEW r \in Ranks, NEW addr \in Addrs, NEW delta \in Deltas[r], Produce(r, addr, delta)
          PROVE  StalledCanWake'
        <3>1. waiting' = waiting /\ aborted' # "assert"
            BY <2>1, <2>3 DEF Produce
        <3>2. PICK y : y = enqueue(buf[r], addr, delta)
            OBVIOUS
        <3>3. buf' = buf \/ buf' = [buf EXCEPT ![r] = y]
            BY <2>3, <3>2 DEF Produce
        <3>4. y.stalled = buf[r].stalled
            <4>1. buf[r] \in BufferTypes /\ Ordered(buf[r].heap) /\ delta \in Nat \ {0}
                BY <2>1, UsesAssumption DEF BufOK, HeapOK
            <4>. QED BY <3>2, <4>1, EnqueueOK
        <3>5. \A k \in Ranks : buf'[k].stalled = buf[k].stalled
            BY <2>1, <3>3, <3>4
        <3>. QED BY <2>2, <3>1, <3>5
    <2>4. ASSUME NEW r \in Ranks, Dequeue(r) PROVE StalledCanWake'
        <3>1. At(r) /\ aborted = "no"
            BY <2>4 DEF Dequeue, At
        <3>2. PICK b : b = [buf EXCEPT ![r] = pop(@)]
            OBVIOUS
        <3>3. \A k \in Ranks : BufOK(b[k]) /\ b[k].stalled = buf[k].stalled
            BY <3>1, <3>2, PopInv
        <3>4. PICK addr : addr = buf[r].heap[1].addr
            OBVIOUS
        <3>5. addr \in Addrs
            BY <3>1, <3>4, AtPort
        <3>6. CASE buf' = b /\ waiting' = waiting /\ aborted' = aborted
            BY <2>1, <2>2, <3>3, <3>6
        <3>7. CASE /\ "wake" \in Uses[r]
                   /\ aborted' = IF \E k \in {j \in waiting[addr] : j < r} : buf[k].stalled[addr] = 0
                                 THEN "assert" ELSE "no"
                   /\ buf' = wakeUpBuffers(b, r, addr)
                   /\ waiting' = [waiting EXCEPT ![addr] = {}]
            <4>1. \A k \in waiting[addr] : k \in Ranks /\ k < r
                BY <2>1, <3>5, <3>7 DEF WakersAbove, MsgInv, Uses
            <4>2. \A k \in waiting[addr] : buf[k].stalled[addr] # 0
                BY <2>1, <3>5, <4>1, SMTT(20)
            <4>3. aborted' = "no"
                BY <3>7, <4>2
            <4>4. ASSUME NEW k \in Ranks, NEW a \in Addrs
                  PROVE  buf'[k].stalled[a] > 0 <=> k \in waiting'[a]
                <5>1. CASE k \in waiting[addr]
                    <6>1. PICK y : y = reanalyzeMessages(b[k], addr)
                        OBVIOUS
                    <6>2. buf'[k] = y
                        BY <3>7, <4>1, <5>1, <6>1 DEF wakeUpBuffers
                    <6>3. y.stalled = [b[k].stalled EXCEPT ![addr] = 0]
                        BY <3>3, <3>5, <6>1, ReanalyzeOK
                    <6>4. y.stalled = [buf[k].stalled EXCEPT ![addr] = 0]
                        BY <3>3, <6>3
                    <6>5. CASE a = addr
                        BY <2>1, <3>5, <3>7, <6>2, <6>4, <6>5, SMTT(20)
                    <6>6. CASE a # addr
                        BY <2>1, <3>5, <3>7, <6>2, <6>4, <6>6
                    <6>. QED BY <6>5, <6>6
                <5>2. CASE k \notin waiting[addr]
                    <6>1. buf'[k].stalled = buf[k].stalled
                        BY <3>3, <3>7, <5>2 DEF wakeUpBuffers
                    <6>2. k \in waiting'[a] <=> k \in waiting[a]
                        BY <2>1, <3>5, <3>7, <5>2
                    <6>. QED BY <2>1, <6>1, <6>2
                <5>. QED BY <5>1, <5>2
            <4>. QED BY <4>3, <4>4 DEF StalledCanWake
        <3>. QED BY <2>4, <3>2, <3>4, <3>6, <3>7 DEF Dequeue
    <2>5. ASSUME NEW r \in Ranks, StallAndWait(r) PROVE StalledCanWake'
        <3>1. At(r)
            BY <2>5 DEF StallAndWait
        <3>2. PICK y : y = stallMessage(buf[r])
            OBVIOUS
        <3>3. PICK addr : addr = buf[r].heap[1].addr
            OBVIOUS
        <3>4. /\ buf' = [buf EXCEPT ![r] = y] /\ waiting' = [waiting EXCEPT ![addr] = @ \cup {r}]
              /\ aborted' # "assert"
            BY <2>1, <2>5, <3>2, <3>3 DEF StallAndWait
        <3>5. addr \in Addrs /\ y.stalled = [buf[r].stalled EXCEPT ![addr] = @ + 1]
            BY <3>1, <3>2, <3>3, AtPort, StallOK
        <3>6. ASSUME NEW k \in Ranks, NEW a \in Addrs
              PROVE  buf'[k].stalled[a] > 0 <=> k \in waiting'[a]
            <4>1. CASE k = r /\ a = addr
                <5>1. buf'[k] = y /\ k \in waiting'[a] /\ buf[r].stalled[addr] \in Nat
                    BY <2>1, <3>4, <3>5, <4>1
                <5>2. y.stalled[a] = buf[r].stalled[addr] + 1
                    BY <2>1, <3>5, <4>1
                <5>. QED BY <5>1, <5>2, SMTT(20)
            <4>2. CASE ~(k = r /\ a = addr)
                <5>1. buf'[k].stalled[a] = buf[k].stalled[a]
                    BY <2>1, <3>4, <3>5, <4>2
                <5>2. k \in waiting'[a] <=> k \in waiting[a]
                    BY <2>1, <3>4, <3>5, <4>2
                <5>. QED BY <2>1, <5>1, <5>2
            <4>. QED BY <4>1, <4>2
        <3>. QED BY <3>4, <3>6 DEF StalledCanWake
    <2>6. ASSUME NEW r \in Ranks, Recycle(r) \/ Delay(r) PROVE StalledCanWake'
        <3>1. At(r) /\ waiting' = waiting /\ aborted' # "assert"
            BY <2>1, <2>6 DEF Recycle, Delay
        <3>2. PICK y : y = recycle(buf[r])
            OBVIOUS
        <3>3. PICK z : z = delayHead(buf[r])
            OBVIOUS
        <3>4. buf' = buf \/ buf' = [buf EXCEPT ![r] = y] \/ buf' = [buf EXCEPT ![r] = z]
            BY <2>6, <3>2, <3>3 DEF Recycle, Delay
        <3>5. y.stalled = buf[r].stalled /\ z.stalled = buf[r].stalled
            BY <3>1, <3>2, <3>3, AtPort, RecycleOK, DelayOK
        <3>6. \A k \in Ranks : buf'[k].stalled = buf[k].stalled
            BY <2>1, <3>4, <3>5
        <3>. QED BY <2>2, <3>1, <3>6
    <2>7. ASSUME Tick PROVE StalledCanWake'
        <3>1. waiting' = waiting /\ aborted' = aborted /\ \A k \in Ranks : buf'[k] = Aged(buf[k])
            BY <2>7 DEF Tick
        <3>2. \A k \in Ranks : buf'[k].stalled = buf[k].stalled
            BY <2>1, <3>1, AgedOK
        <3>. QED BY <2>1, <2>2, <3>1, <3>2
    <2>8. ASSUME Wakeup \/ Return \/ \E r \in Ranks : ResourceStall(r) \/ NotReady(r)
          PROVE  StalledCanWake'
        BY <2>1, <2>2, <2>8, SMTT(20) DEF Wakeup, Return, ResourceStall, NotReady
    <2>. QED BY <1>2, <2>3, <2>4, <2>5, <2>6, <2>7, <2>8 DEF Step
<1>. QED BY <1>1, <1>2 DEF Next

\* A stalled message is never forgotten, and reanalyzeMessages never asserts, when
\* the ports that wake others are above those that stall: the order of rank in
\* which the protocols declare their in_ports.
THEOREM StalledNotForgotten ==
    ASSUME WakersAbove PROVE Spec => []StalledCanWake
<1>1. Init => StalledCanWake
    <2>1. EmptyBuffer.stalled = [a \in Addrs |-> 0]
        BY DEF EmptyBuffer
    <2>. QED BY <2>1, SMTT(20) DEF Init, StalledCanWake
<1>2. MsgInv /\ FifoInv /\ StalledCanWake /\ [Next]_vars => StalledCanWake'
    BY NextStalled
<1>. QED BY <1>1, <1>2, FifoInvariance, PTL DEF Spec
=============================================================================
