------------------------- MODULE StaticDequeProofs -------------------------
(***************************************************************************)
(* StaticDeque implements a bounded sequence, for every length and every   *)
(* set of elements.                                                        *)
(***************************************************************************)
EXTENDS StaticDeque, SequenceTheorems, TLAPS

\* RingOK holds of a deque just constructed.
LEMMA RingInit == Init => RingOK
BY LengthAssumption DEF Init, RingOK, Slots

\* Every call keeps first, last and elems coherent.
LEMMA RingNext == RingOK /\ [Next]_vars => RingOK'
<1>. SUFFICES ASSUME RingOK, [Next]_vars PROVE RingOK'
    OBVIOUS
<1>. USE LengthAssumption DEF RingOK, Slots, Throw, ring, WRAP_INCR, WRAP_DECR
<1>1. ASSUME NEW x \in Elems, push_front(x), elems < length PROVE RingOK'
    <2>1. data' \in [Slots -> Elems]
        BY <1>1 DEF push_front
    <2>2. first' = WRAP_INCR(first) /\ elems' = elems + 1 /\ last' = last
        BY <1>1 DEF push_front
    <2>. QED BY <1>1, <2>1, <2>2
<1>2. ASSUME NEW x \in Elems, push_back(x), elems < length PROVE RingOK'
    <2>1. last' = WRAP_DECR(last) /\ elems' = elems + 1 /\ first' = first
        BY <1>2 DEF push_back
    <2>2. data' \in [Slots -> Elems]
        BY <1>2 DEF push_back
    <2>. QED BY <1>2, <2>1, <2>2
<1>3. CASE pop_front
    BY <1>3 DEF pop_front
<1>4. CASE pop_back
    BY <1>4 DEF pop_back
<1>5. CASE clear
    BY <1>5 DEF clear
<1>6. ASSUME UNCHANGED ring PROVE RingOK'
    BY <1>6
<1>7. ASSUME NEW x \in Elems, contains(x) PROVE RingOK'
    BY <1>6, <1>7 DEF contains
<1>8. ASSUME NEW index \in -1 .. length, at(index) PROVE RingOK'
    BY <1>6, <1>8 DEF at
<1>9. CASE front \/ back \/ size \/ empty \/ full
    BY <1>6, <1>9 DEF front, back, size, empty, full
<1>10. CASE UNCHANGED vars
    BY <1>6, <1>10 DEF vars
<1>11. ASSUME NEW x \in Elems, push_front(x) \/ push_back(x), ~(elems < length) PROVE RingOK'
    BY <1>6, <1>11 DEF push_front, push_back
<1>. QED BY <1>1, <1>2, <1>11, <1>3, <1>4, <1>5, <1>7, <1>8, <1>9, <1>10 DEF Next

(***************************************************************************)
(* Facts about any ring, to be used of the ring before and after a call.   *)
(***************************************************************************)
IsRing(d, e, f, l) ==
    /\ d \in [Slots -> Elems]
    /\ e \in 0 .. length
    /\ f \in Slots /\ l \in Slots
    /\ f = IF l + e < length THEN l + e ELSE l + e - length

\* Append, under a name that the provers do not rewrite.
Snoc(s, x) == Append(s, x)

ContentsOf(d, e, f) == [i \in 1 .. e |-> d[WRAP_RACC(f, i - 1)]]

\* operator[]: the elements of a ring form a sequence, the front one in the slot
\* before first and the back one in slot last.
LEMMA SlotFacts ==
    ASSUME NEW d, NEW e, NEW f, NEW l, IsRing(d, e, f, l)
    PROVE  /\ e \in Nat /\ e <= length
           /\ ContentsOf(d, e, f) \in Seq(Elems) /\ Len(ContentsOf(d, e, f)) = e
           /\ \A i \in 1 .. e : ContentsOf(d, e, f)[i] = d[WRAP_RACC(f, i - 1)]
           /\ e > 0 => /\ ContentsOf(d, e, f)[1] = d[WRAP_DECR(f)]
                       /\ ContentsOf(d, e, f)[e] = d[l]
<1>. DEFINE c == ContentsOf(d, e, f)
<1>1. \A i \in 1 .. e : WRAP_RACC(f, i - 1) \in Slots
    BY LengthAssumption DEF IsRing, Slots, WRAP_RACC
<1>2. e \in Nat /\ e <= length
    BY LengthAssumption DEF IsRing
<1>3. \A i \in 1 .. e : c[i] = d[WRAP_RACC(f, i - 1)]
    BY DEF ContentsOf
<1>4. \A i \in 1 .. e : c[i] \in Elems
    BY <1>1, <1>3, Zenon DEF IsRing
<1>5. c \in [1 .. e -> Elems]
    BY <1>4 DEF ContentsOf
<1>6. c \in Seq(Elems) /\ Len(c) = e
    <2>. HIDE DEF c
    <2>. QED BY <1>2, <1>5
<1>7. e > 0 => WRAP_RACC(f, 1 - 1) = WRAP_DECR(f) /\ WRAP_RACC(f, e - 1) = l
    BY LengthAssumption DEF IsRing, Slots, WRAP_RACC, WRAP_DECR
<1>8. e > 0 => 1 \in 1 .. e /\ e \in 1 .. e
    BY <1>2
<1>. QED BY <1>2, <1>3, <1>6, <1>7, <1>8

\* push_front puts the element before the others, in a slot none of them uses.
LEMMA PushFront ==
    ASSUME NEW d, NEW e, NEW f, NEW l, IsRing(d, e, f, l), e < length, NEW x \in Elems
    PROVE  ContentsOf([d EXCEPT ![f] = x], e + 1, WRAP_INCR(f)) = <<x>> \o ContentsOf(d, e, f)
<1>. DEFINE d2 == [d EXCEPT ![f] = x]
            f2 == WRAP_INCR(f)
            s == <<x>> \o ContentsOf(d, e, f)
            t == ContentsOf(d2, e + 1, f2)
<1>1. IsRing(d2, e + 1, f2, l)
    BY LengthAssumption DEF IsRing, Slots, WRAP_INCR
<1>2. e \in Nat /\ f \in Slots /\ d \in [Slots -> Elems]
    BY SlotFacts DEF IsRing
<1>3. t \in Seq(Elems) /\ Len(t) = e + 1
      /\ \A i \in 1 .. e + 1 : t[i] = d2[WRAP_RACC(f2, i - 1)]
    <2>. DEFINE e2 == e + 1
    <2>. HIDE DEF d2, f2, e2
    <2>1. IsRing(d2, e2, f2, l)
        BY <1>1 DEF e2
    <2>2. ContentsOf(d2, e2, f2) \in Seq(Elems) /\ Len(ContentsOf(d2, e2, f2)) = e2
          /\ \A i \in 1 .. e2 : ContentsOf(d2, e2, f2)[i] = d2[WRAP_RACC(f2, i - 1)]
        BY <2>1, SlotFacts
    <2>. QED BY <2>2 DEF e2
<1>4. s \in Seq(Elems) /\ Len(s) = e + 1
      /\ \A i \in 1 .. e + 1 : s[i] = IF i = 1 THEN x ELSE ContentsOf(d, e, f)[i - 1]
    <2>. DEFINE c == ContentsOf(d, e, f)
    <2>1. c \in Seq(Elems) /\ Len(c) = e
        BY SlotFacts
    <2>2. <<x>> \in Seq(Elems) /\ Len(<<x>>) = 1 /\ <<x>>[1] = x
        OBVIOUS
    <2>3. /\ s \in Seq(Elems) /\ Len(s) = 1 + Len(c)
          /\ \A i \in 1 .. 1 + Len(c) : s[i] = IF i <= 1 THEN <<x>>[i] ELSE c[i - 1]
        BY <2>1, <2>2, ConcatProperties
    <2>. HIDE DEF c, s
    <2>. QED BY <1>2, <2>1, <2>2, <2>3 DEF c
<1>5. ASSUME NEW i \in 1 .. e + 1 PROVE t[i] = s[i]
    <2>1. CASE i = 1
        <3>1. WRAP_RACC(f2, i - 1) = f
            BY <1>2, <2>1, LengthAssumption DEF Slots, WRAP_RACC, WRAP_INCR
        <3>. QED BY <1>2, <1>3, <1>4, <2>1, <3>1, Zenon
    <2>2. CASE i # 1
        <3>1. i - 1 \in 1 .. e
            BY <1>2, <2>2
        <3>2. ContentsOf(d, e, f)[i - 1] = d[WRAP_RACC(f, (i - 1) - 1)]
            BY <3>1, SlotFacts
        <3>3. /\ WRAP_RACC(f2, i - 1) = WRAP_RACC(f, (i - 1) - 1)
              /\ WRAP_RACC(f2, i - 1) # f
              /\ WRAP_RACC(f2, i - 1) \in Slots
            BY <1>2, <3>1, LengthAssumption DEF Slots, WRAP_RACC, WRAP_INCR
        <3>. QED BY <1>2, <1>3, <1>4, <2>2, <3>2, <3>3, Zenon
    <2>. QED BY <2>1, <2>2, Zenon
<1>. HIDE DEF s, t
<1>6. t = s
    BY <1>3, <1>4, <1>5, SeqEqual
<1>. QED BY <1>6, Zenon DEF s, t

\* push_back puts the element after the others, in a slot none of them uses.
LEMMA PushBack ==
    ASSUME NEW d, NEW e, NEW f, NEW l, IsRing(d, e, f, l), e < length, NEW x \in Elems
    PROVE  ContentsOf([d EXCEPT ![WRAP_DECR(l)] = x], e + 1, f) = Snoc(ContentsOf(d, e, f), x)
<1>. DEFINE l2 == WRAP_DECR(l)
            d2 == [d EXCEPT ![l2] = x]
            e2 == e + 1
            c == ContentsOf(d, e, f)
            t == ContentsOf(d2, e2, f)
<1>1. IsRing(d2, e2, f, l2)
    BY LengthAssumption DEF IsRing, Slots, WRAP_DECR
<1>2. e \in Nat /\ f \in Slots /\ l2 \in Slots /\ d \in [Slots -> Elems]
    BY LengthAssumption DEF IsRing, Slots, WRAP_DECR
<1>3. c \in Seq(Elems) /\ Len(c) = e
      /\ \A i \in 1 .. e : c[i] = d[WRAP_RACC(f, i - 1)]
    BY SlotFacts
<1>4. t \in Seq(Elems) /\ Len(t) = e2 /\ \A i \in 1 .. e2 : t[i] = d2[WRAP_RACC(f, i - 1)]
    <2>. HIDE DEF d2, e2, l2
    <2>. QED BY <1>1, SlotFacts
<1>5. /\ WRAP_RACC(f, e2 - 1) = l2
      /\ \A i \in 1 .. e : WRAP_RACC(f, i - 1) # l2 /\ WRAP_RACC(f, i - 1) \in Slots
    BY LengthAssumption DEF IsRing, Slots, WRAP_RACC, WRAP_DECR
<1>. HIDE DEF c, t
<1>6. t[e2] = x /\ \A i \in 1 .. e : t[i] = c[i]
    BY <1>2, <1>3, <1>4, <1>5
<1>7. t = Append(c, x)
    <2>1. /\ Append(c, x) \in Seq(Elems) /\ Len(Append(c, x)) = e2
          /\ \A i \in 1 .. e2 : Append(c, x)[i] = IF i = e2 THEN x ELSE c[i]
        BY <1>2, <1>3
    <2>2. \A i \in 1 .. e2 : i # e2 => i \in 1 .. e
        BY <1>2
    <2>. HIDE DEF e2
    <2>. QED BY <1>4, <1>6, <2>1, <2>2, SeqEqual
<1>. QED BY <1>7, Zenon DEF c, t, l2, Snoc

\* pop_front removes the first element.
LEMMA PopFront ==
    ASSUME NEW d, NEW e, NEW f, NEW l, IsRing(d, e, f, l), e > 0
    PROVE  ContentsOf(d, e - 1, WRAP_DECR(f)) = Tail(ContentsOf(d, e, f))
<1>. DEFINE f2 == WRAP_DECR(f)
            e2 == e - 1
            c == ContentsOf(d, e, f)
            t == ContentsOf(d, e2, f2)
<1>1. IsRing(d, e2, f2, l)
    BY LengthAssumption DEF IsRing, Slots, WRAP_DECR
<1>2. c \in Seq(Elems) /\ Len(c) = e /\ e \in Nat
      /\ \A i \in 1 .. e : c[i] = d[WRAP_RACC(f, i - 1)]
    BY SlotFacts
<1>3. t \in Seq(Elems) /\ Len(t) = e2 /\ \A i \in 1 .. e2 : t[i] = d[WRAP_RACC(f2, i - 1)]
    <2>. HIDE DEF e2, f2
    <2>. QED BY <1>1, SlotFacts
<1>4. \A i \in 1 .. e2 : i + 1 \in 1 .. e /\ WRAP_RACC(f2, i - 1) = WRAP_RACC(f, (i + 1) - 1)
    BY LengthAssumption DEF IsRing, Slots, WRAP_RACC, WRAP_DECR
<1>. HIDE DEF f2, c, t
<1>5. Tail(c) \in Seq(Elems) /\ Len(Tail(c)) = e2 /\ \A i \in 1 .. e2 : Tail(c)[i] = c[i + 1]
    BY <1>2
<1>. HIDE DEF e2
<1>6. \A i \in 1 .. e2 : t[i] = Tail(c)[i]
    BY <1>2, <1>3, <1>4, <1>5, Zenon
<1>7. t = Tail(c)
    BY <1>3, <1>5, <1>6, SeqEqual
<1>. QED BY <1>7 DEF c, t, f2, e2

\* pop_back removes the last element.
LEMMA PopBack ==
    ASSUME NEW d, NEW e, NEW f, NEW l, IsRing(d, e, f, l), e > 0
    PROVE  ContentsOf(d, e - 1, f) = SubSeq(ContentsOf(d, e, f), 1, e - 1)
<1>. DEFINE l2 == WRAP_INCR(l)
            e2 == e - 1
            c == ContentsOf(d, e, f)
            t == ContentsOf(d, e2, f)
<1>1. IsRing(d, e2, f, l2)
    BY LengthAssumption DEF IsRing, Slots, WRAP_INCR
<1>2. c \in Seq(Elems) /\ Len(c) = e /\ e \in Nat
      /\ \A i \in 1 .. e : c[i] = d[WRAP_RACC(f, i - 1)]
    BY SlotFacts
<1>3. t \in Seq(Elems) /\ Len(t) = e2 /\ \A i \in 1 .. e2 : t[i] = d[WRAP_RACC(f, i - 1)]
    <2>. HIDE DEF e2, l2
    <2>. QED BY <1>1, SlotFacts
<1>. HIDE DEF c, t
<1>4. \A i \in 1 .. e2 : i \in 1 .. e
    BY <1>2
<1>5. /\ SubSeq(c, 1, e2) \in Seq(Elems) /\ Len(SubSeq(c, 1, e2)) = e2
      /\ \A i \in 1 .. e2 : SubSeq(c, 1, e2)[i] = c[i]
    BY <1>2
<1>. HIDE DEF e2
<1>6. \A i \in 1 .. e2 : t[i] = SubSeq(c, 1, e2)[i]
    BY <1>2, <1>3, <1>4, <1>5
<1>7. t = SubSeq(c, 1, e2)
    BY <1>3, <1>5, <1>6, SeqEqual
<1>. QED BY <1>7 DEF c, t, e2

\* contains visits the slots of exactly the elements, unless the ring is full.
LEMMA VisitedSlots ==
    ASSUME RingOK
    PROVE  /\ elems < length => Visited = {WRAP_RACC(first, i - 1) : i \in 1 .. elems}
           /\ elems = length => Visited = {}
<1>. USE LengthAssumption DEF RingOK, Slots, Visited, WRAP_RACC
<1>1. ASSUME elems < length, NEW j \in Visited
      PROVE  \E i \in 1 .. elems : j = WRAP_RACC(first, i - 1)
    <2>. DEFINE i == IF j < first THEN first - j ELSE first - j + length
    <2>1. i \in 1 .. elems /\ j = WRAP_RACC(first, i - 1)
        BY <1>1
    <2>. QED BY <2>1
<1>2. ASSUME elems < length, NEW i \in 1 .. elems
      PROVE  WRAP_RACC(first, i - 1) \in Visited
    BY <1>2
<1>3. elems = length => Visited = {}
    OBVIOUS
<1>. HIDE DEF Visited, WRAP_RACC
<1>. QED BY <1>1, <1>2, <1>3

(***************************************************************************)
(* The refinement                                                          *)
(***************************************************************************)
\* What the abstract deque sees of a ring: its size, and both its ends.
LEMMA View ==
    ASSUME RingOK
    PROVE  /\ IsRing(data, elems, first, last)
           /\ Contents = ContentsOf(data, elems, first)
           /\ elems \in Nat /\ elems <= length
           /\ Contents \in Seq(Elems) /\ Len(Contents) = elems
           /\ Contents = << >> <=> elems <= 0
           /\ \A i \in 1 .. elems : Contents[i] = data[WRAP_RACC(first, i - 1)]
           /\ elems > 0 => /\ Contents[1] = data[WRAP_DECR(first)]
                           /\ Contents[elems] = data[last]
<1>1. IsRing(data, elems, first, last) /\ Contents = ContentsOf(data, elems, first)
    BY DEF RingOK, IsRing, Contents, ContentsOf
<1>2. /\ elems \in Nat /\ elems <= length
      /\ Contents \in Seq(Elems) /\ Len(Contents) = elems
      /\ \A i \in 1 .. elems : Contents[i] = data[WRAP_RACC(first, i - 1)]
      /\ elems > 0 => Contents[1] = data[WRAP_DECR(first)] /\ Contents[elems] = data[last]
    BY <1>1, SlotFacts
<1>3. Contents = << >> <=> elems <= 0
    BY <1>2
<1>. QED BY <1>1, <1>2, <1>3

\* A call that leaves the ring alone leaves the abstract deque alone.
LEMMA Unmoved == UNCHANGED ring => UNCHANGED Contents
BY DEF ring, Contents

\* The four calls that move the ends do to the sequence what their names say.
LEMMA MovingCalls ==
    ASSUME RingOK
    PROVE  /\ \A x \in Elems : push_front(x) => Deque!push_front(x)
           /\ \A x \in Elems : push_back(x) => Deque!push_back(x)
           /\ pop_front => Deque!pop_front
           /\ pop_back => Deque!pop_back
           /\ clear => Deque!clear
<1>. USE DEF Void, Returns, Throw, Deque!Void, Deque!Returns, Deque!Throw
<1>0. Contents' = ContentsOf(data', elems', first')
    BY DEF Contents, ContentsOf
<1>1. ASSUME NEW x \in Elems, push_front(x) PROVE Deque!push_front(x)
    <2>1. CASE elems < length
        <3>1. /\ data' = [data EXCEPT ![first] = x] /\ first' = WRAP_INCR(first)
              /\ elems' = elems + 1 /\ result' = <<"void">>
            BY <1>1, <2>1, View, LengthAssumption DEF push_front
        <3>2. Contents' = <<x>> \o Contents
            <4>1. IsRing(data, elems, first, last) /\ Contents = ContentsOf(data, elems, first)
                BY View
            <4>2. ContentsOf([data EXCEPT ![first] = x], elems + 1, WRAP_INCR(first))
                      = <<x>> \o ContentsOf(data, elems, first)
                BY <2>1, <4>1, PushFront, Zenon
            <4>. QED BY <1>0, <3>1, <4>1, <4>2, Zenon
        <3>. QED BY <2>1, <3>1, <3>2, View DEF Deque!push_front
    <2>2. CASE ~(elems < length)
        BY <1>1, <2>2, View, Unmoved, LengthAssumption DEF push_front, Deque!push_front
    <2>. QED BY <2>1, <2>2
<1>2. ASSUME NEW x \in Elems, push_back(x) PROVE Deque!push_back(x)
    <2>1. CASE elems < length
        <3>1. /\ data' = [data EXCEPT ![WRAP_DECR(last)] = x] /\ first' = first
              /\ elems' = elems + 1 /\ result' = <<"void">>
            BY <1>2, <2>1, View, LengthAssumption DEF push_back
        <3>2. Contents' = Append(Contents, x)
            <4>1. IsRing(data, elems, first, last) /\ Contents = ContentsOf(data, elems, first)
                BY View
            <4>2. ContentsOf([data EXCEPT ![WRAP_DECR(last)] = x], elems + 1, first)
                      = Snoc(ContentsOf(data, elems, first), x)
                BY <2>1, <4>1, PushBack
            <4>. QED BY <1>0, <3>1, <4>1, <4>2, Zenon DEF Snoc
        <3>. QED BY <2>1, <3>1, <3>2, View DEF Deque!push_back
    <2>2. CASE ~(elems < length)
        BY <1>2, <2>2, View, Unmoved, LengthAssumption DEF push_back, Deque!push_back
    <2>. QED BY <2>1, <2>2
<1>3. ASSUME pop_front PROVE Deque!pop_front
    <2>1. CASE elems > 0
        <3>1. /\ data' = data /\ first' = WRAP_DECR(first)
              /\ elems' = elems - 1 /\ result' = <<"returns", data[WRAP_DECR(first)]>>
            BY <1>3, <2>1, View DEF pop_front
        <3>2. Contents' = Tail(Contents)
            BY <1>0, <2>1, <3>1, View, PopFront
        <3>. QED BY <2>1, <3>1, <3>2, View DEF Deque!pop_front
    <2>2. CASE ~(elems > 0)
        BY <1>3, <2>2, View, Unmoved DEF pop_front, Deque!pop_front
    <2>. QED BY <2>1, <2>2
<1>4. ASSUME pop_back PROVE Deque!pop_back
    <2>1. CASE elems > 0
        <3>1. /\ data' = data /\ first' = first
              /\ elems' = elems - 1 /\ result' = <<"returns", data[last]>>
            BY <1>4, <2>1, View DEF pop_back
        <3>2. Contents' = SubSeq(Contents, 1, elems - 1)
            BY <1>0, <2>1, <3>1, View, PopBack
        <3>. QED BY <2>1, <3>1, <3>2, View DEF Deque!pop_back
    <2>2. CASE ~(elems > 0)
        BY <1>4, <2>2, View, Unmoved DEF pop_back, Deque!pop_back
    <2>. QED BY <2>1, <2>2
<1>5. ASSUME clear PROVE Deque!clear
    <2>1. Contents' = << >>
        BY <1>5 DEF clear, Contents
    <2>. QED BY <1>5, <2>1 DEF clear, Deque!clear
<1>. QED BY <1>1, <1>2, <1>3, <1>4, <1>5

\* The calls that only look return what the sequence holds.
LEMMA LookingCalls ==
    ASSUME RingOK
    PROVE  /\ \A x \in Elems : contains(x) => Deque!contains(x)
           /\ \A index \in -1 .. length : at(index) => Deque!at(index)
           /\ front => Deque!front
           /\ back => Deque!back
           /\ size => Deque!size
           /\ empty => Deque!empty
           /\ full => Deque!full
<1>. USE DEF Returns, Throw, Deque!Returns, Deque!Throw
<1>1. ASSUME NEW x \in Elems, contains(x) PROVE Deque!contains(x)
    <2>1. (\E i \in Visited : data[i] = x)
              = (Len(Contents) < length /\ \E i \in 1 .. Len(Contents) : Contents[i] = x)
        <3>1. CASE elems < length
            <4>1. Visited = {WRAP_RACC(first, i - 1) : i \in 1 .. elems}
                BY <3>1, VisitedSlots
            <4>2. (\E i \in Visited : data[i] = x) <=> \E i \in 1 .. elems : Contents[i] = x
                BY <4>1, View
            <4>. QED BY <3>1, <4>2, View, Zenon
        <3>2. CASE elems = length
            BY <3>2, View, VisitedSlots, LengthAssumption, Zenon
        <3>3. elems < length \/ elems = length
            BY View, LengthAssumption
        <3>. QED BY <3>1, <3>2, <3>3, Zenon
    <2>. QED BY <1>1, <2>1, Unmoved, Zenon DEF contains, Deque!contains
<1>2. ASSUME NEW index \in -1 .. length, at(index) PROVE Deque!at(index)
    <2>1. CASE index >= 0 /\ index < elems
        <3>1. index + 1 \in 1 .. elems /\ (index + 1) - 1 = index
            BY <2>1, View, LengthAssumption
        <3>2. Contents[index + 1] = data[WRAP_RACC(first, index)]
            BY <3>1, View
        <3>. QED BY <1>2, <2>1, <3>2, View, Unmoved DEF at, Deque!at
    <2>2. CASE ~(index >= 0 /\ index < elems)
        BY <1>2, <2>2, View, Unmoved DEF at, Deque!at
    <2>. QED BY <2>1, <2>2
<1>3. ASSUME front PROVE Deque!front
    BY <1>3, View, Unmoved DEF front, Deque!front
<1>4. ASSUME back PROVE Deque!back
    BY <1>4, View, Unmoved DEF back, Deque!back
<1>5. ASSUME size PROVE Deque!size
    BY <1>5, View, Unmoved DEF size, Deque!size
<1>6. ASSUME empty PROVE Deque!empty
    <2>1. (elems = 0) = (Contents = << >>)
        BY View
    <2>. QED BY <1>6, <2>1, Unmoved DEF empty, Deque!empty
<1>7. ASSUME full PROVE Deque!full
    BY <1>7, View, Unmoved DEF full, Deque!full
<1>. QED BY <1>1, <1>2, <1>3, <1>4, <1>5, <1>6, <1>7

\* The ring's indices stay coherent, whatever is pushed and popped at both ends.
THEOREM RingCorrect == Spec => []RingOK
BY RingInit, RingNext, PTL DEF Spec

\* StaticDeque implements the bounded sequence: every call has the effect and
\* the result it has there.
THEOREM DequeCorrect == Spec => Implements
<1>1. Init => Deque!Init
    BY DEF Init, Deque!Init, Contents
<1>2. RingOK /\ [Next]_vars => [Deque!Next]_<<Contents, result>>
    <2>. SUFFICES ASSUME RingOK, [Next]_vars PROVE [Deque!Next]_<<Contents, result>>
        OBVIOUS
    <2>1. CASE Next
        BY <2>1, MovingCalls, LookingCalls DEF Next, Deque!Next
    <2>2. CASE UNCHANGED vars
        BY <2>2, Unmoved DEF vars, ring
    <2>. QED BY <2>1, <2>2
<1>. QED BY <1>1, <1>2, RingCorrect, PTL DEF Spec, Implements, Deque!Spec
=============================================================================
