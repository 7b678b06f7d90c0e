---------------------------- MODULE StaticDeque ----------------------------
(***************************************************************************)
(* StaticDeque (lib/static_deque.cc): the ring buffer behind a thread's    *)
(* event queue.  The front element is in the slot before first, the back   *)
(* one in slot last; first = last when the deque is empty and when it is   *)
(* full, and elems tells the two apart.                                    *)
(***************************************************************************)
EXTENDS Integers, Sequences

CONSTANTS
    Elems,      \* the values of T
    length      \* static_size

\* The constructor throws for other sizes.
ASSUME LengthAssumption == length \in Nat \ {0}

VARIABLES data, elems, first, last,
    result      \* what the last call returned, or that it threw

ring == <<data, elems, first, last>>
vars == <<data, elems, first, last, result>>

Slots == 0 .. (length - 1)

\* Mutant: the index wraps one slot late.
WRAP_INCR_Late(i) == IF i = length THEN 0 ELSE i + 1

WRAP_INCR(i) == IF i = length - 1 THEN 0 ELSE i + 1
WRAP_DECR(i) == IF i = 0 THEN length - 1 ELSE i - 1
WRAP_RACC(f, i) == IF f - i - 1 < 0 THEN length - (i - f) - 1 ELSE f - i - 1

Returns(v) == result' = <<"returns", v>>

Void == result' = <<"void">>

Throw == result' = <<"throws">> /\ UNCHANGED ring

push_front(x) ==
    \/ /\ elems < length
       /\ data' = [data EXCEPT ![first] = x]
       /\ first' = WRAP_INCR(first)
       /\ elems' = elems + 1
       /\ Void
       /\ UNCHANGED last
    \/ elems >= length /\ Throw

push_back(x) ==
    \/ /\ elems < length
       /\ last' = WRAP_DECR(last)
       /\ data' = [data EXCEPT ![last'] = x]
       /\ elems' = elems + 1
       /\ Void
       /\ UNCHANGED first
    \/ elems >= length /\ Throw

pop_front ==
    \/ /\ elems > 0
       /\ first' = WRAP_DECR(first)
       /\ Returns(data[first'])
       /\ elems' = elems - 1
       /\ UNCHANGED <<data, last>>
    \/ elems <= 0 /\ Throw

\* Mutant: the index moves before the element is taken, as in pop_front.
pop_back_Moved ==
    \/ /\ elems > 0
       /\ last' = WRAP_INCR(last)
       /\ Returns(data[last'])
       /\ elems' = elems - 1
       /\ UNCHANGED <<data, first>>
    \/ elems <= 0 /\ Throw

pop_back ==
    \/ /\ elems > 0
       /\ Returns(data[last])
       /\ last' = WRAP_INCR(last)
       /\ elems' = elems - 1
       /\ UNCHANGED <<data, first>>
    \/ elems <= 0 /\ Throw

clear == elems' = 0 /\ first' = 0 /\ last' = 0 /\ Void /\ UNCHANGED data

front ==
    \/ elems > 0 /\ Returns(data[WRAP_DECR(first)]) /\ UNCHANGED ring
    \/ elems <= 0 /\ Throw

back ==
    \/ elems > 0 /\ Returns(data[last]) /\ UNCHANGED ring
    \/ elems <= 0 /\ Throw

\* operator[]
at(index) ==
    \/ index >= 0 /\ index < elems /\ Returns(data[WRAP_RACC(first, index)]) /\ UNCHANGED ring
    \/ ~(index >= 0 /\ index < elems) /\ Throw

\* The slots from last up to, and without, first.
Visited ==
    IF last <= first THEN last .. (first - 1)
    ELSE (last .. (length - 1)) \cup (0 .. (first - 1))

contains(x) == result' = <<"answers", \E i \in Visited : data[i] = x>> /\ UNCHANGED ring

size == result' = <<"counts", elems>> /\ UNCHANGED ring

empty == result' = <<"answers", elems = 0>> /\ UNCHANGED ring

full == result' = <<"answers", elems = length>> /\ UNCHANGED ring

\* new T[static_size] leaves the slots of a pointer type uninitialised.
Init ==
    /\ data \in [Slots -> Elems]
    /\ elems = 0 /\ first = 0 /\ last = 0
    /\ result = <<"void">>

\* Every index outside 0 .. length - 1 throws alike; one on each side suffices.
Next ==
    \/ \E x \in Elems : push_front(x) \/ push_back(x) \/ contains(x)
    \/ pop_front \/ pop_back \/ clear
    \/ front \/ back \/ size \/ empty \/ full
    \/ \E index \in -1 .. length : at(index)

Spec == Init /\ [][Next]_vars

(***************************************************************************)
(* Properties                                                              *)
(***************************************************************************)
\* The indices stay in the array, and first is elems slots after last: the
\* pushes and pops of both ends move one ring.
RingOK ==
    /\ data \in [Slots -> Elems]
    /\ elems \in 0 .. length
    /\ first \in Slots /\ last \in Slots
    /\ first = IF last + elems < length THEN last + elems ELSE last + elems - length

\* The elements from front to back.
Contents == [i \in 1 .. elems |-> data[WRAP_RACC(first, i - 1)]]

Deque == INSTANCE BoundedDeque WITH q <- Contents

\* Every call has the effect and the result it has on a bounded sequence.
Implements == Deque!Spec
=============================================================================
