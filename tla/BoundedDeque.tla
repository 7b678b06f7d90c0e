---------------------------- MODULE BoundedDeque ----------------------------
(***************************************************************************)
(* What StaticDeque promises: a sequence q of at most length elements, its *)
(* front first.  result is what the last call returned, or that it threw.  *)
(***************************************************************************)
EXTENDS Integers, Sequences

CONSTANTS Elems, length

VARIABLES q, result

Returns(v) == result' = <<"returns", v>>

Void == result' = <<"void">>

Throw == result' = <<"throws">> /\ UNCHANGED q

push_front(x) ==
    \/ Len(q) < length /\ q' = <<x>> \o q /\ Void
    \/ Len(q) >= length /\ Throw

push_back(x) ==
    \/ Len(q) < length /\ q' = Append(q, x) /\ Void
    \/ Len(q) >= length /\ Throw

pop_front ==
    \/ q # << >> /\ q' = Tail(q) /\ Returns(q[1])
    \/ q = << >> /\ Throw

pop_back ==
    \/ q # << >> /\ q' = SubSeq(q, 1, Len(q) - 1) /\ Returns(q[Len(q)])
    \/ q = << >> /\ Throw

clear == q' = << >> /\ Void

front ==
    \/ q # << >> /\ Returns(q[1]) /\ UNCHANGED q
    \/ q = << >> /\ Throw

back ==
    \/ q # << >> /\ Returns(q[Len(q)]) /\ UNCHANGED q
    \/ q = << >> /\ Throw

at(index) ==
    \/ index >= 0 /\ index < Len(q) /\ Returns(q[index + 1]) /\ UNCHANGED q
    \/ ~(index >= 0 /\ index < Len(q)) /\ Throw

\* A full deque denies containing anything: the loop of contains ends where it
\* starts.  The engine's queues are never full (QueueOK), and it never asks.
contains(x) ==
    /\ result' = <<"answers", Len(q) < length /\ \E i \in 1 .. Len(q) : q[i] = x>>
    /\ UNCHANGED q

size == result' = <<"counts", Len(q)>> /\ UNCHANGED q

empty == result' = <<"answers", q = << >>>> /\ UNCHANGED q

full == result' = <<"answers", Len(q) = length>> /\ UNCHANGED q

Init == q = << >> /\ result = <<"void">>

Next ==
    \/ \E x \in Elems : push_front(x) \/ push_back(x) \/ contains(x)
    \/ pop_front \/ pop_back \/ clear
    \/ front \/ back \/ size \/ empty \/ full
    \/ \E index \in -1 .. length : at(index)

Spec == Init /\ [][Next]_<<q, result>>
=============================================================================
