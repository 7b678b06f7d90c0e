------------------------------ MODULE EventList ------------------------------
(***************************************************************************)
(* What gem5's event queue promises to the code that uses it (sim/eventq): *)
(* one list of the scheduled events, by time, then by priority, and last   *)
(* in first out among the events of one time and priority (the comment at  *)
(* the head of Event).  The list is kept as the order of its events.       *)
(* Times are relative to curTick.                                          *)
(***************************************************************************)
EXTENDS Integers

CONSTANTS Events, Priority, MaxDelay

VARIABLES
    listed,      \* the scheduled events
    ahead,       \* <<e, f>> when e is ahead of f in the list
    when,        \* ticks from now to each scheduled event, 0 for the others
    squashed     \* the scheduled events that will not be processed

vars == <<listed, ahead, when, squashed>>

\* e belongs after f: a later time, or the same time and a higher number.
After(w, e, f) ==
    \/ w[e] > w[f]
    \/ w[e] = w[f] /\ Priority[e] > Priority[f]

\* The list without e.
Without(e) == {p \in ahead : p[1] # e /\ p[2] # e}

\* e goes behind the events it belongs after, before those of its own bin.
Placed(w, e) ==
    {<<f, e>> : f \in {g \in listed \ {e} : After(w, e, g)}}
        \cup {<<e, f>> : f \in {g \in listed \ {e} : ~After(w, e, g)}}

Init ==
    /\ listed = {}
    /\ ahead = {}
    /\ when = [e \in Events |-> 0]
    /\ squashed = {}

\* A new event, or a scheduled one that moves; either way it will be processed.
Set(e, t) ==
    /\ when' = [when EXCEPT ![e] = t]
    /\ squashed' = squashed \ {e}
    /\ listed' = listed \cup {e}
    /\ ahead' = Without(e) \cup Placed(when', e)

Cancel(e) ==
    /\ e \in listed
    /\ when' = [when EXCEPT ![e] = 0]
    /\ squashed' = squashed \ {e}
    /\ listed' = listed \ {e}
    /\ ahead' = Without(e)

Squash(e) ==
    /\ e \in listed
    /\ squashed' = squashed \cup {e}
    /\ UNCHANGED <<listed, ahead, when>>

\* Time moves to the first event, which leaves the list.
Service(e) ==
    /\ e \in listed
    /\ \A f \in listed : <<f, e>> \notin ahead
    /\ listed' = listed \ {e}
    /\ squashed' = squashed \ {e}
    /\ when' = [f \in Events |-> IF f \in listed \ {e} THEN when[f] - when[e] ELSE 0]
    /\ ahead' = Without(e)

Next ==
    \E e \in Events :
        \/ Cancel(e) \/ Squash(e) \/ Service(e)
        \/ \E t \in 0 .. MaxDelay : Set(e, t)

Spec == Init /\ [][Next]_vars
=============================================================================
