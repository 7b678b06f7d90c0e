----------------------------- MODULE EventQueue ------------------------------
(***************************************************************************)
(* gem5's event queue (sim/eventq.hh, sim/eventq.cc) and the loop that     *)
(* serves it (sim/simulate.cc): a list of bins linked by nextBin, each bin *)
(* a stack of the events of one time and priority linked by nextInBin.     *)
(* Only the top of a bin has a nextBin to rely on: the others keep the one *)
(* they had when they were the top, and the model keeps these too.         *)
(*                                                                         *)
(* The code that owns the events (Event::process, and what it calls) runs  *)
(* between two iterations of the loop and may schedule, deschedule or      *)
(* reschedule any event.  Times are relative to curTick.                   *)
(***************************************************************************)
EXTENDS Integers, FiniteSets, Sequences, Functions

CONSTANTS
    Events,
    Priority,     \* Event::_priority
    MaxDelay,     \* bound on how far ahead an event is scheduled
    Null          \* the NULL pointer

ASSUME EventsAssumption ==
    /\ IsFiniteSet(Events) /\ Null \notin Events
    /\ Priority \in [Events -> Int]
    /\ MaxDelay \in Nat

VARIABLES
    q,            \* head, and nextBin, nextInBin and _when of every event
    scheduled,    \* events with the flag Scheduled
    squashed,     \* events with the flag Squashed
    aborted       \* a panic or an assertion of the queue or of the loop

vars == <<q, scheduled, squashed, aborted>>

-----------------------------------------------------------------------------
(* The order of events, and walks along the pointers. *)

\* operator<
Less(r, e, f) ==
    \/ r.when[e] < r.when[f]
    \/ r.when[e] = r.when[f] /\ Priority[e] < Priority[f]

Equal(r, e, f) == r.when[e] = r.when[f] /\ Priority[e] = Priority[f]

LessEqual(r, e, f) == Less(r, e, f) \/ Equal(r, e, f)

\* Where a walk from e along the pointers next is after each step; it is cut short
\* after as many steps as there are events.
Walked(next, e) ==
    LET step == [f \in Events \cup {Null} |-> IF f = Null THEN Null ELSE next[f]]
        at[n \in 0 .. Cardinality(Events)] == IF n = 0 THEN e ELSE step[at[n - 1]]
    IN  at

\* The events from e along the pointers next, up to NULL.
Chain(next, e) ==
    LET at == Walked(next, e)
    IN  [i \in 1 .. Cardinality({n \in DOMAIN at : at[n] # Null}) |-> at[i - 1]]

\* The loop of insert() and of remove(): the last bin below e's, or the head's.
Prev(r, e) ==
    LET tops  == Chain(r.nextBin, r.head)
        stops == {n \in 1 .. Len(tops) :
                    n = Len(tops) \/ ~Less(r, tops[n + 1], e)}
    IN  tops[CHOOSE n \in stops : \A m \in stops : n <= m]

-----------------------------------------------------------------------------
(* Event::insertBefore, EventQueue::insert. *)

insertBefore(r, e, curr) ==
    IF curr = Null \/ Less(r, e, curr)
    THEN [r EXCEPT !.nextBin[e] = curr, !.nextInBin[e] = Null]
    ELSE [r EXCEPT !.nextBin[e] = r.nextBin[curr], !.nextInBin[e] = curr]

\* Mutant: an event of the head's bin goes behind the head.
insertStrict(r, e) ==
    IF r.head = Null \/ Less(r, e, r.head)
    THEN [insertBefore(r, e, r.head) EXCEPT !.head = e]
    ELSE LET prev == Prev(r, e)
         IN  [insertBefore(r, e, r.nextBin[prev]) EXCEPT !.nextBin[prev] = e]

insert(r, e) ==
    IF r.head = Null \/ LessEqual(r, e, r.head)
    THEN [insertBefore(r, e, r.head) EXCEPT !.head = e]
    ELSE LET prev == Prev(r, e)
         IN  [insertBefore(r, e, r.nextBin[prev]) EXCEPT !.nextBin[prev] = e]

-----------------------------------------------------------------------------
(* Event::removeItem, EventQueue::remove. *)

\* The queue without the top of a bin, and what takes the top's place: the next
\* event of the bin, which needs a new nextBin, or the next bin.
popBin(r, top) ==
    LET next == r.nextInBin[top]
    IN  IF next = Null
        THEN [queue |-> r, top |-> r.nextBin[top]]
        ELSE [queue |-> [r EXCEPT !.nextBin[next] = r.nextBin[top]], top |-> next]

removeItem(r, e, top) ==
    IF e = top
    THEN popBin(r, top)
    ELSE LET above == CHOOSE f \in Range(Chain(r.nextInBin, top)) : r.nextInBin[f] = e
         IN  [queue |-> [r EXCEPT !.nextInBin[above] = r.nextInBin[e]], top |-> top]

\* The top of the bin in which remove() looks for e, or NULL.
BinOf(r, e) ==
    IF r.head = Null \/ Equal(r, r.head, e)
    THEN r.head
    ELSE LET curr == r.nextBin[Prev(r, e)]
         IN  IF curr # Null /\ Equal(r, curr, e) THEN curr ELSE Null

\* remove() does not panic with "event not found!".
Found(r, e) ==
    /\ BinOf(r, e) # Null
    /\ e \in Range(Chain(r.nextInBin, BinOf(r, e)))

remove(r, e) ==
    LET removed == removeItem(r, e, BinOf(r, e))
    IN  IF Equal(r, r.head, e)
        THEN [removed.queue EXCEPT !.head = removed.top]
        ELSE [removed.queue EXCEPT !.nextBin[Prev(r, e)] = removed.top]

-----------------------------------------------------------------------------
Init ==
    /\ q = [head      |-> Null,
            nextBin   |-> [e \in Events |-> Null],
            nextInBin |-> [e \in Events |-> Null],
            when      |-> [e \in Events |-> 0]]
    /\ scheduled = {}
    /\ squashed = {}
    /\ aborted = FALSE

setWhen(r, e, t) == [r EXCEPT !.when[e] = t]

schedule(e, t) ==
    /\ ~aborted
    /\ e \notin scheduled
    /\ q' = insert(setWhen(q, e, t), e)
    /\ scheduled' = scheduled \cup {e}
    /\ UNCHANGED <<squashed, aborted>>

\* The time of an event that is not scheduled is never read: the model clears it.
deschedule(e) ==
    /\ ~aborted
    /\ e \in scheduled
    /\ aborted' = ~Found(q, e)
    /\ q' = IF Found(q, e) THEN setWhen(remove(q, e), e, 0) ELSE q
    /\ scheduled' = scheduled \ {e}
    /\ squashed' = squashed \ {e}

\* Mutant: the new time is set before the event is removed.
rescheduleSetFirst(e, t) ==
    LET moved == setWhen(q, e, t)
    IN  /\ ~aborted
        /\ aborted' = (e \in scheduled /\ ~Found(moved, e))
        /\ q' = IF aborted' THEN q
                ELSE insert(IF e \in scheduled THEN remove(moved, e) ELSE moved, e)
        /\ scheduled' = scheduled \cup {e}
        /\ squashed' = squashed \ {e}

\* With always = TRUE for an event that is not scheduled.
reschedule(e, t) ==
    /\ ~aborted
    /\ aborted' = (e \in scheduled /\ ~Found(q, e))
    /\ q' = IF aborted' THEN q
            ELSE insert(setWhen(IF e \in scheduled THEN remove(q, e) ELSE q, e, t), e)
    /\ scheduled' = scheduled \cup {e}
    /\ squashed' = squashed \ {e}

\* simulate() squashes the limit event that another exit event came before.
squash(e) ==
    /\ ~aborted
    /\ e \in scheduled \ squashed
    /\ squashed' = squashed \cup {e}
    /\ UNCHANGED <<q, scheduled, aborted>>

\* One iteration of simulate(): it asserts that the head is not in the past,
\* moves curTick to it (the other times come closer), and serviceOne() pops it,
\* to be processed or, if it is squashed, not.
serviceOne ==
    LET event  == q.head
        popped == popBin(q, event)
    IN  /\ ~aborted
        /\ event # Null
        /\ scheduled' = scheduled \ {event}
        /\ squashed' = squashed \ {event}
        /\ q' = [popped.queue EXCEPT
                   !.head = popped.top,
                   !.when = [e \in Events |->
                     IF e \in scheduled' THEN q.when[e] - q.when[event] ELSE 0]]
        /\ aborted' = (q.when[event] < 0)

Next ==
    \/ \E e \in Events, t \in 0 .. MaxDelay : schedule(e, t) \/ reschedule(e, t)
    \/ \E e \in Events : deschedule(e) \/ squash(e)
    \/ serviceOne

Spec == Init /\ [][Next]_vars

-----------------------------------------------------------------------------
\* No remove() of a scheduled event panics with "event not found!", and
\* simulate() never finds an "event scheduled in the past".
NeverAborts == ~aborted
=============================================================================
