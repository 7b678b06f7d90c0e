------------------------ MODULE EventQueueRefinement -------------------------
(***************************************************************************)
(* The pointers of EventQueue implement the list of EventList.             *)
(***************************************************************************)
EXTENDS EventQueue

\* The bins from the head on, and in them the events from the top on: what
\* debugVerify() walks.
Bins(r) == Range(Chain(r.nextBin, r.head))

Bin(r, top) == Range(Chain(r.nextInBin, top))

Walk(r) == UNION {Bin(r, top) : top \in Bins(r)}

\* Which events are met on the walks from which events of S.
Ordering(next, S) == UNION {{e} \X (Range(Chain(next, e)) \ {e}) : e \in S}

\* The order of the walk: within a bin, and between bins.
WalkOrder(r) ==
    Ordering(r.nextInBin, Walk(r))
        \cup UNION {Bin(r, p[1]) \X Bin(r, p[2]) : p \in Ordering(r.nextBin, Bins(r))}

EventListOfQueue ==
    INSTANCE EventList WITH listed <- Walk(q), ahead <- WalkOrder(q), when <- q.when

\* The pointers implement the list: what a user of the queue sees is events in
\* the order of time and priority, last in first out, and a squash that ends
\* with the event's schedule it was meant for.
ImplementsEventList == EventListOfQueue!Spec
=============================================================================
