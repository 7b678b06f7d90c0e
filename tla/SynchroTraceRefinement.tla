----------------------- MODULE SynchroTraceRefinement -----------------------
(***************************************************************************)
(* The abstract specification that the replay engine implements: the       *)
(* positions of the threads are those of ReplayOrder.                      *)
(***************************************************************************)
EXTENDS SynchroTraceState

Order == INSTANCE ReplayOrder WITH done <- popped

\* Whatever the scheduler, the wakeups, the refills and the responses do, the
\* engine completes events one at a time and in an order that the traces allow:
\* every step is a step of ReplayOrder or leaves the positions alone.
ImplementsReplayOrder == Order!Spec
=============================================================================
