---------------------------- MODULE MCEventQueue -----------------------------
(* EventQueue for TLC. *)
EXTENDS EventQueueRefinement, TLC

CONSTANTS e1, e2, e3, f1

\* Three events of the default priority, one of a higher number (later).
MCPriority == [e \in Events |-> IF e = f1 THEN 1 ELSE 0]

Symmetry == Permutations({e1, e2, e3})
=============================================================================
