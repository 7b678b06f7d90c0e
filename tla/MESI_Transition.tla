--------------------------- MODULE MESI_Transition ---------------------------
(***************************************************************************)
(* The rows of a transition table: from one of some states, on one of some *)
(* events, to a state, with the actions to run in their order.             *)
(***************************************************************************)
\* The rows of a table for a state and an event.
Rows(table, state, event) == {t \in table : state \in t.from /\ event \in t.on}

Transition(from, on, to, do) == [from |-> from, on |-> on, to |-> to, do |-> do]

\* "transition(S, E)" without a third argument keeps the state.
Same == "same"
=============================================================================
