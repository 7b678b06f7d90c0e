--------------------------- MODULE MCStaticDeque ---------------------------
(***************************************************************************)
(* StaticDeque with three slots and two elements: every fill level at every*)
(* position of the ring.                                                   *)
(***************************************************************************)
EXTENDS StaticDeque
=============================================================================
