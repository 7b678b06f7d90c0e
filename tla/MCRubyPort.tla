----------------------------- MODULE MCRubyPort -----------------------------
(* Instances of the Ruby port for TLC. *)
EXTENDS RubyPort, TLC

CONSTANTS p1, p2, a, b

Pkt(line, type) == [line |-> line, type |-> type]

\* One master loads and stores line a, the other loads a and stores to b.
MCPackets == (p1 :> {Pkt(a, "LD"), Pkt(a, "ST")}) @@ (p2 :> {Pkt(a, "LD"), Pkt(b, "ST")})
=============================================================================
