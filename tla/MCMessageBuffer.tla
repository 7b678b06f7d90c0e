--------------------------- MODULE MCMessageBuffer ---------------------------
(***************************************************************************)
(* Two in-ports, used as the L1 and the L2 cache of MESI_CMP_directory use *)
(* theirs: the higher one wakes and recycles, the lower one stalls.        *)
(***************************************************************************)
EXTENDS MessageBuffer, TLC

CONSTANTS a, b

\* Unordered and unlimited.  The response port recycles and wakes, the request
\* port stalls; both may be delayed by a blocked line.
Controller ==
    [uses |-> [r \in Ranks |-> IF r = 0 THEN {"stall", "delay", "resource"}
                                        ELSE {"wake", "recycle", "delay", "resource"}],
     strict |-> {}, m_max_size |-> -1, messages |-> 2]

\* Ordered buffers of three slots, whose ports only take messages.
Consumer ==
    [uses |-> [r \in Ranks |-> {"resource"}],
     strict |-> Ranks, m_max_size |-> 3, messages |-> 4]

MCSetups == {Controller, Consumer}

Symmetry == Permutations(Addrs)

OneOrTwo == [r \in Ranks |-> {1, 2}]
=============================================================================
