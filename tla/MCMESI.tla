------------------------------- MODULE MCMESI -------------------------------
(* Instances of the cache hierarchy for TLC. *)
EXTENDS MESI_Properties, TLC

CONSTANTS c1, c2, c3, a1, a2

By(c, types, addrs) == [by : {c}, type : types, addr : addrs]

Work(accesses, stores) == [accesses |-> accesses, stores |-> stores]

\* Two cores do everything with one line.
OneLine == Work([by : {c1, c2}, type : {"LD", "ST", "IFETCH"}, addr : {a1}], 2)

\* Three cores share and update one line.
ThreeCores == Work([by : Cores, type : {"LD", "ST"}, addr : {a1}], 1)

\* One core moves between two lines, the other stays with one of them.
WriteBacks ==
  Work(By(c1, {"ST"}, {a1}) \cup By(c1, {"LD"}, {a2}) \cup By(c2, {"LD", "ST"}, {a1}), 1)

\* One core reads two lines, so that the L2 replaces them, the other updates one.
Recalls == Work(By(c1, {"LD"}, {a1, a2}) \cup By(c2, {"ST"}, {a1}), 1)

\* The L2 replaces a line that both cores have read.
SharedRecalls == Work(By(c1, {"LD"}, {a1, a2}) \cup By(c2, {"LD"}, {a1}), 0)

\* Two cores and a DMA device share one line.
WithDMA ==
  Work(By(c1, {"LD", "ST"}, {a1}) \cup By(c2, {"LD"}, {a1})
         \cup By(L2Cache!DMA, {"DMA_READ", "DMA_WRITE"}, {a1}), 2)

\* Cores read and update one line with locked read-modify-writes; one also stores.
Atomics ==
  Work([by : {c1, c2}, type : {"Locked_RMW_Read", "Locked_RMW_Write", "LD"}, addr : {a1}]
         \cup By(c2, {"ST"}, {a1}), 4)

\* Cores update one line with load-linked and store-conditional.
Linked == Work(By(c1, {"LL", "SC"}, {a1}) \cup By(c2, {"LL", "SC"}, {a1}), 2)

\* Two cores that take the one line of the L2 from each other, for ever.
Thrashing == Work(By(c1, {"LD", "ST"}, {a1}) \cup By(c2, {"LD"}, {a2}), 1)

Progress == {Thrashing}

Coherence == {OneLine, ThreeCores, WriteBacks, Recalls, SharedRecalls, WithDMA, Atomics, Linked}
=============================================================================
