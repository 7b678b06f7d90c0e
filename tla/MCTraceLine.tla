---------------------------- MODULE MCTraceLine -----------------------------
(* Trace lines for TLC. *)
EXTENDS TraceLine

CONSTANTS MaxOps, MaxCounted

Blank ==
    [type |-> "COMPUTATION", compIOPS |-> 0, compFLOPS |-> 0, compMem_reads |-> 0,
     compMem_writes |-> 0, writeRanges |-> << >>, readRanges |-> << >>]

\* One range, anywhere in the address space.
OneRange == {[Blank EXCEPT !.readRanges = <<r>>] : r \in Ranges}

R(start, end) == [start |-> start, end |-> end]

\* No range, one of one request, one of two, one that wraps around the memory.
Few == {<< >>, <<R(5, 6)>>, <<R(2, 5)>>, <<R(11, 12)>>}

\* Every mix of counts with no, one or two requests of each kind.
Mixed ==
    {[Blank EXCEPT !.compIOPS = i, !.compFLOPS = f, !.compMem_reads = nr, !.compMem_writes = nw,
                   !.writeRanges = w, !.readRanges = r] :
        i \in 0 .. MaxOps, f \in 0 .. MaxOps, nr \in 0 .. MaxCounted, nw \in 0 .. MaxCounted,
        w \in Few \ {<<R(11, 12)>>}, r \in Few \ {<<R(2, 5)>>}}

\* Several ranges on a line.
Several ==
    {[Blank EXCEPT !.writeRanges = w \o v, !.readRanges = r \o <<R(7, 6)>> \o v] :
        w \in Few, v \in Few, r \in Few}

Communication ==
    {[Blank EXCEPT !.type = "COMMUNICATION", !.readRanges = <<R(3, 4)>> \o r \o v] :
        r \in Few, v \in Few}

MCLines ==
    OneRange \cup Mixed \cup Several \cup Communication
        \cup {[Blank EXCEPT !.type = "PTHREAD_API"]}
=============================================================================
