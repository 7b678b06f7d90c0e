----------------------------- MODULE TraceLine ------------------------------
(***************************************************************************)
(* One line of a trace file, from readEventFile to the sub-events that are *)
(* replayed: its address ranges are split into requests one after the      *)
(* other (RequestSplitting), the writes before the reads, the event is     *)
(* queued, and when it is at the front its sub-events are created          *)
(* (SubEvents).  What the fields are made from is text and left out.       *)
(***************************************************************************)
EXTENDS RequestSplitting, SubEvents

CONSTANT Lines    \* the trace lines considered

\* A line's type follows from its first # or ^.  A communication line has a range
\* for each dependency, here in readRanges, and no other; a pthread line has none.
ASSUME LinesAssumption ==
    \A l \in Lines :
        /\ l.type \in {"COMPUTATION", "COMMUNICATION", "PTHREAD_API"}
        /\ {l.compIOPS, l.compFLOPS, l.compMem_reads, l.compMem_writes} \subseteq Nat
        /\ l.writeRanges \in Seq(Ranges) /\ l.readRanges \in Seq(Ranges)
        /\ l.type = "COMMUNICATION" => l.readRanges # << >>
        /\ l.type = "PTHREAD_API" => l.readRanges = << >>
        /\ l.type # "COMPUTATION" => l.writeRanges = << >>

VARIABLES
    line,    \* the line
    todo,    \* its ranges that are not split yet, with the list their requests go to
    into     \* the list of the range that is being split

vars == <<splitVars, subEventVars, line, todo, into>>

Tagged(name, ranges) == [i \in 1 .. Len(ranges) |-> [into |-> name, range |-> ranges[i]]]

Init ==
    /\ line \in Lines
    /\ todo = Tagged("writes", line.writeRanges) \o Tagged("reads", line.readRanges)
    /\ into = "reads"
    /\ Idle
    /\ event = [type |-> line.type, compIOPS |-> line.compIOPS, compFLOPS |-> line.compFLOPS,
                compMem_reads |-> line.compMem_reads, compMem_writes |-> line.compMem_writes,
                reads |-> << >>, writes |-> << >>]
    /\ NotCreated
    /\ pc = "parse"

\* Mutant: the requests go to the list of the range before.
NextRangeSameList ==
    /\ pc = "parse" /\ done /\ todo # << >>
    /\ Begin(Head(todo).range)
    /\ todo' = Tail(todo)
    /\ UNCHANGED <<subEventVars, line, into>>

\* The next range of the line, separated by #, $ or *.
NextRange ==
    /\ pc = "parse" /\ done /\ todo # << >>
    /\ Begin(Head(todo).range)
    /\ into' = Head(todo).into
    /\ todo' = Tail(todo)
    /\ UNCHANGED <<subEventVars, line>>

\* A turn of the loop pushes its request to the event.
SplitRange ==
    /\ pc = "parse"
    /\ Split
    /\ event' = [event EXCEPT ![into] = Append(@, requests'[Len(requests')])]
    /\ UNCHANGED <<list, flip, iops, flops, pc, line, todo, into>>

\* The event goes to its thread's queue.
Queue ==
    /\ pc = "parse" /\ done /\ todo = << >>
    /\ pc' = "create"
    /\ UNCHANGED <<splitVars, event, list, flip, iops, flops, line, todo, into>>

\* The event has come to the front.
Create == createSubEvents /\ UNCHANGED <<splitVars, line, todo, into>>

\* The sub-events are replayed, or the division by zero ended the process.
Over == pc \in {"done", "trap"} /\ UNCHANGED vars

Next == NextRange \/ SplitRange \/ Queue \/ Create \/ Over

Spec == Init /\ [][Next]_vars
-----------------------------------------------------------------------------
\* Every variable has its type.
TypeOK ==
    /\ SplitTypeOK /\ SubEventsTypeOK
    /\ into \in {"reads", "writes"}
    /\ \A i \in DOMAIN todo : todo[i].range \in Ranges /\ todo[i].into \in {"reads", "writes"}

\* The bytes of a request, in order.
Bytes(r) == [i \in 1 .. r.numBytes |-> r.addr + i - 1]

\* The bytes of a range, in order, folded into the memory; the length of a reversed
\* range counts modulo 2^64.
RangeBytes(r) == [i \in 1 .. Length(r) |-> (r.start + i - 1) % MemorySize]

\* The sequences of s one after the other: FlattenSeq of SequencesExt, written out so
\* that the proofs need not carry that module.
Flatten(s) ==
    LET upTo[i \in 0 .. Len(s)] == IF i = 0 THEN << >> ELSE upTo[i - 1] \o s[i]
    IN  upTo[Len(s)]

Concat(Op(_), s) == Flatten([i \in 1 .. Len(s) |-> Op(s[i])])

\* The place in the list of the n-th sub-event of a kind.
Nth(kind, n) ==
    CHOOSE i \in DOMAIN list :
        list[i].msg = kind /\ Cardinality({h \in 1 .. i : list[h].msg = kind}) = n

\* What is replayed is what was recorded: the reads of an event, and its writes,
\* access the bytes of the line's ranges of that kind in the order of the line,
\* before any of them is accessed again.
LineReplayed ==
    pc = "done" =>
        /\ LET once(n) == Bytes(event.reads[list[Nth("read", n)].request + 1])
           IN Concat(once, [n \in 1 .. NumReads |-> n]) = Concat(RangeBytes, line.readRanges)
        /\ LET once(n) == Bytes(event.writes[list[Nth("write", n)].request + 1])
           IN Concat(once, [n \in 1 .. NumWrites |-> n]) = Concat(RangeBytes, line.writeRanges)
=============================================================================
