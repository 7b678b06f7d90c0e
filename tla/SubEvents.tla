------------------------------ MODULE SubEvents ------------------------------
(***************************************************************************)
(* How createSubEvents turns the front event of a thread into the list of  *)
(* sub-events that is replayed, each with at most one memory request and   *)
(* with a share of the event's integer and floating point operations.      *)
(*                                                                         *)
(* An event is known here by its type, its operation counts, the numbers   *)
(* of reads and writes that its trace line counts (compMem_reads and       *)
(* compMem_writes) and the requests that its address ranges were split     *)
(* into: those of a communication event are reads.  rand() may give any    *)
(* slot.  One step is one turn of a loop.  The counts are below 2^32,      *)
(* where the code narrows some of them.                                    *)
(***************************************************************************)
EXTENDS Integers, Sequences, FiniteSets

VARIABLES
    event,           \* the front event
    list,            \* its subEventList
    flip,            \* read_or_write
    iops, flops,     \* what is left of IOPS_rem and FLOPS_rem
    pc               \* the loop createSubEvents is in, or "parse" before it

subEventVars == <<event, list, flip, iops, flops, pc>>

subEvent(i, f, msg, request) ==
    [numIOPS |-> i, numFLOPS |-> f, msg |-> msg, request |-> request]

NoMessage(i, f) == subEvent(i, f, "none", 0)

Larger(a, b) == IF a >= b THEN a ELSE b

NumReads == Len(event.reads)

NumWrites == Len(event.writes)

max_loc_reads == Larger(event.compMem_reads, NumReads)

max_loc_writes == Larger(event.compMem_writes, NumWrites)

totalMemOps == max_loc_reads + max_loc_writes

\* The sub-events of a kind inserted so far (mem_reads_inserted, mem_writes_inserted).
Inserted(kind) == Cardinality({i \in 1 .. Len(list) : list[i].msg = kind})

\* Nothing is created yet.
NotCreated == list = << >> /\ flip = "write" /\ iops = 0 /\ flops = 0

\* Pthread events, events without memory accesses and communication events get
\* their sub-events at once.
CreatePthread ==
    /\ pc = "create" /\ event.type = "PTHREAD_API"
    /\ list' = <<NoMessage(0, 0)>> /\ pc' = "done"
    /\ UNCHANGED <<event, flip, iops, flops>>

CreateComm ==
    /\ pc = "create" /\ event.type = "COMMUNICATION"
    /\ list' = [j \in 1 .. NumReads |-> subEvent(0, 0, "read", j - 1)]
    /\ pc' = "done"
    /\ UNCHANGED <<event, flip, iops, flops>>

\* Mutant: the remainder of the integer operations is dropped.
CreateCompRounded ==
    /\ pc = "create" /\ event.type = "COMPUTATION"
    /\ IF totalMemOps = 0
       THEN /\ list' = <<NoMessage(event.compIOPS, event.compFLOPS)>>
            /\ pc' = "done"
            /\ UNCHANGED <<iops, flops>>
       ELSE /\ iops' = 0
            /\ flops' = event.compFLOPS % totalMemOps
            /\ pc' = "insert"
            /\ UNCHANGED list
    /\ UNCHANGED <<event, flip>>

CreateComp ==
    /\ pc = "create" /\ event.type = "COMPUTATION"
    /\ IF totalMemOps = 0
       THEN /\ list' = <<NoMessage(event.compIOPS, event.compFLOPS)>>
            /\ pc' = "done"
            /\ UNCHANGED <<iops, flops>>
       ELSE /\ iops' = event.compIOPS % totalMemOps
            /\ flops' = event.compFLOPS % totalMemOps
            /\ pc' = "insert"
            /\ UNCHANGED list
    /\ UNCHANGED <<event, flip>>

\* Mutant: the kind that is left is not taken, the exhausted one is.
memTypeToInsertStuck(reads, writes) == flip

\* The kind whose turn it is, or the other one if that is exhausted.
memTypeToInsert(reads, writes) ==
    IF flip = "read"
    THEN IF reads < max_loc_reads THEN "read" ELSE "write"
    ELSE IF writes < max_loc_writes THEN "write" ELSE "read"

\* Mutant: the requests are indexed by the position in the list.
RequestByPosition(kind, size) == Len(list) % size

\* Requests of a kind are repeated from the first one when the line counts more
\* accesses than its ranges have requests.
Request(kind, size) == Inserted(kind) % size

\* One memory access.  The index is taken modulo the number of requests of the
\* kind; with none the division traps.
Insert ==
    /\ pc = "insert" /\ Len(list) < totalMemOps
    /\ LET kind == memTypeToInsert(Inserted("read"), Inserted("write"))
           size == IF kind = "read" THEN NumReads ELSE NumWrites
       IN IF size = 0
          THEN pc' = "trap" /\ UNCHANGED <<list, flip>>
          ELSE /\ list' = Append(list, subEvent(event.compIOPS \div totalMemOps,
                                                event.compFLOPS \div totalMemOps,
                                                kind, Request(kind, size)))
               /\ flip' = IF flip = "write" THEN "read" ELSE "write"
               /\ UNCHANGED pc
    /\ UNCHANGED <<event, iops, flops>>

Inserting == pc = "insert" /\ Len(list) < totalMemOps

\* One operation of the remainder goes to an arbitrary sub-event.
DistributeIOPS ==
    /\ pc = "insert" /\ ~Inserting /\ iops > 0
    /\ \E k \in 1 .. totalMemOps : list' = [list EXCEPT ![k].numIOPS = @ + 1]
    /\ iops' = iops - 1
    /\ UNCHANGED <<event, flip, flops, pc>>

DistributeFLOPS ==
    /\ pc = "insert" /\ ~Inserting /\ iops = 0 /\ flops > 0
    /\ \E k \in 1 .. totalMemOps : list' = [list EXCEPT ![k].numFLOPS = @ + 1]
    /\ flops' = flops - 1
    /\ UNCHANGED <<event, flip, iops, pc>>

Created ==
    /\ pc = "insert" /\ ~Inserting /\ iops = 0 /\ flops = 0
    /\ pc' = "done"
    /\ UNCHANGED <<event, list, flip, iops, flops>>

createSubEvents ==
    CreatePthread \/ CreateComm \/ CreateComp \/ Insert
    \/ DistributeIOPS \/ DistributeFLOPS \/ Created
-----------------------------------------------------------------------------
\* The operations that a field of the sub-events counts, over the whole list.
Total(field) ==
    LET sum[n \in 0 .. Len(list)] == IF n = 0 THEN 0 ELSE sum[n - 1] + list[n][field]
    IN  sum[Len(list)]

\* Types of the variables; a sub-event names one of its event's requests.
SubEventsTypeOK ==
    /\ flip \in {"read", "write"}
    /\ iops \in 0 .. event.compIOPS /\ flops \in 0 .. event.compFLOPS
    /\ pc \in {"parse", "create", "insert", "done", "trap"}
    /\ \A i \in DOMAIN list :
          /\ list[i].numIOPS \in 0 .. event.compIOPS /\ list[i].numFLOPS \in 0 .. event.compFLOPS
          /\ \/ list[i].msg = "none" /\ list[i].request = 0
             \/ list[i].msg = "read" /\ list[i].request \in 0 .. (NumReads - 1)
             \/ list[i].msg = "write" /\ list[i].request \in 0 .. (NumWrites - 1)

\* The replay is charged for all the work of a computation event and for no more,
\* however rand() deals out the remainders; each sub-event gets its share.
WorkConserved ==
    (pc = "done" /\ event.type = "COMPUTATION") =>
        LET share(total) == (total \div Len(list)) .. ((total \div Len(list)) + (total % Len(list)))
        IN /\ Total("numIOPS") = event.compIOPS
           /\ Total("numFLOPS") = event.compFLOPS
           /\ \A i \in DOMAIN list :
                 /\ list[i].numIOPS \in share(event.compIOPS)
                 /\ list[i].numFLOPS \in share(event.compFLOPS)

\* Every request that the ranges were split into is replayed, as the access that
\* it is; a kind is replayed as often as the larger of its count and its number
\* of requests says, with no request twice more often than another.  No event is
\* left without a sub-event, whose absence would make front() throw.
EveryRequestSent ==
    pc = "done" =>
        /\ list # << >>
        /\ \A kind \in {"read", "write"} :
              LET size == IF kind = "read" THEN NumReads ELSE NumWrites
                  Times(k) == Cardinality({i \in DOMAIN list : list[i].msg = kind /\ list[i].request = k})
              IN /\ \A k \in 0 .. size - 1 : Times(k) > 0
                 /\ \A k, l \in 0 .. size - 1 : Times(k) <= Times(l) + 1
                 /\ Inserted(kind) = IF event.type # "COMPUTATION" THEN size
                                     ELSE IF kind = "read" THEN max_loc_reads ELSE max_loc_writes

\* Only a line that counts accesses of a kind and has no range of that kind makes
\* the replay divide by zero.
TrapOnlyWithoutRange ==
    pc = "trap" => \/ event.compMem_reads > 0 /\ NumReads = 0
                   \/ event.compMem_writes > 0 /\ NumWrites = 0
=============================================================================
