-------------------------- MODULE TraceLineProofs --------------------------
(***************************************************************************)
(* The splitting of address ranges into requests and the creation of       *)
(* sub-events, for every block size, memory size, request size and word,   *)
(* and every set of trace lines.                                           *)
(***************************************************************************)
EXTENDS TraceLine, SubEventsProofs, SequenceTheorems

\* First-order leaves go to Zenon, the others name their solver.
USE Zenon

\* Folding an address into the memory early or late gives the same address.
LEMMA ModAdd ==
    ASSUME NEW a \in Nat, NEW c \in Nat, NEW b \in Nat \ {0}
    PROVE  ((a % b) + c) % b = (a + c) % b
<1> DEFINE d == a \div b
           m == a % b
           e == (m + c) \div b
           n == (m + c) % b
<1>1. d \in Nat /\ m \in 0 .. (b - 1) /\ a = (d * b) + m BY DivMod
<1>2. m + c \in Nat BY <1>1, SMTT(20)
<1>3. e \in Nat /\ n \in 0 .. (b - 1) /\ m + c = (e * b) + n BY <1>2, DivMod
<1> HIDE DEF d, m, e, n
<1>4. a + c = ((d + e) * b) + n BY <1>1, <1>3, SMTT(20)
<1>5. d + e \in Nat BY <1>1, <1>3, SMTT(20)
<1>6. (((d + e) * b) + n) % b = n BY <1>3, <1>5, ModUnique
<1>. QED BY <1>4, <1>6 DEF n, m

\* An address of the memory is folded to itself.
LEMMA ModSmall ==
    ASSUME NEW b \in Nat \ {0}, NEW r \in 0 .. (b - 1)
    PROVE  (r + 0) % b = r
<1>1. ((0 * b) + r) % b = r
    BY ModUnique
<1>2. (0 * b) + r = r + 0
    BY SMTT(20)
<1>. QED BY <1>1, <1>2

-----------------------------------------------------------------------------
(* The splitting of a range into requests. *)

\* The request sent by a turn stays in its line, and is empty only if nothing
\* is left of the range.
LEMMA SizeAtFits ==
    ASSUME NEW addr \in Nat, NEW size \in 0 .. MAX_REQUEST_SIZE
    PROVE  /\ SizeAt(addr, size) \in 0 .. size
           /\ Offset(addr) + SizeAt(addr, size) <= BlockSize
           /\ size > 0 => SizeAt(addr, size) > 0
           /\ SizeAt(addr, size) = size \/ Offset(addr) + SizeAt(addr, size) = BlockSize
<1>1. Offset(addr) \in 0 .. (BlockSize - 1)
    BY DivMod, SizesAssumption DEF Offset
<1>. QED BY <1>1, SizesAssumption, SMTT(20) DEF SizeAt

\* The address of a range's first request is its start, folded into the memory:
\* the cache line modulo the number of lines, and the offset in it.
LEMMA StartFolded ==
    ASSUME NEW a \in Nat
    PROVE  /\ m_num_cache_lines \in Nat \ {0}
           /\ (((a \div BlockSize) % m_num_cache_lines) * BlockSize) + Offset(a) = a % MemorySize
<1>. DEFINE k == m_num_cache_lines
            n == a \div BlockSize
            o == a % BlockSize
            t == n \div k
            l == n % k
<1>1. MemorySize = k * BlockSize /\ k \in Nat
    BY SizesAssumption, DivMod, SMTT(20) DEF m_num_cache_lines
<1>2. k # 0
    BY <1>1, SizesAssumption, SMTT(20)
<1>3. n \in Nat /\ o \in 0 .. (BlockSize - 1) /\ a = (n * BlockSize) + o
    BY SizesAssumption, DivMod
<1>4. t \in Nat /\ l \in 0 .. (k - 1) /\ n = (t * k) + l
    BY <1>1, <1>2, <1>3, DivMod
<1>. HIDE DEF k, n, o, t, l
<1>5. a = (t * MemorySize) + ((l * BlockSize) + o)
    BY <1>1, <1>3, <1>4, SizesAssumption, SMTT(20)
<1>6. (l * BlockSize) + o \in 0 .. (MemorySize - 1)
    <2>1. l * BlockSize <= (k - 1) * BlockSize /\ l * BlockSize \in Nat
        BY <1>1, <1>2, <1>4, SizesAssumption, SMTT(20)
    <2>2. (k - 1) * BlockSize = MemorySize - BlockSize
        BY <1>1, SizesAssumption, SMTT(20)
    <2>. QED BY <2>1, <2>2, <1>1, <1>3, SizesAssumption, SMTT(20)
<1>7. a % MemorySize = (l * BlockSize) + o
    BY <1>4, <1>5, <1>6, ModUnique, SizesAssumption
<1>. QED BY <1>1, <1>2, <1>7 DEF k, n, o, l, Offset

Requests == [addr : 0 .. (MemorySize - 1), numBytes : 0 .. MAX_REQUEST_SIZE]

SplitInv ==
    /\ SplitTypeOK
    /\ numBytes <= Length(range)
    /\ NextByte
    /\ ~done => (numBytes > 0 \/ requests = << >>)
    /\ RequestsFitALine
    /\ RequestsAreFull

\* The length of a range is a word.
LEMMA LengthType ==
    ASSUME NEW r \in Ranges
    PROVE  Length(r) \in 0 .. (Word - 1)
<1>1. r.end - r.start + 1 \in Int
    BY SizesAssumption, SMTT(20) DEF Ranges
<1>. QED BY <1>1, SizesAssumption, SMTT(20) DEF Length

\* The loop starts with the range's length and the folded address of its start.
LEMMA BeginInv ==
    ASSUME NEW r \in Ranges, Begin(r)
    PROVE  SplitInv'
<1>1. r.start \in Nat
    BY SizesAssumption, SMTT(20) DEF Ranges
<1>2. range' = r /\ numBytes' = Length(r) /\ prev_req_size' = 0 /\ requests' = << >> /\ done' = FALSE
    BY DEF Begin
<1>3. curAdd' = r.start % MemorySize
    BY <1>1, StartFolded DEF Begin
<1>4. curAdd' \in 0 .. (MemorySize - 1)
    BY <1>1, <1>3, DivMod, SizesAssumption
<1>5. Length(r) \in 0 .. (Word - 1)
    BY LengthType
<1>6. SplitTypeOK'
    <2>1. requests' \in Seq(Requests)
        BY <1>2, SMTT(20)
    <2>2. numBytes' \in 0 .. (Word - 1) /\ prev_req_size' \in 0 .. MAX_REQUEST_SIZE
        BY <1>2, <1>5, SizesAssumption, SMTT(20)
    <2>. QED BY <1>2, <1>4, <2>1, <2>2 DEF SplitTypeOK, Requests
<1>7. NextByte'
    <2>1. MemorySize \in Nat \ {0}
        BY SizesAssumption
    <2>4. (curAdd' + 0) % MemorySize = curAdd'
        BY <1>4, <2>1, ModSmall
    <2>5. r.start + 0 = r.start
        BY <1>1, SMTT(20)
    <2>2. Length(range)' = Length(r)
        BY <1>2
    <2>3. Length(r) - Length(r) = 0
        BY <1>5, SMTT(20)
    <2>. QED BY <2>2, <2>3, <2>4, <2>5, <1>2, <1>3 DEF NextByte
<1>8. Length(range)' = Length(r)
    BY <1>2
<1>9. Len(requests') = 0
    BY <1>2
<1>. QED BY <1>2, <1>5, <1>6, <1>7, <1>8, <1>9, SizesAssumption, SMTT(20) DEF SplitInv, RequestsFitALine, RequestsAreFull

\* What one turn of the loop does.
LEMMA SplitStep ==
    ASSUME SplitTypeOK, Split
    PROVE  \E addr \in 0 .. (MemorySize - 1), size \in 0 .. MAX_REQUEST_SIZE :
               /\ addr = (curAdd + prev_req_size) % MemorySize
               /\ curAdd' = addr /\ prev_req_size' = size
               /\ requests' = Append(requests, [addr |-> addr, numBytes |-> size])
               /\ numBytes' = numBytes - size
               /\ done' = (numBytes' = 0)
               /\ range' = range
               /\ size <= numBytes
               /\ Offset(addr) + size <= BlockSize
               /\ numBytes > 0 => size > 0
               /\ size = MAX_REQUEST_SIZE \/ size = numBytes \/ Offset(addr) + size = BlockSize
<1>. DEFINE asked == IF numBytes >= MAX_REQUEST_SIZE THEN MAX_REQUEST_SIZE ELSE numBytes
            addr == (curAdd + prev_req_size) % MemorySize
            size == SizeAt(addr, asked)
<1>1. numBytes \in Nat /\ curAdd + prev_req_size \in Nat
    BY SizesAssumption, SMTT(20) DEF SplitTypeOK
<1>2. asked \in 0 .. MAX_REQUEST_SIZE /\ asked <= numBytes /\ (numBytes > 0 => asked > 0)
      /\ (asked = MAX_REQUEST_SIZE \/ asked = numBytes)
    BY <1>1, SizesAssumption, SMTT(20)
<1>3. addr \in 0 .. (MemorySize - 1)
    BY <1>1, DivMod, SizesAssumption
<1>4. /\ curAdd' = addr /\ prev_req_size' = size
      /\ requests' = Append(requests, [addr |-> addr, numBytes |-> size])
      /\ numBytes' = numBytes - size
      /\ done' = (numBytes' = 0)
      /\ range' = range
    BY DEF Split
<1>. HIDE DEF asked, addr
<1>5. addr \in Nat
    BY <1>3, SizesAssumption, SMTT(20)
<1>6. /\ size \in 0 .. asked /\ Offset(addr) + size <= BlockSize
      /\ asked > 0 => size > 0
      /\ size = asked \/ Offset(addr) + size = BlockSize
    BY <1>2, <1>5, SizeAtFits
<1>. HIDE DEF size
<1>7. size \in 0 .. MAX_REQUEST_SIZE /\ size <= numBytes /\ (numBytes > 0 => size > 0)
      /\ (size = MAX_REQUEST_SIZE \/ size = numBytes \/ Offset(addr) + size = BlockSize)
    BY <1>1, <1>2, <1>6, SizesAssumption, SMTT(20)
<1>8. addr = (curAdd + prev_req_size) % MemorySize
    BY DEF addr
<1>. QED BY <1>3, <1>4, <1>6, <1>7, <1>8

\* Every turn keeps the invariant.
LEMMA SplitKeepsInv ==
    ASSUME SplitInv, Split
    PROVE  SplitInv'
<1>. USE DEF SplitInv
<1>0. SplitTypeOK
    OBVIOUS
<1>1. PICK addr \in 0 .. (MemorySize - 1), size \in 0 .. MAX_REQUEST_SIZE :
               /\ addr = (curAdd + prev_req_size) % MemorySize
               /\ curAdd' = addr /\ prev_req_size' = size
               /\ requests' = Append(requests, [addr |-> addr, numBytes |-> size])
               /\ numBytes' = numBytes - size
               /\ done' = (numBytes' = 0)
               /\ range' = range
               /\ size <= numBytes
               /\ Offset(addr) + size <= BlockSize
               /\ numBytes > 0 => size > 0
               /\ size = MAX_REQUEST_SIZE \/ size = numBytes \/ Offset(addr) + size = BlockSize
    BY <1>0, SplitStep
<1>2. numBytes \in Nat /\ numBytes < Word /\ numBytes' \in 0 .. (Word - 1) /\ numBytes' <= numBytes
    BY <1>0, <1>1, SizesAssumption, SMTT(20) DEF SplitTypeOK
<1>3. requests \in Seq(Requests) /\ [addr |-> addr, numBytes |-> size] \in Requests
    BY <1>0, <1>1 DEF SplitTypeOK, Requests
<1>4. SplitTypeOK'
    BY <1>0, <1>1, <1>2, <1>3, SMTT(20) DEF SplitTypeOK, Requests
<1>5. Length(range)' = Length(range) /\ Length(range) \in Nat
    BY <1>0, <1>1, LengthType, SMTT(20) DEF SplitTypeOK
<1>6. NextByte'
    <2>. DEFINE n == Length(range)
    <2>1. range.start \in Nat /\ n - numBytes \in Nat /\ curAdd + prev_req_size \in Nat
        BY <1>0, <1>2, <1>5, SizesAssumption, SMTT(20) DEF SplitTypeOK, Ranges
    <2>2. addr = (range.start + (n - numBytes)) % MemorySize
        BY <1>1 DEF NextByte
    <2>3. (addr + size) % MemorySize = ((range.start + (n - numBytes)) + size) % MemorySize
        <3>. DEFINE a == range.start + (n - numBytes)
        <3>1. a \in Nat /\ size \in Nat /\ MemorySize \in Nat \ {0}
            BY <2>1, SizesAssumption, SMTT(20)
        <3>. HIDE DEF a
        <3>2. ((a % MemorySize) + size) % MemorySize = (a + size) % MemorySize
            BY <3>1, ModAdd
        <3>. QED BY <3>2, <2>2 DEF a
    <2>4. (range.start + (n - numBytes)) + size = range.start + (n - numBytes')
        <3>1. PICK a \in Nat, m \in Nat, b \in Nat, c \in Nat :
                  a = range.start /\ m = n /\ b = numBytes /\ c = size
            BY <1>2, <1>5, <2>1, SMTT(20)
        <3>2. numBytes' = b - c
            BY <1>1, <3>1
        <3>3. (a + (m - b)) + c = a + (m - (b - c))
            BY SMTT(20)
        <3>. HIDE DEF n
        <3>. QED BY <3>1, <3>2, <3>3
    <2>. QED BY <2>3, <2>4, <1>1, <1>5 DEF NextByte
<1>7. /\ Len(requests') = Len(requests) + 1 /\ Len(requests) \in Nat
      /\ \A i \in 1 .. Len(requests) : requests'[i] = requests[i]
      /\ requests'[Len(requests) + 1] = [addr |-> addr, numBytes |-> size]
    BY <1>1, <1>3, SMTT(20)
<1>8. RequestsFitALine'
    BY <1>1, <1>7, SMTT(20) DEF RequestsFitALine, Offset
<1>9. RequestsAreFull'
    <2>1. ASSUME NEW i \in 1 .. Len(requests)
          PROVE  requests[i].numBytes = MAX_REQUEST_SIZE \/ Offset(requests[i].addr) + requests[i].numBytes = BlockSize
        <3>1. ~done
            BY DEF Split
        <3>2. requests # << >>
            BY <1>3, SMTT(20)
        <3>. QED BY <3>1, <3>2, <1>2, SMTT(20) DEF RequestsAreFull
    <2>2. size = MAX_REQUEST_SIZE \/ Offset(addr) + size = BlockSize \/ numBytes' = 0
        BY <1>1, <1>2, SMTT(20)
    <2>. QED BY <2>1, <2>2, <1>7, SMTT(20) DEF RequestsAreFull, Offset
<1>10. ~done' => numBytes' > 0
    <2>1. done' <=> numBytes' = 0
        BY <1>1
    <2>. QED BY <2>1, <1>2, SMTT(20)
<1>. QED BY <1>2, <1>4, <1>5, <1>6, <1>8, <1>9, <1>10, SMTT(20)

-----------------------------------------------------------------------------
(* The line as a whole. *)

\* An event of a line.
Events ==
    [type : {"COMPUTATION", "COMMUNICATION", "PTHREAD_API"},
     compIOPS : Nat, compFLOPS : Nat, compMem_reads : Nat, compMem_writes : Nat,
     reads : Seq(Requests), writes : Seq(Requests)]

\* An event is what createSubEvents needs.
LEMMA EventIsOK ==
    ASSUME NEW e \in Events
    PROVE  EventOK(e)
<1>1. e.reads \in Seq(Requests) /\ e.writes \in Seq(Requests)
    BY DEF Events
<1>2. Len(e.reads) \in Nat /\ Len(e.writes) \in Nat
    BY <1>1, LenProperties
<1>. QED BY <1>2 DEF Events, EventOK

\* A range that is not split yet.
Todo == [into : {"reads", "writes"}, range : Ranges]

\* Types, and the invariants of the loops.
LineInv ==
    /\ SplitInv /\ SubInv /\ event \in Events
    /\ into \in {"reads", "writes"}
    /\ todo \in Seq(Todo)

\* The ranges of a line, with the list that their requests go to.
LEMMA TaggedType ==
    ASSUME NEW name \in {"reads", "writes"}, NEW ranges \in Seq(Ranges)
    PROVE  Tagged(name, ranges) \in Seq(Todo)
<1>1. Len(ranges) \in Nat /\ \A i \in 1 .. Len(ranges) : ranges[i] \in Ranges
    BY SMTT(20)
<1>2. \A i \in 1 .. Len(ranges) : [into |-> name, range |-> ranges[i]] \in Todo
    BY <1>1 DEF Todo
<1>. QED BY <1>1, <1>2, SMTT(20) DEF Tagged

\* The invariant holds of a line that nothing was made of yet.
LEMMA LineInit == Init => LineInv
<1>. SUFFICES ASSUME Init PROVE LineInv
    OBVIOUS
<1>1. /\ line.writeRanges \in Seq(Ranges) /\ line.readRanges \in Seq(Ranges)
      /\ line.type \in {"COMPUTATION", "COMMUNICATION", "PTHREAD_API"}
      /\ line.compIOPS \in Nat /\ line.compFLOPS \in Nat
      /\ line.compMem_reads \in Nat /\ line.compMem_writes \in Nat
    BY LinesAssumption DEF Init
<1>2. todo \in Seq(Todo)
    <2>1. Tagged("writes", line.writeRanges) \in Seq(Todo) /\ Tagged("reads", line.readRanges) \in Seq(Todo)
        BY <1>1, TaggedType
    <2>. QED BY <2>1, SMTT(20) DEF Init
<1>3. SplitInv
    <2>1. /\ range = [start |-> 0, end |-> Word - 1] /\ numBytes = 0 /\ curAdd = 0 /\ prev_req_size = 0
          /\ requests = << >> /\ done = TRUE
        BY DEF Init, Idle
    <2>2. range \in Ranges /\ range.start = 0 /\ range.end = Word - 1
        BY <2>1, SizesAssumption, SMTT(20) DEF Ranges
    <2>3. Length(range) = 0
        <3>1. range.end - range.start + 1 = (1 * Word) + 0
            BY <2>2, SizesAssumption, SMTT(20)
        <3>2. ((1 * Word) + 0) % Word = 0
            BY ModUnique, SizesAssumption, SMTT(20)
        <3>. QED BY <3>1, <3>2 DEF Length
    <2>4. SplitTypeOK
        <3>1. requests \in Seq(Requests)
            BY <2>1, SMTT(20)
        <3>. QED BY <2>1, <2>2, <3>1, SizesAssumption, SMTT(20) DEF SplitTypeOK, Requests
    <2>5. NextByte
        BY <2>1, <2>2, <2>3, SizesAssumption, SMTT(20) DEF NextByte
    <2>6. Len(requests) = 0
        BY <2>1
    <2>. QED BY <2>1, <2>3, <2>4, <2>5, <2>6, SMTT(20) DEF SplitInv, RequestsFitALine, RequestsAreFull
<1>4. SubInv /\ event \in Events
    <2>1. event \in Events /\ event.compIOPS = line.compIOPS /\ event.compFLOPS = line.compFLOPS
        <3>1. << >> \in Seq(Requests)
            BY SMTT(20)
        <3>. QED BY <1>1, <3>1 DEF Init, Events
    <2>2. list = << >> /\ flip = "write" /\ iops = 0 /\ flops = 0 /\ pc = "parse"
        BY DEF Init, NotCreated
    <2>3. SubEventsTypeOK
        BY <1>1, <2>1, <2>2, SMTT(20) DEF SubEventsTypeOK
    <2>4. list \in Seq(SubEventRecords)
        BY <2>2, SMTT(20)
    <2>. QED BY <2>1, <2>2, <2>3, <2>4, EventIsOK DEF SubInv, TrapOnlyWithoutRange
<1>. QED BY <1>2, <1>3, <1>4 DEF LineInv, Init

\* The invariant of the loop depends on the loop's variables only.
LEMMA SplitFrame == SplitInv /\ UNCHANGED splitVars => SplitInv'
BY SMTT(20) DEF SplitInv, splitVars, SplitTypeOK, Length, NextByte, RequestsFitALine, RequestsAreFull, Offset

\* A request pushed to the event keeps the types; nothing is created yet.
LEMMA PushInv ==
    ASSUME SubInv, event \in Events, SplitInv, into \in {"reads", "writes"}, SplitRange
    PROVE  SubInv' /\ event' \in Events
<1>1. /\ pc = "parse" /\ pc' = pc /\ list' = list /\ flip' = flip /\ iops' = iops /\ flops' = flops
      /\ event' = [event EXCEPT ![into] = Append(@, requests'[Len(requests')])]
    BY DEF SplitRange
<1>2. requests'[Len(requests')] \in Requests
    <2>1. SplitTypeOK /\ Split
        BY DEF SplitInv, SplitRange
    <2>2. PICK addr \in 0 .. (MemorySize - 1), size \in 0 .. MAX_REQUEST_SIZE :
              requests' = Append(requests, [addr |-> addr, numBytes |-> size])
        BY <2>1, SplitStep
    <2>3. requests \in Seq(Requests) /\ [addr |-> addr, numBytes |-> size] \in Requests
        BY <2>1 DEF SplitTypeOK, Requests
    <2>. HIDE DEF Requests
    <2>. QED BY <2>2, <2>3, SMTT(20)
<1>3. event \in Events /\ SubEventsTypeOK /\ list = << >>
    BY <1>1 DEF SubInv
<1>4. event' \in Events /\ event'.compIOPS = event.compIOPS /\ event'.compFLOPS = event.compFLOPS
    <2>. DEFINE x == requests'[Len(requests')]
    <2>. HIDE DEF x
    <2>1. x \in Requests
        BY <1>2 DEF x
    <2>2. CASE into = "reads"
        <3>1. event' = [event EXCEPT !.reads = Append(@, x)]
            BY <1>1, <2>2 DEF x
        <3>2. Append(event.reads, x) \in Seq(Requests)
            BY <1>3, <2>1, SMTT(20) DEF Events
        <3>. QED BY <1>3, <3>1, <3>2 DEF Events
    <2>3. CASE into = "writes"
        <3>1. event' = [event EXCEPT !.writes = Append(@, x)]
            BY <1>1, <2>3 DEF x
        <3>2. Append(event.writes, x) \in Seq(Requests)
            BY <1>3, <2>1, SMTT(20) DEF Events
        <3>. QED BY <1>3, <3>1, <3>2 DEF Events
    <2>. QED BY <2>2, <2>3
<1>5. SubEventsTypeOK'
    BY <1>1, <1>3, <1>4, SMTT(20) DEF SubEventsTypeOK
<1>6. list' \in Seq(SubEventRecords)
    BY <1>1, <1>3, SMTT(20)
<1>. QED BY <1>1, <1>3, <1>4, <1>5, <1>6, EventIsOK DEF SubInv, TrapOnlyWithoutRange

\* Every step from the line to its sub-events keeps the invariant.
LEMMA LineNext == LineInv /\ [Next]_vars => LineInv'
<1>. SUFFICES ASSUME LineInv, [Next]_vars PROVE LineInv'
    OBVIOUS
<1>. USE DEF LineInv
<1>1. CASE NextRange
    <2>1. Head(todo) \in Todo /\ Tail(todo) \in Seq(Todo)
        BY <1>1, SMTT(20) DEF NextRange
    <2>2. Head(todo).range \in Ranges /\ Head(todo).into \in {"reads", "writes"}
        BY <2>1 DEF Todo
    <2>3. SplitInv'
        BY <1>1, <2>2, BeginInv DEF NextRange
    <2>. QED BY <1>1, <2>1, <2>2, <2>3, SubFrame DEF NextRange, subEventVars
<1>2. CASE SplitRange
    BY <1>2, SplitKeepsInv, PushInv DEF SplitRange
<1>3. CASE Queue
    <2>1. SubInv'
        BY <1>3 DEF Queue, SubInv, SubEventsTypeOK, TrapOnlyWithoutRange, NumReads, NumWrites
    <2>. QED BY <1>3, <2>1, SplitFrame DEF Queue
<1>4. CASE Create
    <2>1. event' = event
        BY <1>4 DEF Create, createSubEvents, CreatePthread, CreateComm, CreateComp, Insert,
                    DistributeIOPS, DistributeFLOPS, Created
    <2>. QED BY <1>4, <2>1, CreateInv, SplitFrame DEF Create
<1>5. CASE UNCHANGED vars
    BY <1>5, SplitFrame, SubFrame DEF vars, subEventVars
<1>. QED BY <1>1, <1>2, <1>3, <1>4, <1>5 DEF Next, Over

\* The invariant holds in every state.
THEOREM LineInvariant == Spec => []LineInv
BY LineInit, LineNext, PTL DEF Spec

\* Every variable keeps its type, numBytes never wraps below zero, and every
\* sub-event names a request of its event, for all constants and lines.
THEOREM LineTypeCorrect == Spec => []TypeOK
<1>1. LineInv => TypeOK
    <2>. SUFFICES ASSUME LineInv PROVE TypeOK
        OBVIOUS
    <2>1. \A i \in DOMAIN todo : todo[i] \in Todo
        BY SMTT(20) DEF LineInv
    <2>2. \A i \in DOMAIN todo : todo[i].range \in Ranges /\ todo[i].into \in {"reads", "writes"}
        BY <2>1 DEF Todo
    <2>. QED BY <2>2 DEF LineInv, SplitInv, SubInv, TypeOK
<1>. QED BY <1>1, LineInvariant, PTL

\* No request crosses a cache line, whatever the sizes and the range.
THEOREM RequestsFit == Spec => []RequestsFitALine
<1>1. LineInv => RequestsFitALine
    BY DEF LineInv, SplitInv
<1>. QED BY <1>1, LineInvariant, PTL

\* No byte of a range is skipped or requested twice.
THEOREM NoByteSkipped == Spec => []NextByte
<1>1. LineInv => NextByte
    BY DEF LineInv, SplitInv
<1>. QED BY <1>1, LineInvariant, PTL

\* A request is short only at the end of its line or of its range.
THEOREM FullRequests == Spec => []RequestsAreFull
<1>1. LineInv => RequestsAreFull
    BY DEF LineInv, SplitInv
<1>. QED BY <1>1, LineInvariant, PTL

\* createSubEvents divides by zero only for a line that counts accesses of a kind
\* and has no range of it.
THEOREM TrapCause == Spec => []TrapOnlyWithoutRange
<1>1. LineInv => TrapOnlyWithoutRange
    BY DEF LineInv, SubInv
<1>. QED BY <1>1, LineInvariant, PTL

\* Every turn of the splitting loop makes progress or is the last.
THEOREM TurnsAdvance == Spec => EveryTurnAdvances
<1>1. LineInv /\ [Next]_vars => [~done => (numBytes' < numBytes \/ done')]_splitVars
    <2>. SUFFICES ASSUME LineInv, [Next]_vars, ~done, splitVars' # splitVars
                  PROVE  numBytes' < numBytes \/ done'
        OBVIOUS
    <2>1. Split
        BY DEF Next, vars, NextRange, SplitRange, Queue, Create, Over
    <2>2. SplitTypeOK
        BY DEF LineInv, SplitInv
    <2>3. PICK size \in 0 .. MAX_REQUEST_SIZE :
              /\ numBytes' = numBytes - size /\ done' = (numBytes' = 0)
              /\ size <= numBytes /\ (numBytes > 0 => size > 0)
        BY <2>1, <2>2, SplitStep
    <2>4. numBytes \in Nat
        BY <2>2, SizesAssumption, SMTT(20) DEF SplitTypeOK
    <2>5. CASE numBytes > 0
        BY <2>3, <2>4, <2>5, SizesAssumption, SMTT(20)
    <2>6. CASE numBytes = 0
        <3>1. numBytes' = 0
            BY <2>3, <2>6, SizesAssumption, SMTT(20)
        <3>. QED BY <2>3, <3>1
    <2>. QED BY <2>4, <2>5, <2>6, SMTT(20)
<1>. QED BY <1>1, LineInvariant, PTL DEF Spec, EveryTurnAdvances

-----------------------------------------------------------------------------
(* Sequences of sequences of bytes. *)

Bytestrings == Seq(Nat)

\* c holds the concatenations of s up to each place.
Cats(s, c) ==
    /\ c \in [0 .. Len(s) -> Bytestrings] /\ c[0] = << >>
    /\ \A i \in 1 .. Len(s) : c[i] = c[i - 1] \o s[i]

\* Concatenation of bytestrings.
LEMMA CatFacts ==
    /\ << >> \in Bytestrings
    /\ \A s, t \in Bytestrings : s \o t \in Bytestrings
    /\ \A s \in Bytestrings : s \o << >> = s /\ << >> \o s = s
    /\ \A s, t, u \in Bytestrings : (s \o t) \o u = s \o (t \o u)
<1>1. << >> \in Bytestrings
    BY EmptySeq DEF Bytestrings
<1>2. \A s, t \in Bytestrings : s \o t \in Bytestrings
    BY ConcatProperties DEF Bytestrings
<1>3. \A s \in Bytestrings : s \o << >> = s /\ << >> \o s = s
    BY ConcatEmptySeq DEF Bytestrings
<1>4. \A s, t, u \in Bytestrings : (s \o t) \o u = s \o (t \o u)
    <2>. TAKE s, t, u \in Bytestrings
    <2>. QED BY ConcatAssociative, SMTT(20) DEF Bytestrings
<1>. QED BY <1>1, <1>2, <1>3, <1>4

\* The partial concatenations exist.
LEMMA CatsExist ==
    ASSUME NEW s \in Seq(Bytestrings)
    PROVE  \E c : Cats(s, c)
<1>. DEFINE n == Len(s)
            step == [i \in 1 .. n |-> [x \in Bytestrings |-> x \o s[i]]]
<1>0. n \in Nat /\ \A i \in 1 .. n : s[i] \in Bytestrings
    BY LenProperties, ElementOfSeq
<1>1. step \in [1 .. n -> [Bytestrings -> Bytestrings]] /\ << >> \in Bytestrings
    BY <1>0, CatFacts
<1>2. PICK c : Runs(n, Bytestrings, << >>, step, c)
    <2>. HIDE DEF step, n
    <2>. QED BY <1>0, <1>1, Recursion
<1>3. \A i \in 1 .. n : c[i - 1] \in Bytestrings
    <2>1. \A i \in 1 .. n : i - 1 \in 0 .. n
        BY <1>0, SMTT(20)
    <2>. QED BY <1>2, <2>1 DEF Runs
<1>4. \A i \in 1 .. n : c[i] = c[i - 1] \o s[i]
    BY <1>2, <1>3 DEF Runs
<1>. QED BY <1>2, <1>4 DEF Cats, Runs

\* Flatten gives the last of them.
LEMMA FlattenIsLast ==
    ASSUME NEW s \in Seq(Bytestrings), NEW c, Cats(s, c)
    PROVE  Flatten(s) = c[Len(s)]
<1>. DEFINE n == Len(s)
            Rec(f) == f = [i \in 0 .. n |-> IF i = 0 THEN << >> ELSE f[i - 1] \o s[i]]
            flat == CHOOSE f : Rec(f)
            G == {i \in Nat : i \in 0 .. n => flat[i] = c[i]}
<1>0. n \in Nat
    BY LenProperties
<1>1. /\ 0 \in Nat /\ 0 \in 0 .. n /\ n \in 0 .. n
      /\ \A i \in 1 .. n : i \in Nat /\ i # 0 /\ i \in 0 .. n /\ i - 1 \in 0 .. n
      /\ \A i \in 0 .. n : i # 0 => i \in 1 .. n
    BY <1>0, SMTT(20)
<1>2. Rec(c)
    <2>1. \A i \in 0 .. n : c[i] = IF i = 0 THEN << >> ELSE c[i - 1] \o s[i]
        BY <1>1 DEF Cats
    <2>. QED BY <2>1 DEF Cats
<1>3. Rec(flat)
    <2>. HIDE DEF Rec
    <2>. QED BY <1>2
<1>4. Flatten(s) = flat[n]
    BY DEF Flatten
<1>. HIDE DEF flat
<1>5. 0 \in G
    BY <1>1, <1>2, <1>3
<1>6. ASSUME NEW i \in 1 .. n, i - 1 \in G PROVE i \in G
    <2>1. flat[i - 1] = c[i - 1]
        BY <1>1, <1>6
    <2>2. flat[i] = flat[i - 1] \o s[i]
        BY <1>1, <1>3
    <2>3. c[i] = c[i - 1] \o s[i]
        BY <1>1, <1>2
    <2>. QED BY <1>1, <2>1, <2>2, <2>3
<1>7. \A i \in 0 .. n : i \in G
    <2>. HIDE DEF G
    <2>1. \A i \in 1 .. n : i - 1 \in G => i \in G
        BY <1>6
    <2>. HIDE DEF n
    <2>. QED BY <1>0, <1>5, <2>1, UpTo
<1>. QED BY <1>1, <1>4, <1>7

\* Flatten of bytestrings is a bytestring.
LEMMA FlattenType ==
    ASSUME NEW s \in Seq(Bytestrings)
    PROVE  Flatten(s) \in Bytestrings
<1>1. PICK c : Cats(s, c)
    BY CatsExist
<1>2. Len(s) \in 0 .. Len(s)
    <2>1. Len(s) \in Nat
        BY LenProperties
    <2>. QED BY <2>1, SMTT(20)
<1>. QED BY <1>1, <1>2, FlattenIsLast DEF Cats

\* It distributes over concatenation.
LEMMA FlattenCat ==
    ASSUME NEW s \in Seq(Bytestrings), NEW t \in Seq(Bytestrings)
    PROVE  Flatten(s \o t) = Flatten(s) \o Flatten(t)
<1>. DEFINE n == Len(s)
            m == Len(t)
            u == s \o t
<1>1. /\ n \in Nat /\ m \in Nat /\ u \in Seq(Bytestrings) /\ Len(u) = n + m
      /\ \A i \in 1 .. n : s[i] \in Bytestrings
      /\ \A i \in 1 .. m : t[i] \in Bytestrings
    BY LenProperties, ConcatProperties, ElementOfSeq
<1>2. /\ \A i \in 1 .. n : u[i] = s[i]
      /\ \A i \in 1 .. m : u[n + i] = t[i]
    <2>1. \A i \in 1 .. n + m : u[i] = IF i <= n THEN s[i] ELSE t[i - n]
        BY ConcatProperties
    <2>2. /\ \A i \in 1 .. n : i \in 1 .. n + m /\ i <= n
          /\ \A i \in 1 .. m : n + i \in 1 .. n + m /\ ~(n + i <= n) /\ (n + i) - n = i
        BY <1>1, SMTT(20)
    <2>. HIDE DEF n, m, u
    <2>. QED BY <2>1, <2>2
<1>3. PICK c : Cats(s, c)
    BY CatsExist
<1>4. PICK d : Cats(t, d)
    BY CatsExist
<1>5. PICK e : Cats(u, e)
    BY <1>1, CatsExist
<1>. DEFINE G == {i \in 0 .. n : e[i] = c[i]}
            H == {i \in 0 .. m : e[n + i] = c[n] \o d[i]}
<1>. HIDE DEF u, n, m
<1>6. /\ \A i \in 1 .. n : i \in 1 .. n + m /\ i \in 0 .. n /\ i - 1 \in 0 .. n
      /\ \A i \in 1 .. m : /\ n + i \in 1 .. n + m /\ i \in 0 .. m /\ i - 1 \in 0 .. m
                           /\ (n + i) - 1 = n + (i - 1)
      /\ 0 \in 0 .. n /\ 0 \in 0 .. m /\ n \in 0 .. n /\ m \in 0 .. m /\ n + 0 = n
    BY <1>1, SMTT(20)
<1>7. /\ c[n] \in Bytestrings /\ c[0] = << >> /\ d[0] = << >> /\ e[0] = << >>
      /\ \A i \in 0 .. m : d[i] \in Bytestrings
      /\ \A i \in 1 .. n : c[i] = c[i - 1] \o s[i]
      /\ \A i \in 1 .. m : d[i] = d[i - 1] \o t[i]
      /\ \A i \in 1 .. n + m : e[i] = e[i - 1] \o u[i]
    BY <1>1, <1>3, <1>4, <1>5, <1>6 DEF Cats, n, m
<1>8. \A i \in 0 .. n : i \in G
    <2>1. 0 \in G
        BY <1>6, <1>7
    <2>2. ASSUME NEW i \in 1 .. n, i - 1 \in G PROVE i \in G
        <3>1. e[i] = e[i - 1] \o s[i] /\ e[i - 1] = c[i - 1]
            BY <1>2, <1>6, <1>7, <2>2
        <3>. QED BY <3>1, <1>6, <1>7
    <2>. HIDE DEF G
    <2>. QED BY <1>1, <2>1, <2>2, UpTo
<1>9. \A i \in 0 .. m : i \in H
    <2>1. 0 \in H
        <3>1. e[n] = c[n] /\ c[n] \o << >> = c[n]
            BY <1>6, <1>7, <1>8, CatFacts
        <3>. QED BY <1>6, <1>7, <3>1
    <2>2. ASSUME NEW i \in 1 .. m, i - 1 \in H PROVE i \in H
        <3>1. e[n + i] = e[n + (i - 1)] \o t[i]
            BY <1>2, <1>6, <1>7
        <3>2. e[n + (i - 1)] = c[n] \o d[i - 1]
            BY <2>2
        <3>3. d[i - 1] \in Bytestrings /\ t[i] \in Bytestrings
            BY <1>1, <1>6, <1>7
        <3>4. (c[n] \o d[i - 1]) \o t[i] = c[n] \o (d[i - 1] \o t[i])
            BY <1>7, <3>3, CatFacts
        <3>. QED BY <1>6, <1>7, <3>1, <3>2, <3>4
    <2>. HIDE DEF H
    <2>. QED BY <1>1, <2>1, <2>2, UpTo
<1>10. e[n + m] = c[n] \o d[m]
    BY <1>6, <1>9
<1>11. Flatten(s) = c[n] /\ Flatten(t) = d[m] /\ Flatten(u) = e[n + m]
    BY <1>1, <1>3, <1>4, <1>5, FlattenIsLast DEF n, m
<1>. QED BY <1>10, <1>11 DEF u

\* The concatenation of empty bytestrings is empty.
LEMMA FlattenEmpty ==
    ASSUME NEW s \in Seq(Bytestrings), \A i \in 1 .. Len(s) : s[i] = << >>
    PROVE  Flatten(s) = << >>
<1>. DEFINE n == Len(s)
<1>1. n \in Nat
    BY LenProperties
<1>2. PICK c : Cats(s, c)
    BY CatsExist
<1>. DEFINE G == {i \in 0 .. n : c[i] = << >>}
<1>3. 0 \in 0 .. n /\ n \in 0 .. n /\ \A i \in 1 .. n : i \in 0 .. n
    BY <1>1, SMTT(20)
<1>4. 0 \in G
    BY <1>2, <1>3 DEF Cats
<1>5. ASSUME NEW i \in 1 .. n, i - 1 \in G PROVE i \in G
    <2>1. c[i] = << >> \o << >>
        BY <1>2, <1>5 DEF Cats
    <2>. QED BY <1>3, <2>1, CatFacts
<1>6. \A i \in 0 .. n : i \in G
    <2>. HIDE DEF G, n
    <2>. QED BY <1>1, <1>4, <1>5, UpTo
<1>. QED BY <1>2, <1>3, <1>6, FlattenIsLast

\* One bytestring is its own concatenation.
LEMMA FlattenOne ==
    ASSUME NEW x \in Bytestrings
    PROVE  <<x>> \in Seq(Bytestrings) /\ Flatten(<<x>>) = x
<1>1. <<x>> \in Seq(Bytestrings) /\ Len(<<x>>) = 1 /\ <<x>>[1] = x /\ 1 \in 1 .. 1 /\ 1 - 1 = 0
    <2>. HIDE DEF Bytestrings
    <2>. QED BY SMTT(20)
<1>2. PICK c : Cats(<<x>>, c)
    BY <1>1, CatsExist
<1>3. c[1] = << >> \o x
    BY <1>1, <1>2 DEF Cats
<1>. QED BY <1>1, <1>2, <1>3, CatFacts, FlattenIsLast

-----------------------------------------------------------------------------
(* The bytes of the line. *)

\* The bytes of the requests of a list, request by request.
RequestBytes(s) == [i \in 1 .. Len(s) |-> Bytes(s[i])]

\* Those of ranges.
RangesBytes(s) == [i \in 1 .. Len(s) |-> RangeBytes(s[i])]

\* The last k bytes of a range.
LastBytes(r, k) == [i \in 1 .. k |-> ((r.start + (Length(r) - k)) + (i - 1)) % MemorySize]

\* What is left of the range that is being split, for a list of the event.
Rest(name) == IF into = name THEN LastBytes(range, numBytes) ELSE << >>

\* What a range that is not split yet will add to a list of the event.
Adds(name, x) == IF x.into = name THEN RangeBytes(x.range) ELSE << >>

Due(name, t) == [i \in 1 .. Len(t) |-> Adds(name, t[i])]

\* The bytes requested so far, those left of the range and those of the ranges to
\* come are the bytes of the line.
Accounted(name, got, ranges) ==
    Flatten(RequestBytes(got)) \o (Rest(name) \o Flatten(Due(name, todo)))
        = Flatten(RangesBytes(ranges))

BytesInv ==
    /\ line \in Lines
    /\ done => numBytes = 0
    /\ pc # "parse" => done /\ todo = << >>
    /\ Accounted("reads", event.reads, line.readRanges)
    /\ Accounted("writes", event.writes, line.writeRanges)

\* A function on 1 .. n into bytestrings is a sequence of them.
LEMMA IsBytestring ==
    ASSUME NEW n \in Nat, NEW f, f = [i \in 1 .. n |-> f[i]], NEW S, \A i \in 1 .. n : f[i] \in S
    PROVE  f \in Seq(S) /\ Len(f) = n
<1>1. f \in [1 .. n -> S]
    OBVIOUS
<1>. QED BY <1>1, SMTT(20)

\* The bytes of a request.
LEMMA BytesType ==
    ASSUME NEW r \in Requests
    PROVE  Bytes(r) \in Bytestrings /\ Len(Bytes(r)) = r.numBytes /\ r.numBytes \in Nat
<1>1. r.addr \in Nat /\ r.numBytes \in Nat
    BY SizesAssumption, SMTT(20) DEF Requests
<1>2. \A i \in 1 .. r.numBytes : r.addr + i - 1 \in Nat
    BY <1>1, SMTT(20)
<1>3. Bytes(r) = [i \in 1 .. r.numBytes |-> Bytes(r)[i]] /\ \A i \in 1 .. r.numBytes : Bytes(r)[i] \in Nat
    BY <1>2 DEF Bytes
<1>. QED BY <1>1, <1>3, IsBytestring DEF Bytestrings

\* The bytes of the end of a range.
LEMMA LastBytesType ==
    ASSUME NEW r \in Ranges, NEW k \in 0 .. Length(r)
    PROVE  LastBytes(r, k) \in Bytestrings /\ Len(LastBytes(r, k)) = k
<1>1. r.start \in Nat /\ Length(r) \in Nat /\ k \in Nat
    <2>1. Length(r) \in 0 .. (Word - 1)
        BY LengthType
    <2>. QED BY <2>1, SizesAssumption, SMTT(20) DEF Ranges
<1>2. ASSUME NEW i \in 1 .. k
      PROVE  ((r.start + (Length(r) - k)) + (i - 1)) % MemorySize \in Nat
    <2>. DEFINE a == (r.start + (Length(r) - k)) + (i - 1)
    <2>1. a \in Nat
        <3>1. PICK x \in Nat, y \in Nat : x = r.start /\ y = Length(r)
            BY <1>1
        <3>2. (x + (y - k)) + (i - 1) \in Nat
            BY <1>1, <3>1, SMTT(20)
        <3>. QED BY <3>1, <3>2
    <2>. HIDE DEF a
    <2>2. a % MemorySize \in 0 .. (MemorySize - 1)
        BY <2>1, DivMod, SizesAssumption
    <2>3. a % MemorySize \in Nat
        BY <2>2, SizesAssumption, SMTT(20)
    <2>. QED BY <2>3 DEF a
<1>3. /\ LastBytes(r, k) = [i \in 1 .. k |-> LastBytes(r, k)[i]]
      /\ \A i \in 1 .. k : LastBytes(r, k)[i] \in Nat
    BY <1>2 DEF LastBytes
<1>. QED BY <1>1, <1>3, IsBytestring DEF Bytestrings

\* All of a range is its last bytes.
LEMMA RangeIsLastBytes ==
    ASSUME NEW r \in Ranges
    PROVE  RangeBytes(r) = LastBytes(r, Length(r)) /\ RangeBytes(r) \in Bytestrings
<1>1. r.start \in Nat /\ Length(r) \in Nat
    <2>1. Length(r) \in 0 .. (Word - 1)
        BY LengthType
    <2>. QED BY <2>1, SizesAssumption, SMTT(20) DEF Ranges
<1>2. ASSUME NEW i \in 1 .. Length(r)
      PROVE  r.start + i - 1 = (r.start + (Length(r) - Length(r))) + (i - 1)
    <2>1. PICK x \in Nat, y \in Nat : x = r.start /\ y = Length(r)
        BY <1>1
    <2>2. x + i - 1 = (x + (y - y)) + (i - 1)
        BY <2>1, SMTT(20)
    <2>. QED BY <2>1, <2>2
<1>3. Length(r) \in 0 .. Length(r)
    BY <1>1, SMTT(20)
<1>4. RangeBytes(r) = LastBytes(r, Length(r))
    BY <1>2 DEF RangeBytes, LastBytes
<1>. QED BY <1>3, <1>4, LastBytesType

\* A request that stays in its line stays in the memory.
LEMMA RequestInMemory ==
    ASSUME NEW addr \in 0 .. (MemorySize - 1), NEW size \in Nat, Offset(addr) + size <= BlockSize
    PROVE  addr + size <= MemorySize
<1>. DEFINE k == MemorySize \div BlockSize
            q == addr \div BlockSize
            o == addr % BlockSize
<1>1. k \in Nat /\ MemorySize = (k * BlockSize) + 0
    BY SizesAssumption, DivMod
<1>2. q \in Nat /\ o \in Nat /\ addr = (q * BlockSize) + o /\ o + size <= BlockSize
    <2>1. addr \in Nat /\ BlockSize \in Nat \ {0}
        BY SizesAssumption, SMTT(20)
    <2>2. q \in Nat /\ o \in 0 .. (BlockSize - 1) /\ addr = (q * BlockSize) + o
        BY <2>1, DivMod
    <2>3. o \in Nat
        BY <2>1, <2>2, SMTT(20)
    <2>. QED BY <2>2, <2>3 DEF Offset
<1>. HIDE DEF k, q, o
<1>3. q < k
    BY <1>1, <1>2, SizesAssumption, SMTT(20)
<1>4. (q + 1) * BlockSize <= k * BlockSize /\ (q + 1) * BlockSize = (q * BlockSize) + BlockSize
    BY <1>1, <1>2, <1>3, SizesAssumption, SMTT(20)
<1>. QED BY <1>1, <1>2, <1>4, SizesAssumption, SMTT(20)

\* A turn of the loop requests the next bytes of the range.
LEMMA TurnBytes ==
    ASSUME NEW r \in Ranges, NEW k \in 0 .. Length(r),
           NEW addr \in 0 .. (MemorySize - 1), NEW size \in 0 .. MAX_REQUEST_SIZE,
           size <= k, addr = (r.start + (Length(r) - k)) % MemorySize,
           Offset(addr) + size <= BlockSize
    PROVE  LastBytes(r, k) = Bytes([addr |-> addr, numBytes |-> size]) \o LastBytes(r, k - size)
<1>. DEFINE req == [addr |-> addr, numBytes |-> size]
            b == Bytes(req)
            x == LastBytes(r, k)
            y == LastBytes(r, k - size)
<1>1. r.start \in Nat /\ Length(r) \in Nat /\ k \in Nat /\ size \in Nat
    <2>1. Length(r) \in 0 .. (Word - 1)
        BY LengthType
    <2>. QED BY <2>1, SizesAssumption, SMTT(20) DEF Ranges
<1>2. x \in Bytestrings /\ Len(x) = k
    BY LastBytesType
<1>3. k - size \in 0 .. Length(r)
    BY <1>1, SMTT(20)
<1>4. y \in Bytestrings /\ Len(y) = k - size
    BY <1>3, LastBytesType
<1>5. b \in Bytestrings /\ Len(b) = size
    <2>1. req \in Requests /\ req.numBytes = size
        BY DEF Requests
    <2>. QED BY <2>1, BytesType
<1>6. /\ b \o y \in Bytestrings /\ Len(b \o y) = size + (k - size)
      /\ \A i \in 1 .. size + (k - size) : (b \o y)[i] = IF i <= size THEN b[i] ELSE y[i - size]
    <2>. HIDE DEF b, y
    <2>1. /\ b \o y \in Seq(Nat) /\ Len(b \o y) = Len(b) + Len(y)
          /\ \A i \in 1 .. Len(b) + Len(y) : (b \o y)[i] = IF i <= Len(b) THEN b[i] ELSE y[i - Len(b)]
        BY <1>4, <1>5, ConcatProperties DEF Bytestrings
    <2>. QED BY <1>4, <1>5, <2>1 DEF Bytestrings
<1>7. size + (k - size) = k
    BY <1>1, SMTT(20)
<1>8. ASSUME NEW i \in 1 .. k PROVE x[i] = (b \o y)[i]
    <2>. DEFINE a == r.start + (Length(r) - k)
    <2>0. a \in Nat
        <3>1. PICK u \in Nat, v \in Nat : u = r.start /\ v = Length(r)
            BY <1>1
        <3>2. u + (v - k) \in Nat
            BY <1>1, <3>1, SMTT(20)
        <3>. QED BY <3>1, <3>2
    <2>1. x[i] = (a + (i - 1)) % MemorySize
        BY DEF LastBytes
    <2>2. CASE i <= size
        <3>1. i \in 1 .. size /\ i - 1 \in Nat
            BY <1>1, <2>2, SMTT(20)
        <3>2. b[i] = addr + i - 1
            BY <3>1 DEF Bytes
        <3>3. (a + (i - 1)) % MemorySize = ((a % MemorySize) + (i - 1)) % MemorySize
            <4>. HIDE DEF a
            <4>. QED BY <2>0, <3>1, ModAdd, SizesAssumption
        <3>4. addr + size <= MemorySize
            BY <1>1, RequestInMemory
        <3>5. addr + (i - 1) \in 0 .. (MemorySize - 1) /\ addr + (i - 1) = addr + i - 1
            BY <1>1, <3>1, <3>4, SizesAssumption, SMTT(20)
        <3>6. (addr + (i - 1)) % MemorySize = addr + (i - 1)
            <4>1. (addr + (i - 1)) + 0 = addr + (i - 1)
                BY <3>5, SizesAssumption, SMTT(20)
            <4>. QED BY <3>5, <4>1, ModSmall, SizesAssumption
        <3>. QED BY <1>6, <1>7, <2>1, <2>2, <3>2, <3>3, <3>5, <3>6
    <2>3. CASE ~(i <= size)
        <3>1. i - size \in 1 .. k - size
            BY <1>1, <2>3, SMTT(20)
        <3>2. y[i - size] = ((r.start + (Length(r) - (k - size))) + ((i - size) - 1)) % MemorySize
            BY <3>1 DEF LastBytes
        <3>3. (r.start + (Length(r) - (k - size))) + ((i - size) - 1) = a + (i - 1)
            <4>1. PICK u \in Nat, v \in Nat : u = r.start /\ v = Length(r)
                BY <1>1
            <4>2. (u + (v - (k - size))) + ((i - size) - 1) = (u + (v - k)) + (i - 1)
                BY <1>1, SMTT(20)
            <4>. QED BY <4>1, <4>2
        <3>. QED BY <1>6, <1>7, <2>1, <2>3, <3>2, <3>3
    <2>. QED BY <2>2, <2>3
<1>. HIDE DEF b, x, y
<1>9. x = b \o y
    BY <1>2, <1>6, <1>7, <1>8, SeqEqual DEF Bytestrings
<1>. QED BY <1>9 DEF b, x, y

\* The bytes of a list of requests, one request longer.
LEMMA RequestBytesGrow ==
    ASSUME NEW s \in Seq(Requests), NEW r \in Requests
    PROVE  /\ RequestBytes(s) \in Seq(Bytestrings)
           /\ Flatten(RequestBytes(Append(s, r))) = Flatten(RequestBytes(s)) \o Bytes(r)
<1>. DEFINE n == Len(s)
            t == Append(s, r)
            x == RequestBytes(s)
            y == RequestBytes(t)
            b == Bytes(r)
<1>1. /\ n \in Nat /\ t \in Seq(Requests) /\ Len(t) = n + 1 /\ t[n + 1] = r
      /\ \A i \in 1 .. n : t[i] = s[i] /\ s[i] \in Requests
    <2>1. n \in Nat /\ \A i \in 1 .. n : s[i] \in Requests
        BY LenProperties, ElementOfSeq
    <2>2. t \in Seq(Requests) /\ Len(t) = n + 1 /\ t[n + 1] = r /\ \A i \in 1 .. n : t[i] = s[i]
        <3>. HIDE DEF Requests
        <3>. QED BY SMTT(20)
    <2>. QED BY <2>1, <2>2
<1>2. b \in Bytestrings
    BY BytesType
<1>3. x \in Seq(Bytestrings) /\ Len(x) = n
    <2>1. x = [i \in 1 .. n |-> x[i]] /\ \A i \in 1 .. n : x[i] \in Bytestrings
        BY <1>1, BytesType DEF RequestBytes
    <2>. HIDE DEF x, n
    <2>. QED BY <1>1, <2>1, IsBytestring
<1>4. <<b>> \in Seq(Bytestrings) /\ Flatten(<<b>>) = b /\ Len(<<b>>) = 1 /\ <<b>>[1] = b
    <2>1. Len(<<b>>) = 1 /\ <<b>>[1] = b
        BY SMTT(20)
    <2>. HIDE DEF b
    <2>. QED BY <1>2, <2>1, FlattenOne
<1>5. y = x \o <<b>>
    <2>1. ASSUME NEW i \in 1 .. n + 1 PROVE y[i] = (x \o <<b>>)[i] /\ y[i] \in Bytestrings
        <3>1. (x \o <<b>>)[i] = IF i <= n THEN x[i] ELSE <<b>>[i - n]
            <4>1. \A j \in 1 .. Len(x) + Len(<<b>>) : (x \o <<b>>)[j] = IF j <= Len(x) THEN x[j] ELSE <<b>>[j - Len(x)]
                <5>. HIDE DEF x, b, n
                <5>. QED BY <1>3, <1>4, ConcatProperties
            <4>. HIDE DEF x, b, n
            <4>. QED BY <1>3, <1>4, <4>1
        <3>2. i <= n => i \in 1 .. n
            BY <1>1, SMTT(20)
        <3>3. ~(i <= n) => i = n + 1 /\ i - n = 1
            BY <1>1, SMTT(20)
        <3>4. i <= n => x[i] = y[i] /\ x[i] \in Bytestrings
            <4>1. i <= n => x[i] = y[i]
                BY <1>1, <3>2 DEF RequestBytes
            <4>. HIDE DEF x, n
            <4>. QED BY <1>3, <3>2, <4>1, ElementOfSeq
        <3>5. ~(i <= n) => y[i] = b
            BY <1>1, <3>3 DEF RequestBytes
        <3>. HIDE DEF x, y, b, n
        <3>. QED BY <1>2, <1>4, <3>1, <3>3, <3>4, <3>5
    <2>2. y \in Seq(Bytestrings) /\ Len(y) = n + 1
        <3>1. y = [i \in 1 .. n + 1 |-> y[i]] /\ n + 1 \in Nat
            BY <1>1, SMTT(20) DEF RequestBytes
        <3>. HIDE DEF y, n
        <3>. QED BY <2>1, <3>1, IsBytestring
    <2>3. x \o <<b>> \in Seq(Bytestrings) /\ Len(x \o <<b>>) = n + 1
        <3>. HIDE DEF x, b, n
        <3>1. x \o <<b>> \in Seq(Bytestrings) /\ Len(x \o <<b>>) = Len(x) + Len(<<b>>)
            BY <1>3, <1>4, ConcatProperties
        <3>. QED BY <1>3, <1>4, <3>1
    <2>. HIDE DEF x, y, b, n
    <2>. QED BY <2>1, <2>2, <2>3, SeqEqual
<1>6. Flatten(x \o <<b>>) = Flatten(x) \o Flatten(<<b>>)
    <2>. HIDE DEF x, b
    <2>. QED BY <1>3, <1>4, FlattenCat
<1>. HIDE DEF x, y, b
<1>7. Flatten(y) = Flatten(x) \o b
    BY <1>4, <1>5, <1>6
<1>. QED BY <1>3, <1>7 DEF x, y, b, t

\* What ranges that are not split yet will add.
LEMMA DueType ==
    ASSUME NEW name, NEW t \in Seq(Todo)
    PROVE  /\ Due(name, t) \in Seq(Bytestrings) /\ Len(Due(name, t)) = Len(t)
           /\ \A i \in 1 .. Len(t) : Due(name, t)[i] = Adds(name, t[i]) /\ t[i].range \in Ranges
<1>1. Len(t) \in Nat /\ \A i \in 1 .. Len(t) : t[i] \in Todo
    BY LenProperties, ElementOfSeq
<1>2. \A i \in 1 .. Len(t) : t[i].range \in Ranges
    BY <1>1 DEF Todo
<1>3. \A i \in 1 .. Len(t) : Adds(name, t[i]) \in Bytestrings
    BY <1>2, RangeIsLastBytes, CatFacts DEF Adds
<1>4. /\ Due(name, t) = [i \in 1 .. Len(t) |-> Due(name, t)[i]]
      /\ \A i \in 1 .. Len(t) : Due(name, t)[i] = Adds(name, t[i])
    BY DEF Due
<1>. QED BY <1>1, <1>2, <1>3, <1>4, IsBytestring

\* Ranges to come add their bytes one after the other.
LEMMA DueCat ==
    ASSUME NEW name, NEW s \in Seq(Todo), NEW t \in Seq(Todo)
    PROVE  Flatten(Due(name, s \o t)) = Flatten(Due(name, s)) \o Flatten(Due(name, t))
<1>. DEFINE u == s \o t
            x == Due(name, s)
            y == Due(name, t)
            z == Due(name, u)
<1>1. /\ u \in Seq(Todo) /\ Len(u) = Len(s) + Len(t) /\ Len(s) \in Nat /\ Len(t) \in Nat
      /\ \A i \in 1 .. Len(s) + Len(t) : u[i] = IF i <= Len(s) THEN s[i] ELSE t[i - Len(s)]
    BY LenProperties, ConcatProperties
<1>. HIDE DEF u
<1>2. /\ x \in Seq(Bytestrings) /\ Len(x) = Len(s) /\ \A i \in 1 .. Len(s) : x[i] = Adds(name, s[i])
      /\ y \in Seq(Bytestrings) /\ Len(y) = Len(t) /\ \A i \in 1 .. Len(t) : y[i] = Adds(name, t[i])
      /\ z \in Seq(Bytestrings) /\ Len(z) = Len(s) + Len(t)
      /\ \A i \in 1 .. Len(s) + Len(t) : z[i] = Adds(name, u[i])
    BY <1>1, DueType
<1>. HIDE DEF x, y, z
<1>3. /\ x \o y \in Seq(Bytestrings) /\ Len(x \o y) = Len(s) + Len(t)
      /\ \A i \in 1 .. Len(s) + Len(t) : (x \o y)[i] = IF i <= Len(s) THEN x[i] ELSE y[i - Len(s)]
    <2>1. /\ x \o y \in Seq(Bytestrings) /\ Len(x \o y) = Len(x) + Len(y)
          /\ \A i \in 1 .. Len(x) + Len(y) : (x \o y)[i] = IF i <= Len(x) THEN x[i] ELSE y[i - Len(x)]
        <3>1. x \in Seq(Bytestrings) /\ y \in Seq(Bytestrings)
            BY <1>2
        <3>. QED BY <3>1, ConcatProperties
    <2>. QED BY <1>2, <2>1
<1>4. ASSUME NEW i \in 1 .. Len(s) + Len(t) PROVE z[i] = (x \o y)[i]
    <2>1. (i <= Len(s) => i \in 1 .. Len(s)) /\ (~(i <= Len(s)) => i - Len(s) \in 1 .. Len(t))
        BY <1>1, SMTT(20)
    <2>. QED BY <1>1, <1>2, <1>3, <2>1
<1>5. z = x \o y
    BY <1>2, <1>3, <1>4, SeqEqual
<1>6. Flatten(x \o y) = Flatten(x) \o Flatten(y)
    BY <1>2, FlattenCat
<1>. QED BY <1>5, <1>6 DEF x, y, z, u

\* The ranges of a line, when none is split yet.
LEMMA DueTagged ==
    ASSUME NEW tag \in {"reads", "writes"}, NEW name, NEW ranges \in Seq(Ranges)
    PROVE  Flatten(Due(name, Tagged(tag, ranges)))
               = IF tag = name THEN Flatten(RangesBytes(ranges)) ELSE << >>
<1>. DEFINE t == Tagged(tag, ranges)
<1>1. t \in Seq(Todo)
    BY TaggedType
<1>2. Len(ranges) \in Nat /\ Len(t) = Len(ranges)
    <2>1. Len(ranges) \in Nat
        BY LenProperties
    <2>. QED BY <2>1, SMTT(20) DEF Tagged
<1>3. \A i \in 1 .. Len(ranges) : t[i].into = tag /\ t[i].range = ranges[i]
    BY DEF Tagged
<1>. HIDE DEF t
<1>4. CASE tag = name
    <2>1. Due(name, t) = RangesBytes(ranges)
        BY <1>2, <1>3, <1>4 DEF Due, Adds, RangesBytes
    <2>. QED BY <1>4, <2>1 DEF t
<1>5. CASE tag # name
    <2>1. \A i \in 1 .. Len(Due(name, t)) : Due(name, t)[i] = << >>
        <3>1. Len(Due(name, t)) = Len(ranges) /\ \A i \in 1 .. Len(ranges) : Due(name, t)[i] = Adds(name, t[i])
            BY <1>1, <1>2, DueType
        <3>. QED BY <1>3, <1>5, <3>1 DEF Adds
    <2>. QED BY <1>1, <1>5, <2>1, DueType, FlattenEmpty DEF t
<1>. QED BY <1>4, <1>5

\* The next range moves from what is to come to what is left.
LEMMA DueNext ==
    ASSUME NEW name, NEW t \in Seq(Todo), t # << >>
    PROVE  /\ Head(t) \in Todo /\ Tail(t) \in Seq(Todo) /\ Head(t).range \in Ranges
           /\ Adds(name, Head(t)) \in Bytestrings
           /\ Flatten(Due(name, t)) = Adds(name, Head(t)) \o Flatten(Due(name, Tail(t)))
<1>. DEFINE h == Head(t)
<1>1. h \in Todo /\ Tail(t) \in Seq(Todo)
    BY HeadTailProperties
<1>2. t = <<h>> \o Tail(t)
    BY <1>1, SMTT(20)
<1>3. h.range \in Ranges
    BY <1>1 DEF Todo
<1>. HIDE DEF h
<1>4. <<h>> \in Seq(Todo) /\ Len(<<h>>) = 1 /\ <<h>>[1] = h /\ 1 .. 1 = {1}
    <2>. HIDE DEF Todo
    <2>. QED BY <1>1, SMTT(20)
<1>5. Adds(name, h) \in Bytestrings
    BY <1>3, RangeIsLastBytes, CatFacts DEF Adds
<1>6. Due(name, <<h>>) = <<Adds(name, h)>>
    <2>1. Due(name, <<h>>) = [i \in 1 .. 1 |-> Adds(name, h)]
        BY <1>4 DEF Due
    <2>. QED BY <2>1, SMTT(20)
<1>7. Flatten(Due(name, <<h>>)) = Adds(name, h)
    BY <1>5, <1>6, FlattenOne
<1>8. Flatten(Due(name, <<h>> \o Tail(t))) = Flatten(Due(name, <<h>>)) \o Flatten(Due(name, Tail(t)))
    BY <1>1, <1>4, DueCat
<1>. QED BY <1>1, <1>2, <1>3, <1>5, <1>7, <1>8 DEF h

\* What is left and what is to come are bytestrings.
LEMMA RestType ==
    ASSUME LineInv, NEW name
    PROVE  /\ Rest(name) \in Bytestrings /\ (numBytes = 0 => Rest(name) = << >>)
           /\ Flatten(Due(name, todo)) \in Bytestrings
<1>1. range \in Ranges /\ numBytes \in Nat /\ numBytes <= Length(range) /\ Length(range) \in Nat
    <2>1. range \in Ranges /\ numBytes \in 0 .. (Word - 1) /\ numBytes <= Length(range)
        BY DEF LineInv, SplitInv, SplitTypeOK
    <2>2. Length(range) \in 0 .. (Word - 1)
        BY <2>1, LengthType
    <2>. QED BY <2>1, <2>2, SizesAssumption, SMTT(20)
<1>2. numBytes \in 0 .. Length(range)
    BY <1>1, SMTT(20)
<1>3. LastBytes(range, numBytes) \in Bytestrings /\ Len(LastBytes(range, numBytes)) = numBytes
    BY <1>1, <1>2, LastBytesType
<1>4. numBytes = 0 => LastBytes(range, numBytes) = << >>
    BY <1>3, EmptySeq DEF Bytestrings
<1>5. todo \in Seq(Todo)
    BY DEF LineInv
<1>6. Flatten(Due(name, todo)) \in Bytestrings
    BY <1>5, DueType, FlattenType
<1>. QED BY <1>3, <1>4, <1>6, CatFacts DEF Rest

\* The next range of the line.
LEMMA NextRangeBytes ==
    ASSUME LineInv, BytesInv, NextRange, NEW name
    PROVE  /\ Rest(name) = << >>
           /\ Rest(name)' \o Flatten(Due(name, todo')) = Flatten(Due(name, todo))
<1>1. Rest(name) = << >>
    BY RestType DEF BytesInv, NextRange
<1>2. todo \in Seq(Todo) /\ todo # << >>
    BY DEF LineInv, NextRange
<1>3. /\ Head(todo).range \in Ranges
      /\ Flatten(Due(name, todo)) = Adds(name, Head(todo)) \o Flatten(Due(name, Tail(todo)))
    BY <1>2, DueNext
<1>4. /\ into' = Head(todo).into /\ range' = Head(todo).range /\ todo' = Tail(todo)
      /\ numBytes' = Length(Head(todo).range)
    BY DEF NextRange, Begin
<1>5. RangeBytes(Head(todo).range) = LastBytes(Head(todo).range, Length(Head(todo).range))
    BY <1>3, RangeIsLastBytes
<1>6. Rest(name)' = Adds(name, Head(todo))
    BY <1>4, <1>5 DEF Rest, Adds, LastBytes, Length
<1>. QED BY <1>1, <1>3, <1>4, <1>6

\* A turn of the loop.
LEMMA SplitRangeBytes ==
    ASSUME LineInv, SplitRange
    PROVE  \E r \in Requests :
               /\ event' = [event EXCEPT ![into] = Append(@, r)]
               /\ LastBytes(range, numBytes) = Bytes(r) \o LastBytes(range', numBytes')
               /\ LastBytes(range', numBytes') \in Bytestrings
<1>1. SplitTypeOK /\ Split /\ NextByte /\ range \in Ranges /\ numBytes <= Length(range)
    BY DEF LineInv, SplitInv, SplitTypeOK, SplitRange
<1>2. PICK addr \in 0 .. (MemorySize - 1), size \in 0 .. MAX_REQUEST_SIZE :
               /\ addr = (curAdd + prev_req_size) % MemorySize
               /\ requests' = Append(requests, [addr |-> addr, numBytes |-> size])
               /\ numBytes' = numBytes - size
               /\ range' = range
               /\ size <= numBytes
               /\ Offset(addr) + size <= BlockSize
    BY <1>1, SplitStep
<1>. DEFINE r == [addr |-> addr, numBytes |-> size]
<1>3. r \in Requests
    BY DEF Requests
<1>4. requests'[Len(requests')] = r
    <2>1. requests \in Seq(Requests)
        BY <1>1 DEF SplitTypeOK, Requests
    <2>. HIDE DEF r, Requests
    <2>. QED BY <1>2, <1>3, <2>1, SMTT(20) DEF r
<1>5. numBytes \in 0 .. Length(range)
    <2>1. numBytes \in 0 .. (Word - 1)
        BY <1>1 DEF SplitTypeOK
    <2>2. Length(range) \in 0 .. (Word - 1)
        BY <1>1, LengthType
    <2>. QED BY <1>1, <2>1, <2>2, SizesAssumption, SMTT(20)
<1>6. addr = (range.start + (Length(range) - numBytes)) % MemorySize
    BY <1>1, <1>2 DEF NextByte
<1>7. LastBytes(range, numBytes) = Bytes(r) \o LastBytes(range, numBytes - size)
    BY <1>1, <1>2, <1>5, <1>6, TurnBytes
<1>8. event' = [event EXCEPT ![into] = Append(@, r)]
    <2>. HIDE DEF r
    <2>. QED BY <1>4 DEF SplitRange
<1>9. LastBytes(range, numBytes - size) \in Bytestrings
    <2>1. numBytes - size \in 0 .. Length(range)
        <3>1. Length(range) \in 0 .. (Word - 1)
            BY <1>1, LengthType
        <3>. QED BY <1>2, <1>5, <3>1, SizesAssumption, SMTT(20)
    <2>. QED BY <1>1, <2>1, LastBytesType
<1>. HIDE DEF r
<1>. QED BY <1>2, <1>3, <1>7, <1>8, <1>9

\* Nothing is requested of a line in Init.
LEMMA BytesInit == Init => BytesInv
<1>. SUFFICES ASSUME Init PROVE BytesInv
    OBVIOUS
<1>1. line \in Lines /\ done /\ numBytes = 0 /\ pc = "parse"
      /\ event.reads = << >> /\ event.writes = << >>
    BY DEF Init, Idle
<1>2. line.writeRanges \in Seq(Ranges) /\ line.readRanges \in Seq(Ranges)
    BY <1>1, LinesAssumption
<1>. DEFINE w == Tagged("writes", line.writeRanges)
            r == Tagged("reads", line.readRanges)
<1>3. w \in Seq(Todo) /\ r \in Seq(Todo) /\ todo = w \o r
    BY <1>2, TaggedType DEF Init
<1>4. LineInv
    BY LineInit
<1>5. ASSUME NEW name \in {"reads", "writes"}
      PROVE  Flatten(RequestBytes(<< >>)) \o (Rest(name) \o Flatten(Due(name, todo)))
                 = Flatten(Due(name, w)) \o Flatten(Due(name, r))
    <2>1. Rest(name) = << >> /\ Flatten(Due(name, todo)) \in Bytestrings
        BY <1>1, <1>4, RestType
    <2>2. RequestBytes(<< >>) = << >>
        BY SMTT(20) DEF RequestBytes
    <2>3. Flatten(<< >>) = << >>
        <3>1. << >> \in Seq(Bytestrings) /\ \A i \in 1 .. Len(<< >>) : << >>[i] = << >>
            BY SMTT(20)
        <3>. QED BY <3>1, FlattenEmpty
    <2>4. Flatten(Due(name, todo)) = Flatten(Due(name, w)) \o Flatten(Due(name, r))
        <3>. HIDE DEF w, r
        <3>. QED BY <1>3, DueCat
    <2>. HIDE DEF w, r
    <2>5. << >> \o (<< >> \o Flatten(Due(name, todo))) = Flatten(Due(name, todo))
        BY <2>1, CatFacts
    <2>. QED BY <2>1, <2>2, <2>3, <2>4, <2>5
<1>6. /\ Flatten(RangesBytes(line.readRanges)) \in Bytestrings
      /\ Flatten(RangesBytes(line.writeRanges)) \in Bytestrings
    <2>1. Flatten(Due("reads", r)) \in Bytestrings /\ Flatten(Due("writes", w)) \in Bytestrings
        <3>. HIDE DEF w, r
        <3>. QED BY <1>3, DueType, FlattenType
    <2>. QED BY <1>2, <2>1, DueTagged
<1>7. Accounted("reads", event.reads, line.readRanges)
    <2>1. Flatten(Due("reads", w)) = << >> /\ Flatten(Due("reads", r)) = Flatten(RangesBytes(line.readRanges))
        BY <1>2, DueTagged
    <2>. HIDE DEF w, r
    <2>. QED BY <1>1, <1>5, <1>6, <2>1, CatFacts DEF Accounted
<1>8. Accounted("writes", event.writes, line.writeRanges)
    <2>1. Flatten(Due("writes", r)) = << >> /\ Flatten(Due("writes", w)) = Flatten(RangesBytes(line.writeRanges))
        BY <1>2, DueTagged
    <2>. HIDE DEF w, r
    <2>. QED BY <1>1, <1>5, <1>6, <2>1, CatFacts DEF Accounted
<1>. QED BY <1>1, <1>7, <1>8 DEF BytesInv

\* Every step keeps the account.
LEMMA BytesNext == LineInv /\ BytesInv /\ [Next]_vars => BytesInv'
<1>. SUFFICES ASSUME LineInv, BytesInv, [Next]_vars PROVE BytesInv'
    OBVIOUS
<1>0. event.reads \in Seq(Requests) /\ event.writes \in Seq(Requests)
    BY DEF LineInv, SubInv, Events
<1>1. ASSUME UNCHANGED <<splitVars, line, todo, into>>, event' = event,
             pc # "parse" => pc' # "parse", pc' # "parse" => done /\ todo = << >>
      PROVE  BytesInv'
    BY <1>1 DEF BytesInv, Accounted, Rest, LastBytes, Length, RequestBytes, RangesBytes, Due, splitVars
<1>2. CASE NextRange
    <2>1. event' = event /\ line' = line /\ pc' = "parse" /\ done' = FALSE
        BY <1>2 DEF NextRange, subEventVars, Begin
    <2>2. ASSUME NEW name
          PROVE  Rest(name)' \o Flatten(Due(name, todo')) = Rest(name) \o Flatten(Due(name, todo))
        <3>1. Flatten(Due(name, todo)) \in Bytestrings
            BY RestType
        <3>. QED BY <1>2, <3>1, NextRangeBytes, CatFacts
    <2>. QED BY <2>1, <2>2 DEF BytesInv, Accounted
<1>3. CASE SplitRange
    <2>1. PICK r \in Requests :
              /\ event' = [event EXCEPT ![into] = Append(@, r)]
              /\ LastBytes(range, numBytes) = Bytes(r) \o LastBytes(range', numBytes')
              /\ LastBytes(range', numBytes') \in Bytestrings
        BY <1>3, SplitRangeBytes
    <2>2. /\ pc = "parse" /\ pc' = pc /\ line' = line /\ todo' = todo /\ into' = into
          /\ done' = (numBytes' = 0) /\ into \in {"reads", "writes"}
        BY <1>3 DEF SplitRange, Split, LineInv
    <2>3. ASSUME NEW name, NEW got \in Seq(Requests), NEW next,
                 next = IF into = name THEN Append(got, r) ELSE got
          PROVE  Flatten(RequestBytes(next)) \o (Rest(name)' \o Flatten(Due(name, todo')))
                     = Flatten(RequestBytes(got)) \o (Rest(name) \o Flatten(Due(name, todo)))
        <3>. DEFINE G == Flatten(RequestBytes(got))
                    D == Flatten(Due(name, todo))
                    R == Rest(name)'
                    B == Bytes(r)
        <3>1. G \in Bytestrings /\ Flatten(RequestBytes(Append(got, r))) = G \o B
            BY <2>1, RequestBytesGrow, FlattenType
        <3>2. D \in Bytestrings /\ B \in Bytestrings
            BY <2>1, RestType, BytesType
        <3>3. R \in Bytestrings
            BY <2>1, CatFacts DEF Rest, LastBytes, Length
        <3>4. CASE into = name
            <4>1. Rest(name) = B \o R
                BY <2>1, <2>2, <3>4 DEF Rest, LastBytes, Length
            <4>. HIDE DEF G, D, R, B
            <4>2. (G \o B) \o (R \o D) = G \o ((B \o R) \o D)
                <5>1. R \o D \in Bytestrings
                    BY <3>2, <3>3, CatFacts
                <5>2. (G \o B) \o (R \o D) = G \o (B \o (R \o D)) /\ (B \o R) \o D = B \o (R \o D)
                    BY <3>1, <3>2, <3>3, <5>1, CatFacts
                <5>. QED BY <5>2
            <4>. QED BY <2>2, <2>3, <3>1, <3>4, <4>1, <4>2 DEF G, D, R, B
        <3>5. CASE into # name
            BY <2>2, <2>3, <3>5 DEF Rest
        <3>. QED BY <3>4, <3>5
    <2>4. event \in Events
        BY DEF LineInv, SubInv
    <2>5. /\ event'.reads = IF into = "reads" THEN Append(event.reads, r) ELSE event.reads
          /\ event'.writes = IF into = "writes" THEN Append(event.writes, r) ELSE event.writes
        BY <2>1, <2>2, <2>4 DEF Events
    <2>6. /\ Flatten(RequestBytes(event'.reads)) \o (Rest("reads")' \o Flatten(Due("reads", todo')))
                 = Flatten(RequestBytes(event.reads)) \o (Rest("reads") \o Flatten(Due("reads", todo)))
          /\ Flatten(RequestBytes(event'.writes)) \o (Rest("writes")' \o Flatten(Due("writes", todo')))
                 = Flatten(RequestBytes(event.writes)) \o (Rest("writes") \o Flatten(Due("writes", todo)))
        BY <1>0, <2>3, <2>5
    <2>. QED BY <2>2, <2>6 DEF BytesInv, Accounted
<1>4. CASE Queue
    BY <1>1, <1>4 DEF Queue
<1>5. CASE Create
    BY <1>1, <1>5 DEF Create, createSubEvents, CreatePthread, CreateComm, CreateComp, Insert,
                      DistributeIOPS, DistributeFLOPS, Created, BytesInv
<1>6. CASE UNCHANGED vars
    BY <1>1, <1>6 DEF vars, subEventVars, BytesInv
<1>. QED BY <1>2, <1>3, <1>4, <1>5, <1>6 DEF Next, Over

-----------------------------------------------------------------------------
(* The requests and sub-events of the line. *)

\* Which requests the event of a line can have got so far: a communication line
\* makes reads and in the end has some, a pthread line has none.
FrontInv ==
    /\ line \in Lines /\ event.type = line.type
    /\ line.type # "COMPUTATION" =>
          event.writes = << >> /\ into = "reads" /\ \A i \in 1 .. Len(todo) : todo[i].into = "reads"
    /\ line.type = "PTHREAD_API" => event.reads = << >> /\ todo = << >> /\ done
    /\ line.type = "COMMUNICATION" => todo # << >> \/ ~done \/ event.reads # << >>

\* It holds of a line that nothing was made of yet.
LEMMA FrontInit == Init => FrontInv
<1>. SUFFICES ASSUME Init PROVE FrontInv
    OBVIOUS
<1>1. /\ line \in Lines /\ event.type = line.type /\ event.reads = << >> /\ event.writes = << >>
      /\ into = "reads" /\ done
      /\ todo = Tagged("writes", line.writeRanges) \o Tagged("reads", line.readRanges)
    BY DEF Init, Idle
<1>2. /\ line.readRanges \in Seq(Ranges)
      /\ line.type = "COMMUNICATION" => line.readRanges # << >>
      /\ line.type = "PTHREAD_API" => line.readRanges = << >>
      /\ line.type # "COMPUTATION" => line.writeRanges = << >>
    BY <1>1, LinesAssumption
<1>3. ASSUME line.type # "COMPUTATION"
      PROVE  /\ \A i \in 1 .. Len(todo) : todo[i].into = "reads"
             /\ Len(todo) = Len(line.readRanges)
    <2>1. Tagged("writes", << >>) = << >>
        BY SMTT(20) DEF Tagged
    <2>. DEFINE t == Tagged("reads", line.readRanges)
    <2>2. t \in Seq(Todo)
        BY <1>2, TaggedType
    <2>3. << >> \o t = t
        <3>. HIDE DEF t, Todo
        <3>. QED BY <2>2, SMTT(20)
    <2>4. todo = t
        BY <1>1, <1>2, <1>3, <2>1, <2>3
    <2>5. Len(line.readRanges) \in Nat
        BY <1>2, LenProperties
    <2>6. Len(t) = Len(line.readRanges)
        BY <2>5, SMTT(20) DEF Tagged
    <2>7. \A i \in 1 .. Len(line.readRanges) : t[i].into = "reads"
        BY DEF Tagged
    <2>. HIDE DEF t
    <2>. QED BY <2>4, <2>6, <2>7
<1>4. todo \in Seq(Todo)
    BY LineInit DEF LineInv
<1>5. line.type = "PTHREAD_API" => todo = << >>
    <2>1. Len(<< >>) = 0
        BY SMTT(20)
    <2>2. line.type = "PTHREAD_API" => Len(todo) = 0
        BY <1>2, <1>3, <2>1
    <2>. QED BY <1>4, <2>2, EmptySeq
<1>6. line.type = "COMMUNICATION" => todo # << >>
    <2>1. Len(<< >>) = 0
        BY SMTT(20)
    <2>2. line.type = "COMMUNICATION" => Len(line.readRanges) # 0
        BY <1>2, EmptySeq
    <2>. QED BY <1>3, <2>1, <2>2
<1>. QED BY <1>1, <1>3, <1>5, <1>6 DEF FrontInv

\* Every step keeps it.
LEMMA FrontNext == LineInv /\ FrontInv /\ [Next]_vars => FrontInv'
<1>. SUFFICES ASSUME LineInv, FrontInv, [Next]_vars PROVE FrontInv'
    OBVIOUS
<1>0. event \in Events /\ todo \in Seq(Todo) /\ event.reads \in Seq(Requests) /\ event.writes \in Seq(Requests)
    BY DEF LineInv, SubInv, Events
<1>1. ASSUME UNCHANGED <<splitVars, line, todo, into>>, event' = event
      PROVE  FrontInv'
    BY <1>1 DEF FrontInv, splitVars
<1>2. CASE NextRange
    <2>1. event' = event /\ line' = line /\ done' = FALSE /\ todo # << >> /\ todo' = Tail(todo) /\ into' = Head(todo).into
        BY <1>2 DEF NextRange, subEventVars, Begin
    <2>2. Len(todo) \in Nat /\ Len(todo) # 0
        <3>1. Len(todo) \in Nat
            BY <1>0, LenProperties
        <3>. QED BY <1>0, <2>1, <3>1, EmptySeq
    <2>3. Head(todo) = todo[1] /\ 1 \in 1 .. Len(todo)
        BY <1>0, <2>2, SMTT(20)
    <2>4. \A i \in 1 .. Len(Tail(todo)) : Tail(todo)[i] = todo[i + 1] /\ i + 1 \in 1 .. Len(todo)
        <3>. HIDE DEF Todo
        <3>. QED BY <1>0, <2>1, <2>2, SMTT(20)
    <2>. QED BY <2>1, <2>3, <2>4 DEF FrontInv
<1>3. CASE SplitRange
    <2>1. /\ line' = line /\ todo' = todo /\ into' = into /\ ~done /\ into \in {"reads", "writes"}
          /\ event' = [event EXCEPT ![into] = Append(@, requests'[Len(requests')])]
        BY <1>3 DEF SplitRange, Split, LineInv
    <2>2. event'.type = event.type
        <3>1. into # "type"
            BY <2>1
        <3>. QED BY <1>0, <2>1, <3>1 DEF Events
    <2>3. ASSUME line.type # "COMPUTATION"
          PROVE  event'.writes = event.writes /\ event'.reads # << >>
        <3>1. into = "reads"
            BY <2>3 DEF FrontInv
        <3>2. PICK x \in Requests : event' = [event EXCEPT ![into] = Append(@, x)]
            BY <1>3, SplitRangeBytes
        <3>3. event'.reads = Append(event.reads, x) /\ event'.writes = event.writes
            BY <1>0, <3>1, <3>2 DEF Events
        <3>4. Append(event.reads, x) # << >>
            <4>1. Len(Append(event.reads, x)) = Len(event.reads) + 1
                BY <1>0, AppendProperties
            <4>2. Len(event.reads) \in Nat
                BY <1>0, LenProperties
            <4>3. Len(event.reads) + 1 # 0 /\ Len(<< >>) = 0
                BY <4>2, SMTT(20)
            <4>. QED BY <4>1, <4>3
        <3>. QED BY <3>3, <3>4
    <2>4. line.type # "PTHREAD_API"
        BY <2>1 DEF FrontInv
    <2>. QED BY <2>1, <2>2, <2>3, <2>4 DEF FrontInv
<1>4. CASE Queue
    BY <1>1, <1>4 DEF Queue
<1>5. CASE Create
    BY <1>1, <1>5 DEF Create, createSubEvents, CreatePthread, CreateComm, CreateComp, Insert,
                      DistributeIOPS, DistributeFLOPS, Created
<1>6. CASE UNCHANGED vars
    BY <1>1, <1>6 DEF vars, subEventVars
<1>. QED BY <1>2, <1>3, <1>4, <1>5, <1>6 DEF Next, Over

\* The event that is queued has the requests of its type.
LEMMA QueuedRanged ==
    ASSUME FrontInv, event \in Events, done, todo = << >>
    PROVE  Ranged
<1>1. event.reads \in Seq(Requests) /\ Len(<< >>) = 0
    <2>1. Len(<< >>) = 0
        BY SMTT(20)
    <2>. QED BY <2>1 DEF Events
<1>2. NumReads \in Nat /\ (NumReads = 0 => event.reads = << >>)
    BY <1>1, LenProperties, EmptySeq DEF NumReads
<1>3. event.type # "COMPUTATION" => NumWrites = 0
    BY <1>1 DEF FrontInv, NumWrites
<1>4. event.type = "PTHREAD_API" => NumReads = 0
    BY <1>1 DEF FrontInv, NumReads
<1>5. event.type = "COMMUNICATION" => NumReads # 0
    BY <1>2 DEF FrontInv, NumReads
<1>6. NumReads # 0 => NumReads > 0
    BY <1>2, SMTT(20)
<1>. QED BY <1>3, <1>4, <1>5, <1>6 DEF Ranged

\* Nothing is created yet.
LEMMA SentInit == Init => SentInv
BY DEF Init, SentInv

\* Every step keeps what the list of sub-events has.
LEMMA SentNext == LineInv /\ FrontInv /\ SentInv /\ [Next]_vars => SentInv'
<1>. SUFFICES ASSUME LineInv, FrontInv, SentInv, [Next]_vars PROVE SentInv'
    OBVIOUS
<1>0. SubInv /\ event \in Events
    BY DEF LineInv, SubInv
<1>1. CASE NextRange \/ SplitRange
    BY <1>1 DEF NextRange, SplitRange, subEventVars, SentInv
<1>2. CASE Queue
    <2>1. pc' = "create" /\ event' = event /\ done /\ todo = << >>
        BY <1>2 DEF Queue
    <2>2. Ranged'
        BY <1>0, <2>1, QueuedRanged, SameCounts
    <2>. QED BY <2>1, <2>2 DEF SentInv
<1>3. CASE Create
    BY <1>0, <1>3, SentSteps DEF Create
<1>4. CASE UNCHANGED vars
    BY <1>4, SentFrame DEF vars
<1>. QED BY <1>1, <1>2, <1>3, <1>4 DEF Next, Over

\* The bytes requested, the requests an event can have and the sub-events created
\* so far are what they should be in every state, from readEventFile to the end of
\* createSubEvents.
THEOREM SentInvariant == Spec => [](LineInv /\ BytesInv /\ FrontInv /\ SentInv)
<1>1. LineInv /\ BytesInv /\ FrontInv /\ SentInv /\ [Next]_vars => (LineInv /\ BytesInv /\ FrontInv /\ SentInv)'
    BY LineNext, BytesNext, FrontNext, SentNext
<1>. QED BY <1>1, LineInit, BytesInit, FrontInit, SentInit, PTL DEF Spec

\* createSubEvents deals out all the integer and floating point operations of a
\* computation event and no more, and each sub-event gets its share, however rand()
\* deals out the remainders.
THEOREM WorkIsConserved == Spec => []WorkConserved
<1>1. SentInv => WorkConserved
    BY DEF SentInv, WorkConserved
<1>. QED BY <1>1, SentInvariant, PTL

\* createSubEvents leaves no event without a sub-event and sends every request of
\* its ranges, as the access that it is, none twice more often than another.
THEOREM RequestsAllSent == Spec => []EveryRequestSent
<1>1. LineInv => SubInv
    BY DEF LineInv
<1>. QED BY <1>1, AllSent, SentInvariant, PTL

\* Up to the number of requests, the n-th sub-event of a kind has the n-th request.
LEMMA NthRequest ==
    ASSUME SubInv, SentInv, pc = "done", NEW kind \in Kinds, NEW n \in 1 .. Size(kind)
    PROVE  list[Nth(kind, n)].request + 1 = n
<1>1. /\ Size(kind) \in Nat /\ Counted(kind) \in Nat /\ Size(kind) <= Counted(kind)
      /\ Inserted(kind) = Count(list, kind) /\ DOMAIN list = 1 .. Len(list)
    BY SentTypes, InsertedIsCount
<1>2. InTurn(list, kind, Size(kind)) /\ Inserted(kind) = Expected(kind)
    BY DEF SentInv
<1>3. PICK s \in Nat, c \in Nat : s = Size(kind) /\ c = Count(list, kind)
    BY <1>1, <1>2 DEF Expected
<1>4. s <= c
    <2>1. s <= s
        BY SMTT(20)
    <2>. QED BY <1>1, <1>2, <1>3, <2>1 DEF Expected
<1>5. n \in 1 .. c /\ s \in Nat \ {0} /\ n - 1 \in 0 .. (s - 1) /\ (0 * s) + (n - 1) = n - 1 /\ 0 \in Nat /\ (n - 1) + 1 = n
    BY <1>3, <1>4, SMTT(20)
<1>6. \E i \in Places(list, kind, Len(list)) : Cardinality(Places(list, kind, i)) = n
    BY <1>2, <1>3, <1>5 DEF InTurn
<1>7. \E i \in DOMAIN list : list[i].msg = kind /\ Cardinality({h \in 1 .. i : list[h].msg = kind}) = n
    BY <1>1, <1>6 DEF Places
<1>. DEFINE m == Nth(kind, n)
<1>8. m \in DOMAIN list /\ list[m].msg = kind /\ Cardinality({h \in 1 .. m : list[h].msg = kind}) = n
    BY <1>7 DEF Nth
<1>. HIDE DEF m
<1>9. m \in Places(list, kind, Len(list)) /\ Cardinality(Places(list, kind, m)) = n
    BY <1>1, <1>8 DEF Places
<1>10. list[m].request = (n - 1) % s
    BY <1>2, <1>3, <1>9 DEF InTurn
<1>11. ((0 * s) + (n - 1)) % s = n - 1
    BY <1>5, ModUnique
<1>. QED BY <1>5, <1>10, <1>11 DEF m

\* All of the line's bytes are requested when the line is done.
LEMMA AllRequested ==
    ASSUME LineInv, BytesInv, pc # "parse"
    PROVE  /\ Flatten(RequestBytes(event.reads)) = Flatten(RangesBytes(line.readRanges))
           /\ Flatten(RequestBytes(event.writes)) = Flatten(RangesBytes(line.writeRanges))
<1>1. numBytes = 0 /\ todo = << >>
    BY DEF BytesInv
<1>2. ASSUME NEW name PROVE Rest(name) = << >> /\ Flatten(Due(name, todo)) = << >>
    <2>1. Rest(name) = << >>
        BY <1>1, RestType
    <2>2. Len(<< >>) = 0 /\ 1 .. 0 = {}
        BY SMTT(20)
    <2>3. todo \in Seq(Todo)
        BY DEF LineInv
    <2>4. Due(name, todo) \in Seq(Bytestrings) /\ Len(Due(name, todo)) = 0
        BY <1>1, <2>2, <2>3, DueType
    <2>. QED BY <2>1, <2>2, <2>4, FlattenEmpty
<1>3. ASSUME NEW s \in Seq(Requests)
      PROVE  Flatten(RequestBytes(s)) \o (<< >> \o << >>) = Flatten(RequestBytes(s))
    <2>1. RequestBytes(s) \in Seq(Bytestrings)
        <3>1. Len(s) \in Nat /\ \A i \in 1 .. Len(s) : s[i] \in Requests
            BY LenProperties, ElementOfSeq
        <3>2. /\ RequestBytes(s) = [i \in 1 .. Len(s) |-> RequestBytes(s)[i]]
              /\ \A i \in 1 .. Len(s) : RequestBytes(s)[i] \in Bytestrings
            BY <3>1, BytesType DEF RequestBytes
        <3>. QED BY <3>1, <3>2, IsBytestring
    <2>2. Flatten(RequestBytes(s)) \in Bytestrings /\ << >> \in Bytestrings
        BY <2>1, FlattenType, CatFacts
    <2>. QED BY <2>2, CatFacts
<1>4. event.reads \in Seq(Requests) /\ event.writes \in Seq(Requests)
    BY DEF LineInv, SubInv, Events
<1>5. Flatten(RequestBytes(event.reads)) \o (<< >> \o << >>) = Flatten(RangesBytes(line.readRanges))
    BY <1>2 DEF BytesInv, Accounted
<1>6. Flatten(RequestBytes(event.writes)) \o (<< >> \o << >>) = Flatten(RangesBytes(line.writeRanges))
    BY <1>2 DEF BytesInv, Accounted
<1>. QED BY <1>3, <1>4, <1>5, <1>6

\* The accesses of the sub-events, before any is repeated, are to the bytes of the
\* line's ranges in the order of the line: the splitting in readEventFile and the
\* order in which createSubEvents takes the requests lose and change nothing.
THEOREM LineIsReplayed == Spec => []LineReplayed
<1>1. LineInv /\ BytesInv /\ SentInv => LineReplayed
    <2>. SUFFICES ASSUME LineInv, BytesInv, SentInv, pc = "done" PROVE LineReplayed
        BY DEF LineReplayed
    <2>0. /\ SubInv /\ NumReads \in Nat /\ NumWrites \in Nat
          /\ Size("read") = NumReads /\ Size("write") = NumWrites /\ "read" \in Kinds /\ "write" \in Kinds
        <3>1. SubInv /\ Size("read") = NumReads /\ Size("write") = NumWrites /\ "read" \in Kinds /\ "write" \in Kinds
            BY DEF LineInv, Kinds, Size
        <3>. QED BY <3>1, SentTypes
    <2>1. \A n \in Nat : /\ Len([i \in 1 .. n |-> i]) = n
                         /\ \A i \in 1 .. n : [j \in 1 .. n |-> j][i] = i
        BY SMTT(20)
    <2>2. \A n \in 1 .. NumReads : Bytes(event.reads[list[Nth("read", n)].request + 1]) = Bytes(event.reads[n])
        BY <2>0, NthRequest
    <2>3. \A n \in 1 .. NumWrites : Bytes(event.writes[list[Nth("write", n)].request + 1]) = Bytes(event.writes[n])
        BY <2>0, NthRequest
    <2>. DEFINE onceRead(n) == Bytes(event.reads[list[Nth("read", n)].request + 1])
                onceWrite(n) == Bytes(event.writes[list[Nth("write", n)].request + 1])
                ns == [n \in 1 .. NumReads |-> n]
                ms == [n \in 1 .. NumWrites |-> n]
    <2>4. [i \in 1 .. Len(ns) |-> onceRead(ns[i])] = RequestBytes(event.reads)
        <3>1. Len(ns) = NumReads /\ \A i \in 1 .. NumReads : ns[i] = i
            BY <2>0, <2>1
        <3>. HIDE DEF ns
        <3>. QED BY <2>2, <3>1 DEF RequestBytes, NumReads
    <2>5. [i \in 1 .. Len(ms) |-> onceWrite(ms[i])] = RequestBytes(event.writes)
        <3>1. Len(ms) = NumWrites /\ \A i \in 1 .. NumWrites : ms[i] = i
            BY <2>0, <2>1
        <3>. HIDE DEF ms
        <3>. QED BY <2>3, <3>1 DEF RequestBytes, NumWrites
    <2>6. /\ Flatten(RequestBytes(event.reads)) = Flatten(RangesBytes(line.readRanges))
          /\ Flatten(RequestBytes(event.writes)) = Flatten(RangesBytes(line.writeRanges))
        BY AllRequested
    <2>7. /\ Concat(onceRead, ns) = Concat(RangeBytes, line.readRanges)
          /\ Concat(onceWrite, ms) = Concat(RangeBytes, line.writeRanges)
        BY <2>4, <2>5, <2>6 DEF Concat, RangesBytes
    <2>. QED BY <2>7 DEF LineReplayed
<1>. QED BY <1>1, SentInvariant, PTL
=============================================================================
