---------------------------- MODULE MESI_L2Cache ----------------------------
(***************************************************************************)
(* The shared, inclusive L2 cache of MESI_CMP_directory-L2cache.sm, which  *)
(* is also the on-chip directory: it knows which L1s may hold a line.  Its *)
(* transitions are L2Table; as in MESI_L1Cache a line is its entry and its *)
(* TBE together.                                                           *)
(***************************************************************************)
EXTENDS MESI_Network, MESI_L2Table, FiniteSets

CONSTANTS
  L2Size,     \* lines in one set of L2cacheMemory
  NoCore      \* no L1

VARIABLE l2   \* l2[a]: the line a in the L2

NotPresent ==
  [st |-> "NP", in |-> FALSE, tbe |-> FALSE, Sharers |-> {}, Exclusive |-> NoCore,
   data |-> 0, dirty |-> FALSE, GetS |-> {}, GetX |-> NoCore, acks |-> 0]

Init == l2 = [a \in Addrs |-> NotPresent]

-----------------------------------------------------------------------------
\* Mutant: the requestor is always taken for a sharer.
AckCountLessOne(line, core) == 1 - Cardinality(line.Sharers)

\* The acknowledgements a requestor has to wait for, as the negative count that
\* d_, dd_ and ts_ send.
AckCount(line, core) == Cardinality(line.Sharers \cap {core}) - Cardinality(line.Sharers)

Data(type, line, core, a) == WithData(Response(type, L2, core, a), line)

Messages(act, line, a, m) ==
  CASE act = "a_issueFetchToMemory" -> {Request("GETS", L2, Dir, a)}
    [] act = "b_forwardRequestToExclusive" -> {Request(m.type, m.from, line.Exclusive, a)}
    [] act \in {"c_exclusiveReplacement", "ct_exclusiveReplacementFromTBE"} ->
         {Data("MEMORY_DATA", line, Dir, a)}
    [] act = "c_exclusiveCleanReplacement" -> {Response("ACK", L2, Dir, a)}
    [] act = "d_sendDataToRequestor" ->
         {WithAcks(Data("DATA", line, m.from, a), AckCount(line, m.from))}
    [] act = "dd_sendExclusiveDataToRequestor" ->
         {WithAcks(Data("DATA_EXCLUSIVE", line, m.from, a), AckCount(line, m.from))}
    [] act = "ds_sendSharedDataToRequestor" -> {Data("DATA", line, m.from, a)}
    [] act = "e_sendDataToGetSRequestors" -> {Data("DATA", line, c, a) : c \in line.GetS}
    [] act = "ex_sendExclusiveDataToGetSRequestors" ->
         {Data("DATA_EXCLUSIVE", line, c, a) : c \in line.GetS}
    [] act = "ee_sendDataToGetXRequestor" -> {Data("DATA", line, line.GetX, a)}
    [] act = "f_sendInvToSharers" -> {Request("INV", L2, c, a) : c \in line.Sharers}
    [] act = "fwm_sendFwdInvToSharersMinusRequestor" ->
         {Request("INV", m.from, c, a) : c \in line.Sharers \ {m.from}}
    [] act = "t_sendWBAck" -> {Response("WB_ACK", L2, m.from, a)}
    [] act = "ts_sendInvAckToUpgrader" ->
         {WithAcks(Response("ACK", L2, m.from, a), 1 - Cardinality(line.Sharers))}
    [] OTHER -> {}

Line(act, line, m) ==
  CASE act = "qq_allocateL2CacheBlock" -> [line EXCEPT !.in = TRUE]
    [] act = "rr_deallocateL2CacheBlock" ->
         [line EXCEPT !.in = FALSE, !.Sharers = {}, !.Exclusive = NoCore]
    [] act = "i_allocateTBE" ->
         [line EXCEPT !.tbe = TRUE, !.GetS = {}, !.acks = Cardinality(line.Sharers)]
    [] act = "s_deallocateTBE" ->
         [line EXCEPT !.tbe = FALSE, !.GetS = {}, !.GetX = NoCore, !.acks = 0]
    [] act \in {"m_writeDataToCache", "mr_writeDataToCacheFromRequest", "qq_writeDataToTBE"} ->
         [line EXCEPT !.data = m.data, !.dirty = m.dirty]
    [] act = "q_updateAck" -> [line EXCEPT !.acks = @ - m.acks]
    [] act = "ss_recordGetSL1ID" -> [line EXCEPT !.GetS = @ \cup {m.from}]
    [] act = "xx_recordGetXL1ID" -> [line EXCEPT !.GetX = m.from]
    [] act \in {"nn_addSharer", "nnu_addSharerFromUnblock"} ->
         [line EXCEPT !.Sharers = @ \cup {m.from}]
    [] act = "ll_clearSharers" -> [line EXCEPT !.Sharers = {}]
    [] act = "mmu_markExclusiveFromUnblock" ->
         [line EXCEPT !.Sharers = {m.from}, !.Exclusive = m.from]
    [] OTHER -> line

HeadOf(act, head) ==
  CASE act \in {"jj_popL1RequestQueue", "k_popUnblockQueue", "o_popIncomingResponseQueue"} -> "pop"
    [] act = "zz_stallAndWaitL1RequestQueue" -> "stall"
    [] act = "zn_recycleResponseNetwork" -> "recycle"
    [] OTHER -> head

Do(act, x, a, m) ==
  IF act = "kd_wakeUpDependents" THEN WakeUp(x)
  ELSE [Enqueue(x, Messages(act, x.line, a, m)) EXCEPT
          !.line = Line(act, x.line, m), !.head = HeadOf(act, @)]

RunActions(do, x, a, m) ==
  LET run[i \in 0..Len(do)] == IF i = 0 THEN x ELSE Do(do[i], run[i - 1], a, m)
  IN run[Len(do)]

setState(line, state) ==
  IF line.tbe \/ line.in THEN [line EXCEPT !.st = state] ELSE NotPresent

doTransition(t, x, a, m) ==
  [RunActions(t.do, x, a, m) EXCEPT !.line = setState(@, IF t.to = Same THEN x.line.st ELSE t.to)]

-----------------------------------------------------------------------------
\* The events of the three in_ports.

Cached == {a \in Addrs : l2[a].in}

\* Mutant: every write-back is taken for the owner's.
PutxIsNeverOld(m) ==
  LET isSharer == m.from \in l2[m.addr].Sharers
  IN CASE m.type \in {"GETS", "GET_INSTR", "GETX"} -> "L1_" \o m.type
       [] m.type = "UPGRADE" -> IF isSharer THEN "L1_UPGRADE" ELSE "L1_GETX"
       [] m.type = "PUTX" -> "L1_PUTX"
       [] OTHER -> "Invalid L1 forwarded request type"

L1Cache_request_type_to_event(m) ==
  LET isSharer == m.from \in l2[m.addr].Sharers
  IN CASE m.type \in {"GETS", "GET_INSTR", "GETX"} -> "L1_" \o m.type
       [] m.type = "UPGRADE" -> IF isSharer THEN "L1_UPGRADE" ELSE "L1_GETX"
       [] m.type = "PUTX" -> IF isSharer THEN "L1_PUTX" ELSE "L1_PUTX_old"
       [] OTHER -> "Invalid L1 forwarded request type"

\* Mutant: one line too many.
RoomForOneMore(a) == l2[a].in \/ Cardinality(Cached) <= L2Size

\* A request for a line that the L2 does not hold needs room for it, whatever
\* it asks for.
Room(a) == l2[a].in \/ Cardinality(Cached) < L2Size

ReplacementEvent(v) == IF l2[v].dirty THEN "L2_Replacement" ELSE "L2_Replacement_clean"

ResponseEvent(m) ==
  LET line == l2[m.addr]
  IN CASE m.from \in Cores /\ m.type = "DATA" -> IF m.dirty THEN "WB_Data" ELSE "WB_Data_clean"
       [] m.from \in Cores /\ m.type = "ACK" ->
            IF ~line.tbe THEN "null TBE"
            ELSE IF line.acks - m.acks = 0 THEN "Ack_all" ELSE "Ack"
       [] m.from \notin Cores /\ m.type = "MEMORY_DATA" -> "Mem_Data"
       [] m.from \notin Cores /\ m.type = "MEMORY_ACK" -> "Mem_Ack"
       [] m.from \notin Cores /\ m.type = "INV" -> "MEM_Inv"
       [] OTHER -> "unknown message type"

UnblockEvent(m) ==
  CASE m.type = "EXCLUSIVE_UNBLOCK" -> "Exclusive_Unblock"
    [] m.type = "UNBLOCK" -> "Unblock"
    [] OTHER -> "unknown unblock message"

-----------------------------------------------------------------------------
\* The transition of message m on its own address, after what x has done.
Handle(m, event, x, lines) ==
  \E t \in Rows(L2Table, lines[m.addr].st, event) :
    LET y == doTransition(t, [x EXCEPT !.line = lines[m.addr]], m.addr, m)
    IN /\ y.head # "keep"
       /\ l2' = [lines EXCEPT ![m.addr] = y.line]
       /\ Buffers(L2, m.addr, m, y)

\* A request that finds the set full first replaces a victim; it stays at the
\* head of the port, so nothing else takes the room.
L1RequestNetwork(c, a) ==
  \E m \in {r \in ArrivedFor(L2, "request", a) : r.from = c} :
    LET event == L1Cache_request_type_to_event(m)
    IN \/ Room(m.addr) /\ Handle(m, event, Context(l2[m.addr], 0), l2)
       \/ /\ ~Room(m.addr)
          /\ \E v \in Cached : \E t \in Rows(L2Table, l2[v].st, ReplacementEvent(v)) :
               LET x == doTransition(t, Context(l2[v], 0), v, m)
               IN IF x.head = "stall" THEN UNCHANGED l2 /\ Buffers(L2, v, m, x)
                  ELSE Handle(m, event, x, [l2 EXCEPT ![v] = x.line])

\* An invalidation from memory starts a replacement and is looked at again.
ResponseNetwork(a) ==
  \E m \in ArrivedFor(L2, "response", a) :
    \/ Handle(m, ResponseEvent(m), Context(l2[m.addr], 1), l2)
    \/ \E t \in Rows(L2Table, l2[m.addr].st, ResponseEvent(m)) :
         LET x == doTransition(t, Context(l2[m.addr], 1), m.addr, m)
         IN x.head = "keep" /\ Handle(m, "MEM_Inv", x, [l2 EXCEPT ![m.addr] = x.line])

UnblockNetwork(a) ==
  \E m \in ArrivedFor(L2, "unblock", a) :
    Handle(m, UnblockEvent(m), Context(l2[m.addr], 2), l2)

\* Every event an in_port can trigger has a transition.
Expected ==
  /\ \A m \in Arrived(L2, "unblock") : Rows(L2Table, l2[m.addr].st, UnblockEvent(m)) # {}
  /\ \A m \in Arrived(L2, "response") : Rows(L2Table, l2[m.addr].st, ResponseEvent(m)) # {}
  /\ \A m \in Arrived(L2, "request") :
       IF Room(m.addr)
       THEN Rows(L2Table, l2[m.addr].st, L1Cache_request_type_to_event(m)) # {}
       ELSE \A v \in Cached : Rows(L2Table, l2[v].st, ReplacementEvent(v)) # {}
=============================================================================
