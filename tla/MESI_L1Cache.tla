---------------------------- MODULE MESI_L1Cache ----------------------------
(***************************************************************************)
(* The L1 cache controller of MESI_CMP_directory-L1cache.sm: one per core, *)
(* with an instruction and a data array.  Its transitions are L1Table; Do  *)
(* is what their actions do.                                               *)
(*                                                                         *)
(* A line is its cache entry and its TBE together.  The two always hold    *)
(* the same state, and the TBE's copy of the data is only used once the    *)
(* entry is gone, so one field stands for both.  Data is the number of     *)
(* stores the line has seen.                                               *)
(***************************************************************************)
EXTENDS MESI_Network, MESI_L1Table, FiniteSets

CONSTANTS
  L1Size,     \* lines in one set of L1IcacheMemory or L1DcacheMemory
  NoAddr      \* no address

VARIABLES
  l1,         \* l1[c][a]: the line a in the L1 of core c
  req,        \* req[c]: the request of core c the Sequencer waits for
  latest,     \* latest[a]: the number of stores to a that have been performed
  blocked     \* blocked[c]: the lines of m_block_map

\* "link" is m_locked of the entry: the line's version at the core's last LL, or
\* NoLink when the entry is not locked.
NoLink == -1

NotPresent ==
  [st |-> "NP", in |-> "none", tbe |-> FALSE, data |-> 0, dirty |-> FALSE, acks |-> 0,
   link |-> NoLink]

\* No request.  "since" is the number of stores performed when the request was
\* made, "at" tells whether it is still in the mandatory queue.
NoReq == [type |-> "none", addr |-> NoAddr, since |-> 0, at |-> "none", on |-> NoAddr]

Init ==
  /\ l1 = [c \in Cores |-> [a \in Addrs |-> NotPresent]]
  /\ req = [c \in Cores |-> NoReq]
  /\ latest = [a \in Addrs |-> 0]
  /\ blocked = [c \in Cores |-> {}]

\* Sequencer::writeCallback: an LL links the line and reads it; every other
\* request unlinks it and writes, a failed SC included, except the first half of
\* a locked read-modify-write, which reads.
writeCallback(x, type) ==
  CASE type = "LL" -> [x EXCEPT !.hit = "load", !.line.link = x.line.data]
    [] type = "Locked_RMW_Read" -> [x EXCEPT !.hit = "load", !.line.link = NoLink]
    [] OTHER -> [x EXCEPT !.hit = "store", !.line.link = NoLink, !.line.data = @ + 1]

\* What an action does to the context x of core c, address a and message m.
Do(act, x, c, a, m) ==
  CASE act = "a_issueGETS" -> Enqueue(x, {Request("GETS", c, L2, a)})
    [] act = "ai_issueGETINSTR" -> Enqueue(x, {Request("GET_INSTR", c, L2, a)})
    [] act = "b_issueGETX" -> Enqueue(x, {Request("GETX", c, L2, a)})
    [] act = "c_issueUPGRADE" -> Enqueue(x, {Request("UPGRADE", c, L2, a)})
    [] act = "g_issuePUTX" -> Enqueue(x, {WithData(Request("PUTX", c, L2, a), x.line)})
    [] act \in {"d_sendDataToRequestor", "dt_sendDataToRequestor_fromTBE"} ->
         Enqueue(x, {WithData(Response("DATA", c, m.from, a), x.line)})
    [] act \in {"d2_sendDataToL2", "d2t_sendDataToL2_fromTBE",
                "f_sendDataToL2", "ft_sendDataToL2_fromTBE"} ->
         Enqueue(x, {WithData(Response("DATA", c, L2, a), x.line)})
    [] act = "fi_sendInvAck" -> Enqueue(x, {WithAcks(Response("ACK", c, m.from, a), 1)})
    [] act = "j_sendUnblock" ->
         Enqueue(x, {[Response("UNBLOCK", c, L2, a) EXCEPT !.vnet = "unblock"]})
    [] act = "jj_sendExclusiveUnblock" ->
         Enqueue(x, {[Response("EXCLUSIVE_UNBLOCK", c, L2, a) EXCEPT !.vnet = "unblock"]})
    [] act = "h_load_hit" -> [x EXCEPT !.hit = "load"]
    [] act = "hh_store_hit" -> [writeCallback(x, req[c].type) EXCEPT !.line.dirty = TRUE]
    [] act = "i_allocateTBE" -> [x EXCEPT !.line.tbe = TRUE]
    [] act = "s_deallocateTBE" -> [x EXCEPT !.line.tbe = FALSE, !.line.acks = 0]
    [] act = "u_writeDataToL1Cache" -> [x EXCEPT !.line.data = m.data, !.line.dirty = m.dirty]
    [] act = "q_updateAckCount" -> [x EXCEPT !.line.acks = @ - m.acks]
    [] act = "ff_deallocateL1CacheBlock" -> [x EXCEPT !.line.in = "none", !.line.link = NoLink]
    [] act = "oo_allocateL1DCacheBlock" ->
         [x EXCEPT !.line.in = IF @ = "none" THEN "D" ELSE @]
    [] act = "pp_allocateL1ICacheBlock" ->
         [x EXCEPT !.line.in = IF @ = "none" THEN "I" ELSE @]
    [] act \in {"k_popMandatoryQueue", "l_popRequestQueue", "o_popIncomingResponseQueue"} ->
         [x EXCEPT !.head = "pop"]
    [] act = "z_stallAndWaitMandatoryQueue" -> [x EXCEPT !.head = "stall"]
    [] act = "kd_wakeUpDependents" -> WakeUp(x)

RunActions(do, x, c, a, m) ==
  LET run[i \in 0..Len(do)] == IF i = 0 THEN x ELSE Do(do[i], run[i - 1], c, a, m)
  IN run[Len(do)]

\* setState writes the entry and the TBE; with neither the line is not present.
\* changePermission unlinks an entry that becomes invalid.
setState(line, state) ==
  IF line.tbe \/ line.in # "none"
  THEN [line EXCEPT !.st = state, !.link = IF state \in {"NP", "I"} THEN NoLink ELSE @]
  ELSE NotPresent

\* doTransition: the row's actions, then setState.
doTransition(t, c, a, m, rank) ==
  LET x == RunActions(t.do, Context(l1[c][a], rank), c, a, m)
  IN [x EXCEPT !.line = setState(@, IF t.to = Same THEN l1[c][a].st ELSE t.to)]

\* readCallback and writeCallback end the core's request; a locked
\* read-modify-write blocks the line from its first half to its second.  A woken
\* mandatory queue looks at its request again.
Sequencer(c, a, x, queued) ==
  /\ req' = [req EXCEPT ![c] =
       IF x.hit # "none" THEN NoReq
       ELSE IF queued /\ x.head = "pop" THEN [@ EXCEPT !.at = "issued"]
       ELSE IF queued /\ x.head = "stall" THEN [@ EXCEPT !.on = a]
       ELSE IF x.wake /\ req[c].on = a THEN [@ EXCEPT !.on = NoAddr]
       ELSE @]
  /\ latest' = IF x.hit = "store" THEN [latest EXCEPT ![a] = @ + 1] ELSE latest
  /\ blocked' = [blocked EXCEPT ![c] =
       CASE x.hit # "none" /\ req[c].type = "Locked_RMW_Read" -> @ \cup {a}
         [] x.hit # "none" /\ req[c].type = "Locked_RMW_Write" -> @ \ {a}
         [] OTHER -> @]

-----------------------------------------------------------------------------
\* The events of the three in_ports.

Cached(c, array) == {a \in Addrs : l1[c][a].in = array}

ArrayOf(type) == IF type = "IFETCH" THEN "I" ELSE "D"

mandatory_request_type_to_event(type) ==
  CASE type = "LD" -> "Load" [] type = "IFETCH" -> "Ifetch" [] OTHER -> "Store"

\* What the mandatory queue triggers for the request of core c: the access, the
\* replacement of the line in the other array, or of a victim in a full set.
\* The victim is the replacement policy's; any line of the set may be it.
MandatoryTriggers(c) ==
  LET a == req[c].addr
      own == ArrayOf(req[c].type)
      access == {<<mandatory_request_type_to_event(req[c].type), a>>}
  IN IF l1[c][a].in = own THEN access
     ELSE IF l1[c][a].in # "none" THEN {<<"L1_Replacement", a>>}
     ELSE IF Cardinality(Cached(c, own)) < L1Size THEN access
     ELSE {<<"L1_Replacement", v>> : v \in Cached(c, own)}

\* getPendingAcks reads the TBE: without one the program fails.
ResponseEvent(c, m) ==
  LET line == l1[c][m.addr]
      last == line.acks - m.acks = 0
  IN CASE m.type = "DATA_EXCLUSIVE" -> "Data_Exclusive"
       [] m.type = "DATA" /\ line.st \in {"IS", "IS_I"} /\ m.from \in Cores -> "DataS_fromL1"
       [] m.type \in {"DATA", "ACK"} /\ ~line.tbe -> "null TBE"
       [] m.type = "DATA" -> IF last THEN "Data_all_Acks" ELSE "Data"
       [] m.type = "ACK" -> IF last THEN "Ack_all" ELSE "Ack"
       [] m.type = "WB_ACK" -> "WB_Ack"
       [] OTHER -> "Invalid L1 response type"

RequestEvent(m) ==
  CASE m.type = "INV" -> "Inv"
    [] m.type \in {"GETX", "UPGRADE"} -> "Fwd_GETX"
    [] m.type = "GETS" -> "Fwd_GETS"
    [] m.type = "GET_INSTR" -> "Fwd_GET_INSTR"
    [] OTHER -> "Invalid forwarded request type"

-----------------------------------------------------------------------------
\* The mandatory queue holds the request as a RubyRequest; the L1's own
\* messages have no part in it.
MandatoryQueue(c) ==
  /\ req[c].at = "queue" /\ req[c].on = NoAddr
  /\ \E e \in MandatoryTriggers(c) : \E t \in Rows(L1Table, l1[c][e[2]].st, e[1]) :
       LET a == e[2]
           x == doTransition(t, c, a, req[c], 0)
       IN /\ l1' = [l1 EXCEPT ![c][a] = x.line]
          /\ Sequencer(c, a, x, TRUE)
          /\ net' = net (+) SetToBag(x.out)
          /\ UNCHANGED waiting

\* Mutant: the message is handled although the line is blocked.
DeliverBlocked(c, m, event, rank) ==
  \E t \in Rows(L1Table, l1[c][m.addr].st, event) :
    LET x == doTransition(t, c, m.addr, m, rank)
    IN /\ l1' = [l1 EXCEPT ![c][m.addr] = x.line]
       /\ Sequencer(c, m.addr, x, FALSE)
       /\ Buffers(c, m.addr, m, x)

\* A message for a blocked line is delayed.
Deliver(c, m, event, rank) ==
  m.addr \notin blocked[c] /\ \E t \in Rows(L1Table, l1[c][m.addr].st, event) :
    LET x == doTransition(t, c, m.addr, m, rank)
    IN /\ l1' = [l1 EXCEPT ![c][m.addr] = x.line]
       /\ Sequencer(c, m.addr, x, FALSE)
       /\ Buffers(c, m.addr, m, x)

RequestNetwork(c, a) ==
  \E m \in ArrivedFor(c, "request", a) : Deliver(c, m, RequestEvent(m), 1)

ResponseNetwork(c, a) ==
  \E m \in ArrivedFor(c, "response", a) : Deliver(c, m, ResponseEvent(c, m), 2)

\* Every event an in_port of core c can trigger has a transition.
Expected(c) ==
  /\ \A m \in Arrived(c, "request") : Rows(L1Table, l1[c][m.addr].st, RequestEvent(m)) # {}
  /\ \A m \in Arrived(c, "response") : Rows(L1Table, l1[c][m.addr].st, ResponseEvent(c, m)) # {}
  /\ req[c].at = "queue" =>
       \A e \in MandatoryTriggers(c) : Rows(L1Table, l1[c][e[2]].st, e[1]) # {}
=============================================================================
