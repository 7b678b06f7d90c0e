--------------------------- MODULE MESI_Directory ---------------------------
(***************************************************************************)
(* The memory-side directory of MESI_CMP_directory-dir.sm and the memory   *)
(* controller behind it, which answers every read and write-back after     *)
(* some time (vnet "memory").                                              *)
(***************************************************************************)
EXTENDS MESI_Network, MESI_DirectoryTable

VARIABLES
  dir,        \* dir[a]: the directory entry of line a, with memory's data
  latest      \* latest[a]: the number of stores to a that have been performed

Idle == [st |-> "I", owner |-> {}, data |-> 0]

Init == dir = [a \in Addrs |-> Idle]

\* A MemoryMsg on its way through the memory controller: "from" is its
\* OriginalRequestorMachId.
Memory(type, from, a, data) ==
  [Request(type, from, Dir, a) EXCEPT !.vnet = "memory", !.data = data]

\* What an action does with the line (the owner and memory's copy) and sends.
\* A DMA write is one more store on top of what memory holds.
Do(act, x, a, m) ==
  CASE act = "a_sendAck" -> Enqueue(x, {Response("MEMORY_ACK", Dir, m.from, a)})
    [] act = "aa_sendAck" -> Enqueue(x, {Response("MEMORY_ACK", Dir, m.from, a)})
    [] act = "d_sendData" ->
         Enqueue(x, {[Response("MEMORY_DATA", Dir, m.from, a) EXCEPT !.data = m.data]})
    [] act = "qf_queueMemoryFetchRequest" ->
         Enqueue(x, {Memory("MEMORY_READ", m.from, a, x.line.data)})
    [] act = "qf_queueMemoryFetchRequestDMA" ->
         Enqueue(x, {Memory("MEMORY_READ", Dir, a, x.line.data)})
    [] act \in {"qw_queueMemoryWBRequest", "qw_queueMemoryWBRequest_partialTBE"} ->
         Enqueue(x, {Memory("MEMORY_WB", m.from, a, 0)})
    [] act = "qw_queueMemoryWBRequest_partial" -> Enqueue(x, {Memory("MEMORY_WB", Dir, a, 0)})
    [] act \in {"dr_sendDMAData", "drp_sendDMAData"} ->
         Enqueue(x, {[Response("DATA", Dir, DMA, a) EXCEPT !.data = m.data]})
    [] act = "da_sendDMAAck" -> Enqueue(x, {Response("ACK", Dir, DMA, a)})
    [] act = "inv_sendCacheInvalidate" ->
         Enqueue(x, {Response("INV", Dir, o, a) : o \in x.line.owner})
    [] act = "m_writeDataToMemory" -> [x EXCEPT !.line.data = m.data]
    [] act \in {"dw_writeDMAData", "dwt_writeDMADataFromTBE"} ->
         [x EXCEPT !.hit = "store", !.line.data = @ + 1]
    [] act = "e_ownerIsRequestor" -> [x EXCEPT !.line.owner = {m.from}]
    [] act = "c_clearOwner" -> [x EXCEPT !.line.owner = {}]
    [] act \in {"v_allocateTBE", "w_deallocateTBE"} -> x
    [] act \in {"j_popIncomingRequestQueue", "k_popIncomingResponseQueue", "l_popMemQueue"} ->
         [x EXCEPT !.head = "pop"]
    [] act = "z_stallAndWaitRequest" -> [x EXCEPT !.head = "stall"]
    [] act = "zz_recycleDMAQueue" -> [x EXCEPT !.head = "recycle"]
    [] act = "kd_wakeUpDependents" -> WakeUp(x)

RunActions(do, x, a, m) ==
  LET run[i \in 0..Len(do)] == IF i = 0 THEN x ELSE Do(do[i], run[i - 1], a, m)
  IN run[Len(do)]

doTransition(t, x, a, m) ==
  [RunActions(t.do, x, a, m) EXCEPT !.line.st = IF t.to = Same THEN @ ELSE t.to]

-----------------------------------------------------------------------------
RequestEvent(m) ==
  CASE m.type \in {"GETS", "GET_INSTR", "GETX"} -> "Fetch"
    [] m.type \in {"DMA_READ", "DMA_WRITE"} -> m.type
    [] OTHER -> "Invalid message"

ResponseEvent(m) ==
  CASE m.type = "MEMORY_DATA" -> "Data"
    [] m.type = "ACK" -> "CleanReplacement"
    [] OTHER -> "Invalid message"

MemoryEvent(m) == IF m.type = "MEMORY_READ" THEN "Memory_Data" ELSE "Memory_Ack"

Handle(m, event, rank) ==
  \E t \in Rows(DirectoryTable, dir[m.addr].st, event) :
    LET x == doTransition(t, Context(dir[m.addr], rank), m.addr, m)
    IN /\ dir' = [dir EXCEPT ![m.addr] = x.line]
       /\ latest' = IF x.hit = "store" THEN [latest EXCEPT ![m.addr] = @ + 1] ELSE latest
       /\ Buffers(Dir, m.addr, m, x)

RequestNetwork(a) == \E m \in ArrivedFor(Dir, "request", a) : Handle(m, RequestEvent(m), 0)

ResponseNetwork(a) == \E m \in ArrivedFor(Dir, "response", a) : Handle(m, ResponseEvent(m), 1)

MemQueue(a) == \E m \in ArrivedFor(Dir, "memory", a) : Handle(m, MemoryEvent(m), 2)

\* Every event an in_port can trigger has a transition.  z_stallAndWaitRequest
\* parks the head of the request port, so only that port may run it.
Expected ==
  /\ \A m \in Arrived(Dir, "request") : Rows(DirectoryTable, dir[m.addr].st, RequestEvent(m)) # {}
  /\ \A m \in Arrived(Dir, "response") :
       \E t \in Rows(DirectoryTable, dir[m.addr].st, ResponseEvent(m)) : t.do # <<"z_stallAndWaitRequest">>
  /\ \A m \in Arrived(Dir, "memory") : Rows(DirectoryTable, dir[m.addr].st, MemoryEvent(m)) # {}
=============================================================================
