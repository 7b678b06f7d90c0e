------------------------- MODULE MESI_CMP_directory -------------------------
(***************************************************************************)
(* The cache hierarchy the replay runs on: an L1 controller per core, the  *)
(* shared L2, the directory with memory, a DMA controller and the network  *)
(* between them.  Every transition of a controller is one step, as in the  *)
(* single-threaded simulator.  Each core has at most one request           *)
(* outstanding, which is how the replay uses its ports.                    *)
(***************************************************************************)
EXTENDS Integers, FiniteSets, Bags, MESI_L1Table, MESI_L2Table, MESI_DirectoryTable

CONSTANTS
  Cores, Addrs, L1Size, L2Size, NoAddr, NoCore,
  Workloads   \* the workloads considered; see workload

VARIABLES
  workload,   \* what the cores and the DMA controller may ask for, constant:
              \* accesses [by, type, addr] and the number of stores to a line
  l1, req, latest, blocked, l2, dir, dma, net, waiting

vars == <<workload, l1, req, latest, blocked, l2, dir, dma, net, waiting>>

L1Cache == INSTANCE MESI_L1Cache
L2Cache == INSTANCE MESI_L2Cache
Directory == INSTANCE MESI_Directory
DMAController == INSTANCE MESI_DMA

Init ==
  /\ workload \in Workloads
  /\ L1Cache!Init /\ L2Cache!Init /\ Directory!Init /\ DMAController!Init
  /\ net = EmptyBag /\ waiting = {}

-----------------------------------------------------------------------------
Writes == {"ST", "SC", "Locked_RMW_Read", "Locked_RMW_Write"}

\* The stores to line a that have been asked for.
Stores(a) ==
  latest[a] + Cardinality({c \in Cores : \/ req[c].type \in Writes /\ req[c].addr = a
                                       \/ a \in blocked[c]})
            + (IF dma.st = "BUSY_WR" /\ dma.addr = a THEN 1 ELSE 0)

\* Sequencer::makeRequest puts the request in the mandatory queue of its L1.  The
\* second half of a locked read-modify-write follows the first.
makeRequest(c) ==
  /\ req[c].type = "none"
  /\ \E r \in workload.accesses :
       /\ r.by = c
       /\ IF blocked[c] = {}
          THEN r.type # "Locked_RMW_Write" /\ (r.type \in Writes => Stores(r.addr) < workload.stores)
          ELSE r.type = "Locked_RMW_Write" /\ r.addr \in blocked[c]
       /\ req' = [req EXCEPT ![c] =
            [type |-> r.type, addr |-> r.addr, since |-> latest[r.addr],
             at |-> "queue", on |-> NoAddr]]
  /\ UNCHANGED <<l1, latest, blocked, l2, dir, dma, net, waiting>>

L1Step(c) ==
  /\ \/ L1Cache!MandatoryQueue(c)
     \/ \E a \in Addrs : L1Cache!RequestNetwork(c, a)
     \/ \E a \in Addrs : L1Cache!ResponseNetwork(c, a)
  /\ UNCHANGED <<l2, dir, dma>>

L2Step ==
  /\ \E a \in Addrs :
       \/ \E c \in Cores : L2Cache!L1RequestNetwork(c, a)
       \/ L2Cache!ResponseNetwork(a)
       \/ L2Cache!UnblockNetwork(a)
  /\ UNCHANGED <<l1, req, latest, blocked, dir, dma>>

DirStep ==
  /\ \E a \in Addrs :
       \/ Directory!RequestNetwork(a)
       \/ Directory!ResponseNetwork(a)
       \/ Directory!MemQueue(a)
  /\ UNCHANGED <<l1, req, blocked, l2, dma>>

DMAStep ==
  /\ \/ \E r \in workload.accesses :
          /\ r.by = L2Cache!DMA
          /\ r.type = "DMA_WRITE" => Stores(r.addr) < workload.stores
          /\ DMAController!RequestQueue(r.type, r.addr)
     \/ DMAController!ResponseQueue
  /\ UNCHANGED <<l1, req, latest, blocked, l2, dir, waiting>>

Next ==
  /\ \/ \E c \in Cores : makeRequest(c) \/ L1Step(c)
     \/ L2Step
     \/ DirStep
     \/ DMAStep
  /\ UNCHANGED workload

Spec == Init /\ [][Next]_vars

-----------------------------------------------------------------------------
(***************************************************************************)
(* Fairness.  The network delivers every message, and a controller with a  *)
(* message at a port runs until it has handled it, if only by parking it.  *)
(***************************************************************************)
Fairness ==
  \A a \in Addrs :
    /\ \A c \in Cores :
         /\ WF_vars(L1Cache!MandatoryQueue(c) /\ UNCHANGED <<workload, l2, dir, dma>>)
         /\ WF_vars(L1Cache!RequestNetwork(c, a) /\ UNCHANGED <<workload, l2, dir, dma>>)
         /\ WF_vars(L1Cache!ResponseNetwork(c, a) /\ UNCHANGED <<workload, l2, dir, dma>>)
         /\ WF_vars(L2Cache!L1RequestNetwork(c, a) /\ UNCHANGED <<workload, l1, req, latest, blocked, dir, dma>>)
    /\ WF_vars(L2Cache!ResponseNetwork(a) /\ UNCHANGED <<workload, l1, req, latest, blocked, dir, dma>>)
    /\ WF_vars(L2Cache!UnblockNetwork(a) /\ UNCHANGED <<workload, l1, req, latest, blocked, dir, dma>>)
    /\ WF_vars(Directory!RequestNetwork(a) /\ UNCHANGED <<workload, l1, req, blocked, l2, dma>>)
    /\ WF_vars(Directory!ResponseNetwork(a) /\ UNCHANGED <<workload, l1, req, blocked, l2, dma>>)
    /\ WF_vars(Directory!MemQueue(a) /\ UNCHANGED <<workload, l1, req, blocked, l2, dma>>)

FairSpec == Spec /\ Fairness
=============================================================================
