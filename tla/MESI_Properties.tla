--------------------------- MODULE MESI_Properties ---------------------------
(* What the cache hierarchy promises to the cores, to RubyPort and to itself. *)
EXTENDS MESI_CMP_directory

Messages == BagToSet(net)

\* No message, request or replacement reaches a controller in a state that has
\* no transition for it: the generated code would stop with "Invalid transition".
NoInvalidTransition ==
  /\ \A c \in Cores : L1Cache!Expected(c)
  /\ L2Cache!Expected /\ Directory!Expected /\ DMAController!Expected

-----------------------------------------------------------------------------
(***************************************************************************)
(* Functional accesses: RubyPort asks every controller for its permission  *)
(* on the line and reads the first copy that may be read.                  *)
(***************************************************************************)
L1Permission(st) ==
  CASE st \in {"NP", "I"} -> "Invalid"
    [] st \in {"S", "E", "SM"} -> "Read_Only"
    [] st = "M" -> "Read_Write"
    [] OTHER -> "Busy"

L2Permission(st) ==
  CASE st = "NP" -> "Invalid" [] st = "SS" -> "Read_Only" [] st = "M" -> "Read_Write"
    [] st = "MT" -> "Maybe_Stale" [] OTHER -> "Busy"

DirPermission(st) ==
  CASE st = "I" -> "Read_Write" [] st = "M" -> "Maybe_Stale" [] OTHER -> "Busy"

\* What the controllers answer for line a: the permission and the data.
Copies(a) ==
  {<<c, L1Permission(l1[c][a].st), l1[c][a].data>> : c \in Cores}
    \cup {<<L2Cache!L2, L2Permission(l2[a].st), l2[a].data>>,
          <<L2Cache!Dir, DirPermission(dir[a].st), dir[a].data>>}

Readable(a) == {k \in Copies(a) : k[2] \in {"Read_Only", "Read_Write"}}

\* doFunctionalRead and doFunctionalWrite assert that at most one controller has
\* the line with read-write permission; "then there is bug in coherence protocol"
\* otherwise.
OneReadWriteCopy ==
  \A a \in Addrs : Cardinality({k \in Copies(a) : k[2] = "Read_Write"}) <= 1

\* doFunctionalRead: "Any valid copy would suffice".  Every readable copy, in
\* whichever controller the loop meets first, holds every store performed.
ReadableCopiesAreCurrent == \A a \in Addrs : \A k \in Readable(a) : k[3] = latest[a]

-----------------------------------------------------------------------------
\* A load returns what its line held at some moment since the core made the
\* request, even when the line is invalidated before the data comes (IS_I), and
\* so does a DMA read, also when an L1 owns the line.
ReadsAreFresh ==
  [][/\ \A c \in Cores :
          (req[c].type \in {"LD", "IFETCH", "LL"} /\ req'[c].type = "none") =>
            l1'[c][req[c].addr].data \in req[c].since..latest'[req[c].addr]
     /\ (dma.st = "BUSY_RD" /\ dma'.st = "READY") =>
          dma'.got \in dma.since..latest'[dma.addr]]_vars

\* A locked read-modify-write is atomic: while its core has the line blocked
\* (blockOnQueue), nobody stores to it before its second half does.
LockedRMWIsAtomic ==
  [][\A c \in Cores : \A a \in blocked[c] :
       latest'[a] # latest[a] => latest'[a] = latest[a] + 1 /\ a \notin blocked'[c]]_vars

\* readCallback and writeCallback assert that the line is in the table of
\* outstanding requests: a miss in progress is for the core's own request.
CallbacksHaveARequest ==
  \A c \in Cores, a \in Addrs :
    l1[c][a].st \in {"IS", "IS_I", "IM", "SM"} =>
      /\ req[c].addr = a /\ req[c].at = "issued"
      /\ l1[c][a].in = L1Cache!ArrayOf(req[c].type) /\ l1[c][a].tbe
      /\ (req[c].type \in Writes \cup {"LL"}) = (l1[c][a].st \in {"IM", "SM"})

\* The assertions of the sequencer, of RubyPort's functional accesses and of the
\* controllers: a full set is never allocated in, setState of the directory
\* counts its owners, the L2 answers the GETS it recorded.
ControllerAssertions ==
  /\ CallbacksHaveARequest /\ OneReadWriteCopy
  /\ \A c \in Cores, array \in {"I", "D"} : Cardinality(L1Cache!Cached(c, array)) <= L1Size
  /\ Cardinality(L2Cache!Cached) <= L2Size
  /\ \A a \in Addrs :
       /\ dir[a].st = "I" => dir[a].owner = {}
       /\ dir[a].st = "M" => dir[a].owner = {L2Cache!L2}
       /\ l2[a].st = "ISS" => Cardinality(l2[a].GetS) = 1
       /\ l2[a].st = "IS" => l2[a].GetS # {}

-----------------------------------------------------------------------------
InFlight(type, from, dst, a) ==
  \E m \in Messages : m.type = type /\ m.from = from /\ m.dst = dst /\ m.addr = a

Invalidated(c, a) == \E m \in Messages : m.type = "INV" /\ m.dst = c /\ m.addr = a

\* The L2 is inclusive: it counts every L1 with a copy among the sharers, unless
\* it is recalling the copy or the L1's unblock is still on its way.  The copy of
\* an L1 that waits for the acknowledgements of its upgrade (SM) may be one the L2
\* will count at the unblock that it blocks the line for.
L2KnowsTheCopies ==
  \A c \in Cores, a \in Addrs :
    l1[c][a].st \in {"S", "E", "M", "SM"} =>
      \/ l2[a].in /\ c \in l2[a].Sharers
      \/ Invalidated(c, a)
      \/ \E u \in {"UNBLOCK", "EXCLUSIVE_UNBLOCK"} : InFlight(u, c, L2Cache!L2, a)
      \/ l1[c][a].st = "SM" /\ l2[a].st \in {"SS_MB", "MT_MB"}

\* "L2 cache entry Modified, not present in any L1s", and in MT only the owner
\* has a copy.
OwnershipIsExclusive ==
  \A a \in Addrs :
    /\ l2[a].st = "M" => \A c \in Cores : l1[c][a].st \notin {"S", "E", "M", "SM"}
    /\ l2[a].st = "MT" =>
         \A c \in Cores : l1[c][a].st \in {"S", "E", "M"} => c = l2[a].Exclusive

L1Stable == {"NP", "I", "S", "E", "M"}
L2Stable == {"NP", "SS", "M", "MT"}
DirStable == {"I", "M"}

\* When no message is in flight and no core waits, every controller is in a
\* stable state and the three levels agree on who has the line.
QuietMeansSettled ==
  (Messages = {} /\ \A c \in Cores : req[c].at # "issued") =>
    /\ waiting = {}
    /\ \A a \in Addrs :
         /\ l2[a].st \in L2Stable /\ dir[a].st \in DirStable
         /\ \A c \in Cores : l1[c][a].st \in L1Stable
         /\ (dir[a].st = "M") = (l2[a].st # "NP")
         /\ l2[a].st = "MT" => l1[l2[a].Exclusive][a].st \in {"E", "M"}

\* Every load, store and fetch of a core is answered.
RequestsComplete == \A c \in Cores : req[c].type # "none" ~> req[c].type = "none"
=============================================================================
