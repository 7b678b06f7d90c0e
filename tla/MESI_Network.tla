---------------------------- MODULE MESI_Network ----------------------------
(***************************************************************************)
(* The messages of the MESI_CMP_directory protocol and the buffers that    *)
(* carry them.  All the virtual networks are declared ordered="false", so  *)
(* a controller may receive any message in flight to it.  A controller     *)
(* that cannot handle a message yet parks it under the address it waits    *)
(* for (stall_and_wait); nothing looks at it again until a transition on   *)
(* that address calls wakeUpBuffers.                                       *)
(***************************************************************************)
EXTENDS Integers, Sequences, Bags

CONSTANTS
  Cores,      \* the processors, each with an L1 controller
  Addrs       \* the cache lines; all of them map to one set

VARIABLES
  net,        \* the messages in flight, a bag
  waiting     \* the parked messages: [at, on, msg]

\* The other controllers, as addresses of messages.
L2 == "L2"
Dir == "Dir"
DMA == "DMA"

\* A RequestMsg: "from" is its Requestor.
Request(type, from, dst, a) ==
  [vnet |-> "request", type |-> type, from |-> from, dst |-> dst, addr |-> a,
   data |-> 0, dirty |-> FALSE, acks |-> 0]

\* A ResponseMsg: "from" is its Sender.
Response(type, from, dst, a) ==
  [vnet |-> "response", type |-> type, from |-> from, dst |-> dst, addr |-> a,
   data |-> 0, dirty |-> FALSE, acks |-> 0]

WithData(m, line) == [m EXCEPT !.data = line.data, !.dirty = line.dirty]

WithAcks(m, n) == [m EXCEPT !.acks = n]

\* What the in_port "vnet" of "node" may find at the head of its buffer.
Arrived(node, vnet) == {m \in BagToSet(net) : m.dst = node /\ m.vnet = vnet}

ArrivedFor(node, vnet, a) == {m \in Arrived(node, vnet) : m.addr = a}

(***************************************************************************)
(* A transition's actions run on a context: the line's entry and TBE, the  *)
(* messages enqueued so far, and what becomes of the message at the head   *)
(* of the port: "keep" when it stays there and is looked at at once,       *)
(* "recycle" when it is looked at later.                                   *)
(***************************************************************************)
Context(line, rank) ==
  [line |-> line, out |-> {}, head |-> "keep", wake |-> FALSE, hit |-> "none",
   rank |-> rank]

Enqueue(x, msgs) == [x EXCEPT !.out = @ \cup msgs]

\* wakeUpBuffers reanalyses the ports of a lower rank than the current one.
\* Every stall_and_wait of the protocol is on a port of rank 0.
WakeUp(x) == [x EXCEPT !.wake = x.rank > 0]

\* The effect of a handled message on the buffers of "node".
Buffers(node, a, m, x) ==
  LET woken == IF x.wake THEN {w \in waiting : w.at = node /\ w.on = a} ELSE {}
      taken == IF x.head \in {"pop", "stall"} THEN SetToBag({m}) ELSE EmptyBag
      parked == IF x.head = "stall" THEN {[at |-> node, on |-> a, msg |-> m]} ELSE {}
  IN /\ net' = (net (-) taken) (+) SetToBag(x.out) (+) SetToBag({w.msg : w \in woken})
     /\ waiting' = (waiting \ woken) \cup parked
=============================================================================
