---------------------------- MODULE MessageBuffer ----------------------------
(***************************************************************************)
(* Ruby's message buffers, between the network and the in-ports of one     *)
(* SLICC controller (mem/ruby/buffers/MessageBuffer), the controller's     *)
(* wakeup loop that takes messages from them (generated by                 *)
(* slicc/symbols/StateMachine.py), and the wakeups that RubyEventQueue     *)
(* keeps for it.  The ports are numbered by rank, the highest first.       *)
(*                                                                         *)
(* What a controller does with the message at the head of a port is not    *)
(* modelled: it dequeues it (perhaps waking the messages stalled for its   *)
(* address), recycles it, stalls it, delays it because its address is      *)
(* blocked, or leaves it for want of a resource, as its setup lets the     *)
(* port do.                                                                *)
(*                                                                         *)
(* Time is relative to the current cycle: due counts the cycles until a    *)
(* message may be dequeued, wakeups holds the distances of the scheduled   *)
(* wakeups.  A message that is due stays so, with the order of the heap    *)
(* kept by its place in the sequence.                                      *)
(***************************************************************************)
EXTENDS Integers, Sequences, FiniteSets, Functions

CONSTANTS
    MaxRank,                  \* the in-ports are 0 .. MaxRank
    Addrs,                    \* line addresses
    Setups,                   \* ways in which the buffers are set up and used
    Deltas,                   \* rank -> the latencies its producers use
    RecycleLatency,           \* m_recycle_latency
    TransitionsPerCycle,      \* m_transitions_per_cycle
    SizeBound                 \* bound on how far m_size may leave the heap

UseKinds == {"wake", "recycle", "stall", "delay", "resource"}

Ranks == 0 .. MaxRank

ASSUME UsesAssumption ==
    /\ MaxRank \in Nat
    /\ Setups \subseteq [uses : [Ranks -> SUBSET UseKinds], strict : SUBSET Ranks,
                         m_max_size : Nat \cup {-1}, messages : Nat \ {0}]
    /\ Deltas \in [Ranks -> SUBSET (Nat \ {0})]
    /\ RecycleLatency \in Nat \ {0}
    /\ TransitionsPerCycle \in Nat \ {0}
    /\ SizeBound \in Nat

VARIABLES
    buf,         \* buf[r]: the buffer of port r
    wakeups,     \* m_scheduled_wakeups of the controller
    waiting,     \* m_waiting_buffers: address -> ranks with stalled messages
    loop,        \* the wakeup loop: the port it looks at, or Asleep, and its count
    setup,       \* the setup of this execution
    aborted      \* "no", or the panic or assertion of the buffer that failed

vars == <<buf, wakeups, waiting, loop, setup, aborted>>

Uses == setup.uses                \* rank -> what its messages may meet
Strict == setup.strict            \* ranks of the ordered buffers (m_strict_fifo)
MaxSize == setup.m_max_size       \* -1 for no limit
MaxMessages == setup.messages     \* bound on the messages in a buffer

Asleep == [port |-> -2, counter |-> 0]

Top == [port |-> MaxRank, counter |-> 0]

EmptyBuffer ==
    [heap |-> << >>, stalled |-> [a \in Addrs |-> 0],
     size |-> 0, popped |-> FALSE, enqueued |-> FALSE,
     m_size_at_cycle_start |-> 0, m_msgs_this_cycle |-> 0, m_last_arrival_time |-> 0]

Init ==
    /\ buf = [r \in Ranks |-> EmptyBuffer]
    /\ wakeups = {}
    /\ waiting = [a \in Addrs |-> {}]
    /\ loop = Asleep
    /\ setup \in Setups
    /\ aborted = "no"

(***************************************************************************)
(* The heap, as the sequence of its nodes in the order of operator>: by    *)
(* time, then by message counter.  Counters are renumbered to 1, 2, ...    *)
(***************************************************************************)
Renumbered(s) ==
    [i \in DOMAIN s |->
        [s[i] EXCEPT !.counter = Cardinality({j \in DOMAIN s : s[j].counter <= s[i].counter})]]

\* push_heap.  The new node is not yet due, so it follows every node that is.
PushHeap(s, node) ==
    LET Before(n) == n.due < node.due \/ (n.due = node.due /\ n.counter < node.counter)
        k == Cardinality({i \in DOMAIN s : Before(s[i])})
    IN Renumbered(SubSeq(s, 1, k) \o <<node>> \o SubSeq(s, k + 1, Len(s)))

Node(addr, due, s) == [addr |-> addr, due |-> due, counter |-> Len(s) + 1]

isReady(x) == x.heap # << >> /\ x.heap[1].due = 0

\* The size a producer sees.
current_size(x) ==
    IF ~x.popped THEN x.size
    ELSE IF ~x.enqueued THEN x.m_size_at_cycle_start
    ELSE x.m_size_at_cycle_start + x.m_msgs_this_cycle

areNSlotsAvailable(x, n) == current_size(x) + n <= MaxSize

\* Mutant: an ordered buffer keeps no last arrival time.
TooEarlyNever(r, x, delta) == FALSE

\* "FIFO ordering violated".
TooEarly(r, x, delta) == r \in Strict /\ delta < x.m_last_arrival_time

\* The buffer after enqueue(message, delta); the wakeup is scheduled by the caller.
enqueue(x, addr, delta) ==
    [x EXCEPT !.heap = PushHeap(@, Node(addr, delta, @)),
              !.size = @ + 1,
              !.enqueued = TRUE,
              !.m_msgs_this_cycle = @ + 1,
              !.m_last_arrival_time = delta]

\* pop(): what producers see keeps the size from before the cycle's first pop.
pop(x) ==
    [x EXCEPT !.heap = Renumbered(Tail(@)),
              !.size = @ - 1,
              !.popped = TRUE,
              !.m_size_at_cycle_start = IF x.popped THEN @ ELSE x.size]

recycle(x) ==
    [x EXCEPT !.heap = PushHeap(Tail(@), [Head(@) EXCEPT !.due = RecycleLatency])]

stallMessage(x) == [pop(x) EXCEPT !.stalled[x.heap[1].addr] = @ + 1]

delayHead(x) == enqueue([x EXCEPT !.heap = Renumbered(Tail(@))], x.heap[1].addr, 1)

\* The messages stalled for an address go back on the heap, to be looked at in the
\* next cycle.  m_size is not touched.
reanalyzeMessages(x, addr) ==
    LET k == Cardinality({i \in DOMAIN x.heap : x.heap[i].due <= 1})
        back == [i \in 1 .. x.stalled[addr] |->
                    [addr |-> addr, due |-> 1, counter |-> Len(x.heap) + i]]
    IN [x EXCEPT !.heap = Renumbered(SubSeq(@, 1, k) \o back \o SubSeq(@, k + 1, Len(@))),
                 !.stalled[addr] = 0]

(***************************************************************************)
(* A producer puts a message into the buffer of port r.  Producers are     *)
(* other consumers of the event queue, so the controller is not in its     *)
(* wakeup.                                                                 *)
(***************************************************************************)
Messages(x) == Len(x.heap) + FoldFunction(+, 0, x.stalled)

Produce(r, addr, delta) ==
    /\ aborted = "no" /\ loop = Asleep
    /\ (MaxSize # -1 => areNSlotsAvailable(buf[r], 1)) /\ Messages(buf[r]) < MaxMessages
    /\ IF TooEarly(r, buf[r], delta)
       THEN aborted' = "FIFO ordering violated" /\ UNCHANGED <<buf, wakeups>>
       ELSE /\ buf' = [buf EXCEPT ![r] = enqueue(@, addr, delta)]
            /\ wakeups' = wakeups \cup {delta}
            /\ UNCHANGED aborted
    /\ UNCHANGED <<waiting, loop>>

(***************************************************************************)
(* The controller's wakeup.                                                *)
(***************************************************************************)
Wakeup ==
    /\ aborted = "no" /\ loop = Asleep /\ 0 \in wakeups
    /\ loop' = Top
    /\ UNCHANGED <<buf, wakeups, waiting, aborted>>

\* The loop is at port r, with transitions left and a message to look at.
At(r) ==
    /\ aborted = "no"
    /\ loop.port = r /\ loop.counter < TransitionsPerCycle
    /\ isReady(buf[r])

Again(n) == loop' = [port |-> MaxRank, counter |-> loop.counter + n]

\* Mutant: the ports from rank 1 on are woken.
wakeUpBuffersFromOne(b, r, addr) ==
    [k \in Ranks |->
        IF k \in waiting[addr] /\ k < r /\ k > 0 THEN reanalyzeMessages(b[k], addr) ELSE b[k]]

\* wakeUpBuffers(addr) from port r: the lower ranks that wait for the address.
wakeUpBuffers(b, r, addr) ==
    [k \in Ranks |->
        IF k \in waiting[addr] /\ k < r THEN reanalyzeMessages(b[k], addr) ELSE b[k]]

\* A transition that dequeues the message, and may wake those that wait for it.
Dequeue(r) ==
    LET addr == buf[r].heap[1].addr
    IN /\ At(r)
       /\ \/ /\ buf' = [buf EXCEPT ![r] = pop(@)]
             /\ UNCHANGED <<wakeups, waiting, aborted>>
          \/ /\ "wake" \in Uses[r]
             /\ LET woken == {k \in waiting[addr] : k < r}
                IN /\ aborted' = IF \E k \in woken : buf[k].stalled[addr] = 0 THEN "assert" ELSE "no"
                   /\ wakeups' = wakeups \cup {1 : k \in woken}
             /\ buf' = wakeUpBuffers([buf EXCEPT ![r] = pop(@)], r, addr)
             /\ waiting' = [waiting EXCEPT ![addr] = {}]
       /\ Again(1)

Recycle(r) ==
    /\ At(r) /\ "recycle" \in Uses[r]
    /\ buf' = [buf EXCEPT ![r] = recycle(@)]
    /\ wakeups' = wakeups \cup {RecycleLatency}
    /\ Again(1)
    /\ UNCHANGED <<waiting, aborted>>

\* stall_and_wait: stallBuffer, then stallMessage.
StallAndWait(r) ==
    /\ At(r) /\ "stall" \in Uses[r] /\ buf[r].size > -SizeBound
    /\ waiting' = [waiting EXCEPT ![buf[r].heap[1].addr] = @ \cup {r}]
    /\ buf' = [buf EXCEPT ![r] = stallMessage(@)]
    /\ Again(1)
    /\ UNCHANGED <<wakeups, aborted>>

\* peek with block_on: the address is blocked by another port.
Delay(r) ==
    /\ At(r) /\ "delay" \in Uses[r] /\ buf[r].size < Messages(buf[r]) + SizeBound
    /\ IF TooEarly(r, buf[r], 1)
       THEN aborted' = "FIFO ordering violated" /\ UNCHANGED <<buf, wakeups>>
       ELSE /\ buf' = [buf EXCEPT ![r] = delayHead(@)]
            /\ wakeups' = wakeups \cup {1}
            /\ UNCHANGED aborted
    /\ Again(0)
    /\ UNCHANGED <<waiting>>

\* Mutant: a message left for want of a resource gets no other wakeup.
ResourceStallForgotten(r) ==
    /\ At(r) /\ "resource" \in Uses[r]
    /\ loop' = [loop EXCEPT !.port = @ - 1]
    /\ UNCHANGED <<buf, wakeups, waiting, aborted>>

\* A transition whose resources are missing leaves the message where it is.
ResourceStall(r) ==
    /\ At(r) /\ "resource" \in Uses[r]
    /\ wakeups' = wakeups \cup {1}
    /\ loop' = [loop EXCEPT !.port = @ - 1]
    /\ UNCHANGED <<buf, waiting, aborted>>

NotReady(r) ==
    /\ aborted = "no" /\ loop.port = r /\ loop.counter < TransitionsPerCycle
    /\ ~isReady(buf[r])
    /\ loop' = [loop EXCEPT !.port = @ - 1]
    /\ UNCHANGED <<buf, wakeups, waiting, aborted>>

\* The wakeup returns, and its time is removed from the scheduled ones: nothing is
\* left to do, or the cycle's transitions are used up.
Return ==
    /\ aborted = "no" /\ loop # Asleep
    /\ \/ /\ loop.counter = TransitionsPerCycle
          /\ wakeups' = (wakeups \cup {1}) \ {0}
       \/ /\ loop.counter < TransitionsPerCycle
          /\ loop.port = -1
          /\ wakeups' = wakeups \ {0}
    /\ loop' = Asleep
    /\ UNCHANGED <<buf, waiting, aborted>>

\* A cycle passes once its wakeup has run.
Earlier(n) == IF n > 0 THEN n - 1 ELSE 0

Aged(x) ==
    [x EXCEPT !.heap = [i \in DOMAIN x.heap |->
                          [x.heap[i] EXCEPT !.due = Earlier(x.heap[i].due)]],
              !.popped = FALSE, !.enqueued = FALSE,
              !.m_size_at_cycle_start = 0, !.m_msgs_this_cycle = 0,
              !.m_last_arrival_time = Earlier(@)]

Tick ==
    /\ aborted = "no" /\ loop = Asleep /\ 0 \notin wakeups
    /\ buf' = [r \in Ranks |-> Aged(buf[r])]
    /\ wakeups' = {w - 1 : w \in wakeups}
    /\ UNCHANGED <<waiting, loop, aborted>>

Step ==
    \/ \E r \in Ranks, addr \in Addrs : \E delta \in Deltas[r] : Produce(r, addr, delta)
    \/ Wakeup \/ Return \/ Tick
    \/ \E r \in Ranks : Dequeue(r) \/ Recycle(r) \/ StallAndWait(r) \/ Delay(r)
                        \/ ResourceStall(r) \/ NotReady(r)

Next == Step /\ UNCHANGED setup

Spec == Init /\ [][Next]_vars
-----------------------------------------------------------------------------
Entries == [addr : Addrs, due : Nat, counter : Nat]

BufferTypes ==
    [heap : Seq(Entries), stalled : [Addrs -> Nat], size : Int, popped : BOOLEAN,
     enqueued : BOOLEAN, m_size_at_cycle_start : Int, m_msgs_this_cycle : Nat,
     m_last_arrival_time : Nat]

\* The order of the heap.  Among messages that are due it is that of the sequence.
Precedes(m, n) == m.due <= n.due /\ (m.due = n.due /\ m.due > 0 => m.counter <= n.counter)

Ordered(s) == \A i, j \in 1 .. Len(s) : i < j => Precedes(s[i], s[j])

\* Every variable has its type, and the heap is sorted by time, then by counter.
TypeOK ==
    /\ buf \in [Ranks -> BufferTypes] /\ \A r \in Ranks : Ordered(buf[r].heap)
    /\ wakeups \subseteq Nat
    /\ waiting \in [Addrs -> SUBSET Ranks]
    /\ loop \in [port : -2 .. MaxRank, counter : 0 .. TransitionsPerCycle]
    /\ setup \in Setups

\* Outside its wakeup the controller is scheduled for the time of every message
\* that is still to come, and is scheduled at all while one is waiting: whatever
\* the ports did with their messages (recycled, delayed, left, put back), none is
\* left for which nobody will look.
NoLostWakeup ==
    loop = Asleep =>
        \A r \in Ranks : \A i \in DOMAIN buf[r].heap :
            IF buf[r].heap[i].due > 0 THEN buf[r].heap[i].due \in wakeups ELSE wakeups # {}

\* A stalled message is not forgotten ("the controller is responsible to call
\* reanalyzeMessages"): the port it came from is registered for its address, and
\* only a port that has one is, or reanalyzeMessages would fail its assertion.
StalledCanWake ==
    /\ aborted # "assert"
    /\ \A a \in Addrs, r \in Ranks : buf[r].stalled[a] > 0 <=> r \in waiting[a]

\* An ordered buffer whose messages are neither recycled nor put back hands them
\* out in the order in which they were enqueued, although the heap sorts by time.
FifoOrder ==
    \A r \in Strict :
        Uses[r] \subseteq {"wake", "resource"} =>
            \A i \in DOMAIN buf[r].heap : buf[r].heap[i].counter = i
==============================================================================
