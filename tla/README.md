# SynchroTrace replay: verification project

SynchroTrace replays recorded multi-threaded traces on gem5's Ruby memory
system. Each application thread has a file of *computation* events (integer and
float work, then memory requests), *communication* events (reads of data that
another thread produced, each naming the producer's event) and *pthread API*
events (create, join, mutex, spin lock, barrier, condition variable). The replay
engine decides when each event happens, so that the recorded synchronisation is
respected on a machine whose timing is being simulated.

The engine is `src/src/cpu/testers/synchrotrace/SynchroTrace.cc` (called *the
source* below; line numbers are of that file unless another is named). Below it
lie gem5's event queue (`src/src/sim/eventq.cc`), Ruby's port and sequencer
(`src/src/mem/ruby/system/`), the message buffers between Ruby's controllers
(`src/src/mem/ruby/buffers/`) and the MESI_CMP_directory protocol
(`src/src/mem/protocol/`).

## 1. The parts and how they interact

| Part | State | Operations | Called by |
|---|---|---|---|
| Trace and pthread parsing | `addresstoIdMap`, `barrierMap` | `processPthreadFile`, `processCommEvent`, `processCompEvent`, `processPthreadEvent` | `init`, `readEventFile` |
| Event queue manager | `eventMap` (a `StaticDeque` per thread), the open files | `generateEventQueue`, `replenishEvents`, `readEventFile`, `createSubEvents` | `init`, both wakeups, `hitCallback` |
| Thread scheduler | `threadMap` (threads per core, the head runs), `threadStartedMap`, core events | `initialThreadMapping`, `swapThreads`, `swapStalledThreads`, `moveThreadToHead` | `wakeup(procID)`, `hitCallback` |
| Progress | the front event's sub-events: `triggerTime`, `initialTriggerTime`, `msgTriggered` | `progressEvents` | `wakeup(procID)` |
| Pthread replay | `mutexLocks`, `spinLocks`, `threadMutexMap`, `threadWaitMap`, `threadContMap`, `worker_thread_count` | `progressPthreadEvent`, `checkBarriers` | `progressEvents` |
| Dependencies | none of its own: reads the producers' queues | `checkCommDependency`, `checkAllCommDependencies` | progress, scheduler |
| Memory request manager | requests in flight in Ruby | `triggerCommReadMsg`, `triggerCompReadMsg`, `triggerCompWriteMsg`, `hitCallback` | progress; Ruby's port |
| gem5 event queue | bins of events by time and priority | `schedule`, `deschedule`, `reschedule`, `serviceOne` | everything |
| Ruby port and sequencer | tables of outstanding requests, retry list, deadlock check | `recvTimingReq`, `makeRequest`, callbacks, `wakeup`, `drain` | memory request manager, L1 |
| Message buffers | heaps of messages by arrival time, stalled messages | `enqueue`, `pop`, `recycle`, `stallMessage`, `delayHead`, `reanalyzeMessages` | controllers |
| MESI_CMP_directory | L1, L2, directory and DMA controllers | the transition tables | sequencer, message buffers |

gem5's loop is single-threaded: an event's `process()` runs to its end before
the next one starts. So there is no interleaving *inside* the master wakeup, a
core's wakeup, a response or a protocol transition, and any interleaving
*between* them: cores poll the same locks in one cycle, a barrier's last arrival
changes the flags of threads on other cores, a response arrives after an
arbitrary time, messages on unordered networks overtake each other.

What is hard to test here, each hazard at the line where it bites and with the
properties that would catch it going wrong, is `hazards` in `PROJECT.json`.

## 2. Modules

| Modules | Content |
|---|---|
| `SynchroTraceState`, `SynchroTrace` | the replay engine: state and events; actions, fairness |
| `SynchroTraceProperties`, `ReplayOrder`, `SynchroTraceRefinement` | its properties; the order the traces record, as an abstract specification; the refinement mapping |
| `SynchroTraceInvariants`, `SynchroTraceProofs`, `SynchroTraceTheorems` | inductive invariants; their proofs; the theorems |
| `PthreadFile` | the two maps made from `sigil.pthread.out` |
| `RequestSplitting`, `SubEvents`, `TraceLine` | cutting address ranges into requests; sharing an event's work out over its sub-events; the two composed, from a trace line to its sub-events |
| `SubEventsProofs`, `TraceLineProofs` | their proofs |
| `StaticDeque`, `BoundedDeque`, `StaticDequeProofs` | the ring buffer behind the event queues and sub-event lists; what it promises; the proof of the refinement |
| `EventQueue`, `EventList`, `EventQueueRefinement`, `EventQueueProofs` | gem5's event queue as linked bins; the sorted list it promises; the refinement mapping; the proofs |
| `RubyPort`, `RubyPortProofs` | Ruby's port and sequencer |
| `MessageBuffer`, `MessageBufferProofs` | the message buffers and the wakeup loop that SLICC generates for a controller |
| `MESI_Network`, `MESI_Transition`, `MESI_L1Table`, `MESI_L2Table`, `MESI_DirectoryTable`, `MESI_L1Cache`, `MESI_L2Cache`, `MESI_Directory`, `MESI_DMA`, `MESI_CMP_directory`, `MESI_Properties` | the protocol: messages, the transition tables, one module per controller, their composition, the properties |
| `MC...` | instances for TLC; one `.cfg` per run |

The parts are checked apart and meet at these seams. `SynchroTrace` treats Ruby
as a device that accepts up to `MaxOutstanding` requests and answers each after
any time; `OneOutstanding` shows that the engine never has two. `RubyPort` is
that device's front, with its L1 as a device that answers. `MESI_CMP_directory`
is that L1 and all behind it, over a network that delivers in any order.
`MessageBuffer` is what the protocol's `stall_and_wait`, `recycle` and
`wakeUpBuffers` do. `SynchroTrace` counts a computation event's sub-events;
`TraceLine` shows what they contain.

### The replay engine

| Variable | Code |
|---|---|
| `file`, `popped`, `loaded` | thread `t`'s file and its queue: `eventMap[t]` is `file[t][popped[t]+1 .. loaded[t]]`. An event's EventID is its position, as the traces number them |
| `sub[t]` | sub-events of the front event: how many are left, cycles to the current one's `triggerTime`, cycles since `initialTriggerTime` (saturating just above `MAX_COMM_WAIT`), `msgTriggered` |
| `threadMap`, `threadStartedMap`, `threadMutexMap`, `threadContMap`, `mutexLocks`, `spinLocks`, `threadWaitMap`, `worker_thread_count` | the members of that name |
| `core[p]`, `master` | cycles to the event in gem5's queue, or `Unscheduled` |
| `inflight[p]` | requests of core `p` that Ruby accepted and has not answered |
| `stopped`, `aborted` | `exitSimLoop` was called; an `assert` failed |

Time is relative: `Tick` decrements every countdown once nothing is due in the
current cycle, which keeps the state space finite without a bound on time.

| Action | Code |
|---|---|
| `MasterWakeup` | `wakeup()`: replenish all queues, create the sub-events of the running threads and schedule their cores, `checkCompletion`, reschedule |
| `WakeIdle`, `WakeCreateSubEvents`, `WakeEarly`, `WakeSend`, `WakeCommWait`, `WakeComputed` | `wakeup(procID)`, by the branch that `progressEvents` takes |
| `MutexLock`, `MutexUnlock`, `SpinLock`, `SpinUnlock`, `LockWait`, `Create`, `Join`, `JoinWait`, `BarrierArrive`, `BarrierLeave`, `Cond`, `AssertFails` | `wakeup(procID)` reaching a case of `progressPthreadEvent` |
| `HitNext`, `HitLast` | `hitCallback` with further sub-events and with the last |
| `Tick`, `Terminated` | gem5's loop: the next cycle; the loop was left |

Each core action ends in `SwapStalled`, since `wakeup(procID)` always ends in
`swapStalledThreads`. An event that ends goes through `Finish` (or `HitLast`):
pop, `swapThreads`, replenish, schedule, in the code's order, as one step.

A memory request is a token here (its address and size do not influence the
engine), the work before a request is a number of cycles from `Costs`, Ruby's
latency is any number of cycles, pthread addresses are model values.

`init()` reads `num_of_mapped_processors` (line 76) before line 107 sets it, and
indexes `coreEvents` before it is filled. The outcomes are: an indeterminate
value of at most 0, in which no core is scheduled and the replay works, and any
other value, which ends the program before its first event. The model starts from
the first.

`ReplayOrder` is what a replay promises whatever the scheduler and the memory do:
its only state is how many events each thread has completed, and an event may
complete when the traces allow it (its thread was created, its producers are far
enough, its lock is free, its joined thread is finished, its barrier is full).

### From a trace line to its sub-events

`RequestSplitting` is the `do while` loop of `processCommEvent`,
`processCompWriteEvent` and `processCompReadEvent` (820-849, 973-1002,
1038-1067), one turn per step, with addresses modulo a word (`Word`) and folded
into the memory (`MemorySize`). `SubEvents` is `createSubEvents` (1528-1647), one
sub-event per step, `rand()` being any value. `TraceLine` takes a line's ranges
one after the other (`NextRange`, `SplitRange`), queues the event (`Queue`) and
creates its sub-events (`Create`). The text of a line is not modelled.

### gem5's event queue

`q` has the pointers `head`, `nextBin`, `nextInBin` and the times `when`, relative
to `curTick`. Pointers of events that left the queue keep their values, as in the
code. `insert`, `remove`, `insertBefore`, `removeItem` are the functions of
`eventq.cc`; `schedule`, `deschedule`, `reschedule`, `squash` and `serviceOne`
are the actions. A loop along the pointers is a recursive function (`Walked`) and
the chain it visits (`Chain`). `EventList` is the list the queue promises, kept as
its events and which is ahead of which; `EventQueueRefinement` maps the queue to it
by the walk that `debugVerify()` makes: what it meets (`Walk`), and in which order
(`WalkOrder`).

### Ruby

`RubyPort` has the sequencer's two request tables and `m_outstanding_count`, the
retry list, the queued responses of each port and the drain state;
`recvTimingReq`, `readCallback`, `writeCallback`, `wakeup`, `sendDeferredPacket`,
`Drain` and `Resume` are its actions, `ShortFetch` an access that needs no
request. Times are ages in cycles.

`MessageBuffer` has a buffer per in-port (heap, sizes, stalled messages), the
controller's scheduled wakeups, `m_waiting_buffers`, and the position of the
generated `wakeup()` loop, which is cut into one step per message looked at. What
a message may meet at a port (stall, recycle, delay, wake, a missing resource) is
a parameter, `Setups`.

Each cache controller has the transition table of its `.sm` file, row by row, in a
module of its own (TLC evaluates a table once when the composition extends it), and
`Do`, which says what each named action does; `doTransition` runs a row's actions
and then `setState`, as the generated code does. A line is its cache entry and its
TBE together. The data of a line is the number of stores it has seen, so that a
stale copy is a smaller number. The victim of a replacement is any line of the
set.

## 3. Runs

| Run | Instance | Shows |
|---|---|---|
| `replay` | 45 programs of three threads on two cores, threads 0 and 2 on one of them: 32 fork-join programs (one or two barrier rounds, critical sections, communication before and after the barrier, the OS as a producer), one in which a dependency wait times out into a swap, nine with nested mutexes, spin locks and condition variables, three with an event that is not replayed or an unlock without its lock | `TypeOK`, `QueueOK`, `StoppedMeansReplayed`, `OneOutstanding`, `NoLostWakeup`, `BarrierRounds`, `CommOrder`, `CreateJoinOrder`, `LockExclusion`, `AbortsOnlyOnBadTrace`, `ImplementsReplayOrder`, and every replay ends (`Completes`) |
| `shared_core` | the fork-join programs on one core: every wait depends on swapping | `Completes` |
| `static_deque` | three slots, two elements | `RingOK` and `Implements`: each call has the effect, the result and the exception it has on a bounded sequence |
| `trace_line` | lines of 4 bytes, a memory of 12, requests of at most 3, words modulo 36; every range of the address space, every mix of counts up to 3 | `RequestsFitALine`, `NextByte`, `EveryTurnAdvances`, `WorkConserved`, `EveryRequestSent`, `TrapOnlyWithoutRange`, `LineReplayed` |
| `mesi_coherence` | eight workloads on caches of one line: two and three cores on one line, write-backs, recalls, a DMA device, locked read-modify-writes, linked accesses | `NoInvalidTransition`, `ReadableCopiesAreCurrent`, `L2KnowsTheCopies`, `OwnershipIsExclusive`, `ControllerAssertions`, `QuietMeansSettled`, `ReadsAreFresh`, `LockedRMWIsAtomic` |
| `mesi_progress` | two cores that take the L2's one line from each other | `RequestsComplete` |
| `ruby_port` | two ports, two lines, two slots, drains | `TablesAgree`, `RefusedPortsWait`, `DeadlockDetected`, and every refused packet is accepted, a deadlock is reported, or a drain event trips the assertion of `RubyPort.cc:701` (`RetriesServed`) |
| `message_buffers` | two ports, used as the caches use theirs, or as ordered buffers of three slots | `NoLostWakeup`, `StalledCanWake`, `FifoOrder` |
| `event_queue` | three events of one priority and one of another, delays up to 1 | `NeverAborts`, `ImplementsEventList` |

Together they fire every action and every disjunct of the next-state relations.
Deadlock is checked except in `ruby_port`, which stops when the simulator has
aborted, and `message_buffers`, which may also stop full of stalled messages.

**Bounds, and why they are enough.**

* *Replay.* Two cores with a shared one give every kind of pair: two threads of one
  core, two of different cores, a lone thread. Three threads let one be a barrier's
  last arrival while the other two are parked on the same or on different cores.
  Two rounds are the smallest number in which a thread can reach a barrier that
  others have not left. A refill block of 3 lines with a low-water mark of 2 makes
  every longer trace be refilled in the middle of the replay; `MAX_COMM_WAIT = 2`
  makes dependency waits time out. `WorkerFloor` bounds `worker_thread_count` from
  below, which decreases without end while a join waits; no guard reads it.
* *Ring.* Three slots reach every fill level at every position, and both
  boundaries, empty and full, where `first = last`. One line of `BoundedDeque`
  records an oddity: `contains` on a full ring compares `last` with `first` and
  answers no. `QueueOK` says that the engine's queues are never full, and the
  engine never calls it.
* *Trace lines.* The word is three memories long, so ranges are empty, reversed,
  longer than the memory and wrap around both; the request limit is below the line
  size and does not divide it.
* *Protocol.* One line per cache makes every second access a replacement. The
  number of stores is bounded per workload (`workload.stores`), everything else is
  unbounded. The workloads are separate because their union is out of reach.
* *Port and buffers.* Two slots are contended by two ports; `MaxQueued` and
  `SizeBound` cap responses and counters. Two messages per buffer are enough for
  one to be stalled while another is recycled, four for an order to be seen.
* *Event queue.* Three events of one bin have a top, a middle and a bottom; the
  fourth makes a second bin at the same time.

**Fairness.** `SynchroTrace!FairSpec` has weak fairness of the master wakeup, of
each core's wakeup, of `Tick` and of each core's response. The first three are
gem5's loop, which services whatever is scheduled; the fourth says that Ruby
answers every request it accepts, which is the contract of the port and what
`mesi_progress` checks. `RubyPort!FairSpec` assumes the same of the L1 and of the
clock. `MESI_CMP_directory!FairSpec` has weak fairness for each controller, port
and address: the network delivers every message, and a controller with a message
at a port runs until it has handled it, if only by parking it. Cores need not ask.

### Disagreements between comments and code

Each of these runs checks what a comment says of the code; TLC refutes it.

| Run | What the code does |
|---|---|
| `mutex_flag` | `threadMutexMap`, "to check if thread is holding a mutex lock" (163), is one flag: the inner unlock of nested mutexes clears it while the outer one is held (1392) |
| `mutex_swap` | "Swap if thread is waiting on a mutex" (479) excludes a thread that holds another mutex: with the owner of the second mutex on the same core, the replay never ends |
| `late_create` | the catch that "prevents the core from stalling" (442) runs only in core wakeups, and `init()` schedules none: a core whose first thread is created late leaves its other, created threads waiting. Seven threads on four cores, thread 6 created before thread 2 |

Others were met while modelling; the models follow the code and no run states what
the comment says:

* `worker_thread_count--` is indented under the `if` of a join but stands outside it
  (1413): every poll of a waiting join decrements it ("Keeps track of # of worker
  threads for ROI", `SynchroTrace.hh:176`).
* "Swap if join event and waiting thread isn't completed" (469) tests
  `curEventListPos != -1`, which is never false (470): a join whose target has
  finished is swapped out too.
* A `pthread_t` used again after a join maps to the last thread the pthread file
  lists for it (1124), so both creates "start new thread progression" (1404) of
  that one.
* "requests are assumed to be 1 byte-sized" (1183): they have `numBytes` bytes (1184).
* `MESI_CMP_directory-dir.sm:565`: a DMA request that crosses the acknowledgement
  of a clean replacement leaves the directory in a state without a row for it. A
  replay builds no DMA controller, and the run's DMA workload has no replacements,
  so it has neither this crossing nor that of an L1's clean replacement with the
  recall for a DMA request, whose clean data makes the L2 drop the line without an
  answer to the directory (`MESI_CMP_directory-L2cache.sm:1124`).
* `MESI_CMP_directory-L1cache.sm:922`: a line invalidated during its own upgrade
  stays locked, so a store-conditional can succeed after another core's store; the
  traces have no linked accesses. The run's workload checks everything else of them.
* `RubyPort.cc:667`, `680`, `692`, `701`: a retry during a drain schedules the
  deadlock check that "should have been descheduled" (699), so that
  `testDrainComplete`, later in the same callback, fails the assertion of line 701:
  the simulator stops and the refused packet is never served. `RetriesServed`
  names this stop (`AssertedInDrain`) beside the report of the deadlock check, and
  TLC refutes it without. The drain event is also not cleared where the comment
  says, so the assertion can be met after the drain, too, and it is processed fewer
  times than counted. A replay does not drain.
* `MessageBuffer.cc:291`, `336`, `MessageBuffer.hh:78`: `m_size` counts a message
  twice in a cycle with a pop and an enqueue, misses messages that were stalled and
  woken, and counts delayed ones again. It matters where `buffer_size` is set; the
  default is no limit.

## 4. Proofs

The theorems hold for every value of the constants that satisfies the named
assumptions; the runs show the same formulas on the instances above.

| Theorem | States |
|---|---|
| `SynchroTraceProofs!TypeCorrect`, `QueuesCorrect`, `StopsWhenReplayed`, `OneRequestPerCore` | `TypeOK`, `QueueOK`, `StoppedMeansReplayed`, `OneOutstanding` |
| `SynchroTraceTheorems!CommunicationOrdered`, `CreatesAndJoinsOrdered`, `BarriersInRounds` | `CommOrder`, `CreateJoinOrder`, `BarrierRounds` |
| `SynchroTraceTheorems!LocksExcludeSoFar`, `AbortsBlameTheTrace` | `LockExclusion` and `AbortsOnlyOnBadTrace` as long as every unlock replayed so far was of a lock its thread held |
| `SynchroTraceTheorems!LocksExclude`, `RefinesReplayOrder` | `LockExclusion` and `ImplementsReplayOrder` for traces in which a thread unlocks only what it holds |
| `SynchroTraceTheorems!WakeupsKept` | `NoLostWakeup` |
| `StaticDequeProofs!RingCorrect`, `DequeCorrect` | `RingOK`, `Implements` |
| `TraceLineProofs!RequestsFit`, `NoByteSkipped`, `TurnsAdvance`, `TrapCause` | `RequestsFitALine`, `NextByte`, `EveryTurnAdvances`, `TrapOnlyWithoutRange` |
| `TraceLineProofs!WorkIsConserved`, `RequestsAllSent`, `LineIsReplayed` | `WorkConserved`, `EveryRequestSent`, `LineReplayed` |
| `EventQueueProofs!NeverPanics`, `ServedInOrder`, `QueueImplementsList` | `NeverAborts`; the head comes before or with every scheduled event; `ImplementsEventList` |
| `RubyPortProofs!TablesAlwaysAgree`, `NoRetryLost`, `DeadlockAlwaysDetected` | `TablesAgree`, `RefusedPortsWait`, `DeadlockDetected` |
| `MessageBufferProofs!NoWakeupLost`, `OrderedBuffersAreFifo`, `StalledNotForgotten` | `NoLostWakeup`, `FifoOrder`, and `StalledCanWake` for setups that satisfy `WakersAbove` |

### Assumptions

* Replay: at least one thread and one core, fewer threads than the number that
  denotes the OS, `READ_BLOCK >= MIN_EVENTS_SIZE >= 2` (the source has 1000 and 100);
  the pthread file names a thread for every address; traces are sequences of events
  and a communication event has a dependency. `WellLocked`, a hypothesis of two
  theorems only, says that a thread unlocks only what it holds; without it an
  unlock frees another thread's lock, in the code as in the model.
* Trace lines: the memory is a whole number of lines, a request fits a line; a
  communication line has a range.
* Ring: at least one slot. Event queue: finitely many events with integer
  priorities. Port: a positive limit and threshold, finitely many ports.
* Message buffers: `WakersAbove`, a hypothesis of `StalledNotForgotten` only:
  messages stall only on ports of lower rank than those whose messages wake them.
  `wakeUpBuffers` looks at lower ports only and then forgets the address, so a
  protocol that breaks this rule loses messages; the three controllers keep it.

### Arguments

**The engine's own state** (`IInv`). The four properties of `SynchroTraceProofs`
are proved together. `IInv` adds two facts: a thread never leaves the core it was
dealt to, and sub-events exist only for an event that is in the queue. Without the
first, a swap could put one thread at the head of two cores, and the request of one
would be answered to the other. Without the second, a response could pop an empty
queue and `popped` would overtake `loaded`. `OneOutstanding` is inductive with them
because of an exchange: a request is sent only by a core that is awake, sending
leaves the core asleep, `Stalled` never takes a thread with a sent request off the
head, and only the response wakes the core. `QueueOK` needs `MIN_EVENTS_SIZE >= 2`:
an event that ends does not refill a queue it leaves empty, so the queue must not
have fallen to one event before its file was read to the end.

**The recorded order** (`OrderInv`, `LockInv`). Every step of the engine is one of
three: quiet (no event completes, the synchronisation tables stay), an arrival at a
barrier, or the completion of one event. The invariants are proved for these three
kinds (`SynchroTraceProofs`), and each action is shown to be of one of them
(`SynchroTraceTheorems`). `OrderInv` says why each table can be trusted: a started
thread was created; a communication event's sub-events before the current one have
their dependencies met, so that the last completes only when all are; a thread
registered at a barrier stands there unreleased, a released one stands there
started, and all participants were released equally often. The last is what makes
the per-thread flag work as a per-round one. `LockInv` relates the lock tables to
the traces' positions. `RefinesReplayOrder` then reads the guard of each completion
off these invariants.

**Wakeups** (`ParkedInv`, `WakeInv`). `NoLostWakeup` is not inductive: a barrier's
release makes threads runnable and schedules nobody. `WakeInv` therefore speaks of
every running thread with sub-events, started or not, and `ParkedInv` says that one
that is not started is parked at a barrier.

**Trace lines** (`LineInv`, `BytesInv`, `FrontInv`, `SentInv`). `BytesInv`: for each
kind, the bytes of the requests made so far, those left of the range being split
and those of the ranges not yet taken are together the bytes of the line, in order;
folding an address into the memory early or late is the same (`ModAdd`). `FrontInv`
says which lists of requests each type of line can have. `SentInv`
(`SubEventsProofs`): the shares dealt out and those left add up to the event's
counts, and the requests of each kind are taken in turn. `LineReplayed` follows from
both: the first round of the turns is the list of requests, whose bytes are the
line's.

**The event queue** (`QueueInv`). The pointers hold the scheduled events, and say
nothing of the others, whose stale pointers may lead anywhere. `Tops`: one top for
each time and priority among the scheduled events, each linked to the first one
behind it. `Stacks`: `nextInBin` leads from each event to a deeper one of its bin,
no two to the same, and the tops are what nothing leads to; a rank makes the stacks
well-founded, so that a walk along them ends. `insert` and `remove` are proved to
keep this (`InsertHolds`, `RemoveHolds`) from what their loops find (`BinIs`,
`PrevIs`, `EveryInStack`); time passing keeps the order (`TimesHold`).

For the refinement, the walk meets the scheduled events, in the order `ListOrder`:
by time and priority, and within a bin as the walk from the top goes (`WalkIs`).
That last part, `Deep`, is the only relation in which an event is ahead of the next
one of its bin and of all that one is ahead of (`DeepCloses`, `DeepUnique`). So it is
enough that what each operation should make of the order satisfies this equation
for the new pointers: `insert` puts the event on top of its bin and leaves the rest
(`DeepPushed`, `InsertOrder`), `remove` and the pop of the head splice one event out
(`SpliceOrder`). `SquashInv`, that only scheduled events are squashed, is the one
fact needed beside `QueueInv`.

**The port** (`PortInv`). The tables agree with the count; a refused port is on the
retry list exactly once and something is outstanding; the check is due before any
request is two thresholds old. `SendRetries`, a loop inside a callback, is proved to
keep this by induction on its position.

**The buffers** (`MsgInv`, `FifoInv`). A sleeping controller has a wakeup for every
message that is not due, and the loop in progress has looked at, or will look at,
those that are; a controller that stops early has a wakeup in the next cycle. The
heap is a sequence in heap order; renumbering and pushing keep it.
`FifoInv` adds that the arrival times of a plain buffer do not decrease.

**The ring.** `first` is `elems` slots after `last`, so the slot that a push writes
is one that no element uses; `PushFront`, `PushBack`, `PopFront`, `PopBack` say what
each move of an end does to the sequence.

**Induction over data.** The library's induction theorems take an operator as a
parameter, which the provers cannot instantiate. The lemmas that need an induction
use the least number of a set instead: `LeastNat` follows from `WFMin`, `UpTo` turns
it into an induction on the members of a set, and `Recursion` and `Runs` give the
existence of a function that is defined by recursion. With them the sums, counts and
walks of `SubEvents`, `TraceLine` and `EventQueue`, all recursive functions, are
reasoned about.

### Only model-checked, and why

* `Completes`, `RequestsComplete`, `RetriesServed`: liveness under fairness.
* The eight properties of `mesi_coherence`. An inductive invariant of the protocol
  relates caches, directory, parked messages and every message in flight in every
  transient state of the three tables; it has not been found.

## 5. Not modelled

* the text of trace lines, statistics and printing: no state that the engine
  reads back;
* `checkForDeadlock`: its only call is commented out (307);
* Ruby's network (routing, bandwidth): the protocol is checked over a network that
  delivers in any order, which allows what any topology does;
* functional and PIO accesses of `RubyPort`, checkpoints and asynchronous events of
  gem5's loop: a replay does not use them;
* `DragonTester`: the engine's predecessor;
* the configuration scripts, whose values appear as constants, and the rest of gem5
  (CPU models, ISAs, devices): not part of a replay;
* traces whose pthread file lacks an address.

A limitation visible in the model and promised nowhere: a spin-lock waiter is
never swapped out, so a spin lock contended by two threads of one core does not
end. The runs spin only across cores.
