---------------------------- MODULE SynchroTrace ----------------------------
(***************************************************************************)
(* The SynchroTrace replay engine (src/cpu/testers/synchrotrace).          *)
(*                                                                         *)
(* Each application thread has a trace file of computation, communication  *)
(* and pthread events.  The engine keeps the next events of every thread   *)
(* in a queue (eventMap), maps the threads onto cores (threadMap, whose    *)
(* head is the running thread), sends the memory requests of the running   *)
(* thread's front event to Ruby one at a time, and replays mutexes,        *)
(* barriers, creates and joins so that the recorded synchronisation is     *)
(* respected.  It is driven by three kinds of simulator events: the master *)
(* wakeup, one wakeup per core, and Ruby's responses (hitCallback).  Each  *)
(* of them runs to completion in gem5's single-threaded event loop, so     *)
(* each is one atomic action here.                                         *)
(*                                                                         *)
(* Time is relative: core[p] and master count the cycles until the event   *)
(* is due, sub[t].trigger the cycles until a sub-event's triggerTime, and  *)
(* Tick advances them all once nothing is due in the current cycle.        *)
(***************************************************************************)
EXTENDS SynchroTraceState

(***************************************************************************)
(* Refilling the queues                                                    *)
(***************************************************************************)
\* Mutant: the loop queues a line whether or not getline found one.
ReadEventFilePastEnd(t, n) == n + READ_BLOCK

\* readEventFile: the lines read once the file is at position n.
ReadEventFile(t, n) == AtMost(n + READ_BLOCK, Len(file[t]))

\* curEventListPos starts at 0 and is never assigned again.
curEventListPos == [t \in Threads |-> 0]

\* Mutant: only an empty queue is read again.
ReplenishToWhenEmpty(t, n, m) == IF m = n THEN ReadEventFile(t, m) ELSE m

\* replenishEvents(threadID), for a queue holding the lines from n to m.
ReplenishTo(t, n, m) ==
    IF m - n < MIN_EVENTS_SIZE /\ curEventListPos[t] # -1
    THEN ReadEventFile(t, m) ELSE m

\* An event that ends pops its queue, and replenishes it unless it is empty.
AfterPop(t) ==
    IF popped[t] + 1 # loaded[t] THEN ReplenishTo(t, popped[t] + 1, loaded[t])
                                 ELSE loaded[t]

(***************************************************************************)
(* Sub-events of a front event; left = 0 until createSubEvents ran.        *)
(* waited is the time since initialTriggerTime, which only communication   *)
(* events read, saturated just above MAX_COMM_WAIT.                        *)
(***************************************************************************)
NoSubEvents == [left |-> 0, trigger |-> 0, waited |-> 0, msgTriggered |-> FALSE]

\* The n sub-events left of e, the first of which triggers in d + 1 cycles;
\* only computation events have work to do before their requests.
Pulled(e, n, d) ==
    [left |-> n,
     trigger |-> IF e.type = "COMPUTATION" THEN d + 1 ELSE 1,
     waited |-> IF e.type = "COMMUNICATION" THEN -1 ELSE 0,
     msgTriggered |-> FALSE]

(***************************************************************************)
(* The thread scheduler                                                    *)
(***************************************************************************)
\* Mutant: a sent request does not keep its thread at the head.
StalledThoughSent(t) ==
    \/ Front(t).type = "COMMUNICATION" /\ sub[t].waited > MAX_COMM_WAIT
    \/ IsPthread(Front(t), "P_JOIN")
    \/ IsPthread(Front(t), "P_MUTEX_LK") /\ ~threadMutexMap[t]

\* Mutant: a thread waiting for a mutex keeps its core.
StalledNotOnMutex(t) ==
    \/ /\ Front(t).type = "COMMUNICATION"
       /\ ~sub[t].msgTriggered
       /\ sub[t].waited > MAX_COMM_WAIT
    \/ IsPthread(Front(t), "P_JOIN")

Stalled(t) ==
    LET e == Front(t) IN
    \/ /\ e.type = "COMMUNICATION"
       /\ ~sub[t].msgTriggered
       /\ sub[t].waited > MAX_COMM_WAIT
    \/ IsPthread(e, "P_JOIN") /\ curEventListPos[AddresstoIdMap[e.addr]] # -1
    \/ IsPthread(e, "P_MUTEX_LK") /\ ~threadMutexMap[t]

\* The threads swapStalledThreads takes off the head of their core.
Yielding == {t \in Threads : t \notin Runnable \/ Stalled(t)}

moveThreadToHead(q, i) == SubSeq(q, i, Len(q)) \o SubSeq(q, 1, i - 1)

FirstReady(q, ready) ==
    CHOOSE i \in 2 .. Len(q) :
        q[i] \in ready /\ \A j \in 2 .. (i - 1) : q[j] \notin ready

swapThreads(q, ready) ==
    IF \E i \in 2 .. Len(q) : q[i] \in ready
    THEN moveThreadToHead(q, FirstReady(q, ready))
    ELSE q

\* Mutant: without the scheduling catch for a lone thread at a barrier.
SwapStalledNoCatch(p, q, c) ==
    LET swap == Len(q) > 1 /\ q[1] \in Yielding'
    IN  /\ threadMap' = [threadMap EXCEPT ![p] =
                            IF swap THEN swapThreads(q, Ready') ELSE q]
        /\ core' = [core EXCEPT ![p] = IF c = Unscheduled /\ swap THEN 1 ELSE c]

\* swapStalledThreads, at the end of every core wakeup: q and c are the
\* core's threads and its wakeup as progressEvents left them.
SwapStalled(p, q, c) ==
    LET swap == Len(q) > 1 /\ q[1] \in Yielding'
        poll == Len(q) = 1 /\ q[1] \in AtBarrier'
    IN  /\ threadMap' = [threadMap EXCEPT ![p] =
                            IF swap THEN swapThreads(q, Ready') ELSE q]
        /\ core' = [core EXCEPT ![p] =
                       IF c = Unscheduled /\ (swap \/ poll) THEN 1 ELSE c]

(***************************************************************************)
(* Core wakeups: wakeup(procID), by what the running thread can do.        *)
(***************************************************************************)
Due(p) == core[p] = 0 /\ ~aborted

\* Running thread not started, parked, or done: only swapStalledThreads acts.
WakeIdle(p) ==
    /\ Due(p)
    /\ Running(p) \notin Runnable
    /\ UNCHANGED <<file, sub, queueVars, threadVars, lockVars, runVars>>
    /\ SwapStalled(p, threadMap[p], Unscheduled)

\* The front event gets its sub-events and the core sleeps to the first.
WakeCreateSubEvents(p) ==
    LET h == Running(p) IN
    /\ Due(p)
    /\ h \in Runnable
    /\ sub[h].left = 0
    /\ UNCHANGED <<file, queueVars, threadVars, lockVars, runVars>>
    /\ \E d \in Costs :
           /\ sub' = [sub EXCEPT ![h] = Pulled(Front(h), NumSubEvents(Front(h)), d)]
           /\ SwapStalled(p, threadMap[p], sub'[h].trigger)

\* The head was swapped in before its triggerTime: sleep until then.  (With a
\* request in flight the triggerTime is past, and schedule asserts.)
WakeEarly(p) ==
    LET h == Running(p) IN
    /\ Due(p)
    /\ h \in Runnable
    /\ sub[h].left > 0
    /\ ~(sub[h].trigger = 0 /\ ~sub[h].msgTriggered)
    /\ aborted' = sub[h].msgTriggered
    /\ UNCHANGED <<file, sub, queueVars, threadVars, lockVars, master, inflight, stopped>>
    /\ SwapStalled(p, threadMap[p], sub[h].trigger)

\* progressEvents reaches its triggerTime <= now && !msgTriggered branch.
Progress(p) ==
    LET h == Running(p) IN
    /\ Due(p)
    /\ h \in Runnable
    /\ sub[h].left > 0
    /\ sub[h].trigger = 0
    /\ ~sub[h].msgTriggered

\* sendTimingReq: the port's sequencer refuses a request when it is full.
RubyAccepts(p) == inflight[p] < MaxOutstanding

\* triggerCommReadMsg, triggerCompReadMsg, triggerCompWriteMsg: a refused
\* packet is deleted and nothing is scheduled.
WakeSend(p) ==
    LET h == Running(p) IN
    /\ Progress(p)
    /\ ContainsMsg(Front(h))
    /\ h \in MaySend
    /\ inflight' = [inflight EXCEPT ![p] = IF RubyAccepts(p) THEN @ + 1 ELSE @]
    /\ sub' = [sub EXCEPT ![h].msgTriggered = RubyAccepts(p)]
    /\ UNCHANGED <<file, queueVars, threadVars, lockVars, master, stopped, aborted>>
    /\ SwapStalled(p, threadMap[p], Unscheduled)

\* Mutant: the sub-event is postponed but the core is not woken for it.
RetryUnscheduled(p) ==
    /\ sub' = [sub EXCEPT ![Running(p)].trigger = 1]
    /\ UNCHANGED <<file, queueVars, runVars>>
    /\ SwapStalled(p, threadMap[p], Unscheduled)

\* The sub-event stays and is tried again in the next cycle.
Retry(p) ==
    /\ sub' = [sub EXCEPT ![Running(p)].trigger = 1]
    /\ UNCHANGED <<file, queueVars, runVars>>
    /\ SwapStalled(p, threadMap[p], 1)

WakeCommWait(p) ==
    /\ Progress(p)
    /\ ContainsMsg(Front(Running(p)))
    /\ Running(p) \notin MaySend
    /\ UNCHANGED <<threadVars, lockVars>>
    /\ Retry(p)

\* The front event ended: pop, swapThreads, replenish, wake in the next cycle,
\* then swapStalledThreads, which creates the sub-events of a new head.
Finish(p) ==
    LET h == Running(p)
        q == swapThreads(threadMap[p], Ready')
        new == q[1]
        ended == [sub EXCEPT ![h] = NoSubEvents]
        e == file[new][popped'[new] + 1]
    IN  /\ UNCHANGED <<file, runVars>>
        /\ popped' = [popped EXCEPT ![h] = @ + 1]
        /\ loaded' = [loaded EXCEPT ![h] = AfterPop(h)]
        /\ \E d \in Costs :
               sub' = IF Len(q) > 1 /\ new \in Runnable' /\ ended[new].left = 0
                      THEN [ended EXCEPT ![new] = Pulled(e, NumSubEvents(e), d)]
                      ELSE ended
        /\ SwapStalled(p, q, 1)

WakeComputed(p) ==
    /\ Progress(p)
    /\ Front(Running(p)).type = "COMPUTATION"
    /\ ~ContainsMsg(Front(Running(p)))
    /\ UNCHANGED <<threadVars, lockVars>>
    /\ Finish(p)

(***************************************************************************)
(* progressPthreadEvent, one action per outcome of each case.              *)
(***************************************************************************)
AtPthread(p, kind) == Progress(p) /\ IsPthread(Front(Running(p)), kind)

FrontAddr(p) == Front(Running(p)).addr

\* Mutant: a lock that is taken is taken again.
MutexLockTaken(p) ==
    /\ AtPthread(p, "P_MUTEX_LK")
    /\ mutexLocks' = mutexLocks \cup {FrontAddr(p)}
    /\ threadMutexMap' = [threadMutexMap EXCEPT ![Running(p)] = TRUE]
    /\ UNCHANGED <<threadStartedMap, threadContMap, spinLocks, threadWaitMap,
                   worker_thread_count>>
    /\ Finish(p)

\* Mutant: the lock is not entered in mutexLocks.
MutexLockUnrecorded(p) ==
    /\ AtPthread(p, "P_MUTEX_LK")
    /\ threadMutexMap' = [threadMutexMap EXCEPT ![Running(p)] = TRUE]
    /\ UNCHANGED <<threadStartedMap, threadContMap, lockVars>>
    /\ Finish(p)

MutexLock(p) ==
    /\ AtPthread(p, "P_MUTEX_LK")
    /\ FrontAddr(p) \notin mutexLocks
    /\ mutexLocks' = mutexLocks \cup {FrontAddr(p)}
    /\ threadMutexMap' = [threadMutexMap EXCEPT ![Running(p)] = TRUE]
    /\ UNCHANGED <<threadStartedMap, threadContMap, spinLocks, threadWaitMap,
                   worker_thread_count>>
    /\ Finish(p)

MutexUnlock(p) ==
    /\ AtPthread(p, "P_MUTEX_ULK")
    /\ FrontAddr(p) \in mutexLocks
    /\ mutexLocks' = mutexLocks \ {FrontAddr(p)}
    /\ threadMutexMap' = [threadMutexMap EXCEPT ![Running(p)] = FALSE]
    /\ UNCHANGED <<threadStartedMap, threadContMap, spinLocks, threadWaitMap,
                   worker_thread_count>>
    /\ Finish(p)

Create(p) ==
    /\ AtPthread(p, "P_CREATE")
    /\ worker_thread_count' = worker_thread_count + 1
    /\ threadStartedMap' = [threadStartedMap EXCEPT ![AddresstoIdMap[FrontAddr(p)]] = TRUE]
    /\ UNCHANGED <<threadMutexMap, threadContMap, mutexLocks, spinLocks, threadWaitMap>>
    /\ Finish(p)

\* Mutant: the thread's last event need not have ended.
JoinableOnLast(p) ==
    LET u == AddresstoIdMap[FrontAddr(p)] IN loaded[u] - popped[u] <= 1

Joinable(p) == Empty(AddresstoIdMap[FrontAddr(p)])

\* worker_thread_count-- stands outside the if: every poll of a join runs it.
Join(p) ==
    /\ AtPthread(p, "P_JOIN")
    /\ Joinable(p)
    /\ worker_thread_count' = AtLeast(-WorkerFloor, worker_thread_count - 1)
    /\ UNCHANGED <<threadVars, mutexLocks, spinLocks, threadWaitMap>>
    /\ Finish(p)

JoinWait(p) ==
    /\ AtPthread(p, "P_JOIN")
    /\ ~Joinable(p)
    /\ worker_thread_count' = AtLeast(-WorkerFloor, worker_thread_count - 1)
    /\ UNCHANGED <<threadVars, mutexLocks, spinLocks, threadWaitMap>>
    /\ Retry(p)

\* Mutant: the barrier opens one thread early.
checkBarriersEarly(a, waiting) == Cardinality(BarrierMap[a] \ waiting) <= 1

checkBarriers(a, waiting) == BarrierMap[a] \ waiting = {}

\* The thread registers at the barrier and parks; the last one to arrive
\* releases every participant.
BarrierArrive(p) ==
    LET h == Running(p)
        a == FrontAddr(p)
        waiting == threadWaitMap[a] \cup {h}
        open == checkBarriers(a, waiting)
        parked == IF h \in threadWaitMap[a] THEN threadStartedMap[h] ELSE FALSE
    IN  /\ AtPthread(p, "P_BARRIER_WT")
        /\ ~threadContMap[h]
        /\ threadWaitMap' = [threadWaitMap EXCEPT ![a] = IF open THEN {} ELSE waiting]
        /\ threadStartedMap' =
               [t \in Threads |->
                   IF open /\ t \in BarrierMap[a] THEN TRUE
                   ELSE IF t = h THEN parked ELSE threadStartedMap[t]]
        /\ threadContMap' =
               [t \in Threads |-> (open /\ t \in BarrierMap[a]) \/ threadContMap[t]]
        /\ UNCHANGED <<threadMutexMap, mutexLocks, spinLocks, worker_thread_count>>
        /\ Retry(p)

BarrierLeave(p) ==
    /\ AtPthread(p, "P_BARRIER_WT")
    /\ threadContMap[Running(p)]
    /\ threadContMap' = [threadContMap EXCEPT ![Running(p)] = FALSE]
    /\ UNCHANGED <<threadStartedMap, threadMutexMap, lockVars>>
    /\ Finish(p)

\* Condition variables are replayed as no-ops.
Cond(p) ==
    /\ AtPthread(p, "P_COND_WT") \/ AtPthread(p, "P_COND_SG")
    /\ UNCHANGED <<threadVars, lockVars>>
    /\ Finish(p)

SpinLock(p) ==
    /\ AtPthread(p, "P_SPIN_LK")
    /\ FrontAddr(p) \notin spinLocks
    /\ spinLocks' = spinLocks \cup {FrontAddr(p)}
    /\ UNCHANGED <<threadVars, mutexLocks, threadWaitMap, worker_thread_count>>
    /\ Finish(p)

SpinUnlock(p) ==
    /\ AtPthread(p, "P_SPIN_ULK")
    /\ FrontAddr(p) \in spinLocks
    /\ spinLocks' = spinLocks \ {FrontAddr(p)}
    /\ UNCHANGED <<threadVars, mutexLocks, threadWaitMap, worker_thread_count>>
    /\ Finish(p)

LockWait(p) ==
    /\ \/ AtPthread(p, "P_MUTEX_LK") /\ FrontAddr(p) \in mutexLocks
       \/ AtPthread(p, "P_SPIN_LK") /\ FrontAddr(p) \in spinLocks
    /\ UNCHANGED <<threadVars, lockVars>>
    /\ Retry(p)

\* assert: an unlock of a free lock, or an event the engine does not replay.
AssertFails(p) ==
    /\ \/ AtPthread(p, "P_MUTEX_ULK") /\ FrontAddr(p) \notin mutexLocks
       \/ AtPthread(p, "P_SPIN_ULK") /\ FrontAddr(p) \notin spinLocks
       \/ AtPthread(p, "P_SEM")
    /\ aborted' = TRUE
    /\ UNCHANGED <<file, sub, threadMap, core, queueVars, threadVars, lockVars,
                   master, inflight, stopped>>

CoreWakeup(p) ==
    \/ WakeIdle(p) \/ WakeCreateSubEvents(p) \/ WakeEarly(p)
    \/ WakeSend(p) \/ WakeCommWait(p) \/ WakeComputed(p)
    \/ MutexLock(p) \/ MutexUnlock(p) \/ LockWait(p)
    \/ Create(p) \/ Join(p) \/ JoinWait(p)
    \/ BarrierArrive(p) \/ BarrierLeave(p) \/ Cond(p)
    \/ SpinLock(p) \/ SpinUnlock(p) \/ AssertFails(p)

(***************************************************************************)
(* Ruby's response, delivered by CpuPort::recvTimingResp.                  *)
(***************************************************************************)
\* schedule asserts that the core's wakeup is not scheduled already.
Schedule(p, when) ==
    /\ core' = [core EXCEPT ![p] = IF @ = Unscheduled THEN when ELSE @]
    /\ aborted' = (core[p] # Unscheduled)

Answered(p) == inflight' = [inflight EXCEPT ![p] = @ - 1]

\* More sub-events are left: pull up the next one.
HitNext(p) ==
    LET h == Running(p) IN
    /\ inflight[p] > 0 /\ ~aborted
    /\ sub[h].msgTriggered /\ sub[h].left > 1
    /\ Answered(p)
    /\ \E d \in Costs :
           /\ sub' = [sub EXCEPT ![h] = Pulled(Front(h), @.left - 1, d)]
           /\ Schedule(p, sub'[h].trigger)
    /\ UNCHANGED <<file, threadMap, queueVars, threadVars, lockVars, master, stopped>>

\* The event ended: pop, swapThreads, replenish, wake in the next cycle.
HitLast(p) ==
    LET h == Running(p) IN
    /\ inflight[p] > 0 /\ ~aborted
    /\ sub[h].msgTriggered => sub[h].left = 1
    /\ Answered(p)
    /\ UNCHANGED <<file, threadVars, lockVars, master, stopped>>
    /\ IF sub[h].msgTriggered
       THEN /\ popped' = [popped EXCEPT ![h] = @ + 1]
            /\ loaded' = [loaded EXCEPT ![h] = AfterPop(h)]
            /\ sub' = [sub EXCEPT ![h] = NoSubEvents]
            /\ threadMap' = [threadMap EXCEPT ![p] = swapThreads(@, Ready')]
            /\ Schedule(p, 1)
       ELSE UNCHANGED <<popped, loaded, sub, threadMap, core, aborted>>

hitCallback(p) == HitNext(p) \/ HitLast(p)

(***************************************************************************)
(* The master wakeup: wakeup().                                            *)
(***************************************************************************)
\* Mutant: the last thread's queue decides.
checkCompletionOfLast == Empty(NumThreads - 1)

\* checkCompletion: no thread has an event left.
checkCompletion == NonEmpty = {}

MasterWakeup ==
    /\ master = 0 /\ ~aborted
    /\ UNCHANGED <<file, popped, threadMap, threadVars, lockVars, inflight, aborted>>
    /\ loaded' = [t \in Threads |-> ReplenishTo(t, popped[t], loaded[t])]
    /\ \E d \in [Procs -> Costs] :
           LET created == {p \in Procs : Running(p) \in Runnable' /\ sub[Running(p)].left = 0}
               fresh(p) == Pulled(Front(Running(p)), NumSubEvents(Front(Running(p))), d[p])
           IN  /\ sub' = [t \in Threads |->
                             IF CoreOf(t) \in created /\ Running(CoreOf(t)) = t
                             THEN fresh(CoreOf(t)) ELSE sub[t]]
               /\ core' = [p \in Procs |->
                              IF p \in created /\ core[p] = Unscheduled
                              THEN fresh(p).trigger ELSE core[p]]
    /\ stopped' = (stopped \/ checkCompletion')
    /\ master' = MasterWakeupFreq

(***************************************************************************)
(* The event queue advances to the next cycle once nothing is due in this  *)
(* one.  Ruby may take any number of cycles over a request.                *)
(***************************************************************************)
Age(t) ==
    IF sub[t].left = 0 \/ sub[t].msgTriggered THEN sub[t]
    ELSE [sub[t] EXCEPT
             !.trigger = AtLeast(0, @ - 1),
             !.waited = IF Front(t).type = "COMMUNICATION"
                        THEN AtMost(@ + 1, MAX_COMM_WAIT + 1) ELSE @]

Tick ==
    /\ ~stopped /\ ~aborted
    /\ master > 0
    /\ \A p \in Procs : core[p] # 0
    /\ master' = master - 1
    /\ core' = [p \in Procs |-> IF core[p] = Unscheduled THEN Unscheduled ELSE core[p] - 1]
    /\ sub' = [t \in Threads |-> Age(t)]
    /\ UNCHANGED <<file, threadMap, queueVars, threadVars, lockVars, inflight,
                   stopped, aborted>>

\* The simulator has left its loop.
Terminated ==
    /\ aborted \/ (stopped /\ \A p \in Procs : core[p] # 0)
    /\ UNCHANGED vars

(***************************************************************************)
(* init(): the loop that should schedule the cores reads                   *)
(* num_of_mapped_processors before it is set, and coreEvents before it is  *)
(* filled.  With an indeterminate value of at most 0 only the master       *)
(* wakeup is scheduled; any other value dereferences an element of the     *)
(* empty vector, and the program ends before its first event.              *)
(***************************************************************************)
initialThreadMapping ==
    [p \in Procs |->
        [k \in 1 .. ((NumThreads - 1 - p) \div num_of_mapped_processors) + 1 |->
            p + (k - 1) * num_of_mapped_processors]]

Init ==
    /\ file \in Programs
    /\ popped = [t \in Threads |-> 0]
    /\ loaded = [t \in Threads |-> ReadEventFile(t, 0)]
    /\ sub = [t \in Threads |-> NoSubEvents]
    /\ threadMap = initialThreadMapping
    /\ threadStartedMap = [t \in Threads |-> t = 0]
    /\ threadMutexMap = [t \in Threads |-> FALSE]
    /\ threadContMap = [t \in Threads |-> FALSE]
    /\ mutexLocks = {} /\ spinLocks = {}
    /\ threadWaitMap = [a \in Addrs |-> {}]
    /\ worker_thread_count = 0
    /\ core = [p \in Procs |-> Unscheduled]
    /\ master = 1
    /\ inflight = [p \in Procs |-> 0]
    /\ stopped = FALSE /\ aborted = FALSE

Step ==
    \/ MasterWakeup
    \/ \E p \in Procs : CoreWakeup(p) \/ hitCallback(p)
    \/ Tick

Next == Step \/ Terminated

Spec == Init /\ [][Next]_vars

\* gem5 runs every scheduled event, and Ruby answers every request it takes.
Fairness ==
    /\ WF_vars(MasterWakeup)
    /\ WF_vars(Tick)
    /\ \A p \in Procs : WF_vars(CoreWakeup(p)) /\ WF_vars(hitCallback(p))

FairSpec == Spec /\ Fairness
=============================================================================
