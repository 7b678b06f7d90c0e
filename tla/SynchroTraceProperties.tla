----------------------- MODULE SynchroTraceProperties -----------------------
(***************************************************************************)
(* What the replay engine promises.  The positions of the threads in their *)
(* trace files (popped) are the observable history of a replay, so most of *)
(* these properties relate the engine's tables to those positions.         *)
(***************************************************************************)
EXTENDS SynchroTraceState

SubEvents == [left : Nat, trigger : Nat, waited : Int, msgTriggered : BOOLEAN]

\* Every variable has its type, and the queues' bounds lie in their files.
TypeOK ==
    /\ file \in Programs
    /\ popped \in [Threads -> Nat]
    /\ loaded \in [Threads -> Nat]
    /\ \A t \in Threads : popped[t] <= loaded[t] /\ loaded[t] <= Len(file[t])
    /\ sub \in [Threads -> SubEvents]
    /\ threadMap \in [Procs -> Seq(Threads)]
    /\ \A p \in Procs : threadMap[p] # << >>
    /\ threadStartedMap \in [Threads -> BOOLEAN]
    /\ threadMutexMap \in [Threads -> BOOLEAN]
    /\ threadContMap \in [Threads -> BOOLEAN]
    /\ mutexLocks \in SUBSET Addrs /\ spinLocks \in SUBSET Addrs
    /\ threadWaitMap \in [Addrs -> SUBSET Threads]
    /\ worker_thread_count \in Int
    /\ core \in [Procs -> Nat \cup {Unscheduled}]
    /\ master \in Nat
    /\ inflight \in [Procs -> Nat]
    /\ stopped \in BOOLEAN /\ aborted \in BOOLEAN

(***************************************************************************)
(* Event queues                                                            *)
(***************************************************************************)
\* A queue never fills the READ_BLOCK + MIN_EVENTS_SIZE slots init() gives it
\* (push_back throws on a full deque), and it is short only when its file is
\* read to the end.  So an empty queue means a finished thread, which
\* checkCommDependency, the join and checkCompletion all rely on.
QueueOK ==
    \A t \in Threads :
        /\ loaded[t] - popped[t] < READ_BLOCK + MIN_EVENTS_SIZE
        /\ loaded[t] - popped[t] >= MIN_EVENTS_SIZE \/ loaded[t] = Len(file[t])

\* The simulation ends only when every event of every trace was replayed.
StoppedMeansReplayed ==
    stopped => \A t \in Threads : popped[t] = Len(file[t])

(***************************************************************************)
(* Requests and wakeups                                                    *)
(***************************************************************************)
\* A core has at most one request in Ruby.  It belongs to the running thread,
\* and the core's wakeup is then not scheduled: hitCallback finds the right
\* event and its unconditional schedule() never hits a scheduled event.
OneOutstanding ==
    /\ \A p \in Procs :
           \/ inflight[p] = 0
           \/ inflight[p] = 1 /\ core[p] = Unscheduled /\ sub[Running(p)].msgTriggered
    /\ \A t \in Threads :
           sub[t].msgTriggered => Running(CoreOf(t)) = t /\ inflight[CoreOf(t)] = 1

\* A started running thread with sub-events to go is never forgotten: its core
\* has a wakeup, or a response on the way that will schedule one.
NoLostWakeup ==
    \A p \in Procs :
        Running(p) \in Runnable /\ sub[Running(p)].left > 0
            => core[p] # Unscheduled \/ inflight[p] > 0

(***************************************************************************)
(* Recorded synchronisation.  Past(t) are the trace positions t completed. *)
(***************************************************************************)
Past(t) == 1 .. popped[t]

\* t is past a lock of a, and not past an unlock of a that follows it.
Holds(t, a, lock, unlock) ==
    \E i \in Past(t) :
        /\ IsPthread(file[t][i], lock) /\ file[t][i].addr = a
        /\ \A j \in (i + 1) .. popped[t] :
               ~(IsPthread(file[t][j], unlock) /\ file[t][j].addr = a)

HoldsMutex(t, a) == Holds(t, a, "P_MUTEX_LK", "P_MUTEX_ULK")
HoldsSpin(t, a) == Holds(t, a, "P_SPIN_LK", "P_SPIN_ULK")

\* No two threads are inside critical sections of one mutex or spin lock, and
\* the engine's lock tables are exactly the locks held in the replay.
LockExclusion ==
    \A a \in Addrs :
        /\ \A t, u \in Threads :
               HoldsMutex(t, a) /\ HoldsMutex(u, a) => t = u
        /\ \A t, u \in Threads :
               HoldsSpin(t, a) /\ HoldsSpin(u, a) => t = u
        /\ a \in mutexLocks <=> \E t \in Threads : HoldsMutex(t, a)
        /\ a \in spinLocks <=> \E t \in Threads : HoldsSpin(t, a)

Passed(t, b) ==
    Cardinality({i \in Past(t) : IsPthread(file[t][i], "P_BARRIER_WT")
                                 /\ file[t][i].addr = b})

\* No thread leaves a barrier before every participant has arrived: it is
\* ahead of another participant by at most one round, and then that one stands
\* at the barrier, released but not yet rescheduled.
BarrierRounds ==
    \A b \in Addrs : \A t, u \in BarrierMap[b] :
        Passed(t, b) > Passed(u, b) =>
            /\ Passed(t, b) = Passed(u, b) + 1
            /\ u \in AtBarrier /\ Front(u).addr = b
            /\ threadContMap[u] /\ threadStartedMap[u]

\* The engine ignores dependencies while threadMutexMap is set; it is set when
\* the last mutex event before position i of the trace of t is a lock.
InsideMutex(t, i) ==
    \E j \in 1 .. (i - 1) :
        /\ IsPthread(file[t][j], "P_MUTEX_LK")
        /\ \A k \in (j + 1) .. (i - 1) : ~IsPthread(file[t][k], "P_MUTEX_ULK")

\* A consumer outside a mutex completes a communication event only after each
\* producer completed the event it reads from.
CommOrder ==
    \A t \in Threads : \A i \in Past(t) :
        file[t][i].type = "COMMUNICATION" /\ ~InsideMutex(t, i) =>
            \A k \in 1 .. Len(file[t][i].deps) :
                LET d == file[t][i].deps[k] IN
                d.thread # OS => \/ popped[d.thread] >= d.event
                                 \/ popped[d.thread] = Len(file[d.thread])

\* A join completes only after the joined thread replayed its whole trace, and
\* a thread replays nothing before a create of it completed.
CreateJoinOrder ==
    /\ \A t \in Threads : \A i \in Past(t) :
           IsPthread(file[t][i], "P_JOIN") =>
               LET u == AddresstoIdMap[file[t][i].addr] IN popped[u] = Len(file[u])
    /\ \A t \in Threads \ {0} :
           popped[t] > 0 \/ sub[t].left > 0 =>
               \E u \in Threads : \E i \in Past(u) :
                   IsPthread(file[u][i], "P_CREATE") /\ AddresstoIdMap[file[u][i].addr] = t

\* An assertion of the engine or of schedule() fails only because of the trace
\* itself: an event the engine does not replay, or an unlock that the same
\* thread's trace does not precede with a lock.
AbortsOnlyOnBadTrace ==
    aborted =>
        \E p \in Procs :
            LET t == Running(p) IN
            /\ t \in Runnable
            /\ \/ IsPthread(Front(t), "P_SEM")
               \/ IsPthread(Front(t), "P_MUTEX_ULK") /\ ~HoldsMutex(t, Front(t).addr)
               \/ IsPthread(Front(t), "P_SPIN_ULK") /\ ~HoldsSpin(t, Front(t).addr)

\* Every replay ends: all traces are replayed and the simulation stops, unless an
\* assertion has stopped it.
Completes == <>(stopped \/ aborted)


WaitsOnMutex(p) ==
    /\ Running(p) \in Runnable
    /\ IsPthread(Front(Running(p)), "P_MUTEX_LK")
    /\ Front(Running(p)).addr \in mutexLocks

\* "Swap if thread is waiting on a mutex": a running thread that finds its mutex
\* taken gets it, or lets another ready thread of its core run.
MutexWaiterSwapped ==
    \A p \in Procs : \A t \in Threads :
        (WaitsOnMutex(p) /\ Running(p) = t /\ \E i \in 2 .. Len(threadMap[p]) : threadMap[p][i] \in Ready)
            ~> ~(WaitsOnMutex(p) /\ Running(p) = t)

\* "this prevents the core from stalling": a core with a ready thread has a
\* wakeup, a response on the way, or a running thread the master will start.
CoreNotStalled ==
    \A p \in Procs :
        (\E i \in 1 .. Len(threadMap[p]) : threadMap[p][i] \in Ready) =>
            core[p] # Unscheduled \/ inflight[p] > 0 \/ Running(p) \in Runnable
=============================================================================
