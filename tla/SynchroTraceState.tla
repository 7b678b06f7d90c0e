------------------------- MODULE SynchroTraceState --------------------------
(***************************************************************************)
(* The state of the replay engine (src/cpu/testers/synchrotrace): the      *)
(* traces it replays, the tables it keeps, and the questions that its code *)
(* asks of them.                                                           *)
(***************************************************************************)
EXTENDS Integers, Sequences, FiniteSets

CONSTANTS
    NumThreads,         \* m_num_threads
    NumCpus,            \* m_num_cpus
    Addrs,              \* addresses of mutexes, barriers and pthread_t's
    AddresstoIdMap,     \* pthread_t address -> thread (sigil.pthread.out)
    BarrierMap,         \* barrier address -> participants (sigil.pthread.out)
    Programs,           \* the traces considered: functions Threads -> Seq(Event)
    READ_BLOCK,         \* lines read from a trace file at a time
    MIN_EVENTS_SIZE,    \* queue length under which the file is read again
    MAX_COMM_WAIT,      \* cycles a dependency is waited for before swapping
    Costs,              \* cycles of integer and float work before a request
    MasterWakeupFreq,   \* cycles between two master wakeups
    MaxOutstanding,     \* requests a Ruby sequencer accepts per core
    WorkerFloor         \* the modelled worker_thread_count stops at -WorkerFloor

Threads == 0 .. (NumThreads - 1)

num_of_mapped_processors == IF NumThreads < NumCpus THEN NumThreads ELSE NumCpus

Procs == 0 .. (num_of_mapped_processors - 1)

\* initialThreadMapping deals the threads out round robin, for good.
CoreOf(t) == t % num_of_mapped_processors

\* The producer id by which a trace denotes the operating system.
OS == 30000

PthreadTypes == {"P_MUTEX_LK", "P_MUTEX_ULK", "P_CREATE", "P_JOIN",
                 "P_BARRIER_WT", "P_COND_WT", "P_COND_SG",
                 "P_SPIN_LK", "P_SPIN_ULK", "P_SEM"}

EventTypes == {"COMPUTATION", "COMMUNICATION", "PTHREAD_API"}

\* One line of a trace file.  A computation event makes mem requests; a
\* communication event one request per dependency.  EventIDs count the lines
\* of the file, so a dependency's event is a position in the producer's file.
Event == [type : EventTypes,
          mem  : Nat,
          deps : Seq([thread : Threads \cup {OS}, event : Nat]),
          pth  : PthreadTypes \cup {"NONE"},
          addr : Addrs]

ASSUME SizesAssumption ==
    /\ NumThreads \in Nat \ {0} /\ NumThreads <= OS
    /\ NumCpus \in Nat \ {0}
    /\ READ_BLOCK \in Nat /\ MIN_EVENTS_SIZE \in Nat
    /\ MIN_EVENTS_SIZE >= 2 /\ READ_BLOCK >= MIN_EVENTS_SIZE
    /\ MAX_COMM_WAIT \in Nat
    /\ Costs \in SUBSET Nat /\ Costs # {}
    /\ MasterWakeupFreq \in Nat \ {0}
    /\ MaxOutstanding \in Nat \ {0}
    /\ WorkerFloor \in Nat

ASSUME MapsAssumption ==
    /\ AddresstoIdMap \in [Addrs -> Threads]
    /\ BarrierMap \in [Addrs -> SUBSET Threads]

ASSUME ProgramsAssumption ==
    \A prog \in Programs :
        /\ prog \in [Threads -> Seq(Event)]
        /\ \A t \in Threads : \A i \in 1 .. Len(prog[t]) :
               prog[t][i].type = "COMMUNICATION" => prog[t][i].deps # << >>

VARIABLES
    file,                \* the trace files: an element of Programs, constant
    popped,              \* popped[t]: events of t completed (left its queue)
    loaded,              \* loaded[t]: events of t read from its file so far
    sub,                 \* sub[t]: sub-events of the front event of t
    threadMap,           \* threadMap[p]: threads of core p, the running one first
    threadStartedMap,    \* created, and not parked at a barrier
    threadMutexMap,      \* the thread's view of holding a mutex
    threadContMap,       \* released from its barrier, not yet past it
    mutexLocks, spinLocks,
    threadWaitMap,       \* barrier address -> threads that arrived
    worker_thread_count,
    core,                \* core[p]: cycles until p's wakeup, or Unscheduled
    master,              \* cycles until the master wakeup
    inflight,            \* inflight[p]: requests of p that Ruby holds
    stopped,             \* exitSimLoop was called
    aborted              \* an assertion of the engine or of schedule failed

queueVars == <<popped, loaded>>
lockVars == <<mutexLocks, spinLocks, threadWaitMap, worker_thread_count>>
threadVars == <<threadStartedMap, threadMutexMap, threadContMap>>
runVars == <<master, inflight, stopped, aborted>>
vars == <<file, popped, loaded, sub, threadMap, threadStartedMap,
          threadMutexMap, threadContMap, mutexLocks, spinLocks, threadWaitMap,
          worker_thread_count, core, master, inflight, stopped, aborted>>

Unscheduled == -1

AtMost(a, b) == IF a <= b THEN a ELSE b
AtLeast(a, b) == IF a >= b THEN a ELSE b

(***************************************************************************)
(* Event queues.  eventMap[t] holds file[t][popped[t]+1 .. loaded[t]].     *)
(***************************************************************************)
Empty(t) == popped[t] = loaded[t]

Front(t) == file[t][popped[t] + 1]

IsPthread(e, kind) == e.type = "PTHREAD_API" /\ e.pth = kind

(***************************************************************************)
(* Sub-events.  sub[t].left counts those of the front event of t that are  *)
(* not completed; it is 0 until createSubEvents ran.                       *)
(***************************************************************************)
NumSubEvents(e) ==
    CASE e.type = "COMMUNICATION" -> Len(e.deps)
      [] e.type = "COMPUTATION" -> AtLeast(1, e.mem)
      [] OTHER -> 1

ContainsMsg(e) == IF e.type = "COMPUTATION" THEN e.mem > 0 ELSE e.type = "COMMUNICATION"

\* The dependency of the communication event e with n sub-events left.
CurrentDep(e, n) == e.deps[Len(e.deps) - n + 1]

(***************************************************************************)
(* Dependencies, and the two questions the thread scheduler asks.          *)
(***************************************************************************)
\* Mutant: the producer need only have reached the event.
checkCommDependencyReached(d) ==
    \/ d.thread = OS
    \/ Empty(d.thread)
    \/ popped[d.thread] + 1 >= d.event

checkCommDependency(d) ==
    \/ d.thread = OS
    \/ Empty(d.thread)
    \/ popped[d.thread] + 1 > d.event

checkAllCommDependencies(e) ==
    \A i \in 1 .. Len(e.deps) : checkCommDependency(e.deps[i])

NonEmpty == {t \in Threads : ~Empty(t)}

Runnable == {t \in NonEmpty : threadStartedMap[t]}

\* The threads swapThreads may bring to the head of their core.
Ready ==
    {t \in Runnable :
        \/ Front(t).type # "COMMUNICATION"
        \/ checkAllCommDependencies(Front(t))
        \/ threadMutexMap[t]}

AtBarrier == {t \in NonEmpty : IsPthread(Front(t), "P_BARRIER_WT")}

\* The head of a core's threads runs.
Running(p) == threadMap[p][1]

\* The threads whose current sub-event may send its request.
MaySend ==
    {t \in {u \in Runnable : sub[u].left > 0} :
        \/ Front(t).type # "COMMUNICATION"
        \/ checkCommDependency(CurrentDep(Front(t), sub[t].left))
        \/ threadMutexMap[t]}
=============================================================================
