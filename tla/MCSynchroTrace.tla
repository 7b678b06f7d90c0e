--------------------------- MODULE MCSynchroTrace ---------------------------
(***************************************************************************)
(* Small traces for model checking the replay engine.                      *)
(***************************************************************************)
EXTENDS SynchroTrace, SynchroTraceProperties, SynchroTraceRefinement, PthreadFile

CONSTANTS m, n, b    \* two locks and a barrier

\* Lines of a trace file.
Blank == [type |-> "COMPUTATION", mem |-> 0, deps |-> << >>, pth |-> "NONE", addr |-> m]
Comp(k) == [Blank EXCEPT !.mem = k]
Comm(ds) == [Blank EXCEPT !.type = "COMMUNICATION", !.deps = ds]
From(t, e) == [thread |-> t, event |-> e]
Pth(kind, a) == [Blank EXCEPT !.type = "PTHREAD_API", !.pth = kind, !.addr = a]
Lock(a) == Pth("P_MUTEX_LK", a)
Unlock(a) == Pth("P_MUTEX_ULK", a)
Spin(a) == Pth("P_SPIN_LK", a)
Unspin(a) == Pth("P_SPIN_ULK", a)
Barrier == Pth("P_BARRIER_WT", b)
Spawn(t) == Pth("P_CREATE", t)
Await(t) == Pth("P_JOIN", t)
Critical(a) == <<Lock(a), Comp(1), Unlock(a)>>

\* A pthread_t is its thread's number.  All threads meet at the barrier b.
MCAddrs == {m, n, b} \cup Threads
MCPthreadFile ==
    [t \in 1 .. NumThreads - 1 |-> ThreadLine(t, t + 1)]
        \o <<BarrierLine(b, [i \in 1 .. NumThreads |-> i], TRUE)>>
MCMaps == processPthreadFile(MCPthreadFile)
MCAddresstoIdMap == [a \in MCAddrs |-> IdOf(MCMaps, a)]
MCBarrierMap == [a \in MCAddrs |-> ParticipantsOf(MCMaps, a)]

Traces(t0, t1, t2) == [t \in Threads |-> CASE t = 0 -> t0 [] t = 1 -> t1 [] OTHER -> t2]

\* Fork, one or two barrier rounds, critical sections and reads of what the
\* other threads produced before the barrier, join.
ForkJoin(pre1, pre2, post0, post2, again) ==
    Traces(<<Spawn(1), Spawn(2), Comp(1), Barrier>> \o post0 \o again \o <<Await(1), Await(2)>>,
           <<pre1, Barrier>> \o Critical(m) \o again,
           <<pre2, Barrier>> \o post2 \o again)

\* Thread 2 has its core while it waits for thread 1, and times out when thread
\* 0, on the same core, can go on; it is swapped in again when thread 0 waits.
TimedOut ==
    Traces(<<Spawn(1), Spawn(2), Comm(<<From(1, 1)>>), Await(1), Await(2)>>,
           <<Comp(2), Comp(2)>>,
           <<Comp(0), Comm(<<From(1, 2)>>)>>)

MCForkJoin ==
    {TimedOut} \cup
    {ForkJoin(pre1, pre2, post0, post2, again) :
        pre1 \in {Comp(2), Comm(<<From(0, 3), From(OS, 1)>>)},
        pre2 \in {Comp(0), Comm(<<From(1, 1)>>)},
        post0 \in {<< >>, Critical(m)},
        post2 \in {Critical(m), <<Comm(<<From(1, 1), From(0, 3)>>)>>},
        again \in {<< >>, <<Barrier>>}}

\* Nested mutexes, spin locks and condition variables, a core per thread.
MCLocks ==
    {Traces(<<Spawn(1), Spawn(2)>> \o t0 \o <<Await(1), Await(2)>>, t1, t2) :
        t0 \in {<<Lock(m), Lock(n), Comp(1), Unlock(n), Unlock(m)>>,
                <<Lock(m), Pth("P_COND_WT", n), Unlock(m)>>},
        t1 \in {<<Lock(m), Comp(1), Lock(n), Unlock(m), Comp(0), Unlock(n)>>,
                <<Lock(m), Pth("P_COND_SG", n), Unlock(m)>> \o Critical(n)},
        t2 \in {<<Spin(b), Comp(1), Unspin(b)>>, Critical(n)}}
    \cup
    {Traces(<<Spawn(1), Spawn(2), Spin(m), Comp(0), Unspin(m)>>,
            <<Spin(m), Comp(1), Unspin(m), Spin(m), Unspin(m)>>,
            <<Lock(m), Spin(m), Comp(1), Unspin(m), Unlock(m)>>)}

\* Traces with events the engine does not replay, and with unlocks whose lock
\* was not recorded.
MCBadTraces ==
    {Traces(<<Spawn(1), Spawn(2)>> \o Critical(m), <<Comp(1), Lock(m), bad>>, Critical(m)) :
        bad \in {Pth("P_SEM", n), Unlock(n), Unspin(n)}}

MCReplays == MCForkJoin \cup MCLocks \cup MCBadTraces

\* Two threads of one core take the mutexes m and n in nested order; the
\* third is not created.
MCNested ==
    {Traces(<<Spawn(1), Lock(m), Comp(k), Lock(n), Unlock(n), Unlock(m)>>,
            <<Comp(j)>> \o Critical(n), << >>) : k \in 1 .. 2, j \in 0 .. 2}

\* Seven threads on four cores: thread 1 creates thread 2 late, and thread 0
\* creates the others meanwhile, so that thread 6 is created before thread 2,
\* with which it shares core 2.
MCLateCreate ==
    {[t \in Threads |->
        CASE t = 0 -> <<Spawn(1), Spawn(3), Spawn(4), Spawn(5), Spawn(6), Await(6)>>
          [] t = 1 -> <<Comp(3), Spawn(2)>>
          [] OTHER -> <<Comp(1)>>]}
=============================================================================
