----------------------- MODULE SynchroTraceInvariants -----------------------
(***************************************************************************)
(* The invariants that the proofs about the replay engine rest on, and the *)
(* three kinds of step its actions reduce to.                              *)
(***************************************************************************)
EXTENDS SynchroTraceProperties

(***************************************************************************)
(* The inductive invariant.  Beyond the properties themselves it says that *)
(* a thread never leaves the core it was dealt to, and that sub-events     *)
(* exist only for an event in the queue.                                   *)
(***************************************************************************)
ThreadsOf(p) == {t \in Threads : CoreOf(t) = p}

FlagTypes ==
    /\ threadStartedMap \in [Threads -> BOOLEAN]
    /\ threadMutexMap \in [Threads -> BOOLEAN]
    /\ threadContMap \in [Threads -> BOOLEAN]
    /\ mutexLocks \in SUBSET Addrs /\ spinLocks \in SUBSET Addrs
    /\ threadWaitMap \in [Addrs -> SUBSET Threads]
    /\ worker_thread_count \in Int

QueueTypes ==
    /\ file \in Programs
    /\ popped \in [Threads -> Nat]
    /\ loaded \in [Threads -> Nat]
    /\ \A t \in Threads : popped[t] <= loaded[t] /\ loaded[t] <= Len(file[t])
    /\ stopped \in BOOLEAN

SubTypes ==
    /\ sub \in [Threads -> SubEvents]
    /\ \A t \in Threads : /\ sub[t].msgTriggered => sub[t].left > 0
                          /\ sub[t].left > 0 => popped[t] # loaded[t]

CoreTypes ==
    /\ threadMap \in [Procs -> Seq(Threads)]
    /\ \A p \in Procs : threadMap[p] \in Seq(ThreadsOf(p)) /\ threadMap[p] # << >>
    /\ core \in [Procs -> Nat \cup {Unscheduled}]
    /\ inflight \in [Procs -> Nat]

ClockTypes == master \in Nat /\ aborted \in BOOLEAN

QueueInv == QueueTypes /\ QueueOK /\ StoppedMeansReplayed

IInv == FlagTypes /\ QueueInv /\ SubTypes /\ CoreTypes /\ ClockTypes /\ OneOutstanding

(***************************************************************************)
(* The three kinds of step                                                 *)
(***************************************************************************)
syncVars == <<threadStartedMap, threadMutexMap, threadContMap, mutexLocks,
              spinLocks, threadWaitMap>>

\* What a step may do to the sub-events of t.
SubKept(t) ==
    /\ sub'[t].left = sub[t].left
    /\ sub'[t].msgTriggered = sub[t].msgTriggered

SubFresh(t) ==
    /\ t \in Runnable'
    /\ sub'[t].left = NumSubEvents(file[t][popped'[t] + 1])
    /\ ~sub'[t].msgTriggered

SubSent(t) ==
    /\ t \in MaySend /\ ContainsMsg(Front(t))
    /\ sub'[t].left = sub[t].left

SubNext(t) ==
    /\ sub[t].msgTriggered /\ sub[t].left > 1
    /\ sub'[t].left = sub[t].left - 1
    /\ ~sub'[t].msgTriggered

SubEnded(t) == sub'[t].left = 0 /\ ~sub'[t].msgTriggered

\* No event completes, and the synchronisation tables stay as they are.
QuietStep ==
    /\ UNCHANGED <<file, popped, syncVars>>
    /\ \A t \in Threads : SubKept(t) \/ SubFresh(t) \/ SubSent(t) \/ SubNext(t)

Open(a, h) == BarrierMap[a] \subseteq threadWaitMap[a] \cup {h}

\* h arrives at its barrier, which opens if it was the last one missing.
ArriveStep(h) ==
    LET a == Front(h).addr IN
    /\ UNCHANGED <<file, popped, threadMutexMap, mutexLocks, spinLocks>>
    /\ h \in Runnable /\ IsPthread(Front(h), "P_BARRIER_WT") /\ ~threadContMap[h]
    /\ \A b \in Addrs : threadWaitMap'[b] = IF b # a THEN threadWaitMap[b]
                                            ELSE IF Open(a, h) THEN {}
                                            ELSE threadWaitMap[a] \cup {h}
    /\ \A t \in Threads :
           IF Open(a, h) /\ t \in BarrierMap[a]
           THEN threadStartedMap'[t] /\ threadContMap'[t]
           ELSE /\ t # h => threadStartedMap'[t] = threadStartedMap[t]
                /\ threadContMap'[t] = threadContMap[t]
    /\ \A t \in Threads : SubKept(t)

\* What completing the front event of h needs and does, by the event's kind.
Locks(h) ==
    \/ /\ IsPthread(Front(h), "P_MUTEX_LK") /\ Front(h).addr \notin mutexLocks
       /\ mutexLocks' = mutexLocks \cup {Front(h).addr}
       /\ threadMutexMap' = [threadMutexMap EXCEPT ![h] = TRUE]
       /\ UNCHANGED <<threadStartedMap, threadContMap, spinLocks, threadWaitMap>>
    \/ /\ IsPthread(Front(h), "P_MUTEX_ULK")
       /\ mutexLocks' = mutexLocks \ {Front(h).addr}
       /\ threadMutexMap' = [threadMutexMap EXCEPT ![h] = FALSE]
       /\ UNCHANGED <<threadStartedMap, threadContMap, spinLocks, threadWaitMap>>
    \/ /\ IsPthread(Front(h), "P_SPIN_LK") /\ Front(h).addr \notin spinLocks
       /\ spinLocks' = spinLocks \cup {Front(h).addr}
       /\ UNCHANGED <<threadVars, mutexLocks, threadWaitMap>>
    \/ /\ IsPthread(Front(h), "P_SPIN_ULK")
       /\ spinLocks' = spinLocks \ {Front(h).addr}
       /\ UNCHANGED <<threadVars, mutexLocks, threadWaitMap>>

Creates(h) ==
    /\ IsPthread(Front(h), "P_CREATE")
    /\ threadStartedMap' = [threadStartedMap EXCEPT ![AddresstoIdMap[Front(h).addr]] = TRUE]
    /\ UNCHANGED <<threadMutexMap, threadContMap, mutexLocks, spinLocks, threadWaitMap>>

Leaves(h) ==
    /\ IsPthread(Front(h), "P_BARRIER_WT") /\ threadContMap[h]
    /\ threadContMap' = [threadContMap EXCEPT ![h] = FALSE]
    /\ UNCHANGED <<threadStartedMap, threadMutexMap, mutexLocks, spinLocks, threadWaitMap>>

Passes(h) ==
    /\ UNCHANGED syncVars
    /\ \/ sub[h].msgTriggered /\ sub[h].left = 1
       \/ Front(h).type = "COMPUTATION"
       \/ IsPthread(Front(h), "P_JOIN") /\ Empty(AddresstoIdMap[Front(h).addr])
       \/ IsPthread(Front(h), "P_COND_WT") \/ IsPthread(Front(h), "P_COND_SG")

\* The front event of h completes.
PopStep(h) ==
    /\ UNCHANGED file
    /\ popped[h] < Len(file[h]) /\ sub[h].left > 0
    /\ popped' = [popped EXCEPT ![h] = @ + 1]
    /\ Locks(h) \/ Creates(h) \/ Leaves(h) \/ Passes(h)
    /\ \A t \in Threads : (t # h /\ SubKept(t)) \/ SubFresh(t) \/ SubEnded(t)

DepType == [thread : Threads \cup {OS}, event : Nat]

\* No step takes a thread back.
Forward ==
    /\ UNCHANGED file
    /\ \A t \in Threads : popped'[t] \in Nat /\ popped[t] <= popped'[t]

(***************************************************************************)
(* Creates and joins                                                       *)
(***************************************************************************)
WasCreated(t) ==
    \/ t = 0
    \/ \E u \in Threads : \E i \in Past(u) :
           IsPthread(file[u][i], "P_CREATE") /\ AddresstoIdMap[file[u][i].addr] = t

\* Only a thread that was created is started, waits at a barrier, has
\* sub-events or has completed an event.
CreatedInv ==
    /\ \A t \in Threads :
           threadStartedMap[t] \/ popped[t] > 0 \/ sub[t].left > 0 => WasCreated(t)
    /\ \A a \in Addrs : \A t \in threadWaitMap[a] : WasCreated(t)

JoinedInv ==
    \A t \in Threads : \A i \in Past(t) :
        IsPthread(file[t][i], "P_JOIN") =>
            LET u == AddresstoIdMap[file[t][i].addr] IN popped[u] = Len(file[u])

(***************************************************************************)
(* Requests belong to events that make requests                            *)
(***************************************************************************)
RequestInv == \A t \in Threads : sub[t].msgTriggered => ContainsMsg(Front(t))

(***************************************************************************)
(* Communication                                                           *)
(***************************************************************************)
\* What the consumer of a dependency waits for.
DepMet(d) ==
    d.thread # OS => \/ popped[d.thread] >= d.event
                     \/ popped[d.thread] = Len(file[d.thread])

\* The first n dependencies of the event e are met.
MetUpTo(e, n) == \A k \in 1 .. n : DepMet(e.deps[k])

\* The sub-events of a communication event are its dependencies, in order: the
\* ones completed or sent are met, unless the engine ignores dependencies.
Answering(t) == IF sub[t].msgTriggered THEN 1 ELSE 0

DepsMet(t) ==
    sub[t].left > 0 /\ Front(t).type = "COMMUNICATION" /\ ~threadMutexMap[t] =>
        /\ sub[t].left <= Len(Front(t).deps)
        /\ MetUpTo(Front(t), Len(Front(t).deps) - sub[t].left + Answering(t))

CommInv == \A t \in Threads : DepsMet(t)

\* threadMutexMap says that the last mutex event completed was a lock.
MutexMapInv == \A t \in Threads : threadMutexMap[t] <=> InsideMutex(t, popped[t] + 1)

(***************************************************************************)
(* Barriers                                                                *)
(***************************************************************************)
AtB(t, b) ==
    /\ popped[t] < Len(file[t])
    /\ IsPthread(Front(t), "P_BARRIER_WT") /\ Front(t).addr = b

\* The rounds of b that t was released from, left or not.
Phase(t, b) == Passed(t, b) + IF threadContMap[t] /\ Front(t).addr = b THEN 1 ELSE 0

\* The rounds are numbers.
PassedTypes == \A t \in Threads, b \in Addrs : Passed(t, b) \in Nat

\* Completing the front event of h adds a round exactly when it is a wait at b.
PassedMoves(h) ==
    \A b \in Addrs :
        /\ Passed(h, b)' = Passed(h, b) +
               IF IsPthread(Front(h), "P_BARRIER_WT") /\ Front(h).addr = b THEN 1 ELSE 0
        /\ \A t \in Threads \ {h} : Passed(t, b)' = Passed(t, b)

\* A thread registered at a barrier stands there and is not released; a released
\* thread stands at a barrier it participates in and is started; and all
\* participants of a barrier were released from it equally often.
BarrierInv ==
    /\ \A b \in Addrs : \A t \in threadWaitMap[b] : AtB(t, b) /\ ~threadContMap[t]
    /\ \A t \in Threads : threadContMap[t] =>
           threadStartedMap[t] /\ AtB(t, Front(t).addr) /\ t \in BarrierMap[Front(t).addr]
    /\ \A b \in Addrs : \A t, u \in BarrierMap[b] : Phase(t, b) = Phase(u, b)

\* The recorded order, as far as it is replayed.
OrderInv ==
    /\ CreatedInv /\ JoinedInv
    /\ RequestInv /\ MutexMapInv /\ CommInv /\ CommOrder
    /\ BarrierInv
=============================================================================
