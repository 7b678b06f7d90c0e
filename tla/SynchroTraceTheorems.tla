------------------------ MODULE SynchroTraceTheorems ------------------------
(***************************************************************************)
(* What a replay does, for every number of threads and cores, every trace  *)
(* and every value of the engine's parameters: each action is one of the   *)
(* three kinds of step that SynchroTraceProofs is about, so the recorded   *)
(* order is respected and locks exclude; assertions fail only for the      *)
(* trace, no wakeup is lost, and the engine implements ReplayOrder.        *)
(***************************************************************************)
EXTENDS SynchroTraceProofs, SynchroTraceRefinement, FiniteSetTheorems

\* First-order leaves go to Zenon, the others name their solver.
USE Zenon

(***************************************************************************)
(* The steps are of three kinds                                            *)
(***************************************************************************)
\* The end of an event pops its thread; a new head gets its sub-events.
LEMMA FinishSubs ==
    ASSUME IInv, NEW p \in Procs, Progress(p), Finish(p)
    PROVE  /\ UNCHANGED file
           /\ popped[Running(p)] < Len(file[Running(p)])
           /\ popped' = [popped EXCEPT ![Running(p)] = @ + 1]
           /\ \A t \in Threads : \/ t # Running(p) /\ SubKept(t)
                                 \/ SubFresh(t)
                                 \/ SubEnded(t)
<1>. DEFINE h == Running(p)
            q == swapThreads(threadMap[p], Ready')
            new == q[1]
            ended == [sub EXCEPT ![h] = NoSubEvents]
            e == file[new][popped'[new] + 1]
<1>1. h \in Threads /\ popped[h] # loaded[h]
    BY ProgressFacts
<1>2. popped[h] < Len(file[h])
    BY <1>1, EmptyMeansFinished, SMTT(20)
<1>3. UNCHANGED file /\ popped' = [popped EXCEPT ![h] = @ + 1]
    BY DEF Finish
<1>4. PICK d \in Costs :
          sub' = IF Len(q) > 1 /\ new \in Runnable' /\ ended[new].left = 0
                 THEN [ended EXCEPT ![new] = Pulled(e, NumSubEvents(e), d)]
                 ELSE ended
    BY DEF Finish
<1>5. ended \in [Threads -> SubEvents] /\ ended[h] = NoSubEvents
      /\ \A t \in Threads \ {h} : ended[t] = sub[t]
    BY <1>1, NoSubEventsType DEF IInv, SubTypes
<1>6. Pulled(e, NumSubEvents(e), d).left = NumSubEvents(e)
      /\ ~Pulled(e, NumSubEvents(e), d).msgTriggered
    BY DEF Pulled
<1>. HIDE DEF h, q, ended
<1>7. ASSUME NEW t \in Threads
      PROVE  (t # h /\ SubKept(t)) \/ SubFresh(t) \/ SubEnded(t)
    <2>1. CASE sub'[t] = ended[t]
        BY <1>5, <2>1, SMTT(20) DEF SubKept, SubEnded, NoSubEvents
    <2>2. CASE t = new /\ new \in Runnable' /\ sub'[t] = Pulled(e, NumSubEvents(e), d)
        BY <1>6, <2>2 DEF SubFresh
    <2>3. sub'[t] = ended[t] \/ (t = new /\ new \in Runnable' /\ sub'[t] = Pulled(e, NumSubEvents(e), d))
        BY <1>4, <1>5
    <2>. QED BY <2>1, <2>2, <2>3
<1>. QED BY <1>2, <1>3, <1>7 DEF h

\* A sub-event that is tried again keeps its place.
LEMMA RetrySubs ==
    ASSUME IInv, NEW p \in Procs, Progress(p), Retry(p)
    PROVE  /\ UNCHANGED <<file, popped>>
           /\ \A t \in Threads : SubKept(t)
<1>. DEFINE h == Running(p)
<1>1. h \in Threads /\ sub \in [Threads -> SubEvents]
    BY ProgressFacts DEF IInv, SubTypes
<1>2. sub' = [sub EXCEPT ![h] = [sub[h] EXCEPT !.trigger = 1]]
    BY DEF Retry
<1>3. /\ [sub[h] EXCEPT !.trigger = 1].left = sub[h].left
      /\ [sub[h] EXCEPT !.trigger = 1].msgTriggered = sub[h].msgTriggered
    BY <1>1 DEF SubEvents
<1>. HIDE DEF h
<1>4. \A t \in Threads : SubKept(t)
    BY <1>1, <1>2, <1>3 DEF SubKept
<1>. QED BY <1>4 DEF Retry, queueVars

\* Wakeups that complete nothing and change no synchronisation table.
LEMMA QuietWakeups ==
    ASSUME IInv, NEW p \in Procs,
           \/ WakeIdle(p) \/ WakeCreateSubEvents(p) \/ WakeEarly(p) \/ WakeSend(p)
           \/ WakeCommWait(p) \/ LockWait(p) \/ JoinWait(p) \/ AssertFails(p)
    PROVE  QuietStep
<1>. USE DEF syncVars, threadVars, lockVars, queueVars
<1>. DEFINE h == Running(p)
<1>1. h \in Threads /\ sub \in [Threads -> SubEvents]
    BY RunningIn DEF IInv, SubTypes
<1>2. CASE WakeIdle(p) \/ WakeEarly(p) \/ AssertFails(p)
    <2>1. UNCHANGED <<file, popped, sub, syncVars>>
        BY <1>2 DEF WakeIdle, WakeEarly, AssertFails
    <2>. QED BY <2>1 DEF QuietStep, SubKept
<1>3. CASE WakeCreateSubEvents(p)
    <2>1. UNCHANGED <<file, popped, loaded, syncVars>> /\ h \in Runnable
        BY <1>3 DEF WakeCreateSubEvents
    <2>2. PICK d \in Costs : sub' = [sub EXCEPT ![h] = Pulled(Front(h), NumSubEvents(Front(h)), d)]
        BY <1>3 DEF WakeCreateSubEvents
    <2>3. Runnable' = Runnable
        BY <2>1 DEF Runnable, NonEmpty, Empty
    <2>. HIDE DEF h
    <2>4. SubFresh(h)
        BY <1>1, <2>1, <2>2, <2>3 DEF SubFresh, Front, Pulled
    <2>5. \A t \in Threads \ {h} : SubKept(t)
        BY <1>1, <2>2 DEF SubKept
    <2>. QED BY <2>1, <2>4, <2>5 DEF QuietStep
<1>4. CASE WakeSend(p)
    <2>1. UNCHANGED <<file, popped, syncVars>> /\ h \in MaySend /\ ContainsMsg(Front(h))
        BY <1>4 DEF WakeSend
    <2>2. sub' = [sub EXCEPT ![h] = [sub[h] EXCEPT !.msgTriggered = RubyAccepts(p)]]
        BY <1>4 DEF WakeSend
    <2>. HIDE DEF h
    <2>3. sub'[h].left = sub[h].left
        BY <1>1, <2>2 DEF SubEvents
    <2>4. \A t \in Threads \ {h} : SubKept(t)
        BY <1>1, <2>2 DEF SubKept
    <2>. QED BY <2>1, <2>3, <2>4 DEF QuietStep, SubSent
<1>5. CASE WakeCommWait(p) \/ LockWait(p) \/ JoinWait(p)
    <2>1. Progress(p) /\ Retry(p) /\ UNCHANGED syncVars
        BY <1>5 DEF WakeCommWait, LockWait, JoinWait, AtPthread
    <2>2. UNCHANGED <<file, popped>> /\ \A t \in Threads : SubKept(t)
        BY <2>1, RetrySubs
    <2>. QED BY <2>1, <2>2 DEF QuietStep
<1>. QED BY <1>2, <1>3, <1>4, <1>5

\* The core wakeups in which a thread arrives at a barrier.
LEMMA ArriveWakeup ==
    ASSUME IInv, NEW p \in Procs, BarrierArrive(p)
    PROVE  ArriveStep(Running(p))
<1>. DEFINE h == Running(p)
            a == Front(h).addr
<1>1. Progress(p) /\ Retry(p) /\ IsPthread(Front(h), "P_BARRIER_WT") /\ ~threadContMap[h]
    BY DEF BarrierArrive, AtPthread
<1>2. h \in Threads /\ h \in Runnable
    BY <1>1, ProgressFacts DEF Progress
<1>3. UNCHANGED <<file, popped>> /\ \A t \in Threads : SubKept(t)
    BY <1>1, RetrySubs
<1>4. UNCHANGED <<threadMutexMap, mutexLocks, spinLocks>>
    BY DEF BarrierArrive
<1>5. checkBarriers(a, threadWaitMap[a] \cup {h}) <=> Open(a, h)
    BY DEF checkBarriers, Open
<1>6. /\ threadWaitMap' = [threadWaitMap EXCEPT ![a] = IF Open(a, h) THEN {}
                                                       ELSE threadWaitMap[a] \cup {h}]
      /\ \A t \in Threads : Open(a, h) /\ t \in BarrierMap[a] =>
                                threadStartedMap'[t] /\ threadContMap'[t]
      /\ \A t \in Threads : ~(Open(a, h) /\ t \in BarrierMap[a]) =>
                                /\ t # h => threadStartedMap'[t] = threadStartedMap[t]
                                /\ threadContMap'[t] = threadContMap[t]
    BY <1>2, <1>5 DEF BarrierArrive, FrontAddr, IInv, FlagTypes
<1>. HIDE DEF h, a
<1>7. \A b \in Addrs : threadWaitMap'[b] = IF b # a THEN threadWaitMap[b]
                                           ELSE IF Open(a, h) THEN {}
                                           ELSE threadWaitMap[a] \cup {h}
    BY <1>6 DEF IInv, FlagTypes
<1>. QED BY <1>1, <1>2, <1>3, <1>4, <1>6, <1>7 DEF ArriveStep, h, a

\* The core wakeups that complete an event.
LEMMA PopWakeups ==
    ASSUME IInv, NEW p \in Procs,
           \/ WakeComputed(p) \/ MutexLock(p) \/ MutexUnlock(p) \/ Create(p) \/ Join(p)
           \/ BarrierLeave(p) \/ Cond(p) \/ SpinLock(p) \/ SpinUnlock(p)
    PROVE  PopStep(Running(p))
<1>. USE DEF AtPthread, FrontAddr, syncVars, threadVars, lockVars
<1>1. Progress(p) /\ Finish(p)
    BY DEF WakeComputed, MutexLock, MutexUnlock, Create, Join, BarrierLeave, Cond,
           SpinLock, SpinUnlock
<1>2. sub[Running(p)].left > 0
    BY <1>1 DEF Progress
<1>3. CASE MutexLock(p) \/ MutexUnlock(p) \/ SpinLock(p) \/ SpinUnlock(p)
    <2>1. Locks(Running(p))
        BY <1>3 DEF Locks, MutexLock, MutexUnlock, SpinLock, SpinUnlock
    <2>. QED BY <1>1, <1>2, <2>1, FinishSubs DEF PopStep
<1>4. CASE Create(p)
    <2>1. Creates(Running(p))
        BY <1>4 DEF Creates, Create
    <2>. QED BY <1>1, <1>2, <2>1, FinishSubs DEF PopStep
<1>5. CASE BarrierLeave(p)
    <2>1. Leaves(Running(p))
        BY <1>5 DEF Leaves, BarrierLeave
    <2>. QED BY <1>1, <1>2, <2>1, FinishSubs DEF PopStep
<1>6. CASE WakeComputed(p) \/ Join(p) \/ Cond(p)
    <2>1. Passes(Running(p))
        BY <1>6 DEF Passes, WakeComputed, Join, Joinable, Cond
    <2>. QED BY <1>1, <1>2, <2>1, FinishSubs DEF PopStep
<1>. QED BY <1>3, <1>4, <1>5, <1>6

\* Responses: the next sub-event, or the end of the event.
LEMMA HitSteps ==
    ASSUME IInv, NEW p \in Procs
    PROVE  /\ HitNext(p) => QuietStep
           /\ HitLast(p) => PopStep(Running(p))
<1>. USE DEF syncVars, threadVars, lockVars, queueVars
<1>. DEFINE h == Running(p)
<1>1. sub \in [Threads -> SubEvents]
    BY DEF IInv, SubTypes
<1>2. ASSUME HitNext(p) PROVE QuietStep
    <2>1. h \in Threads
        BY <1>2, HitFacts DEF HitNext
    <2>2. UNCHANGED <<file, popped, syncVars>> /\ sub[h].msgTriggered /\ sub[h].left > 1
        BY <1>2 DEF HitNext
    <2>3. PICK d \in Costs : sub' = [sub EXCEPT ![h] = Pulled(Front(h), sub[h].left - 1, d)]
        BY <1>2 DEF HitNext
    <2>. HIDE DEF h
    <2>4. SubNext(h)
        BY <1>1, <2>1, <2>2, <2>3 DEF SubNext, Pulled
    <2>5. \A t \in Threads \ {h} : SubKept(t)
        BY <1>1, <2>1, <2>3 DEF SubKept
    <2>. QED BY <2>2, <2>4, <2>5 DEF QuietStep
<1>3. ASSUME HitLast(p) PROVE PopStep(h)
    <2>1. h \in Threads /\ sub[h].msgTriggered /\ sub[h].left > 0 /\ popped[h] # loaded[h]
        BY <1>3, HitFacts DEF HitLast
    <2>2. /\ UNCHANGED <<file, syncVars>> /\ sub[h].left = 1
          /\ popped' = [popped EXCEPT ![h] = @ + 1]
          /\ sub' = [sub EXCEPT ![h] = NoSubEvents]
        BY <1>3, <2>1 DEF HitLast
    <2>3. popped[h] < Len(file[h])
        BY <2>1, EmptyMeansFinished, SMTT(20)
    <2>. HIDE DEF h
    <2>4. Passes(h)
        BY <2>1, <2>2 DEF Passes
    <2>5. \A t \in Threads : (t # h /\ SubKept(t)) \/ SubEnded(t)
        BY <1>1, <2>1, <2>2 DEF SubKept, SubEnded, NoSubEvents
    <2>. QED BY <2>1, <2>2, <2>3, <2>4, <2>5 DEF PopStep
<1>. QED BY <1>2, <1>3

\* The master wakeup and the clock complete nothing.
LEMMA ClockSteps ==
    ASSUME IInv, MasterWakeup \/ Tick
    PROVE  QuietStep
<1>. USE DEF syncVars, threadVars, lockVars, queueVars
<1>1. sub \in [Threads -> SubEvents]
    BY DEF IInv, SubTypes
<1>2. CASE Tick
    <2>1. UNCHANGED <<file, popped, syncVars>> /\ sub' = [t \in Threads |-> Age(t)]
        BY <1>2 DEF Tick
    <2>2. ASSUME NEW t \in Threads
          PROVE  Age(t).left = sub[t].left /\ Age(t).msgTriggered = sub[t].msgTriggered
        BY <1>1 DEF Age, SubEvents
    <2>. QED BY <2>1, <2>2 DEF QuietStep, SubKept
<1>3. CASE MasterWakeup
    <2>. DEFINE created == {p \in Procs : Running(p) \in Runnable' /\ sub[Running(p)].left = 0}
    <2>1. UNCHANGED <<file, popped, syncVars>>
        BY <1>3 DEF MasterWakeup
    <2>2. PICK d \in [Procs -> Costs] :
              sub' = [t \in Threads |->
                        IF CoreOf(t) \in created /\ Running(CoreOf(t)) = t
                        THEN Pulled(Front(Running(CoreOf(t))),
                                    NumSubEvents(Front(Running(CoreOf(t)))), d[CoreOf(t)])
                        ELSE sub[t]]
        BY <1>3 DEF MasterWakeup
    <2>3. ASSUME NEW t \in Threads
          PROVE  SubKept(t) \/ SubFresh(t)
        <3>1. CASE CoreOf(t) \in created /\ Running(CoreOf(t)) = t
            <4>1. sub'[t] = Pulled(Front(t), NumSubEvents(Front(t)), d[CoreOf(t)])
                BY <2>2, <3>1
            <4>. QED BY <2>1, <3>1, <4>1, SMTT(20) DEF SubFresh, Front, Pulled
        <3>2. CASE ~(CoreOf(t) \in created /\ Running(CoreOf(t)) = t)
            BY <2>2, <3>2 DEF SubKept
        <3>. QED BY <3>1, <3>2
    <2>. QED BY <2>1, <2>3 DEF QuietStep
<1>. QED BY <1>2, <1>3

\* Every step of the engine is of one of the three kinds.
LEMMA StepKinds ==
    ASSUME IInv, [Next]_vars
    PROVE  QuietStep \/ \E h \in Threads : ArriveStep(h) \/ PopStep(h)
<1>1. CASE MasterWakeup \/ Tick
    BY <1>1, ClockSteps
<1>2. ASSUME NEW p \in Procs, CoreWakeup(p) \/ hitCallback(p)
      PROVE  QuietStep \/ ArriveStep(Running(p)) \/ PopStep(Running(p))
    BY <1>2, QuietWakeups, ArriveWakeup, PopWakeups, HitSteps DEF CoreWakeup, hitCallback
<1>3. \A p \in Procs : Running(p) \in Threads
    BY RunningIn DEF IInv
<1>4. CASE UNCHANGED vars
    BY <1>4 DEF vars, QuietStep, SubKept, syncVars
<1>. QED BY <1>1, <1>2, <1>3, <1>4 DEF Next, Step, Terminated

(***************************************************************************)
(* Assertions                                                              *)
(***************************************************************************)
AbortInv == UnlocksHeld => AbortsOnlyOnBadTrace

\* WakeEarly never finds a request in flight, schedule() never a scheduled wakeup:
\* what is left to abort are the assertions of progressPthreadEvent.
LEMMA OnlyAssertFails ==
    ASSUME IInv, [Next]_vars, aborted'
    PROVE  UNCHANGED vars \/ \E p \in Procs : AssertFails(p)
<1>1. CASE UNCHANGED vars
    BY <1>1
<1>2. CASE MasterWakeup \/ Tick
    BY <1>2 DEF MasterWakeup, Tick
<1>3. ASSUME NEW p \in Procs, hitCallback(p) PROVE FALSE
    <2>1. inflight[p] > 0 /\ ~aborted
        BY <1>3 DEF hitCallback, HitNext, HitLast
    <2>2. core[p] = Unscheduled
        BY <2>1, HitFacts
    <2>3. Schedule(p, 1) => ~aborted'
        BY <2>2 DEF Schedule
    <2>4. HitNext(p) => ~aborted'
        BY <2>2 DEF HitNext, Schedule
    <2>5. HitLast(p) => ~aborted'
        BY <2>1, <2>3 DEF HitLast
    <2>. QED BY <1>3, <2>4, <2>5 DEF hitCallback
<1>4. ASSUME NEW p \in Procs, CoreWakeup(p) PROVE AssertFails(p)
    <2>1. ASSUME WakeEarly(p) PROVE FALSE
        <3>1. core[p] = 0 /\ aborted' = sub[Running(p)].msgTriggered
            BY <2>1 DEF WakeEarly, Due
        <3>2. Running(p) \in Threads /\ CoreOf(Running(p)) = p
            BY RunningIn DEF IInv
        <3>3. core[p] # Unscheduled
            BY <3>1, SMTT(20) DEF Unscheduled
        <3>4. ~sub[Running(p)].msgTriggered
            BY <3>2, <3>3, AwakeHasNoRequest DEF IInv
        <3>. QED BY <3>1, <3>4
    <2>2. ASSUME CoreWakeup(p), ~WakeEarly(p), ~AssertFails(p) PROVE ~aborted'
        <3>. USE DEF Due, Progress, AtPthread, runVars
        <3>1. ASSUME \/ WakeIdle(p) \/ WakeCreateSubEvents(p) \/ WakeSend(p)
              PROVE  ~aborted'
            BY <3>1 DEF WakeIdle, WakeCreateSubEvents, WakeSend
        <3>2. ASSUME \/ WakeCommWait(p) \/ LockWait(p) \/ JoinWait(p) \/ BarrierArrive(p)
              PROVE  ~aborted'
            BY <3>2 DEF WakeCommWait, LockWait, JoinWait, BarrierArrive, Retry
        <3>3. ASSUME \/ WakeComputed(p) \/ MutexLock(p) \/ MutexUnlock(p) \/ Create(p)
                     \/ Join(p) \/ BarrierLeave(p) \/ Cond(p) \/ SpinLock(p) \/ SpinUnlock(p)
              PROVE  ~aborted'
            BY <3>3 DEF WakeComputed, MutexLock, MutexUnlock, Create, Join, BarrierLeave,
                        Cond, SpinLock, SpinUnlock, Finish
        <3>. QED BY <2>2, <3>1, <3>2, <3>3 DEF CoreWakeup
    <2>. QED BY <1>4, <2>1, <2>2
<1>. QED BY <1>1, <1>2, <1>3, <1>4 DEF Next, Step, Terminated

\* An assertion that fails blames the trace, as long as the unlocks replayed were
\* of held locks.
LEMMA AbortStep ==
    ASSUME IInv, LockInv, AbortInv, [Next]_vars
    PROVE  AbortInv'
<1>1. SUFFICES ASSUME UnlocksHeld', aborted' PROVE AbortsOnlyOnBadTrace'
    BY DEF AbortInv, AbortsOnlyOnBadTrace
<1>2. UNCHANGED <<file, popped, loaded, threadMap, threadStartedMap>>
    BY <1>1, OnlyAssertFails DEF vars, AssertFails, queueVars, threadVars
<1>3. UnlocksHeld
    BY <1>1, <1>2 DEF UnlocksHeld, Past
<1>4. /\ \A p : Running(p)' = Running(p)
      /\ \A t : Front(t)' = Front(t)
      /\ \A t : t \in Runnable' <=> t \in Runnable
      /\ \A t, a : (HoldsMutex(t, a)' <=> HoldsMutex(t, a)) /\ (HoldsSpin(t, a)' <=> HoldsSpin(t, a))
    BY <1>2, SMTT(20) DEF Running, Front, Runnable, NonEmpty, Empty, HoldsMutex, HoldsSpin, Holds, Past, IsPthread
<1>. DEFINE Bad(p) ==
               /\ Running(p) \in Runnable
               /\ \/ IsPthread(Front(Running(p)), "P_SEM")
                  \/ /\ IsPthread(Front(Running(p)), "P_MUTEX_ULK")
                     /\ ~HoldsMutex(Running(p), Front(Running(p)).addr)
                  \/ /\ IsPthread(Front(Running(p)), "P_SPIN_ULK")
                     /\ ~HoldsSpin(Running(p), Front(Running(p)).addr)
<1>5. \E p \in Procs : Bad(p)
    <2>1. CASE aborted
        BY <1>3, <2>1 DEF AbortInv, AbortsOnlyOnBadTrace
    <2>2. CASE ~aborted
        <3>1. PICK p \in Procs : AssertFails(p)
            BY <1>1, <2>2, OnlyAssertFails DEF vars
        <3>2. LockExclusion
            BY <1>3 DEF LockInv
        <3>3. Running(p) \in Threads /\ Running(p) \in Runnable
            BY <3>1, RunningIn DEF AssertFails, AtPthread, Progress, IInv
        <3>4. Front(Running(p)).addr \in Addrs
            BY <3>3, EmptyMeansFinished, FrontType DEF Runnable
        <3>5. \/ IsPthread(Front(Running(p)), "P_SEM")
              \/ IsPthread(Front(Running(p)), "P_MUTEX_ULK") /\ Front(Running(p)).addr \notin mutexLocks
              \/ IsPthread(Front(Running(p)), "P_SPIN_ULK") /\ Front(Running(p)).addr \notin spinLocks
            BY <3>1 DEF AssertFails, AtPthread, FrontAddr
        <3>6. Bad(p)
            BY <3>2, <3>3, <3>4, <3>5 DEF LockExclusion
        <3>. QED BY <3>6
    <2>. QED BY <2>1, <2>2
<1>6. PICK p \in Procs : Bad(p)
    BY <1>5
<1>7. PICK t : t = Running(p) /\ t = Running(p)'
    BY <1>4
<1>8. /\ t \in Runnable'
      /\ \/ IsPthread(Front(t)', "P_SEM")
         \/ IsPthread(Front(t)', "P_MUTEX_ULK") /\ ~HoldsMutex(t, Front(t).addr)'
         \/ IsPthread(Front(t)', "P_SPIN_ULK") /\ ~HoldsSpin(t, Front(t).addr)'
    <2>1. /\ HoldsMutex(t, Front(t).addr)' <=> HoldsMutex(t, Front(t).addr)
          /\ HoldsSpin(t, Front(t).addr)' <=> HoldsSpin(t, Front(t).addr)
        BY <1>2, SMTT(20) DEF HoldsMutex, HoldsSpin, Holds, Past, Front, IsPthread
    <2>. QED BY <1>4, <1>6, <1>7, <2>1
<1>. QED BY <1>7, <1>8, SMTT(20) DEF AbortsOnlyOnBadTrace, IsPthread, HoldsMutex, HoldsSpin, Holds

(***************************************************************************)
(* Wakeups.  A core whose running thread has sub-events to go is scheduled *)
(* or waits for a response that schedules it.  A thread parked at a        *)
(* barrier counts too, since the last arrival may be on another core and   *)
(* schedules nobody; so the induction needs to know why a thread with      *)
(* sub-events may be unable to run.                                        *)
(***************************************************************************)
\* A thread with sub-events that is not started is parked at a barrier.
ParkedInv ==
    \A t \in Threads : sub[t].left > 0 /\ ~threadStartedMap[t] =>
        IsPthread(Front(t), "P_BARRIER_WT")

\* The running thread's sub-events are never forgotten, parked or not.
WakeInv ==
    \A p \in Procs : sub[Running(p)].left > 0 => core[p] # Unscheduled \/ inflight[p] > 0

\* All three kinds of step park a thread with sub-events only at a barrier.
LEMMA ParkedStep ==
    ASSUME IInv, IInv', RequestInv, ParkedInv,
           QuietStep \/ \E h \in Threads : ArriveStep(h) \/ PopStep(h)
    PROVE  ParkedInv'
<1>1. file' = file
    BY StepsForward DEF Forward
<1>2. \A t \in Threads : sub[t].left \in Nat /\ sub'[t].left \in Nat
    BY DEF IInv, SubTypes, SubEvents
<1>3. ASSUME NEW t \in Threads, popped'[t] = popped[t],
             threadStartedMap[t] => threadStartedMap'[t],
             SubKept(t) \/ SubFresh(t) \/ SubSent(t) \/ SubNext(t) \/ SubEnded(t),
             sub'[t].left > 0, ~threadStartedMap'[t]
      PROVE  IsPthread(Front(t), "P_BARRIER_WT")'
    <2>1. ~SubFresh(t)
        BY <1>3 DEF SubFresh, Runnable
    <2>2. sub[t].left > 0
        BY <1>2, <1>3, <2>1, SMTT(20) DEF SubKept, SubSent, SubNext, SubEnded
    <2>3. IsPthread(Front(t), "P_BARRIER_WT")
        BY <1>3, <2>2 DEF ParkedInv
    <2>. QED BY <1>1, <1>3, <2>3 DEF Front, IsPthread
<1>4. CASE QuietStep
    BY <1>3, <1>4 DEF QuietStep, syncVars, ParkedInv
<1>5. ASSUME NEW h \in Threads, ArriveStep(h) PROVE ParkedInv'
    <2>1. \A t \in Threads \ {h} : threadStartedMap[t] => threadStartedMap'[t]
        BY <1>5 DEF ArriveStep
    <2>2. IsPthread(Front(h), "P_BARRIER_WT")'
        BY <1>1, <1>5 DEF ArriveStep, Front, IsPthread
    <2>3. \A t \in Threads : popped'[t] = popped[t] /\ SubKept(t)
        BY <1>5 DEF ArriveStep
    <2>4. \A t \in Threads \ {h} : sub'[t].left > 0 /\ ~threadStartedMap'[t] =>
              IsPthread(Front(t), "P_BARRIER_WT")'
        BY <1>3, <2>1, <2>3
    <2>. QED BY <2>2, <2>4 DEF ParkedInv
<1>6. ASSUME NEW h \in Threads, PopStep(h) PROVE ParkedInv'
    <2>1. \A t \in Threads : threadStartedMap[t] => threadStartedMap'[t]
        BY <1>6, PopOfBarrier
    <2>2. \A t \in Threads \ {h} : popped'[t] = popped[t]
        BY <1>6, PopPositions
    <2>3. \A t \in Threads : (t # h /\ SubKept(t)) \/ SubFresh(t) \/ SubEnded(t)
        BY <1>6 DEF PopStep
    <2>4. sub'[h].left > 0 => threadStartedMap'[h]
        BY <1>2, <2>3, SMTT(20) DEF SubFresh, SubEnded, Runnable
    <2>5. \A t \in Threads \ {h} : sub'[t].left > 0 /\ ~threadStartedMap'[t] =>
              IsPthread(Front(t), "P_BARRIER_WT")'
        BY <1>3, <2>1, <2>2, <2>3
    <2>. QED BY <2>4, <2>5 DEF ParkedInv
<1>. QED BY <1>4, <1>5, <1>6

(***************************************************************************)
(* What a step of one core leaves to the others                            *)
(***************************************************************************)
OnlyCore(p) ==
    /\ \A r \in Procs \ {p} : /\ threadMap'[r] = threadMap[r] /\ core'[r] = core[r]
                              /\ inflight'[r] = inflight[r]
    /\ \A t \in Threads : CoreOf(t) # p => sub'[t] = sub[t]

\* It is enough to look at the core that takes the step.
LEMMA OneCoreStep ==
    ASSUME IInv, WakeInv, NEW p \in Procs, OnlyCore(p),
           sub'[Running(p)'].left > 0 => core'[p] # Unscheduled \/ inflight'[p] > 0
    PROVE  WakeInv'
<1>. SUFFICES ASSUME NEW r \in Procs, sub'[Running(r)'].left > 0
              PROVE  core'[r] # Unscheduled \/ inflight'[r] > 0
    BY DEF WakeInv, Unscheduled
<1>1. CASE r = p
    BY <1>1
<1>2. CASE r # p
    <2>1. Running(r)' = Running(r) /\ core'[r] = core[r] /\ inflight'[r] = inflight[r]
        BY <1>2 DEF OnlyCore, Running
    <2>2. Running(r) \in Threads /\ CoreOf(Running(r)) = r
        BY RunningIn DEF IInv
    <2>3. sub'[Running(r)] = sub[Running(r)]
        BY <1>2, <2>2 DEF OnlyCore
    <2>. QED BY <2>1, <2>3 DEF WakeInv
<1>. QED BY <1>1, <1>2

\* swapStalledThreads keeps a wakeup that is scheduled, and schedules one when it
\* swaps or polls.
LEMMA SwapSchedules ==
    ASSUME IInv, NEW p \in Procs, NEW q, NEW c, SwapStalled(p, q, c)
    PROVE  /\ c # Unscheduled => core'[p] # Unscheduled
           /\ Len(q) > 1 /\ q[1] \in Yielding' => core'[p] # Unscheduled
           /\ Len(q) = 1 /\ q[1] \in AtBarrier' => core'[p] # Unscheduled
           /\ ~(Len(q) > 1 /\ q[1] \in Yielding') => threadMap'[p] = q
<1>1. /\ core' = [core EXCEPT ![p] =
                     IF c = Unscheduled /\ (\/ Len(q) > 1 /\ q[1] \in Yielding'
                                            \/ Len(q) = 1 /\ q[1] \in AtBarrier') THEN 1 ELSE c]
      /\ threadMap' = [threadMap EXCEPT ![p] =
                     IF Len(q) > 1 /\ q[1] \in Yielding' THEN swapThreads(q, Ready') ELSE q]
    BY DEF SwapStalled
<1>. QED BY <1>1, SMTT(20) DEF IInv, CoreTypes, Unscheduled

\* A wakeup that leaves the core's queue to swapStalledThreads and touches the
\* sub-events of its running thread only.
LEMMA SleepFrame ==
    ASSUME IInv, NEW p \in Procs, NEW c \in Nat \cup {Unscheduled},
           SwapStalled(p, threadMap[p], c),
           \A r \in Procs \ {p} : inflight'[r] = inflight[r],
           \A t \in Threads \ {Running(p)} : sub'[t] = sub[t]
    PROVE  OnlyCore(p)
<1>1. threadMap[p] \in Seq(ThreadsOf(p)) /\ threadMap[p] # << >> /\ ThreadsOf(p) \subseteq Threads
    BY DEF IInv, CoreTypes, ThreadsOf
<1>2. \A r \in Procs \ {p} : threadMap'[r] = threadMap[r] /\ core'[r] = core[r]
    BY <1>1 DEF IInv, CoreTypes, SwapStalled
<1>3. CoreOf(Running(p)) = p
    BY RunningIn DEF IInv
<1>. QED BY <1>2, <1>3 DEF OnlyCore

(***************************************************************************)
(* What each kind of wakeup does to its own core                           *)
(***************************************************************************)
\* A thread that cannot run is swapped out or, alone on its core, polled while it
\* is parked at a barrier.
LEMMA IdleWakes ==
    ASSUME IInv, ParkedInv, WakeInv, NEW p \in Procs, WakeIdle(p)
    PROVE  WakeInv'
<1>1. /\ UNCHANGED <<file, sub, popped, loaded, threadStartedMap, inflight>>
      /\ SwapStalled(p, threadMap[p], Unscheduled)
      /\ Running(p) \notin Runnable
    BY DEF WakeIdle, queueVars, threadVars, runVars
<1>2. OnlyCore(p)
    BY <1>1, SleepFrame
<1>3. Running(p) \in Threads /\ threadMap[p] \in Seq(ThreadsOf(p)) /\ threadMap[p] # << >>
    BY RunningIn DEF IInv, CoreTypes
<1>4. Len(threadMap[p]) > 1 \/ (Len(threadMap[p]) = 1 /\ ~(Len(threadMap[p]) > 1))
    <2>1. PICK n \in Nat : n = Len(threadMap[p]) /\ n # 0
        BY <1>3, SMTT(20)
    <2>2. \A m \in Nat : m # 0 => m > 1 \/ (m = 1 /\ ~(m > 1))
        BY SMTT(20)
    <2>. QED BY <2>1, <2>2
<1>5. Running(p) \notin Runnable' /\ Running(p) \in Yielding'
    BY <1>1, <1>3 DEF Runnable, NonEmpty, Empty, Yielding, Threads
<1>6. ASSUME sub'[Running(p)'].left > 0 PROVE core'[p] # Unscheduled
    <2>1. CASE Len(threadMap[p]) > 1
        BY <1>1, <1>5, <2>1, SwapSchedules DEF Running
    <2>2. CASE Len(threadMap[p]) = 1 /\ ~(Len(threadMap[p]) > 1)
        <3>1. threadMap'[p] = threadMap[p]
            BY <1>1, <2>2, SwapSchedules
        <3>2. sub[Running(p)].left > 0
            BY <1>1, <1>6, <3>1 DEF Running
        <3>3. popped[Running(p)] # loaded[Running(p)]
            BY <1>3, <3>2 DEF IInv, SubTypes
        <3>4. ~threadStartedMap[Running(p)]
            BY <1>1, <1>3, <3>3 DEF Runnable, NonEmpty, Empty
        <3>5. IsPthread(Front(Running(p)), "P_BARRIER_WT")
            BY <1>3, <3>2, <3>4 DEF ParkedInv
        <3>6. Running(p) \in AtBarrier'
            BY <1>1, <1>3, <3>3, <3>5 DEF AtBarrier, NonEmpty, Empty, Front, IsPthread, Threads
        <3>. QED BY <1>1, <2>2, <3>6, SwapSchedules DEF Running
    <2>. QED BY <1>4, <2>1, <2>2
<1>. QED BY <1>2, <1>6, OneCoreStep

\* The first request of a core is always taken, and its response wakes the core.
LEMMA SendWakes ==
    ASSUME IInv, WakeInv, NEW p \in Procs, WakeSend(p)
    PROVE  WakeInv'
<1>. DEFINE h == Running(p)
<1>1. h \in Threads /\ core[p] # Unscheduled /\ sub \in [Threads -> SubEvents]
    BY ProgressFacts DEF WakeSend, IInv, SubTypes
<1>2. inflight \in [Procs -> Nat] /\ inflight[p] = 0
    BY <1>1, AwakeHasNoRequest DEF IInv, CoreTypes
<1>3. inflight' = [inflight EXCEPT ![p] = 0 + 1]
    <2>1. MaxOutstanding \in Nat /\ MaxOutstanding # 0
        BY SizesAssumption
    <2>2. 0 < MaxOutstanding
        BY <2>1, SMTT(20)
    <2>3. RubyAccepts(p)
        BY <1>2, <2>2 DEF RubyAccepts
    <2>. QED BY <1>2, <2>3 DEF WakeSend
<1>4. SwapStalled(p, threadMap[p], Unscheduled)
      /\ sub' = [sub EXCEPT ![h] = [sub[h] EXCEPT !.msgTriggered = RubyAccepts(p)]]
    BY DEF WakeSend
<1>. HIDE DEF h
<1>5. \A t \in Threads \ {h} : sub'[t] = sub[t]
    BY <1>1, <1>4
<1>6. OnlyCore(p)
    BY <1>2, <1>3, <1>4, <1>5, SleepFrame DEF h
<1>. QED BY <1>2, <1>3, <1>6, OneCoreStep, SMTT(20)

\* The other wakeups that complete nothing sleep until a known cycle.
LEMMA SleepWakes ==
    ASSUME IInv, WakeInv, NEW p \in Procs,
           \/ WakeCreateSubEvents(p) \/ WakeEarly(p)
           \/ Progress(p) /\ Retry(p)
    PROVE  WakeInv'
<1>. DEFINE h == Running(p)
<1>1. h \in Threads /\ sub \in [Threads -> SubEvents] /\ sub[h].trigger \in Nat
    BY RunningIn DEF IInv, SubTypes, SubEvents
<1>2. UNCHANGED inflight
    BY DEF WakeCreateSubEvents, WakeEarly, Retry, runVars
<1>3. PICK c \in Nat : SwapStalled(p, threadMap[p], c)
    <2>1. CASE WakeCreateSubEvents(p)
        <3>1. PICK d \in Costs :
                  /\ sub' = [sub EXCEPT ![h] = Pulled(Front(h), NumSubEvents(Front(h)), d)]
                  /\ SwapStalled(p, threadMap[p], sub'[h].trigger)
            BY <2>1 DEF WakeCreateSubEvents
        <3>2. d \in Nat
            BY SizesAssumption
        <3>. HIDE DEF h
        <3>3. sub'[h].trigger \in Nat
            BY <1>1, <3>1, <3>2, SMTT(20) DEF Pulled
        <3>. QED BY <3>1, <3>3
    <2>2. CASE WakeEarly(p)
        BY <1>1, <2>2 DEF WakeEarly
    <2>3. CASE Progress(p) /\ Retry(p)
        BY <2>3 DEF Retry
    <2>. QED BY <2>1, <2>2, <2>3
<1>4. \A t \in Threads \ {h} : sub'[t] = sub[t]
    <2>1. PICK s : sub' = [sub EXCEPT ![h] = s] \/ sub' = sub
        BY DEF WakeCreateSubEvents, WakeEarly, Retry
    <2>. HIDE DEF h
    <2>. QED BY <1>1, <2>1
<1>5. OnlyCore(p)
    BY <1>2, <1>3, <1>4, SleepFrame
<1>6. core'[p] # Unscheduled
    BY <1>3, SwapSchedules, SMTT(20) DEF Unscheduled
<1>. QED BY <1>5, <1>6, OneCoreStep

\* A response schedules its core.
LEMMA HitWakes ==
    ASSUME IInv, WakeInv, NEW p \in Procs, hitCallback(p)
    PROVE  WakeInv'
<1>. DEFINE h == Running(p)
<1>1. inflight[p] > 0
    BY DEF hitCallback, HitNext, HitLast
<1>2. h \in Threads /\ CoreOf(h) = p /\ core[p] = Unscheduled /\ sub[h].msgTriggered
    BY <1>1, HitFacts
<1>3. sub \in [Threads -> SubEvents] /\ inflight \in [Procs -> Nat]
      /\ core \in [Procs -> Nat \cup {Unscheduled}] /\ threadMap \in [Procs -> Seq(Threads)]
    BY DEF IInv, SubTypes, CoreTypes
<1>4. /\ inflight' = [inflight EXCEPT ![p] = @ - 1]
      /\ \E x : threadMap' = [threadMap EXCEPT ![p] = x]
      /\ \E s : sub' = [sub EXCEPT ![h] = s]
    BY <1>2, <1>3, SMTT(20) DEF hitCallback, HitNext, HitLast, Answered
<1>5. PICK when \in Nat : core' = [core EXCEPT ![p] = when]
    <2>1. CASE HitNext(p)
        <3>1. PICK d \in Costs :
                  /\ sub' = [sub EXCEPT ![h] = Pulled(Front(h), @.left - 1, d)]
                  /\ Schedule(p, sub'[h].trigger)
            BY <2>1 DEF HitNext
        <3>2. d \in Nat
            BY SizesAssumption
        <3>. HIDE DEF h
        <3>3. sub'[h].trigger \in Nat
            BY <1>2, <1>3, <3>1, <3>2, SMTT(20) DEF Pulled
        <3>. QED BY <1>2, <3>1, <3>3 DEF Schedule
    <2>2. CASE HitLast(p)
        BY <1>2, <2>2 DEF HitLast, Schedule
    <2>. QED BY <2>1, <2>2 DEF hitCallback
<1>. HIDE DEF h
<1>6. OnlyCore(p)
    BY <1>2, <1>3, <1>4, <1>5 DEF OnlyCore
<1>7. core'[p] # Unscheduled
    BY <1>3, <1>5, SMTT(20) DEF Unscheduled
<1>. QED BY <1>6, <1>7, OneCoreStep

\* The clock counts scheduled wakeups down and unschedules none.
LEMMA TickWakes ==
    ASSUME IInv, WakeInv, Tick
    PROVE  WakeInv'
<1>1. \A p \in Procs : Running(p) \in Threads
    BY RunningIn DEF IInv
<1>2. /\ UNCHANGED <<threadMap, inflight>> /\ \A p \in Procs : core[p] # 0
      /\ core' = [p \in Procs |-> IF core[p] = Unscheduled THEN Unscheduled ELSE core[p] - 1]
      /\ sub' = [t \in Threads |-> Age(t)]
    BY DEF Tick
<1>3. \A t \in Threads : Age(t).left = sub[t].left
    BY DEF IInv, SubTypes, SubEvents, Age
<1>. SUFFICES ASSUME NEW p \in Procs, sub'[Running(p)'].left > 0
              PROVE  core'[p] # Unscheduled \/ inflight'[p] > 0
    BY DEF WakeInv, Unscheduled
<1>4. Running(p)' = Running(p)
    BY <1>2 DEF Running
<1>5. sub[Running(p)].left > 0
    BY <1>1, <1>2, <1>3, <1>4
<1>6. core[p] # Unscheduled \/ inflight[p] > 0
    BY <1>5 DEF WakeInv
<1>7. core[p] \in Nat \cup {Unscheduled} /\ core[p] # 0
    BY <1>2 DEF IInv, CoreTypes
<1>8. core[p] # Unscheduled => core'[p] # Unscheduled
    BY <1>2, <1>7, SMTT(20) DEF Unscheduled
<1>. QED BY <1>2, <1>6, <1>8

\* The master creates sub-events only together with a wakeup.
LEMMA MasterWakes ==
    ASSUME IInv, WakeInv, MasterWakeup
    PROVE  WakeInv'
<1>. DEFINE created == {p \in Procs : Running(p) \in Runnable' /\ sub[Running(p)].left = 0}
            fresh(d, p) == Pulled(Front(Running(p)), NumSubEvents(Front(Running(p))), d[p])
<1>1. \A p \in Procs : Running(p) \in Threads /\ CoreOf(Running(p)) = p
    BY RunningIn DEF IInv
<1>2. UNCHANGED <<threadMap, inflight>>
    BY DEF MasterWakeup
<1>3. PICK d \in [Procs -> Costs] :
          /\ sub' = [t \in Threads |->
                        IF CoreOf(t) \in created /\ Running(CoreOf(t)) = t
                        THEN fresh(d, CoreOf(t)) ELSE sub[t]]
          /\ core' = [p \in Procs |->
                        IF p \in created /\ core[p] = Unscheduled
                        THEN fresh(d, p).trigger ELSE core[p]]
    BY DEF MasterWakeup
<1>. SUFFICES ASSUME NEW p \in Procs, sub'[Running(p)'].left > 0
              PROVE  core'[p] # Unscheduled \/ inflight'[p] > 0
    BY DEF WakeInv, Unscheduled
<1>4. Running(p)' = Running(p)
    BY <1>2 DEF Running
<1>5. d[p] \in Nat
    BY SizesAssumption
<1>6. fresh(d, p).trigger \in Nat
    BY <1>5, SMTT(20) DEF Pulled
<1>7. CASE p \in created
    <2>1. core'[p] = IF core[p] = Unscheduled THEN fresh(d, p).trigger ELSE core[p]
        BY <1>3, <1>7
    <2>. HIDE DEF fresh
    <2>. QED BY <1>6, <2>1, SMTT(20) DEF Unscheduled
<1>8. CASE p \notin created
    <2>1. core'[p] = core[p] /\ sub'[Running(p)] = sub[Running(p)]
        BY <1>1, <1>3, <1>8
    <2>. QED BY <1>2, <1>4, <2>1 DEF WakeInv
<1>. QED BY <1>7, <1>8

\* The end of an event wakes its core in the next cycle.
LEMMA FinishWakes ==
    ASSUME IInv, WakeInv, NEW p \in Procs, Progress(p), Finish(p)
    PROVE  WakeInv'
<1>. DEFINE h == Running(p)
            q == swapThreads(threadMap[p], Ready')
            new == q[1]
            ended == [sub EXCEPT ![h] = NoSubEvents]
            e == file[new][popped'[new] + 1]
<1>1. h \in Threads /\ CoreOf(h) = p /\ sub \in [Threads -> SubEvents]
    BY ProgressFacts DEF IInv, SubTypes
<1>2. UNCHANGED inflight /\ SwapStalled(p, q, 1)
    BY DEF Finish, runVars
<1>3. PICK d \in Costs :
          sub' = IF Len(q) > 1 /\ new \in Runnable' /\ ended[new].left = 0
                 THEN [ended EXCEPT ![new] = Pulled(e, NumSubEvents(e), d)]
                 ELSE ended
    BY DEF Finish
<1>4. q \in Seq(ThreadsOf(p)) /\ q # << >>
    BY SwapThreadsSeq DEF IInv, CoreTypes
<1>. HIDE DEF h, q
<1>5. CoreOf(new) = p
    BY <1>4, EmptySeq, ElementOfSeq, SMTT(20) DEF ThreadsOf
<1>6. \A r \in Procs \ {p} : threadMap'[r] = threadMap[r] /\ core'[r] = core[r]
    <2>1. ThreadsOf(p) \subseteq Threads
        BY DEF ThreadsOf
    <2>. QED BY <1>2, <1>4, <2>1, SwapStalledEffect DEF IInv, CoreTypes
<1>7. \A t \in Threads : CoreOf(t) # p => sub'[t] = sub[t]
    BY <1>1, <1>3, <1>5
<1>8. OnlyCore(p)
    BY <1>2, <1>6, <1>7 DEF OnlyCore
<1>9. core'[p] # Unscheduled
    BY <1>2, SwapSchedules, SMTT(20) DEF Unscheduled
<1>. QED BY <1>8, <1>9, OneCoreStep

\* No step leaves the running thread of a core without a wakeup or a response.
LEMMA WakeStep ==
    ASSUME IInv, ParkedInv, WakeInv, [Next]_vars
    PROVE  WakeInv'
<1>1. CASE MasterWakeup \/ Tick
    BY <1>1, TickWakes, MasterWakes
<1>2. ASSUME NEW p \in Procs, CoreWakeup(p) PROVE WakeInv'
    <2>1. CASE WakeIdle(p)
        BY <2>1, IdleWakes
    <2>2. CASE WakeSend(p)
        BY <2>2, SendWakes
    <2>3. CASE WakeCreateSubEvents(p) \/ WakeEarly(p)
        BY <2>3, SleepWakes
    <2>4. CASE WakeCommWait(p) \/ LockWait(p) \/ JoinWait(p) \/ BarrierArrive(p)
        <3>1. Progress(p) /\ Retry(p)
            BY <2>4 DEF WakeCommWait, LockWait, JoinWait, BarrierArrive, AtPthread
        <3>. QED BY <3>1, SleepWakes
    <2>5. CASE \/ WakeComputed(p) \/ MutexLock(p) \/ MutexUnlock(p) \/ Create(p) \/ Join(p)
               \/ BarrierLeave(p) \/ Cond(p) \/ SpinLock(p) \/ SpinUnlock(p)
        <3>1. Progress(p) /\ Finish(p)
            BY <2>5 DEF WakeComputed, MutexLock, MutexUnlock, Create, Join, BarrierLeave, Cond,
                        SpinLock, SpinUnlock, AtPthread
        <3>. QED BY <3>1, FinishWakes
    <2>6. CASE AssertFails(p)
        BY <2>6 DEF AssertFails, WakeInv, Running
    <2>. QED BY <1>2, <2>1, <2>2, <2>3, <2>4, <2>5, <2>6 DEF CoreWakeup
<1>3. ASSUME NEW p \in Procs, hitCallback(p) PROVE WakeInv'
    BY <1>3, HitWakes
<1>4. CASE UNCHANGED vars
    BY <1>4 DEF vars, WakeInv, Running
<1>. QED BY <1>1, <1>2, <1>3, <1>4 DEF Next, Step, Terminated

(***************************************************************************)
(* The theorems                                                            *)
(***************************************************************************)
\* The rounds are numbers.
LEMMA PassedType ==
    ASSUME IInv, NEW t \in Threads, NEW b
    PROVE  /\ Passed(t, b) \in Nat
           /\ IsFiniteSet({i \in Past(t) : IsPthread(file[t][i], "P_BARRIER_WT")
                                           /\ file[t][i].addr = b})
<1>. DEFINE S == {i \in Past(t) : IsPthread(file[t][i], "P_BARRIER_WT") /\ file[t][i].addr = b}
<1>1. popped[t] \in Nat
    BY DEF IInv, QueueInv, QueueTypes
<1>2. IsFiniteSet(1 .. popped[t])
    BY <1>1, FS_Interval, SMTT(20)
<1>3. S \subseteq 1 .. popped[t]
    BY DEF Past
<1>. HIDE DEF S
<1>4. IsFiniteSet(S)
    BY <1>2, <1>3, FS_Subset
<1>5. Cardinality(S) \in Nat
    BY <1>4, FS_CardinalityType
<1>. QED BY <1>4, <1>5 DEF S, Passed

\* Completing an event adds a round exactly when it is a wait at the barrier.
LEMMA PassedStep ==
    ASSUME IInv, NEW h \in Threads, PopStep(h), NEW b
    PROVE  /\ Passed(h, b)' = Passed(h, b) +
                  IF IsPthread(Front(h), "P_BARRIER_WT") /\ Front(h).addr = b THEN 1 ELSE 0
           /\ \A t \in Threads \ {h} : Passed(t, b)' = Passed(t, b)
<1>1. PICK n \in Nat : n = popped[h] /\ popped'[h] = n + 1
    BY PopPositions
<1>2. file' = file
    BY DEF PopStep
<1>. DEFINE W(t, i) == IsPthread(file[t][i], "P_BARRIER_WT") /\ file[t][i].addr = b
            S == {i \in 1 .. n : W(h, i)}
            R == {i \in 1 .. (n + 1) : W(h, i)}
<1>3. Passed(h, b) = Cardinality(S)
    BY <1>1 DEF Passed, Past
<1>4. Passed(h, b)' = Cardinality(R)
    BY <1>1, <1>2 DEF Passed, Past, IsPthread
<1>5. W(h, n + 1) <=> IsPthread(Front(h), "P_BARRIER_WT") /\ Front(h).addr = b
    BY <1>1 DEF Front
<1>6. IsFiniteSet(S)
    BY <1>1, PassedType DEF Past
<1>7. \A t \in Threads \ {h} : Passed(t, b)' = Passed(t, b)
    BY <1>2, PopPositions DEF Passed, Past, IsPthread
<1>. HIDE DEF W
<1>8. CASE W(h, n + 1)
    <2>1. R = S \cup {n + 1} /\ n + 1 \notin S
        BY <1>8, SMTT(20)
    <2>. HIDE DEF R, S
    <2>2. Cardinality(R) = Cardinality(S) + 1
        BY <1>6, <2>1, FS_AddElement
    <2>. QED BY <1>3, <1>4, <1>5, <1>7, <1>8, <2>2
<1>9. CASE ~W(h, n + 1)
    <2>1. R = S
        BY <1>9, SMTT(20)
    <2>2. Cardinality(S) \in Nat
        BY <1>6, FS_CardinalityType
    <2>. HIDE DEF R, S
    <2>. QED BY <1>3, <1>4, <1>5, <1>7, <1>9, <2>1, <2>2, SMTT(20)
<1>. QED BY <1>8, <1>9

\* Nothing is replayed and nobody is created, inside a mutex or at a barrier
\* when the simulation starts.
LEMMA InitOrder == Init => OrderInv
<1>. SUFFICES ASSUME Init PROVE OrderInv
    OBVIOUS
<1>1. /\ \A t \in Threads : popped[t] = 0 /\ sub[t].left = 0 /\ ~sub[t].msgTriggered
      /\ \A t \in Threads : Past(t) = {}
    BY SMTT(20) DEF Init, Past, NoSubEvents
<1>2. /\ \A t \in Threads : /\ threadStartedMap[t] <=> t = 0
                            /\ ~threadMutexMap[t] /\ ~threadContMap[t]
      /\ \A a \in Addrs : threadWaitMap[a] = {}
    BY DEF Init
<1>3. CreatedInv /\ JoinedInv
    BY <1>1, <1>2, SMTT(20) DEF CreatedInv, JoinedInv, WasCreated
<1>4. RequestInv /\ CommInv /\ CommOrder
    BY <1>1, SMTT(20) DEF RequestInv, CommInv, DepsMet, CommOrder
<1>5. MutexMapInv
    BY <1>1, <1>2, SMTT(20) DEF MutexMapInv, InsideMutex
<1>6. \A t \in Threads, b \in Addrs : Phase(t, b) = Cardinality({}) + 0
    <2>1. \A t \in Threads, b \in Addrs : Passed(t, b) = Cardinality({})
        BY <1>1 DEF Passed
    <2>. QED BY <1>2, <2>1 DEF Phase
<1>7. BarrierInv
    BY <1>2, <1>6, MapsAssumption DEF BarrierInv
<1>. QED BY <1>3, <1>4, <1>5, <1>7 DEF OrderInv

\* The recorded order is an invariant of the engine: this is the induction the
\* theorems below rest on.
THEOREM OrderInvariance == Spec => []OrderInv
<1>1. Init => OrderInv
    BY InitOrder
<1>2. IInv => PassedTypes /\ \A h \in Threads : PopStep(h) => PassedMoves(h)
    BY PassedType, PassedStep DEF PassedTypes, PassedMoves
<1>3. IInv /\ IInv' /\ OrderInv /\ [Next]_vars => OrderInv'
    BY <1>2, StepKinds, CreatedStep, JoinedStep, RequestStep, MutexMapStep, CommStep,
       CommOrderStep, BarrierStep DEF OrderInv
<1>4. Spec => []IInv
    BY Invariance
<1>. QED BY <1>1, <1>3, <1>4, PTL DEF Spec

\* progressEvents and hitCallback let a consumer outside a mutex complete a
\* communication event only after its producers completed theirs.
THEOREM CommunicationOrdered == Spec => []CommOrder
<1>1. OrderInv => CommOrder
    BY DEF OrderInv
<1>. QED BY <1>1, OrderInvariance, PTL

\* A join completes only after the joined thread's trace, and a thread replays
\* nothing before a P_CREATE of it completed.
THEOREM CreatesAndJoinsOrdered == Spec => []CreateJoinOrder
<1>1. OrderInv => CreateJoinOrder
    BY DEF OrderInv, CreatedInv, JoinedInv, WasCreated, CreateJoinOrder
<1>. QED BY <1>1, OrderInvariance, PTL

\* No thread leaves a barrier before every participant of BarrierMap arrived.
THEOREM BarriersInRounds == Spec => []BarrierRounds
<1>1. IInv /\ OrderInv => BarrierRounds
    BY BarrierInvRounds, PassedType DEF OrderInv, PassedTypes
<1>2. Spec => []IInv
    BY Invariance
<1>. QED BY <1>1, <1>2, OrderInvariance, PTL

(***************************************************************************)
(* The engine implements ReplayOrder                                       *)
(***************************************************************************)
\* An event that completes in the engine may complete in ReplayOrder.
LEMMA CompletesInOrder ==
    ASSUME IInv, OrderInv, LockExclusion, PassedTypes, NEW h \in Threads, PopStep(h)
    PROVE  Order!Complete(h)
<1>. USE DEF OrderInv
<1>1. PICK n \in Nat : n = popped[h]
    BY PopPositions
<1>2. popped[h] < Len(file[h]) /\ sub[h].left > 0 /\ file' = file
      /\ popped' = [popped EXCEPT ![h] = @ + 1]
    BY DEF PopStep
<1>3. PICK e : e = Front(h)
    OBVIOUS
<1>4. /\ e = Order!Current(h)
      /\ \A ev, kind : Order!Is(ev, kind) <=> IsPthread(ev, kind)
    BY <1>3 DEF Order!Current, Front, Order!Is, IsPthread
<1>5. /\ e.addr \in Addrs /\ AddresstoIdMap[e.addr] \in Threads
      /\ BarrierMap[e.addr] \subseteq Threads
    BY <1>2, <1>3, FrontType
<1>6. ~Order!Finished(h)
    BY <1>2, EmptyMeansFinished, SMTT(20) DEF Order!Finished
<1>7. Locks(h) \/ Creates(h) \/ Leaves(h) \/ Passes(h)
    BY DEF PopStep
<1>8. Order!Created(h)
    <2>1. WasCreated(h)
        BY <1>2 DEF CreatedInv
    <2>. QED BY <2>1 DEF WasCreated, Order!Created, Past, Order!Is, IsPthread
<1>9. ASSUME e.type = "COMMUNICATION", ~Order!InCriticalSection(h)
      PROVE  \A k \in 1 .. Len(e.deps) :
                 \/ e.deps[k].thread = OS
                 \/ popped[e.deps[k].thread] >= e.deps[k].event
                 \/ Order!Finished(e.deps[k].thread)
    <2>1. (n + 1) - 1 = n
        BY SMTT(20)
    <2>2. ~InsideMutex(h, popped[h] + 1)
        BY <1>1, <1>9, <2>1, SMTT(20) DEF InsideMutex, Order!InCriticalSection, Order!Is, IsPthread
    <2>3. MetUpTo(e, Len(e.deps))
        BY <1>3, <1>9, <2>2, PoppedCommMet
    <2>. QED BY <2>3 DEF MetUpTo, DepMet, Order!Finished
<1>10. ASSUME NEW a
       PROVE  \A u \in Threads :
                  /\ Order!Inside(u, a, "P_MUTEX_LK", "P_MUTEX_ULK") <=> HoldsMutex(u, a)
                  /\ Order!Inside(u, a, "P_SPIN_LK", "P_SPIN_ULK") <=> HoldsSpin(u, a)
    BY DEF Order!Inside, HoldsMutex, HoldsSpin, Holds, Past, Order!Is, IsPthread
<1>11. ASSUME IsPthread(e, "P_MUTEX_LK")
       PROVE  \A u \in Threads : ~Order!Inside(u, e.addr, "P_MUTEX_LK", "P_MUTEX_ULK")
    <2>1. ~Passes(h)
        BY <1>3, <1>11, PassedKind
    <2>2. e.addr \notin mutexLocks
        BY <1>3, <1>7, <1>11, <2>1 DEF Locks, Creates, Leaves, IsPthread
    <2>. QED BY <1>5, <1>10, <2>2 DEF LockExclusion
<1>12. ASSUME IsPthread(e, "P_SPIN_LK")
       PROVE  \A u \in Threads : ~Order!Inside(u, e.addr, "P_SPIN_LK", "P_SPIN_ULK")
    <2>1. ~Passes(h)
        BY <1>3, <1>12, PassedKind
    <2>2. e.addr \notin spinLocks
        BY <1>3, <1>7, <1>12, <2>1 DEF Locks, Creates, Leaves, IsPthread
    <2>. QED BY <1>5, <1>10, <2>2 DEF LockExclusion
<1>13. ASSUME IsPthread(e, "P_JOIN")
       PROVE  Order!Finished(AddresstoIdMap[e.addr])
    <2>1. ~sub[h].msgTriggered
        BY <1>3, <1>13 DEF RequestInv, ContainsMsg, IsPthread
    <2>2. Empty(AddresstoIdMap[e.addr])
        BY <1>3, <1>7, <1>13, <2>1 DEF Locks, Creates, Leaves, Passes, IsPthread
    <2>. QED BY <1>5, <2>2, EmptyMeansFinished DEF Order!Finished
<1>14. ASSUME IsPthread(e, "P_BARRIER_WT")
       PROVE  \A u \in BarrierMap[e.addr] : Order!Arrived(u, h, e.addr)
    <2>1. PICK b \in Addrs : b = e.addr
        BY <1>5
    <2>2. threadContMap[h]
        BY <1>3, <1>14, PopOfBarrier DEF Leaves
    <2>3. h \in BarrierMap[b]
        BY <1>3, <2>1, <2>2 DEF BarrierInv
    <2>4. \A t \in Threads : Order!Rounds(t, b) = Passed(t, b) /\ Passed(t, b) \in Nat
        <3>1. \A S : Order!Cardinality(S) = Cardinality(S)
            BY DEF Order!Cardinality, Cardinality
        <3>2. \A t \in Threads : Order!Rounds(t, b) = Passed(t, b)
            BY <3>1 DEF Order!Rounds, Passed, Past, Order!Is, IsPthread
        <3>. QED BY <3>2, <2>1 DEF PassedTypes
    <2>5. ASSUME NEW u \in BarrierMap[b] PROVE Order!Arrived(u, h, b)
        <3>1. u \in Threads /\ Phase(u, b) = Phase(h, b)
            BY <1>5, <2>1, <2>3 DEF BarrierInv
        <3>2. Phase(h, b) = Passed(h, b) + 1
            BY <1>3, <2>1, <2>2 DEF Phase
        <3>3. CASE threadContMap[u] /\ Front(u).addr = b
            <4>1. Passed(u, b) = Passed(h, b)
                BY <2>4, <3>1, <3>2, <3>3, SMTT(20) DEF Phase
            <4>2. AtB(u, b)
                BY <3>1, <3>3 DEF BarrierInv
            <4>3. popped[u] \in Nat /\ Len(file[u]) \in Nat
                BY <3>1, EmptyMeansFinished
            <4>. QED BY <2>4, <3>1, <4>1, <4>2, <4>3, SMTT(20)
                     DEF AtB, Order!Arrived, Order!Finished, Order!Current, Front, Order!Is, IsPthread
        <3>4. CASE ~(threadContMap[u] /\ Front(u).addr = b)
            <4>1. Passed(u, b) > Passed(h, b)
                BY <2>4, <3>1, <3>2, <3>4, SMTT(20) DEF Phase
            <4>. QED BY <2>4, <3>1, <4>1 DEF Order!Arrived
        <3>. QED BY <3>3, <3>4
    <2>. QED BY <2>1, <2>5
<1>15. Order!MayComplete(h)
    BY <1>4, <1>8, <1>9, <1>11, <1>12, <1>13, <1>14 DEF Order!MayComplete
<1>. QED BY <1>2, <1>6, <1>15 DEF Order!Complete

(***************************************************************************)
(* Locks, refinement and wakeups                                           *)
(***************************************************************************)
\* The invariants about locks and assertions hold together with the others.
LEMMA LockInvariance == Spec => [](IInv /\ OrderInv /\ LockInv /\ AbortInv)
<1>1. Init => LockInv /\ AbortInv
    <2>. SUFFICES ASSUME Init PROVE LockInv /\ AbortInv
        OBVIOUS
    <2>1. \A t \in Threads : Past(t) = {}
        BY SMTT(20) DEF Init, Past
    <2>2. mutexLocks = {} /\ spinLocks = {} /\ ~aborted
        BY DEF Init
    <2>3. \A t \in Threads, a \in Addrs : ~HoldsMutex(t, a) /\ ~HoldsSpin(t, a)
        BY <2>1 DEF HoldsMutex, HoldsSpin, Holds
    <2>. QED BY <2>2, <2>3 DEF LockInv, AbortInv, LockExclusion, AbortsOnlyOnBadTrace
<1>2. IInv /\ IInv' /\ OrderInv /\ LockInv /\ AbortInv /\ [Next]_vars => LockInv' /\ AbortInv'
    BY StepKinds, LockStep, AbortStep DEF OrderInv
<1>3. Spec => []IInv
    BY Invariance
<1>. QED BY <1>1, <1>2, <1>3, OrderInvariance, PTL DEF Spec

\* As long as every unlock replayed was of a lock its thread held, mutexLocks and
\* spinLocks are the locks held and no two threads hold the same.
THEOREM LocksExcludeSoFar == Spec => [](UnlocksHeld => LockExclusion)
<1>1. LockInv => (UnlocksHeld => LockExclusion)
    BY DEF LockInv
<1>. QED BY <1>1, LockInvariance, PTL

\* As long as every unlock replayed was of a lock its thread held, only an event the
\* engine does not replay or an unlock of a lock not held makes an assertion fail.
THEOREM AbortsBlameTheTrace == Spec => [](UnlocksHeld => AbortsOnlyOnBadTrace)
<1>1. AbortInv => (UnlocksHeld => AbortsOnlyOnBadTrace)
    BY DEF AbortInv
<1>. QED BY <1>1, LockInvariance, PTL

\* On well-locked traces mutexes and spin locks exclude, throughout every replay.
THEOREM LocksExclude ==
    ASSUME WellLocked
    PROVE  Spec => []LockExclusion
<1>1. IInv /\ LockInv => LockExclusion
    BY WellLockedSoFar DEF LockInv
<1>. QED BY <1>1, LockInvariance, PTL

\* On well-locked traces the engine completes events in an order that ReplayOrder
\* allows, whatever the scheduler, the refills, the wakeups and Ruby do.
THEOREM RefinesReplayOrder ==
    ASSUME WellLocked
    PROVE  Spec => ImplementsReplayOrder
<1>1. Init => Order!Init
    BY DEF Init, Order!Init
<1>2. IInv /\ OrderInv /\ LockInv /\ [Next]_vars => [Order!Next]_<<file, popped>>
    <2>. SUFFICES ASSUME IInv, OrderInv, LockInv, [Next]_vars
                  PROVE  [Order!Next]_<<file, popped>>
        OBVIOUS
    <2>1. LockExclusion
        BY WellLockedSoFar DEF LockInv
    <2>2. CASE QuietStep \/ \E h \in Threads : ArriveStep(h)
        BY <2>2 DEF QuietStep, ArriveStep
    <2>3. PassedTypes
        BY PassedType DEF PassedTypes
    <2>4. ASSUME NEW h \in Threads, PopStep(h) PROVE Order!Next
        BY <2>1, <2>3, <2>4, CompletesInOrder DEF Order!Next
    <2>. QED BY <2>2, <2>4, StepKinds
<1>. QED BY <1>1, <1>2, LockInvariance, PTL DEF Spec, ImplementsReplayOrder, Order!Spec, Order!vars

\* A started running thread with sub-events to go always has a wakeup of its core
\* scheduled or a response on the way, whatever swaps, barriers, refusals and
\* master wakeups come between.
THEOREM WakeupsKept == Spec => []NoLostWakeup
<1>1. Init => ParkedInv /\ WakeInv
    <2>. SUFFICES ASSUME Init PROVE ParkedInv /\ WakeInv
        OBVIOUS
    <2>1. \A t \in Threads : sub[t].left = 0
        BY DEF Init, NoSubEvents
    <2>2. \A p \in Procs : Running(p) \in Threads
        BY InitInv, RunningIn DEF IInv
    <2>. QED BY <2>1, <2>2, SMTT(20) DEF ParkedInv, WakeInv
<1>2. IInv /\ IInv' /\ OrderInv /\ ParkedInv /\ WakeInv /\ [Next]_vars => ParkedInv' /\ WakeInv'
    BY StepKinds, ParkedStep, WakeStep DEF OrderInv
<1>3. WakeInv => NoLostWakeup
    BY DEF WakeInv, NoLostWakeup
<1>4. Spec => []IInv
    BY Invariance
<1>. QED BY <1>1, <1>2, <1>3, <1>4, OrderInvariance, PTL DEF Spec
=============================================================================
