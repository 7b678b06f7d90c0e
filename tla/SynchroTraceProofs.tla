------------------------- MODULE SynchroTraceProofs -------------------------
(***************************************************************************)
(* Every action of the replay engine preserves IInv, for every number of   *)
(* threads and cores, every trace and every value of the engine's          *)
(* parameters; and the recorded synchronisation is respected by every step *)
(* that is quiet, lets a thread arrive at a barrier, or completes one event*)
(* of one thread.  That all the engine's steps are of these three kinds is *)
(* shown in SynchroTraceTheorems.                                          *)
(***************************************************************************)
EXTENDS SynchroTrace, SynchroTraceInvariants, SequenceTheorems, WellFoundedInduction,
        TLAPS

\* First-order leaves go to Zenon, the others name their solver.
USE Zenon

\* A trace file is a sequence of events.
LEMMA EventsOfFile ==
    ASSUME file \in Programs, NEW t \in Threads
    PROVE  /\ Len(file[t]) \in Nat
           /\ \A i \in 1 .. Len(file[t]) : file[t][i] \in Event
<1>1. file[t] \in Seq(Event)
    BY ProgramsAssumption
<1>. QED BY <1>1, SMTT(20)

\* An empty queue belongs to a finished thread: this is what QueueOK is for.
LEMMA EmptyMeansFinished ==
    ASSUME IInv, NEW t \in Threads
    PROVE  /\ popped[t] \in Nat /\ Len(file[t]) \in Nat /\ popped[t] <= Len(file[t])
           /\ popped[t] = loaded[t] <=> popped[t] = Len(file[t])
           /\ Empty(t) <=> popped[t] = Len(file[t])
           /\ t \in NonEmpty <=> popped[t] < Len(file[t])
<1>1. Len(file[t]) \in Nat
    BY EventsOfFile DEF IInv, QueueInv, QueueTypes
<1>2. /\ popped[t] \in Nat /\ loaded[t] \in Nat
      /\ popped[t] <= loaded[t] /\ loaded[t] <= Len(file[t])
      /\ loaded[t] - popped[t] >= MIN_EVENTS_SIZE \/ loaded[t] = Len(file[t])
    BY DEF IInv, QueueInv, QueueTypes, QueueOK
<1>3. MIN_EVENTS_SIZE \in Nat /\ MIN_EVENTS_SIZE >= 2
    BY SizesAssumption
<1>. QED BY <1>1, <1>2, <1>3, SMTT(20) DEF Empty, NonEmpty

\* The front event of a queue that is not empty.
LEMMA FrontType ==
    ASSUME IInv, NEW t \in Threads, popped[t] < Len(file[t])
    PROVE  /\ Front(t) = file[t][popped[t] + 1]
           /\ Front(t) \in Event /\ Front(t).addr \in Addrs
           /\ AddresstoIdMap[Front(t).addr] \in Threads
           /\ BarrierMap[Front(t).addr] \subseteq Threads
           /\ Front(t).deps \in Seq(DepType)
           /\ Len(Front(t).deps) \in Nat
           /\ \A k \in 1 .. Len(Front(t).deps) : Front(t).deps[k] \in DepType
<1>1. file \in Programs /\ popped[t] \in Nat
    BY DEF IInv, QueueInv, QueueTypes
<1>2. Front(t) \in Event
    BY <1>1, EventsOfFile, SMTT(20) DEF Front
<1>3. Front(t).addr \in Addrs /\ Front(t).deps \in Seq(DepType)
    BY <1>2 DEF Event, DepType
<1>4. /\ Len(Front(t).deps) \in Nat
      /\ \A k \in 1 .. Len(Front(t).deps) : Front(t).deps[k] \in DepType
    BY <1>3, SMTT(20)
<1>. QED BY <1>2, <1>3, <1>4, MapsAssumption DEF Front

\* Completing an event moves its thread one position on, and no other.
LEMMA PopPositions ==
    ASSUME IInv, NEW h \in Threads, PopStep(h)
    PROVE  /\ popped'[h] = popped[h] + 1 /\ popped[h] \in Nat
           /\ \A t \in Threads \ {h} : popped'[t] = popped[t]
           /\ \A t \in Threads \ {h} : Past(t)' = Past(t)
           /\ popped[h] + 1 \in Past(h)'
           /\ \A i \in Past(h)' : i \in Past(h) \/ i = popped[h] + 1
           /\ Past(h) \subseteq Past(h)'
           /\ popped[h] + 1 \in 1 .. Len(file[h])
<1>1. popped \in [Threads -> Nat] /\ popped[h] \in Nat /\ Len(file[h]) \in Nat
    BY EmptyMeansFinished DEF IInv, QueueInv, QueueTypes
<1>2. popped' = [popped EXCEPT ![h] = @ + 1] /\ popped[h] < Len(file[h])
    BY DEF PopStep
<1>3. popped'[h] = popped[h] + 1 /\ \A t \in Threads \ {h} : popped'[t] = popped[t]
    BY <1>1, <1>2
<1>. QED BY <1>1, <1>2, <1>3, SMTT(20) DEF Past

\* All three kinds of step only move threads forward.
LEMMA StepsForward ==
    ASSUME IInv, QuietStep \/ \E h \in Threads : ArriveStep(h) \/ PopStep(h)
    PROVE  Forward
<1>1. \A t \in Threads : popped[t] \in Nat
    BY DEF IInv, QueueInv, QueueTypes
<1>2. CASE QuietStep \/ \E h \in Threads : ArriveStep(h)
    <2>1. UNCHANGED <<file, popped>>
        BY <1>2 DEF QuietStep, ArriveStep
    <2>. QED BY <1>1, <2>1, SMTT(20) DEF Forward
<1>3. ASSUME NEW h \in Threads, PopStep(h)
      PROVE  Forward
    <2>1. UNCHANGED file
        BY <1>3 DEF PopStep
    <2>2. popped'[h] = popped[h] + 1 /\ \A t \in Threads \ {h} : popped'[t] = popped[t]
        BY <1>3, PopPositions
    <2>. QED BY <1>1, <2>1, <2>2, SMTT(20) DEF Forward
<1>. QED BY <1>2, <1>3

(***************************************************************************)
(* Creates and joins                                                       *)
(***************************************************************************)

\* A create is never undone.
LEMMA CreatedForGood ==
    ASSUME IInv, Forward, NEW t, WasCreated(t)
    PROVE  WasCreated(t)'
<1>1. CASE t = 0
    BY <1>1 DEF WasCreated
<1>2. CASE t # 0
    <2>0. PICK u \in Threads : \E i \in Past(u) :
              IsPthread(file[u][i], "P_CREATE") /\ AddresstoIdMap[file[u][i].addr] = t
        BY <1>2 DEF WasCreated
    <2>1. PICK i \in Past(u) :
              IsPthread(file[u][i], "P_CREATE") /\ AddresstoIdMap[file[u][i].addr] = t
        BY <2>0
    <2>2. popped[u] \in Nat /\ popped'[u] \in Nat /\ popped[u] <= popped'[u] /\ file' = file
        BY DEF IInv, QueueInv, QueueTypes, Forward
    <2>3. i \in 1 .. popped[u]
        BY DEF Past
    <2>4. i \in Past(u)'
        BY <2>2, <2>3, SMTT(20) DEF Past
    <2>5. IsPthread(file'[u][i], "P_CREATE") /\ AddresstoIdMap[file'[u][i].addr] = t
        BY <2>1, <2>2
    <2>. QED BY <2>4, <2>5 DEF WasCreated, IsPthread
<1>. QED BY <1>1, <1>2

\* Sub-events are made only for started threads.
LEMMA SubsOfCreated ==
    ASSUME IInv, IInv', CreatedInv, Forward, NEW t \in Threads,
           threadStartedMap'[t] => WasCreated(t)',
           SubKept(t) \/ SubFresh(t) \/ SubSent(t) \/ SubNext(t) \/ SubEnded(t),
           sub'[t].left > 0
    PROVE  WasCreated(t)'
<1>1. CASE SubFresh(t)
    BY <1>1 DEF SubFresh, Runnable
<1>2. CASE ~SubFresh(t)
    <2>1. sub[t].left \in Nat /\ sub'[t].left \in Nat
        BY DEF IInv, SubTypes, SubEvents
    <2>2. sub[t].left > 0
        BY <1>2, <2>1, SMTT(20) DEF SubKept, SubSent, SubNext, SubEnded
    <2>. QED BY <2>2, CreatedForGood DEF CreatedInv
<1>. QED BY <1>1, <1>2

\* All three kinds of step keep threads that were not created from acting,
LEMMA CreatedStep ==
    ASSUME IInv, IInv', CreatedInv,
           QuietStep \/ \E h \in Threads : ArriveStep(h) \/ PopStep(h)
    PROVE  CreatedInv'
<1>1. Forward
    BY StepsForward
<1>2. \A t : WasCreated(t) => WasCreated(t)'
    BY <1>1, CreatedForGood
<1>3. \A t \in Threads : popped[t] \in Nat /\ popped'[t] \in Nat
    BY DEF IInv, QueueInv, QueueTypes
<1>4. CASE QuietStep
    <2>1. UNCHANGED <<popped, threadStartedMap, threadWaitMap>>
        BY <1>4 DEF QuietStep, syncVars
    <2>2. \A t \in Threads : threadStartedMap'[t] => WasCreated(t)'
        BY <1>2, <2>1 DEF CreatedInv
    <2>3. \A t \in Threads : sub'[t].left > 0 => WasCreated(t)'
        BY <1>1, <1>4, <2>2, SubsOfCreated DEF QuietStep
    <2>. QED BY <1>2, <2>1, <2>2, <2>3 DEF CreatedInv
<1>5. ASSUME NEW h \in Threads, ArriveStep(h)
      PROVE  CreatedInv'
    <2>. DEFINE a == Front(h).addr
    <2>1. popped[h] < Len(file[h]) /\ threadStartedMap[h]
        BY <1>5, EmptyMeansFinished DEF ArriveStep, Runnable
    <2>2. a \in Addrs
        BY <2>1, FrontType
    <2>3. WasCreated(h)' /\ \A t \in threadWaitMap[a] : WasCreated(t)'
        BY <1>2, <2>1, <2>2 DEF CreatedInv
    <2>4. \A b \in Addrs : threadWaitMap'[b] \subseteq threadWaitMap[b] \cup (IF b = a THEN {h} ELSE {})
        BY <1>5 DEF ArriveStep
    <2>5. \A b \in Addrs : \A t \in threadWaitMap'[b] : WasCreated(t)'
        BY <1>2, <2>3, <2>4 DEF CreatedInv
    <2>6. \A t \in Threads : threadStartedMap'[t] =>
              threadStartedMap[t] \/ t = h \/ t \in threadWaitMap[a]
        BY <1>5 DEF ArriveStep, Open
    <2>7. \A t \in Threads : threadStartedMap'[t] => WasCreated(t)'
        BY <1>2, <2>3, <2>6 DEF CreatedInv
    <2>8. \A t \in Threads : sub'[t].left > 0 => WasCreated(t)'
        BY <1>1, <1>5, <2>7, SubsOfCreated DEF ArriveStep
    <2>9. UNCHANGED popped
        BY <1>5 DEF ArriveStep
    <2>. QED BY <1>2, <2>5, <2>7, <2>8, <2>9 DEF CreatedInv
<1>6. ASSUME NEW h \in Threads, PopStep(h)
      PROVE  CreatedInv'
    <2>1. popped[h] < Len(file[h]) /\ sub[h].left > 0 /\ file' = file
        BY <1>6 DEF PopStep
    <2>0. PICK u \in Threads : u = AddresstoIdMap[Front(h).addr]
        BY <2>1, FrontType
    <2>2. WasCreated(h)'
        BY <1>2, <2>1 DEF CreatedInv
    <2>3. UNCHANGED threadWaitMap
        BY <1>6 DEF PopStep, Locks, Creates, Leaves, Passes, syncVars, threadVars
    <2>4. UNCHANGED threadStartedMap \/ Creates(h)
        BY <1>6 DEF PopStep, Locks, Leaves, Passes, syncVars, threadVars
    <2>5. ASSUME Creates(h) PROVE WasCreated(u)'
        <3>1. popped[h] + 1 \in Past(h)' /\ Front(h) = file[h][popped[h] + 1]
            BY <1>6, <2>1, PopPositions, FrontType
        <3>2. IsPthread(file'[h][popped[h] + 1], "P_CREATE")
              /\ AddresstoIdMap[file'[h][popped[h] + 1].addr] = u
            BY <2>0, <2>1, <2>5, <3>1 DEF Creates
        <3>. QED BY <3>1, <3>2 DEF WasCreated, IsPthread, Past
    <2>6. \A t \in Threads : threadStartedMap'[t] => WasCreated(t)'
        <3>1. CASE UNCHANGED threadStartedMap
            BY <1>2, <3>1 DEF CreatedInv
        <3>2. CASE Creates(h)
            <4>1. threadStartedMap' = [threadStartedMap EXCEPT ![u] = TRUE]
                BY <2>0, <3>2 DEF Creates
            <4>2. WasCreated(u)'
                BY <2>5, <3>2
            <4>3. \A t \in Threads : threadStartedMap'[t] => threadStartedMap[t] \/ t = u
                BY <4>1 DEF IInv, FlagTypes
            <4>. QED BY <1>2, <4>2, <4>3 DEF CreatedInv
        <3>. QED BY <2>4, <3>1, <3>2
    <2>7. \A t \in Threads : sub'[t].left > 0 => WasCreated(t)'
        BY <1>1, <1>6, <2>6, SubsOfCreated DEF PopStep
    <2>8. \A t \in Threads : popped'[t] > 0 => WasCreated(t)'
        BY <1>2, <1>6, <2>2, PopPositions DEF CreatedInv
    <2>. QED BY <1>2, <2>3, <2>6, <2>7, <2>8 DEF CreatedInv
<1>. QED BY <1>4, <1>5, <1>6

(***************************************************************************)
(* Requests belong to events that make requests                            *)
(***************************************************************************)

\* keep requests with the events that make them,
LEMMA RequestStep ==
    ASSUME IInv, IInv', RequestInv,
           QuietStep \/ \E h \in Threads : ArriveStep(h) \/ PopStep(h)
    PROVE  RequestInv'
<1>1. file' = file
    BY StepsForward DEF Forward
<1>2. ASSUME NEW t \in Threads, popped'[t] = popped[t], sub'[t].msgTriggered,
             SubKept(t) \/ SubFresh(t) \/ SubSent(t) \/ SubNext(t) \/ SubEnded(t)
      PROVE  ContainsMsg(Front(t))'
    <2>1. ContainsMsg(Front(t))
        BY <1>2 DEF RequestInv, SubKept, SubFresh, SubSent, SubNext, SubEnded
    <2>2. Front(t)' = Front(t)
        BY <1>1, <1>2 DEF Front
    <2>. QED BY <2>1, <2>2 DEF ContainsMsg
<1>3. CASE QuietStep
    BY <1>2, <1>3 DEF QuietStep, RequestInv
<1>4. ASSUME NEW h \in Threads, ArriveStep(h) PROVE RequestInv'
    BY <1>2, <1>4 DEF ArriveStep, RequestInv
<1>5. ASSUME NEW h \in Threads, PopStep(h) PROVE RequestInv'
    <2>1. ~sub'[h].msgTriggered
        BY <1>5 DEF PopStep, SubFresh, SubEnded
    <2>2. \A t \in Threads \ {h} : popped'[t] = popped[t]
        BY <1>5, PopPositions
    <2>. QED BY <1>2, <1>5, <2>1, <2>2 DEF PopStep, RequestInv
<1>. QED BY <1>3, <1>4, <1>5

\* A finished thread stays finished.
LEMMA FinishedForGood ==
    ASSUME IInv, IInv', Forward, NEW t \in Threads, popped[t] = Len(file[t])
    PROVE  popped'[t] = Len(file'[t])
<1>1. popped[t] \in Nat /\ popped'[t] \in Nat /\ popped[t] <= popped'[t] /\ file' = file
    BY DEF Forward, IInv, QueueInv, QueueTypes
<1>2. popped'[t] <= loaded'[t] /\ loaded'[t] <= Len(file'[t]) /\ loaded'[t] \in Nat
    BY DEF IInv, QueueInv, QueueTypes
<1>. QED BY <1>1, <1>2, SMTT(20)

\* and complete a join only after the joined thread.
LEMMA JoinedStep ==
    ASSUME IInv, IInv', RequestInv, JoinedInv,
           QuietStep \/ \E h \in Threads : ArriveStep(h) \/ PopStep(h)
    PROVE  JoinedInv'
<1>1. Forward /\ file' = file
    BY StepsForward DEF Forward
<1>2. SUFFICES ASSUME NEW t \in Threads, NEW i \in Past(t)', IsPthread(file[t][i], "P_JOIN")
               PROVE  LET u == AddresstoIdMap[file[t][i].addr] IN popped'[u] = Len(file'[u])
    BY <1>1 DEF JoinedInv, IsPthread
<1>. DEFINE u == AddresstoIdMap[file[t][i].addr]
<1>3. u \in Threads
    <2>1. popped'[t] \in Nat /\ popped'[t] <= Len(file[t]) /\ Len(file[t]) \in Nat
        BY <1>1, EmptyMeansFinished, EventsOfFile, SMTT(20) DEF IInv, QueueInv, QueueTypes
    <2>2. i \in 1 .. Len(file[t])
        BY <2>1, SMTT(20) DEF Past
    <2>3. file[t][i] \in Event
        BY <2>2, EventsOfFile DEF IInv, QueueInv, QueueTypes
    <2>. QED BY <2>3, MapsAssumption DEF Event
<1>4. CASE i \in Past(t)
    <2>1. popped[u] = Len(file[u])
        BY <1>2, <1>4 DEF JoinedInv
    <2>. HIDE DEF u
    <2>. QED BY <1>1, <1>3, <2>1, FinishedForGood DEF u
<1>5. CASE i \notin Past(t)
    <2>1. ~QuietStep /\ ~ArriveStep(t) /\ \A h \in Threads : ~ArriveStep(h)
        BY <1>2, <1>5 DEF QuietStep, ArriveStep, Past
    <2>2. PICK h \in Threads : PopStep(h)
        BY <2>1
    <2>3. t = h /\ i = popped[h] + 1 /\ popped[h] < Len(file[h])
        BY <1>2, <1>5, <2>2, PopPositions DEF PopStep
    <2>4. Front(h) = file[h][i]
        BY <2>3 DEF Front
    <2>5. IsPthread(Front(h), "P_JOIN") /\ u = AddresstoIdMap[Front(h).addr]
        BY <1>2, <2>3, <2>4
    <2>6. ~sub[h].msgTriggered
        BY <2>5 DEF RequestInv, ContainsMsg, IsPthread
    <2>7. Empty(u)
        BY <2>2, <2>5, <2>6 DEF PopStep, Locks, Creates, Leaves, Passes, IsPthread
    <2>8. popped[u] = Len(file[u])
        BY <1>3, <2>7, EmptyMeansFinished
    <2>. HIDE DEF u
    <2>. QED BY <1>1, <1>3, <2>8, FinishedForGood DEF u
<1>. QED BY <1>4, <1>5

(***************************************************************************)
(* Communication                                                           *)
(***************************************************************************)

\* A producer never steps back behind an event that was read from.
LEMMA DepStaysMet ==
    ASSUME IInv, IInv', Forward, NEW d \in DepType, DepMet(d)
    PROVE  DepMet(d)'
<1>1. CASE d.thread = OS
    BY <1>1 DEF DepMet
<1>2. CASE d.thread # OS
    <2>. DEFINE u == d.thread
    <2>1. u \in Threads /\ d.event \in Nat
        BY <1>2 DEF DepType
    <2>2. /\ popped[u] \in Nat /\ popped'[u] \in Nat /\ popped[u] <= popped'[u]
          /\ popped[u] = Len(file[u]) => popped'[u] = Len(file'[u])
        BY <2>1, FinishedForGood DEF Forward, IInv, QueueInv, QueueTypes
    <2>3. popped[u] >= d.event \/ popped[u] = Len(file[u])
        BY <1>2 DEF DepMet
    <2>4. popped'[u] >= d.event \/ popped'[u] = Len(file'[u])
        BY <2>1, <2>2, <2>3, SMTT(20)
    <2>. QED BY <2>4 DEF DepMet
<1>. QED BY <1>1, <1>2

\* checkCommDependency lets a consumer through only when its producer is past
\* the event, or has no event left.
LEMMA CheckedDepMet ==
    ASSUME IInv, NEW d \in DepType, checkCommDependency(d)
    PROVE  DepMet(d)
<1>1. CASE d.thread = OS
    BY <1>1 DEF DepMet
<1>2. CASE d.thread # OS
    <2>1. d.thread \in Threads /\ d.event \in Nat
        BY <1>2 DEF DepType
    <2>2. popped[d.thread] \in Nat
        BY <2>1 DEF IInv, QueueInv, QueueTypes
    <2>3. Empty(d.thread) => popped[d.thread] = Len(file[d.thread])
        BY <2>1, EmptyMeansFinished
    <2>. QED BY <1>2, <2>1, <2>2, <2>3, SMTT(20) DEF checkCommDependency, DepMet
<1>. QED BY <1>1, <1>2

\* Dependencies that are met stay met.
LEMMA MetStaysMet ==
    ASSUME IInv, IInv', Forward, NEW e, NEW n \in Int, MetUpTo(e, n),
           \A k \in 1 .. n : e.deps[k] \in DepType
    PROVE  MetUpTo(e, n)'
<1>1. ASSUME NEW k \in 1 .. n PROVE DepMet(e.deps[k])'
    <2>1. PICK d \in DepType : d = e.deps[k]
        OBVIOUS
    <2>2. DepMet(d)'
        BY <2>1, DepStaysMet DEF MetUpTo
    <2>. QED BY <2>1, <2>2 DEF DepMet
<1>. QED BY <1>1 DEF MetUpTo

\* What a step does to the sub-events of a thread that completes nothing keeps
\* the dependencies in order.
LEMMA DepsMetStep ==
    ASSUME IInv, IInv', Forward, NEW t \in Threads, DepsMet(t),
           popped'[t] = popped[t], threadMutexMap'[t] = threadMutexMap[t],
           SubKept(t) \/ SubSent(t) \/ SubNext(t)
    PROVE  DepsMet(t)'
<1>1. PICK e : e = Front(t)
    OBVIOUS
<1>2. file' = file /\ Front(t)' = e
    BY <1>1 DEF Forward, Front
<1>3. PICK l \in Nat, m \in Nat : l = sub[t].left /\ m = sub'[t].left
    BY DEF IInv, SubTypes, SubEvents
<1>4. PICK r \in {0, 1}, s \in {0, 1} : r = Answering(t) /\ s = Answering(t)'
    BY DEF Answering
<1>5. SUFFICES ASSUME m > 0, e.type = "COMMUNICATION", ~threadMutexMap[t]
               PROVE  m <= Len(e.deps) /\ MetUpTo(e, Len(e.deps) - m + s)'
    BY <1>2, <1>3, <1>4 DEF DepsMet, MetUpTo, DepMet
<1>6. l > 0
    BY <1>3, <1>5, SMTT(20) DEF SubKept, SubSent, SubNext
<1>7. l <= Len(e.deps) /\ MetUpTo(e, Len(e.deps) - l + r)
    BY <1>1, <1>3, <1>4, <1>5, <1>6 DEF DepsMet
<1>8. popped[t] < Len(file[t])
    BY <1>3, <1>6, EmptyMeansFinished, SMTT(20) DEF IInv, SubTypes
<1>9. Len(e.deps) \in Nat /\ \A k \in 1 .. Len(e.deps) : e.deps[k] \in DepType
    BY <1>1, <1>8, FrontType
<1>10. PICK n \in Nat : n = Len(e.deps)
    BY <1>9
<1>11. m <= n /\ n - m + s <= n /\ MetUpTo(e, n - m + s)
    <2>1. CASE SubKept(t)
        <3>1. m = l /\ s = r
            BY <1>3, <1>4, <2>1 DEF SubKept, Answering
        <3>. QED BY <1>6, <1>7, <1>10, <3>1, SMTT(20)
    <2>2. CASE SubSent(t)
        <3>1. m = l
            BY <1>3, <2>2 DEF SubSent
        <3>2. checkCommDependency(e.deps[n - l + 1])
            BY <1>1, <1>3, <1>5, <1>10, <2>2 DEF SubSent, MaySend, CurrentDep
        <3>3. n - l + 1 \in 1 .. n
            BY <1>6, <1>7, <1>10, SMTT(20)
        <3>4. DepMet(e.deps[n - l + 1])
            BY <1>9, <1>10, <3>2, <3>3, CheckedDepMet
        <3>5. \A k \in 1 .. (n - l) : DepMet(e.deps[k])
            BY <1>7, <1>10, SMTT(20) DEF MetUpTo
        <3>6. \A k \in 1 .. (n - m + s) : k \in 1 .. (n - l) \/ k = n - l + 1
            BY <3>1, SMTT(20)
        <3>. QED BY <1>6, <1>7, <1>10, <3>1, <3>4, <3>5, <3>6, SMTT(20) DEF MetUpTo
    <2>3. CASE SubNext(t)
        <3>1. m = l - 1 /\ s = 0 /\ r = 1
            BY <1>3, <1>4, <2>3 DEF SubNext, Answering
        <3>2. n - m + s = n - l + r
            BY <3>1, SMTT(20)
        <3>. QED BY <1>5, <1>7, <1>10, <3>1, <3>2, SMTT(20)
    <2>. QED BY <2>1, <2>2, <2>3
<1>12. MetUpTo(e, n - m + s)'
    BY <1>9, <1>10, <1>11, MetStaysMet, SMTT(20)
<1>. QED BY <1>10, <1>11, <1>12

\* New sub-events start with no dependency sent.
LEMMA DepsMetFresh ==
    ASSUME IInv, IInv', Forward, NEW t \in Threads, SubFresh(t) \/ SubEnded(t)
    PROVE  DepsMet(t)'
<1>1. file' = file
    BY DEF Forward
<1>2. CASE SubEnded(t)
    BY <1>2, SMTT(20) DEF SubEnded, DepsMet
<1>3. CASE SubFresh(t)
    <2>1. PICK e : e = Front(t)'
        OBVIOUS
    <2>2. e = file[t][popped'[t] + 1]
        BY <1>1, <2>1 DEF Front
    <2>3. sub'[t].left = NumSubEvents(e) /\ Answering(t)' = 0
        BY <1>3, <2>2 DEF SubFresh, Answering
    <2>4. popped'[t] \in Nat /\ popped'[t] < Len(file[t]) /\ file \in Programs
        <3>1. popped'[t] # loaded'[t]
            BY <1>3 DEF SubFresh, Runnable, NonEmpty, Empty
        <3>2. /\ popped'[t] \in Nat /\ loaded'[t] \in Nat /\ popped'[t] <= loaded'[t]
              /\ loaded'[t] <= Len(file'[t]) /\ file' \in Programs
            BY DEF IInv, QueueInv, QueueTypes
        <3>3. Len(file[t]) \in Nat
            BY <1>1, <3>2, EventsOfFile
        <3>. QED BY <1>1, <3>1, <3>2, <3>3, SMTT(20)
    <2>5. e \in Event
        BY <2>2, <2>4, EventsOfFile, SMTT(20)
    <2>6. Len(e.deps) \in Nat
        BY <2>5, SMTT(20) DEF Event
    <2>7. PICK m : m = sub'[t].left
        OBVIOUS
    <2>8. e.type = "COMMUNICATION" => m = Len(e.deps)
        BY <2>3, <2>7 DEF NumSubEvents
    <2>9. e.type = "COMMUNICATION" => m <= Len(e.deps) /\ MetUpTo(e, Len(e.deps) - m + 0)'
        BY <2>6, <2>8, SMTT(20) DEF MetUpTo
    <2>. QED BY <2>1, <2>3, <2>7, <2>9 DEF DepsMet, MetUpTo, DepMet
<1>. QED BY <1>2, <1>3

\* Whether a thread is inside a mutex depends on the last mutex event alone.
LEMMA InsideMutexStep ==
    ASSUME NEW t, NEW n \in Nat
    PROVE  InsideMutex(t, n + 1 + 1) <=>
               \/ IsPthread(file[t][n + 1], "P_MUTEX_LK")
               \/ /\ InsideMutex(t, n + 1)
                  /\ ~IsPthread(file[t][n + 1], "P_MUTEX_ULK")
<1>. DEFINE L(j) == IsPthread(file[t][j], "P_MUTEX_LK")
            U(j) == IsPthread(file[t][j], "P_MUTEX_ULK")
<1>1. InsideMutex(t, n + 1 + 1) <=> \E j \in 1 .. (n + 1) : L(j) /\ \A k \in (j + 1) .. (n + 1) : ~U(k)
    BY SMTT(20) DEF InsideMutex
<1>2. InsideMutex(t, n + 1) <=> \E j \in 1 .. n : L(j) /\ \A k \in (j + 1) .. n : ~U(k)
    BY SMTT(20) DEF InsideMutex
<1>3. ~(L(n + 1) /\ U(n + 1))
    BY DEF IsPthread
<1>. HIDE DEF L, U
<1>4. ASSUME L(n + 1) PROVE \E j \in 1 .. (n + 1) : L(j) /\ \A k \in (j + 1) .. (n + 1) : ~U(k)
    <2>1. n + 1 \in 1 .. (n + 1) /\ \A k \in (n + 1 + 1) .. (n + 1) : ~U(k)
        BY SMTT(20)
    <2>. QED BY <1>4, <2>1
<1>5. ASSUME NEW j \in 1 .. n, L(j), \A k \in (j + 1) .. n : ~U(k), ~U(n + 1)
      PROVE  j \in 1 .. (n + 1) /\ L(j) /\ \A k \in (j + 1) .. (n + 1) : ~U(k)
    <2>1. \A k \in (j + 1) .. (n + 1) : k \in (j + 1) .. n \/ k = n + 1
        BY SMTT(20)
    <2>. QED BY <1>5, <2>1, SMTT(20)
<1>6. ASSUME NEW j \in 1 .. (n + 1), L(j), \A k \in (j + 1) .. (n + 1) : ~U(k), ~L(n + 1)
      PROVE  j \in 1 .. n /\ L(j) /\ (\A k \in (j + 1) .. n : ~U(k)) /\ ~U(n + 1)
    <2>1. j # n + 1
        BY <1>6
    <2>2. j \in 1 .. n /\ n + 1 \in (j + 1) .. (n + 1)
        BY <2>1, SMTT(20)
    <2>3. \A k \in (j + 1) .. n : k \in (j + 1) .. (n + 1)
        BY SMTT(20)
    <2>. QED BY <1>6, <2>2, <2>3
<1>. QED BY <1>1, <1>2, <1>4, <1>5, <1>6 DEF L, U

\* An event that completes without a change of the tables is of another kind.
LEMMA PassedKind ==
    ASSUME RequestInv, NEW h \in Threads, Passes(h),
           NEW kind \in {"P_MUTEX_LK", "P_MUTEX_ULK", "P_SPIN_LK", "P_SPIN_ULK",
                         "P_CREATE", "P_BARRIER_WT"}
    PROVE  ~IsPthread(Front(h), kind)
BY DEF RequestInv, ContainsMsg, Passes, IsPthread

\* Completing an event sets and resets threadMutexMap for its own thread only.
LEMMA MutexMapStep ==
    ASSUME IInv, IInv', RequestInv, MutexMapInv,
           QuietStep \/ \E h \in Threads : ArriveStep(h) \/ PopStep(h)
    PROVE  MutexMapInv'
<1>1. file' = file
    BY StepsForward DEF Forward
<1>2. \A t, i : InsideMutex(t, i)' <=> InsideMutex(t, i)
    BY <1>1 DEF InsideMutex, IsPthread
<1>3. CASE QuietStep \/ \E h \in Threads : ArriveStep(h)
    <2>1. UNCHANGED <<popped, threadMutexMap>>
        BY <1>3 DEF QuietStep, ArriveStep, syncVars
    <2>. QED BY <1>1, <2>1, SMTT(20) DEF MutexMapInv, InsideMutex, IsPthread
<1>4. ASSUME NEW h \in Threads, PopStep(h)
      PROVE  MutexMapInv'
    <2>1. PICK n \in Nat : n = popped[h] /\ popped'[h] = n + 1
        BY <1>4, PopPositions
    <2>2. \A t \in Threads \ {h} : popped'[t] = popped[t]
        BY <1>4, PopPositions
    <2>. DEFINE LK == IsPthread(Front(h), "P_MUTEX_LK")
                ULK == IsPthread(Front(h), "P_MUTEX_ULK")
    <2>3. threadMutexMap \in [Threads -> BOOLEAN]
        BY DEF IInv, FlagTypes
    <2>4. \A t \in Threads \ {h} : threadMutexMap'[t] = threadMutexMap[t]
        BY <1>4, <2>3 DEF PopStep, Locks, Creates, Leaves, Passes, syncVars, threadVars
    <2>5. threadMutexMap'[h] <=> LK \/ (threadMutexMap[h] /\ ~ULK)
        <3>1. CASE Locks(h)
            BY <2>3, <3>1 DEF Locks, threadVars, IsPthread
        <3>2. CASE Creates(h) \/ Leaves(h)
            BY <2>3, <3>2 DEF Creates, Leaves, IsPthread
        <3>3. CASE Passes(h)
            <4>1. ~LK /\ ~ULK
                BY <3>3, PassedKind
            <4>. HIDE DEF LK, ULK
            <4>. QED BY <2>3, <3>3, <4>1 DEF Passes, syncVars
        <3>. QED BY <1>4, <3>1, <3>2, <3>3 DEF PopStep
    <2>6. Front(h) = file[h][n + 1]
        BY <2>1 DEF Front
    <2>7. threadMutexMap'[h] <=> InsideMutex(h, n + 1 + 1)
        BY <2>1, <2>5, <2>6, InsideMutexStep DEF MutexMapInv
    <2>8. ASSUME NEW t \in Threads
          PROVE  threadMutexMap'[t] <=> InsideMutex(t, popped'[t] + 1)
        <3>1. CASE t = h
            BY <2>1, <2>7, <3>1
        <3>2. CASE t # h
            BY <2>2, <2>4, <3>2 DEF MutexMapInv
        <3>. QED BY <3>1, <3>2
    <2>. QED BY <1>1, <2>8, SMTT(20) DEF MutexMapInv, InsideMutex, IsPthread
<1>. QED BY <1>3, <1>4

\* The requests of a communication event are sent only for dependencies that are met.
LEMMA CommStep ==
    ASSUME IInv, IInv', CommInv,
           QuietStep \/ \E h \in Threads : ArriveStep(h) \/ PopStep(h)
    PROVE  CommInv'
<1>1. Forward
    BY StepsForward
<1>2. SUFFICES ASSUME NEW t \in Threads PROVE DepsMet(t)'
    BY DEF CommInv
<1>3. DepsMet(t)
    BY DEF CommInv
<1>4. CASE QuietStep
    <2>1. popped'[t] = popped[t] /\ threadMutexMap'[t] = threadMutexMap[t]
        BY <1>4 DEF QuietStep, syncVars
    <2>2. SubKept(t) \/ SubFresh(t) \/ SubSent(t) \/ SubNext(t)
        BY <1>4 DEF QuietStep
    <2>. QED BY <1>1, <1>3, <2>1, <2>2, DepsMetStep, DepsMetFresh
<1>5. ASSUME NEW h \in Threads, ArriveStep(h) PROVE DepsMet(t)'
    <2>1. popped'[t] = popped[t] /\ threadMutexMap'[t] = threadMutexMap[t] /\ SubKept(t)
        BY <1>5 DEF ArriveStep
    <2>. QED BY <1>1, <1>3, <2>1, DepsMetStep
<1>6. ASSUME NEW h \in Threads, PopStep(h) PROVE DepsMet(t)'
    <2>1. (t # h /\ SubKept(t)) \/ SubFresh(t) \/ SubEnded(t)
        BY <1>6 DEF PopStep
    <2>2. ASSUME t # h
          PROVE  popped'[t] = popped[t] /\ threadMutexMap'[t] = threadMutexMap[t]
        BY <1>6, <2>2, PopPositions DEF PopStep, Locks, Creates, Leaves, Passes, syncVars,
                                        threadVars, IInv, FlagTypes
    <2>. QED BY <1>1, <1>3, <2>1, <2>2, DepsMetStep, DepsMetFresh
<1>. QED BY <1>4, <1>5, <1>6

\* A communication event that completes outside a mutex has all its dependencies
\* met.
LEMMA PoppedCommMet ==
    ASSUME IInv, RequestInv, MutexMapInv, CommInv, NEW h \in Threads, PopStep(h),
           Front(h).type = "COMMUNICATION", ~InsideMutex(h, popped[h] + 1)
    PROVE  MetUpTo(Front(h), Len(Front(h).deps))
<1>1. sub[h].msgTriggered /\ sub[h].left = 1
    BY DEF PopStep, Locks, Creates, Leaves, Passes, IsPthread
<1>2. ~threadMutexMap[h]
    BY DEF MutexMapInv
<1>3. MetUpTo(Front(h), Len(Front(h).deps) - 1 + 1)
    BY <1>1, <1>2, SMTT(20) DEF CommInv, DepsMet, Answering
<1>4. Len(Front(h).deps) \in Nat
    BY FrontType DEF PopStep
<1>. QED BY <1>3, <1>4, SMTT(20)

\* So it completes after all its dependencies, unless a mutex is held.
LEMMA CommOrderStep ==
    ASSUME IInv, IInv', RequestInv, MutexMapInv, CommInv, CommOrder,
           QuietStep \/ \E h \in Threads : ArriveStep(h) \/ PopStep(h)
    PROVE  CommOrder'
<1>1. Forward /\ file' = file
    BY StepsForward DEF Forward
<1>2. SUFFICES ASSUME NEW t \in Threads, NEW i \in Past(t)',
                      file[t][i].type = "COMMUNICATION", ~InsideMutex(t, i)
               PROVE  MetUpTo(file[t][i], Len(file[t][i].deps))'
    BY <1>1 DEF CommOrder, MetUpTo, DepMet, InsideMutex, IsPthread
<1>3. PICK e : e = file[t][i]
    OBVIOUS
<1>4. Len(e.deps) \in Nat /\ \A k \in 1 .. Len(e.deps) : e.deps[k] \in DepType
    <2>1. popped'[t] \in Nat /\ popped'[t] <= Len(file[t]) /\ Len(file[t]) \in Nat
        BY <1>1, EmptyMeansFinished, EventsOfFile, SMTT(20) DEF IInv, QueueInv, QueueTypes
    <2>2. i \in 1 .. Len(file[t])
        BY <2>1, SMTT(20) DEF Past
    <2>3. e \in Event
        BY <1>3, <2>2, EventsOfFile DEF IInv, QueueInv, QueueTypes
    <2>4. e.deps \in Seq(DepType)
        BY <2>3 DEF Event, DepType
    <2>. QED BY <2>4, SMTT(20)
<1>5. MetUpTo(e, Len(e.deps))
    <2>1. CASE i \in Past(t)
        BY <1>2, <1>3, <2>1 DEF CommOrder, MetUpTo, DepMet
    <2>2. CASE i \notin Past(t)
        <3>1. ~QuietStep /\ \A h \in Threads : ~ArriveStep(h)
            BY <1>2, <2>2 DEF QuietStep, ArriveStep, Past
        <3>2. PICK h \in Threads : PopStep(h)
            BY <3>1
        <3>3. t = h /\ i = popped[h] + 1
            BY <1>2, <2>2, <3>2, PopPositions
        <3>4. e = Front(h)
            BY <1>3, <3>3 DEF Front
        <3>. QED BY <1>2, <1>3, <3>2, <3>3, <3>4, PoppedCommMet
    <2>. QED BY <2>1, <2>2
<1>6. MetUpTo(e, Len(e.deps))'
    BY <1>1, <1>4, <1>5, MetStaysMet, SMTT(20)
<1>. QED BY <1>1, <1>3, <1>6 DEF MetUpTo, DepMet

(***************************************************************************)
(* Barriers                                                                *)
(***************************************************************************)

\* A wait at a barrier completes only by leaving the barrier.
LEMMA PopOfBarrier ==
    ASSUME IInv, RequestInv, NEW h \in Threads, PopStep(h)
    PROVE  /\ IsPthread(Front(h), "P_BARRIER_WT") <=> Leaves(h)
           /\ ~Leaves(h) => UNCHANGED threadContMap
           /\ UNCHANGED threadWaitMap
           /\ \A t \in Threads : threadStartedMap[t] => threadStartedMap'[t]
<1>1. ~Passes(h) \/ ~IsPthread(Front(h), "P_BARRIER_WT")
    BY PassedKind
<1>2. Locks(h) \/ Creates(h) \/ Leaves(h) \/ Passes(h)
    BY DEF PopStep
<1>3. UNCHANGED threadStartedMap \/ Creates(h)
    BY <1>2 DEF Locks, Leaves, Passes, syncVars, threadVars
<1>4. \A t \in Threads : threadStartedMap[t] => threadStartedMap'[t]
    BY <1>3 DEF Creates, IInv, FlagTypes
<1>5. IsPthread(Front(h), "P_BARRIER_WT") <=> Leaves(h)
    BY <1>1, <1>2 DEF Locks, Creates, Leaves, IsPthread
<1>. QED BY <1>2, <1>4, <1>5 DEF Locks, Creates, Leaves, Passes, syncVars, threadVars

\* The rounds are numbers, and completing an event counts one exactly when it is
\* a wait at the barrier: what Cardinality has to say about them.
LEMMA BarrierStep ==
    ASSUME IInv, IInv', RequestInv, BarrierInv, PassedTypes,
           \A h \in Threads : PopStep(h) => PassedMoves(h),
           QuietStep \/ \E h \in Threads : ArriveStep(h) \/ PopStep(h)
    PROVE  BarrierInv'
<1>1. file' = file
    BY StepsForward DEF Forward
<1>2. \A b \in Addrs : BarrierMap[b] \subseteq Threads /\ threadWaitMap[b] \subseteq Threads
    BY MapsAssumption DEF IInv, FlagTypes
<1>3. CASE QuietStep
    <2>1. UNCHANGED <<popped, threadStartedMap, threadContMap, threadWaitMap>>
        BY <1>3 DEF QuietStep, syncVars
    <2>2. \A t : Front(t)' = Front(t)
        BY <1>1, <2>1 DEF Front
    <2>3. \A t, b : AtB(t, b)' <=> AtB(t, b)
        BY <1>1, <2>1, <2>2 DEF AtB, IsPthread
    <2>4. \A t, b : Passed(t, b)' = Passed(t, b)
        BY <1>1, <2>1 DEF Passed, Past, IsPthread
    <2>5. \A t, b : Phase(t, b)' = Phase(t, b)
        BY <2>1, <2>2, <2>4 DEF Phase
    <2>6. \A t \in Threads : threadContMap'[t] => AtB(t, Front(t).addr)'
        BY <1>1, <2>1 DEF BarrierInv, AtB, Front, IsPthread
    <2>. QED BY <2>1, <2>2, <2>3, <2>5, <2>6 DEF BarrierInv
<1>4. ASSUME NEW h \in Threads, ArriveStep(h)
      PROVE  BarrierInv'
    <2>1. popped[h] < Len(file[h]) /\ ~threadContMap[h] /\ UNCHANGED popped
        BY <1>4, EmptyMeansFinished DEF ArriveStep, Runnable
    <2>2. PICK a \in Addrs : a = Front(h).addr
        BY <2>1, FrontType
    <2>3. AtB(h, a)
        BY <1>4, <2>1, <2>2 DEF AtB, ArriveStep
    <2>4. /\ \A t \in Threads, b \in Addrs : AtB(t, b)' <=> AtB(t, b)
          /\ \A t \in Threads : Front(t)' = Front(t)
          /\ \A t \in Threads, b \in Addrs : Passed(t, b)' = Passed(t, b)
        BY <1>1, <2>1 DEF AtB, Front, Passed, Past, IsPthread
    <2>5. CASE ~Open(a, h)
        <3>1. \A t \in Threads : threadContMap'[t] = threadContMap[t]
            BY <1>4, <2>2, <2>5 DEF ArriveStep
        <3>2. \A t \in Threads \ {h} : threadStartedMap'[t] = threadStartedMap[t]
            BY <1>4, <2>2, <2>5 DEF ArriveStep
        <3>3. \A b \in Addrs : \A t \in threadWaitMap'[b] : t \in threadWaitMap[b] \/ (t = h /\ b = a)
            BY <1>4, <2>2, <2>5, SMTT(20) DEF ArriveStep
        <3>4. \A b \in Addrs : \A t \in threadWaitMap'[b] : t \in Threads /\ AtB(t, b) /\ ~threadContMap[t]
            BY <1>2, <2>1, <2>3, <3>3 DEF BarrierInv
        <3>5. \A b \in Addrs : \A t \in threadWaitMap'[b] : AtB(t, b)' /\ ~threadContMap'[t]
            BY <2>4, <3>1, <3>4
        <3>6. \A t \in Threads : threadContMap'[t] =>
                  threadStartedMap'[t] /\ AtB(t, Front(t).addr)' /\ t \in BarrierMap[Front(t)'.addr]
            BY <1>1, <2>1, <2>4, <3>1, <3>2 DEF BarrierInv, AtB, Front
        <3>7. \A b \in Addrs : \A t \in BarrierMap[b] : Phase(t, b)' = Phase(t, b)
            BY <1>2, <2>4, <3>1 DEF Phase
        <3>. QED BY <1>2, <3>5, <3>6, <3>7, SMTT(20) DEF BarrierInv
    <2>6. CASE Open(a, h)
        <3>1. \A t \in BarrierMap[a] : /\ t \in Threads /\ AtB(t, a) /\ ~threadContMap[t]
                                       /\ threadStartedMap'[t] /\ threadContMap'[t]
            <4>1. \A t \in BarrierMap[a] : t \in Threads /\ (t \in threadWaitMap[a] \/ t = h)
                BY <1>2, <2>6 DEF Open
            <4>2. \A t \in BarrierMap[a] : AtB(t, a) /\ ~threadContMap[t]
                BY <2>1, <2>3, <4>1 DEF BarrierInv
            <4>. QED BY <1>4, <2>2, <2>6, <4>1, <4>2 DEF ArriveStep
        <3>2. \A t \in Threads \ BarrierMap[a] :
                  /\ threadContMap'[t] = threadContMap[t]
                  /\ t # h => threadStartedMap'[t] = threadStartedMap[t]
            BY <1>4, <2>2 DEF ArriveStep
        <3>3. \A b \in Addrs : threadWaitMap'[b] = IF b = a THEN {} ELSE threadWaitMap[b]
            BY <1>4, <2>2, <2>6 DEF ArriveStep
        <3>4. ASSUME NEW b \in Addrs, NEW t \in threadWaitMap'[b]
              PROVE  AtB(t, b)' /\ ~threadContMap'[t]
            <4>1. b # a /\ t \in threadWaitMap[b] /\ t \in Threads
                BY <1>2, <3>3, <3>4
            <4>2. AtB(t, b) /\ ~threadContMap[t]
                BY <4>1 DEF BarrierInv
            <4>3. ~AtB(t, a)
                BY <4>1, <4>2 DEF AtB
            <4>4. t \notin BarrierMap[a]
                BY <3>1, <4>3
            <4>. QED BY <2>4, <3>2, <4>1, <4>2, <4>4
        <3>5. ASSUME NEW t \in Threads, threadContMap'[t]
              PROVE  /\ threadStartedMap'[t] /\ AtB(t, Front(t).addr)'
                     /\ t \in BarrierMap[Front(t)'.addr]
            <4>1. CASE t \in BarrierMap[a]
                <5>1. AtB(t, a) /\ Front(t).addr = a
                    BY <3>1, <4>1 DEF AtB
                <5>. QED BY <1>1, <2>1, <2>4, <3>1, <4>1, <5>1 DEF AtB, Front
            <4>2. CASE t \notin BarrierMap[a]
                <5>1. threadContMap[t] /\ t # h
                    BY <2>1, <3>2, <3>5, <4>2
                <5>2. threadStartedMap[t] /\ AtB(t, Front(t).addr) /\ t \in BarrierMap[Front(t).addr]
                    BY <5>1 DEF BarrierInv
                <5>. QED BY <1>1, <2>1, <2>4, <3>2, <4>2, <5>1, <5>2 DEF AtB, Front
            <4>. QED BY <4>1, <4>2
        <3>6. ASSUME NEW b \in Addrs, NEW t \in BarrierMap[b]
              PROVE  Phase(t, b)' = Phase(t, b) + IF b = a THEN 1 ELSE 0
            <4>1. t \in Threads /\ Passed(t, b) \in Nat
                BY <1>2 DEF PassedTypes
            <4>2. CASE b = a
                <5>1. Front(t).addr = b /\ ~threadContMap[t] /\ threadContMap'[t]
                    BY <3>1, <4>2 DEF AtB
                <5>. QED BY <2>4, <4>1, <4>2, <5>1, SMTT(20) DEF Phase
            <4>3. CASE b # a /\ t \in BarrierMap[a]
                <5>1. Front(t).addr # b
                    BY <3>1, <4>3 DEF AtB
                <5>. QED BY <2>4, <4>1, <4>3, <5>1, SMTT(20) DEF Phase
            <4>4. CASE b # a /\ t \notin BarrierMap[a]
                BY <2>4, <3>2, <4>1, <4>4, SMTT(20) DEF Phase
            <4>. QED BY <4>2, <4>3, <4>4
        <3>7. \A b \in Addrs : \A t, u \in BarrierMap[b] : Phase(t, b)' = Phase(u, b)'
            BY <3>6 DEF BarrierInv
        <3>. QED BY <3>4, <3>5, <3>7 DEF BarrierInv
    <2>. QED BY <2>5, <2>6
<1>5. ASSUME NEW h \in Threads, PopStep(h)
      PROVE  BarrierInv'
    <2>1. popped[h] < Len(file[h])
        BY <1>5 DEF PopStep
    <2>2. \A t \in Threads \ {h} : popped'[t] = popped[t] /\ Front(t)' = Front(t)
        BY <1>1, <1>5, PopPositions DEF Front
    <2>3. \A t \in Threads \ {h}, b \in Addrs : AtB(t, b)' <=> AtB(t, b)
        BY <1>1, <2>2 DEF AtB
    <2>4. /\ IsPthread(Front(h), "P_BARRIER_WT") <=> Leaves(h)
          /\ ~Leaves(h) => UNCHANGED threadContMap
          /\ UNCHANGED threadWaitMap
          /\ \A t \in Threads : threadStartedMap[t] => threadStartedMap'[t]
        BY <1>5, PopOfBarrier
    <2>5. threadContMap \in [Threads -> BOOLEAN]
        BY DEF IInv, FlagTypes
    <2>6. \A t \in Threads \ {h} : threadContMap'[t] = threadContMap[t]
        BY <2>4, <2>5 DEF Leaves
    <2>7. ~threadContMap'[h]
        BY <2>4, <2>5 DEF Leaves, BarrierInv, AtB
    <2>8. \A b \in Addrs : h \notin threadWaitMap[b]
        BY <2>4 DEF BarrierInv, AtB, Leaves
    <2>9. ASSUME NEW b \in Addrs, NEW t \in BarrierMap[b]
          PROVE  Phase(t, b)' = Phase(t, b)
        <3>1. t \in Threads /\ Passed(t, b) \in Nat
            BY <1>2 DEF PassedTypes
        <3>2. CASE t # h
            <4>1. Passed(t, b)' = Passed(t, b)
                BY <1>5, <3>1, <3>2 DEF PassedMoves
            <4>. QED BY <2>2, <2>6, <3>1, <3>2, <4>1 DEF Phase
        <3>3. CASE t = h
            <4>1. Passed(h, b)' = Passed(h, b) +
                      IF IsPthread(Front(h), "P_BARRIER_WT") /\ Front(h).addr = b THEN 1 ELSE 0
                BY <1>5 DEF PassedMoves
            <4>2. threadContMap[h] <=> IsPthread(Front(h), "P_BARRIER_WT")
                BY <2>4 DEF Leaves, BarrierInv, AtB
            <4>. QED BY <2>7, <3>1, <3>3, <4>1, <4>2, SMTT(20) DEF Phase
        <3>. QED BY <3>2, <3>3
    <2>10. \A b \in Addrs : \A t \in threadWaitMap'[b] : AtB(t, b)' /\ ~threadContMap'[t]
        BY <1>2, <2>3, <2>4, <2>6, <2>8, SMTT(20) DEF BarrierInv
    <2>11. ASSUME NEW t \in Threads, threadContMap'[t]
           PROVE  /\ threadStartedMap'[t] /\ AtB(t, Front(t).addr)'
                  /\ t \in BarrierMap[Front(t)'.addr]
        <3>1. t # h /\ threadContMap[t]
            BY <2>6, <2>7, <2>11
        <3>2. threadStartedMap[t] /\ AtB(t, Front(t).addr) /\ t \in BarrierMap[Front(t).addr]
            BY <3>1 DEF BarrierInv
        <3>. QED BY <1>1, <2>2, <2>4, <3>1, <3>2 DEF AtB
    <2>. QED BY <2>9, <2>10, <2>11, SMTT(20) DEF BarrierInv
<1>. QED BY <1>3, <1>4, <1>5

\* Equal phases leave at most one round between two participants.
LEMMA BarrierInvRounds ==
    ASSUME IInv, BarrierInv, PassedTypes
    PROVE  BarrierRounds
<1>1. SUFFICES ASSUME NEW b \in Addrs, NEW t \in BarrierMap[b], NEW u \in BarrierMap[b],
                      Passed(t, b) > Passed(u, b)
               PROVE  /\ Passed(t, b) = Passed(u, b) + 1
                      /\ u \in AtBarrier /\ Front(u).addr = b
                      /\ threadContMap[u] /\ threadStartedMap[u]
    BY DEF BarrierRounds
<1>2. t \in Threads /\ u \in Threads
    BY MapsAssumption
<1>3. Passed(t, b) \in Nat /\ Passed(u, b) \in Nat
    BY <1>2 DEF PassedTypes
<1>4. Phase(t, b) = Phase(u, b)
    BY DEF BarrierInv
<1>5. /\ threadContMap[u] /\ Front(u).addr = b
      /\ Passed(t, b) = Passed(u, b) + 1
    BY <1>1, <1>3, <1>4, SMTT(20) DEF Phase
<1>6. threadStartedMap[u] /\ AtB(u, b)
    BY <1>2, <1>5 DEF BarrierInv
<1>7. u \in AtBarrier
    BY <1>2, <1>6, EmptyMeansFinished DEF AtB, AtBarrier
<1>. QED BY <1>5, <1>6, <1>7

(***************************************************************************)
(* Locks.  The engine does not record who took a lock: an unlock frees it  *)
(* whoever executes it.  So the results are about traces whose threads     *)
(* unlock only what they hold.  UnlocksHeld says so of the part replayed   *)
(* so far, WellLocked of whole traces.                                     *)
(***************************************************************************)
\* The first n events of trace f[t] lock a and do not unlock it after that.
HeldIn(f, t, n, a, lock, unlock) ==
    \E i \in 1 .. n :
        /\ IsPthread(f[t][i], lock) /\ f[t][i].addr = a
        /\ \A j \in (i + 1) .. n : ~(IsPthread(f[t][j], unlock) /\ f[t][j].addr = a)

\* Event i of trace f[t] is no unlock, or an unlock of what is held.
UnlockHeld(f, t, i) ==
    /\ IsPthread(f[t][i], "P_MUTEX_ULK") =>
           HeldIn(f, t, i - 1, f[t][i].addr, "P_MUTEX_LK", "P_MUTEX_ULK")
    /\ IsPthread(f[t][i], "P_SPIN_ULK") =>
           HeldIn(f, t, i - 1, f[t][i].addr, "P_SPIN_LK", "P_SPIN_ULK")

UnlocksHeld == \A t \in Threads : \A i \in Past(t) : UnlockHeld(file, t, i)

WellLocked ==
    \A f \in Programs : \A t \in Threads : \A i \in 1 .. Len(f[t]) : UnlockHeld(f, t, i)

\* Holds depends on the last lock or unlock of the address alone.
LEMMA HeldStep ==
    ASSUME NEW f, NEW t, NEW n \in Nat, NEW a, NEW lock, NEW unlock, lock # unlock
    PROVE  HeldIn(f, t, n + 1, a, lock, unlock) <=>
               \/ IsPthread(f[t][n + 1], lock) /\ f[t][n + 1].addr = a
               \/ /\ HeldIn(f, t, n, a, lock, unlock)
                  /\ ~(IsPthread(f[t][n + 1], unlock) /\ f[t][n + 1].addr = a)
<1>. DEFINE L(j) == IsPthread(f[t][j], lock) /\ f[t][j].addr = a
            U(j) == IsPthread(f[t][j], unlock) /\ f[t][j].addr = a
<1>1. HeldIn(f, t, n + 1, a, lock, unlock) <=>
          \E j \in 1 .. (n + 1) : L(j) /\ \A k \in (j + 1) .. (n + 1) : ~U(k)
    BY DEF HeldIn
<1>2. HeldIn(f, t, n, a, lock, unlock) <=> \E j \in 1 .. n : L(j) /\ \A k \in (j + 1) .. n : ~U(k)
    BY DEF HeldIn
<1>3. ~(L(n + 1) /\ U(n + 1))
    BY DEF IsPthread
<1>. HIDE DEF L, U
<1>4. ASSUME L(n + 1) PROVE \E j \in 1 .. (n + 1) : L(j) /\ \A k \in (j + 1) .. (n + 1) : ~U(k)
    <2>1. n + 1 \in 1 .. (n + 1) /\ \A k \in (n + 1 + 1) .. (n + 1) : ~U(k)
        BY SMTT(20)
    <2>. QED BY <1>4, <2>1
<1>5. ASSUME NEW j \in 1 .. n, L(j), \A k \in (j + 1) .. n : ~U(k), ~U(n + 1)
      PROVE  j \in 1 .. (n + 1) /\ L(j) /\ \A k \in (j + 1) .. (n + 1) : ~U(k)
    <2>1. \A k \in (j + 1) .. (n + 1) : k \in (j + 1) .. n \/ k = n + 1
        BY SMTT(20)
    <2>. QED BY <1>5, <2>1, SMTT(20)
<1>6. ASSUME NEW j \in 1 .. (n + 1), L(j), \A k \in (j + 1) .. (n + 1) : ~U(k), ~L(n + 1)
      PROVE  j \in 1 .. n /\ L(j) /\ (\A k \in (j + 1) .. n : ~U(k)) /\ ~U(n + 1)
    <2>1. j # n + 1
        BY <1>6
    <2>2. j \in 1 .. n /\ n + 1 \in (j + 1) .. (n + 1)
        BY <2>1, SMTT(20)
    <2>3. \A k \in (j + 1) .. n : k \in (j + 1) .. (n + 1)
        BY SMTT(20)
    <2>. QED BY <1>6, <2>2, <2>3
<1>. QED BY <1>1, <1>2, <1>4, <1>5, <1>6 DEF L, U

\* What completing an event does to the locks its thread holds.
LEMMA HoldsStep ==
    ASSUME IInv, NEW h \in Threads, PopStep(h), NEW a, NEW lock, NEW unlock, lock # unlock
    PROVE  /\ Holds(h, a, lock, unlock)' <=>
                  \/ IsPthread(Front(h), lock) /\ Front(h).addr = a
                  \/ /\ Holds(h, a, lock, unlock)
                     /\ ~(IsPthread(Front(h), unlock) /\ Front(h).addr = a)
           /\ \A t \in Threads \ {h} : Holds(t, a, lock, unlock)' <=> Holds(t, a, lock, unlock)
<1>1. PICK n \in Nat : n = popped[h] /\ popped'[h] = n + 1
    BY PopPositions
<1>2. file' = file /\ Front(h) = file[h][n + 1]
    BY <1>1 DEF PopStep, Front
<1>3. Holds(h, a, lock, unlock) <=> HeldIn(file, h, n, a, lock, unlock)
    BY <1>1 DEF Holds, HeldIn, Past
<1>4. Holds(h, a, lock, unlock)' <=> HeldIn(file, h, n + 1, a, lock, unlock)
    BY <1>1, <1>2 DEF Holds, HeldIn, Past, IsPthread
<1>5. \A t \in Threads \ {h} : Holds(t, a, lock, unlock)' <=> Holds(t, a, lock, unlock)
    BY <1>2, PopPositions, SMTT(20) DEF Holds, Past, IsPthread
<1>6. PICK f : f = file
    OBVIOUS
<1>7. HeldIn(f, h, n + 1, a, lock, unlock) <=>
               \/ IsPthread(f[h][n + 1], lock) /\ f[h][n + 1].addr = a
               \/ /\ HeldIn(f, h, n, a, lock, unlock)
                  /\ ~(IsPthread(f[h][n + 1], unlock) /\ f[h][n + 1].addr = a)
    BY HeldStep
<1>. QED BY <1>2, <1>3, <1>4, <1>5, <1>6, <1>7

(***************************************************************************)
(* Lock tables                                                             *)
(***************************************************************************)
\* The table is the set of locks held, and none is held by two threads.
Excludes(table, lock, unlock) ==
    \A a \in Addrs :
        /\ \A t, u \in Threads : Holds(t, a, lock, unlock) /\ Holds(u, a, lock, unlock) => t = u
        /\ a \in table <=> \E t \in Threads : Holds(t, a, lock, unlock)

\* Completing an event moves the table T of a kind of lock as the locks held move.
LEMMA ExcludesStep ==
    ASSUME IInv, NEW h \in Threads, PopStep(h), NEW lock, NEW unlock, lock # unlock,
           NEW T, NEW M, Excludes(T, lock, unlock),
           \/ /\ ~IsPthread(Front(h), lock) /\ ~IsPthread(Front(h), unlock)
              /\ M = T
           \/ /\ IsPthread(Front(h), lock) /\ Front(h).addr \notin T
              /\ M = T \cup {Front(h).addr}
           \/ /\ IsPthread(Front(h), unlock) /\ Holds(h, Front(h).addr, lock, unlock)
              /\ M = T \ {Front(h).addr}
    PROVE  Excludes(M, lock, unlock)'
<1>1. PICK e : e = Front(h)
    OBVIOUS
<1>2. e.addr \in Addrs
    BY <1>1, FrontType DEF PopStep
<1>. DEFINE H(t, a) == Holds(t, a, lock, unlock)
            G(t, a) == Holds(t, a, lock, unlock)'
            L == IsPthread(e, lock)
            U == IsPthread(e, unlock)
<1>3. ASSUME NEW a \in Addrs
      PROVE  /\ G(h, a) <=> (L /\ e.addr = a) \/ (H(h, a) /\ ~(U /\ e.addr = a))
             /\ \A t \in Threads \ {h} : G(t, a) <=> H(t, a)
    BY <1>1, HoldsStep
<1>4. ASSUME NEW a \in Addrs
      PROVE  /\ \A t, u \in Threads : H(t, a) /\ H(u, a) => t = u
             /\ a \in T <=> \E t \in Threads : H(t, a)
    BY DEF Excludes
<1>5. \/ ~L /\ ~U /\ M = T
      \/ L /\ ~U /\ e.addr \notin T /\ M = T \cup {e.addr}
      \/ U /\ ~L /\ H(h, e.addr) /\ M = T \ {e.addr}
    BY <1>1 DEF IsPthread
<1>. HIDE DEF H, G, L, U
<1>6. ASSUME NEW a \in Addrs
      PROVE  /\ \A t, u \in Threads : G(t, a) /\ G(u, a) => t = u
             /\ a \in M <=> \E t \in Threads : G(t, a)
    <2>1. CASE a # e.addr \/ (~L /\ ~U)
        <3>1. \A t \in Threads : G(t, a) <=> H(t, a)
            BY <1>3, <2>1
        <3>2. a \in M <=> a \in T
            BY <1>5, <2>1
        <3>. QED BY <1>4, <3>1, <3>2
    <2>2. CASE a = e.addr /\ L
        <3>1. a \notin T /\ a \in M
            BY <1>5, <2>2
        <3>2. G(h, a) /\ \A t \in Threads \ {h} : ~G(t, a)
            BY <1>3, <1>4, <2>2, <3>1
        <3>. QED BY <3>1, <3>2
    <2>3. CASE a = e.addr /\ U
        <3>1. H(h, a) /\ a \notin M /\ ~L
            BY <1>5, <2>3
        <3>2. \A t \in Threads : ~G(t, a)
            BY <1>3, <1>4, <2>3, <3>1
        <3>. QED BY <3>1, <3>2
    <2>. QED BY <2>1, <2>2, <2>3
<1>7. ASSUME NEW a \in Addrs
      PROVE  /\ \A t, u \in Threads : Holds(t, a, lock, unlock)' /\ Holds(u, a, lock, unlock)' => t = u
             /\ a \in M <=> \E t \in Threads : Holds(t, a, lock, unlock)'
    BY <1>6 DEF G
<1>. QED BY <1>7 DEF Excludes

LockInv == UnlocksHeld => LockExclusion

\* What was replayed stays replayed.
LEMMA UnlocksHeldBefore ==
    ASSUME IInv, Forward, UnlocksHeld'
    PROVE  UnlocksHeld
<1>1. SUFFICES ASSUME NEW t \in Threads, NEW i \in Past(t) PROVE UnlockHeld(file, t, i)
    BY DEF UnlocksHeld
<1>2. popped[t] \in Nat /\ popped'[t] \in Nat /\ popped[t] <= popped'[t] /\ file' = file
    BY DEF IInv, QueueInv, QueueTypes, Forward
<1>3. i \in 1 .. popped[t]
    BY DEF Past
<1>4. i \in Past(t)'
    BY <1>2, <1>3, SMTT(20) DEF Past
<1>5. UnlockHeld(file', t, i)
    BY <1>4 DEF UnlocksHeld
<1>. QED BY <1>2, <1>5

\* LockExclusion says it of mutexes and of spin locks.
LEMMA ExclusionForm ==
    LockExclusion <=> /\ Excludes(mutexLocks, "P_MUTEX_LK", "P_MUTEX_ULK")
                      /\ Excludes(spinLocks, "P_SPIN_LK", "P_SPIN_ULK")
BY DEF LockExclusion, Excludes, HoldsMutex, HoldsSpin

\* An event that completes is neither a lock nor an unlock, or takes a free lock,
\* or gives back a lock that its thread holds.
LEMMA LockStep ==
    ASSUME IInv, IInv', RequestInv, LockInv,
           QuietStep \/ \E h \in Threads : ArriveStep(h) \/ PopStep(h)
    PROVE  LockInv'
<1>1. Forward /\ file' = file
    BY StepsForward DEF Forward
<1>2. SUFFICES ASSUME UnlocksHeld' PROVE LockExclusion'
    BY DEF LockInv
<1>3. LockExclusion
    BY <1>1, <1>2, UnlocksHeldBefore DEF LockInv
<1>4. CASE QuietStep \/ \E h \in Threads : ArriveStep(h)
    <2>1. UNCHANGED <<popped, mutexLocks, spinLocks>>
        BY <1>4 DEF QuietStep, ArriveStep, syncVars
    <2>2. \A t, a : (HoldsMutex(t, a)' <=> HoldsMutex(t, a)) /\ (HoldsSpin(t, a)' <=> HoldsSpin(t, a))
        BY <1>1, <2>1, SMTT(20) DEF HoldsMutex, HoldsSpin, Holds, Past, IsPthread
    <2>. QED BY <1>3, <2>1, <2>2, SMTT(20) DEF LockExclusion
<1>5. ASSUME NEW h \in Threads, PopStep(h) PROVE LockExclusion'
    <2>1. PICK n \in Nat : n = popped[h] /\ popped'[h] = n + 1 /\ n + 1 \in Past(h)'
        BY <1>5, PopPositions
    <2>2. UnlockHeld(file', h, n + 1)
        BY <1>2, <2>1 DEF UnlocksHeld
    <2>3. Front(h) = file'[h][n + 1] /\ (n + 1) - 1 = n
        BY <1>1, <2>1, SMTT(20) DEF Front
    <2>4. /\ IsPthread(Front(h), "P_MUTEX_ULK") => HoldsMutex(h, Front(h).addr)
          /\ IsPthread(Front(h), "P_SPIN_ULK") => HoldsSpin(h, Front(h).addr)
        BY <1>1, <2>1, <2>2, <2>3, SMTT(20) DEF UnlockHeld, HeldIn, HoldsMutex, HoldsSpin, Holds, Past
    <2>5. Locks(h) \/ Creates(h) \/ Leaves(h) \/ Passes(h)
        BY <1>5 DEF PopStep
    <2>6. ASSUME Passes(h)
          PROVE  \A k \in {"P_MUTEX_LK", "P_MUTEX_ULK", "P_SPIN_LK", "P_SPIN_ULK"} :
                     ~IsPthread(Front(h), k)
        BY <2>6, PassedKind
    <2>7. PICK M, S : M = mutexLocks' /\ S = spinLocks'
        OBVIOUS
    <2>8. \/ /\ ~IsPthread(Front(h), "P_MUTEX_LK") /\ ~IsPthread(Front(h), "P_MUTEX_ULK")
             /\ M = mutexLocks
          \/ /\ IsPthread(Front(h), "P_MUTEX_LK") /\ Front(h).addr \notin mutexLocks
             /\ M = mutexLocks \cup {Front(h).addr}
          \/ /\ IsPthread(Front(h), "P_MUTEX_ULK")
             /\ Holds(h, Front(h).addr, "P_MUTEX_LK", "P_MUTEX_ULK")
             /\ M = mutexLocks \ {Front(h).addr}
        BY <2>4, <2>5, <2>6, <2>7 DEF Locks, Creates, Leaves, Passes, syncVars, threadVars,
                                      IsPthread, HoldsMutex
    <2>9. \/ /\ ~IsPthread(Front(h), "P_SPIN_LK") /\ ~IsPthread(Front(h), "P_SPIN_ULK")
             /\ S = spinLocks
          \/ /\ IsPthread(Front(h), "P_SPIN_LK") /\ Front(h).addr \notin spinLocks
             /\ S = spinLocks \cup {Front(h).addr}
          \/ /\ IsPthread(Front(h), "P_SPIN_ULK")
             /\ Holds(h, Front(h).addr, "P_SPIN_LK", "P_SPIN_ULK")
             /\ S = spinLocks \ {Front(h).addr}
        BY <2>4, <2>5, <2>6, <2>7 DEF Locks, Creates, Leaves, Passes, syncVars, threadVars,
                                      IsPthread, HoldsSpin
    <2>10. PICK T, R : T = mutexLocks /\ R = spinLocks
        OBVIOUS
    <2>11. Excludes(T, "P_MUTEX_LK", "P_MUTEX_ULK") /\ Excludes(R, "P_SPIN_LK", "P_SPIN_ULK")
        BY <1>3, <2>10, ExclusionForm
    <2>12. Excludes(M, "P_MUTEX_LK", "P_MUTEX_ULK")'
        BY <1>5, <2>8, <2>10, <2>11, ExcludesStep
    <2>13. Excludes(S, "P_SPIN_LK", "P_SPIN_ULK")'
        BY <1>5, <2>9, <2>10, <2>11, ExcludesStep
    <2>14. Excludes(mutexLocks, "P_MUTEX_LK", "P_MUTEX_ULK")'
        BY <2>7, <2>12 DEF Excludes
    <2>15. Excludes(spinLocks, "P_SPIN_LK", "P_SPIN_ULK")'
        BY <2>7, <2>13 DEF Excludes
    <2>. QED BY <2>14, <2>15 DEF LockExclusion, Excludes, HoldsMutex, HoldsSpin
<1>. QED BY <1>4, <1>5

\* The traces are well locked, so whatever was replayed is.
LEMMA WellLockedSoFar ==
    ASSUME WellLocked
    PROVE  IInv => UnlocksHeld
<1>. SUFFICES ASSUME IInv, NEW t \in Threads, NEW i \in Past(t)
              PROVE  UnlockHeld(file, t, i)
    BY DEF UnlocksHeld
<1>1. popped[t] \in Nat /\ Len(file[t]) \in Nat /\ popped[t] <= Len(file[t]) /\ file \in Programs
    BY EmptyMeansFinished DEF IInv, QueueInv, QueueTypes
<1>2. i \in 1 .. Len(file[t])
    BY <1>1, SMTT(20) DEF Past
<1>. QED BY <1>1, <1>2 DEF WellLocked

(***************************************************************************)
(* The scheduler's queues                                                  *)
(***************************************************************************)
\* A non-empty set of natural numbers has a least element.
LEMMA LeastNat ==
    ASSUME NEW T \in SUBSET Nat, T # {}
    PROVE  \E x \in T : \A y \in T : x <= y
<1>. DEFINE R == {ss \in Nat \X Nat : ss[1] < ss[2]}
<1>1. IsWellFoundedOn(R, Nat)
    BY NatLessThanWellFounded DEF OpToRel
<1>2. PICK x \in T : \A y \in T : ~(<<y, x>> \in R)
    <2>. HIDE DEF R
    <2>. QED BY <1>1, WFMin
<1>3. ASSUME NEW y \in T PROVE x <= y
    <2>1. y < x => <<y, x>> \in R
        OBVIOUS
    <2>2. x \in Nat /\ y \in Nat
        OBVIOUS
    <2>. HIDE DEF R
    <2>. QED BY <1>2, <2>1, <2>2, SMTT(20)
<1>. QED BY <1>3

\* FirstReady finds the position that the loop of swapThreads stops at.
LEMMA FirstReadyIn ==
    ASSUME NEW S, NEW q \in Seq(S), NEW R, \E i \in 2 .. Len(q) : q[i] \in R
    PROVE  FirstReady(q, R) \in 2 .. Len(q) /\ q[FirstReady(q, R)] \in R
<1>. DEFINE T == {i \in 2 .. Len(q) : q[i] \in R}
<1>1. T \in SUBSET Nat /\ T # {}
    BY SMTT(20)
<1>2. PICK i \in T : \A y \in T : i <= y
    <2>. HIDE DEF T
    <2>. QED BY <1>1, LeastNat
<1>3. \A j \in 2 .. (i - 1) : q[j] \notin R
    BY <1>2, SMTT(20)
<1>4. \E k \in 2 .. Len(q) : q[k] \in R /\ \A j \in 2 .. (k - 1) : q[j] \notin R
    BY <1>2, <1>3
<1>. QED BY <1>4 DEF FirstReady

\* swapThreads only rotates a core's queue.
LEMMA SwapThreadsSeq ==
    ASSUME NEW S, NEW q \in Seq(S), q # << >>, NEW R
    PROVE  /\ swapThreads(q, R) \in Seq(S)
           /\ swapThreads(q, R) # << >>
           /\ Len(swapThreads(q, R)) = Len(q)
<1>1. CASE \E i \in 2 .. Len(q) : q[i] \in R
    <2>. DEFINE k == FirstReady(q, R)
    <2>1. k \in 2 .. Len(q)
        BY <1>1, FirstReadyIn
    <2>. HIDE DEF k
    <2>2. /\ SubSeq(q, k, Len(q)) \in Seq(S)
          /\ Len(SubSeq(q, k, Len(q))) = Len(q) - k + 1
        BY <2>1, SubSeqProperties, LenProperties, SMTT(20)
    <2>3. /\ SubSeq(q, 1, k - 1) \in Seq(S)
          /\ Len(SubSeq(q, 1, k - 1)) = k - 1
        BY <2>1, SubSeqProperties, LenProperties, SMTT(20)
    <2>4. /\ moveThreadToHead(q, k) \in Seq(S)
          /\ Len(moveThreadToHead(q, k)) = Len(q)
        BY <2>1, <2>2, <2>3, ConcatProperties, SMTT(20) DEF moveThreadToHead
    <2>. QED BY <1>1, <2>1, <2>4, EmptySeq DEF swapThreads, k
<1>2. CASE ~ \E i \in 2 .. Len(q) : q[i] \in R
    BY <1>2 DEF swapThreads
<1>. QED BY <1>1, <1>2

\* What swapStalledThreads leaves in the two variables it may change.
LEMMA SwapStalledEffect ==
    ASSUME threadMap \in [Procs -> Seq(Threads)],
           core \in [Procs -> Nat \cup {Unscheduled}],
           NEW S, S \subseteq Threads,
           NEW p \in Procs, NEW q \in Seq(S), q # << >>,
           NEW c \in Nat \cup {Unscheduled}, SwapStalled(p, q, c)
    PROVE  /\ threadMap' \in [Procs -> Seq(Threads)]
           /\ threadMap'[p] \in Seq(S) /\ threadMap'[p] # << >>
           /\ \A r \in Procs \ {p} : threadMap'[r] = threadMap[r] /\ core'[r] = core[r]
           /\ core' \in [Procs -> Nat \cup {Unscheduled}]
<1>. DEFINE z == swapThreads(q, Ready')
<1>1. z \in Seq(S) /\ z # << >>
    BY SwapThreadsSeq
<1>2. z \in Seq(Threads) /\ q \in Seq(Threads)
    BY <1>1, SeqMonotonic
<1>. HIDE DEF z
<1>3. PICK y \in Seq(S) : /\ y # << >> /\ y \in Seq(Threads)
                          /\ threadMap' = [threadMap EXCEPT ![p] = y]
    BY <1>1, <1>2 DEF SwapStalled, z
<1>4. PICK d \in Nat \cup {Unscheduled} : core' = [core EXCEPT ![p] = d]
    BY DEF SwapStalled
<1>. QED BY <1>3, <1>4

\* The invariant implies the type invariant of the model.
LEMMA IInvTypeOK == IInv => TypeOK
BY DEF IInv, TypeOK, FlagTypes, QueueInv, QueueTypes, SubTypes, CoreTypes, ClockTypes

(***************************************************************************)
(* Cores and threads                                                       *)
(***************************************************************************)
LEMMA ProcsPositive ==
    /\ num_of_mapped_processors \in Nat \ {0}
    /\ NumThreads \in Nat \ {0}
    /\ num_of_mapped_processors <= NumThreads
<1>1. NumThreads \in Int /\ NumThreads >= 1 /\ NumCpus \in Int /\ NumCpus >= 1
    BY SizesAssumption, SMTT(20)
<1>. QED BY <1>1, SMTT(20) DEF num_of_mapped_processors

\* initialThreadMapping deals every thread to a mapped processor.
LEMMA CoreOfIn ==
    ASSUME NEW t \in Threads
    PROVE  CoreOf(t) \in Procs
BY ProcsPositive, SMTT(20) DEF Threads, Procs, CoreOf

\* The running thread of a core is one of the core's threads.
LEMMA RunningIn ==
    ASSUME CoreTypes, NEW p \in Procs
    PROVE  Running(p) \in Threads /\ CoreOf(Running(p)) = p
<1>1. threadMap[p] \in Seq(ThreadsOf(p)) /\ threadMap[p] # << >>
    BY DEF CoreTypes
<1>2. 1 \in 1 .. Len(threadMap[p])
    BY <1>1, EmptySeq, SMTT(20)
<1>3. threadMap[p][1] \in ThreadsOf(p)
    BY <1>1, <1>2, ElementOfSeq
<1>. QED BY <1>3 DEF Running, ThreadsOf

(***************************************************************************)
(* Event queues                                                            *)
(***************************************************************************)
LEMMA FileTypes ==
    ASSUME file \in Programs, NEW t \in Threads
    PROVE  /\ file[t] \in Seq(Event)
           /\ Len(file[t]) \in Nat
           /\ \A i \in 1 .. Len(file[t]) :
                 /\ file[t][i] \in Event
                 /\ file[t][i].type = "COMMUNICATION" => file[t][i].deps # << >>
<1>1. file[t] \in Seq(Event)
    BY ProgramsAssumption
<1>2. Len(file[t]) \in Nat /\ \A i \in 1 .. Len(file[t]) : file[t][i] \in Event
    BY <1>1, ElementOfSeq, LenProperties
<1>3. \A i \in 1 .. Len(file[t]) :
          file[t][i].type = "COMMUNICATION" => file[t][i].deps # << >>
    BY ProgramsAssumption
<1>. QED BY <1>1, <1>2, <1>3

\* replenishEvents keeps a queue within its capacity and, unless the file is
\* at its end, at or above MIN_EVENTS_SIZE.
LEMMA ReplenishToBounds ==
    ASSUME file \in Programs, NEW t \in Threads, NEW n \in Nat, NEW m \in Nat,
           n <= m, m <= Len(file[t]), m - n < READ_BLOCK + MIN_EVENTS_SIZE
    PROVE  /\ ReplenishTo(t, n, m) \in Nat
           /\ m <= ReplenishTo(t, n, m)
           /\ ReplenishTo(t, n, m) <= Len(file[t])
           /\ ReplenishTo(t, n, m) - n < READ_BLOCK + MIN_EVENTS_SIZE
           /\ \/ ReplenishTo(t, n, m) - n >= MIN_EVENTS_SIZE
              \/ ReplenishTo(t, n, m) = Len(file[t])
<1>1. Len(file[t]) \in Nat /\ curEventListPos[t] # -1
    BY FileTypes, SMTT(20) DEF curEventListPos
<1>2. ReplenishTo(t, n, m) = IF m - n < MIN_EVENTS_SIZE
                             THEN IF m + READ_BLOCK <= Len(file[t])
                                  THEN m + READ_BLOCK ELSE Len(file[t])
                             ELSE m
    BY <1>1 DEF ReplenishTo, ReadEventFile, AtMost
<1>. QED BY <1>1, <1>2, SizesAssumption, SMTT(20)

\* Completing an event keeps the queue invariant.
LEMMA PopQueueInv ==
    ASSUME QueueInv, NEW h \in Threads, popped[h] # loaded[h],
           popped' = [popped EXCEPT ![h] = @ + 1],
           loaded' = [loaded EXCEPT ![h] = AfterPop(h)],
           UNCHANGED <<file, stopped>>
    PROVE  QueueInv'
<1>. DEFINE n == popped[h] + 1
            m == loaded[h]
<1>1. /\ n \in Nat /\ m \in Nat /\ n <= m /\ m <= Len(file[h])
      /\ m - n < READ_BLOCK + MIN_EVENTS_SIZE
      /\ Len(file[h]) \in Nat
    BY FileTypes, SizesAssumption, SMTT(20) DEF QueueInv, QueueTypes, QueueOK
<1>2. AfterPop(h) = IF n # m THEN ReplenishTo(h, n, m) ELSE m
    BY DEF AfterPop
<1>3. /\ AfterPop(h) \in Nat /\ n <= AfterPop(h) /\ AfterPop(h) <= Len(file[h])
      /\ AfterPop(h) - n < READ_BLOCK + MIN_EVENTS_SIZE
      /\ AfterPop(h) - n >= MIN_EVENTS_SIZE \/ AfterPop(h) = Len(file[h])
    <2>1. CASE n # m
        <3>. HIDE DEF n, m
        <3>1. AfterPop(h) = ReplenishTo(h, n, m) /\ file \in Programs
            BY <1>2, <2>1 DEF QueueInv, QueueTypes
        <3>. QED BY <1>1, <3>1, ReplenishToBounds, SMTT(20)
    <2>2. CASE n = m
        BY <1>1, <1>2, <2>2, SizesAssumption, SMTT(20) DEF QueueInv, QueueTypes, QueueOK
    <2>. QED BY <2>1, <2>2
<1>4. QueueTypes' /\ QueueOK'
    BY <1>1, <1>3 DEF QueueInv, QueueTypes, QueueOK
<1>5. ~stopped
    BY <1>1, SMTT(20) DEF QueueInv, QueueTypes, StoppedMeansReplayed
<1>. QED BY <1>4, <1>5 DEF QueueInv, StoppedMeansReplayed

(***************************************************************************)
(* Sub-events                                                              *)
(***************************************************************************)
\* An event in a queue is an event of its file and has at least one sub-event.
LEMMA EventInFile ==
    ASSUME file \in Programs, NEW t \in Threads, NEW n \in Nat, n < Len(file[t])
    PROVE  /\ file[t][n + 1] \in Event
           /\ NumSubEvents(file[t][n + 1]) \in Nat \ {0}
<1>. DEFINE e == file[t][n + 1]
<1>1. /\ Len(file[t]) \in Nat /\ n + 1 \in 1 .. Len(file[t])
      /\ e \in Event
      /\ e.type = "COMMUNICATION" => e.deps # << >>
    BY FileTypes, SMTT(20)
<1>. HIDE DEF e
<1>2. e.deps \in Seq([thread : Threads \cup {OS}, event : Nat]) /\ e.mem \in Nat
    BY <1>1 DEF Event
<1>3. e.deps # << >> => Len(e.deps) \in Nat \ {0}
    BY <1>2, EmptySeq
<1>4. NumSubEvents(e) \in Nat \ {0}
    BY <1>1, <1>2, <1>3, SMTT(20) DEF NumSubEvents, AtLeast
<1>. QED BY <1>1, <1>4 DEF e

\* The sub-events of a front event, as createSubEvents and hitCallback set them.
LEMMA PulledType ==
    ASSUME NEW e, NEW n \in Nat, NEW d \in Costs
    PROVE  /\ Pulled(e, n, d) \in SubEvents
           /\ Pulled(e, n, d).left = n
           /\ ~Pulled(e, n, d).msgTriggered
<1>1. d \in Nat
    BY SizesAssumption
<1>. QED BY <1>1, SMTT(20) DEF Pulled, SubEvents

\* An event without sub-events (before createSubEvents) has the sub-events' type.
LEMMA NoSubEventsType == NoSubEvents \in SubEvents
BY SMTT(20) DEF NoSubEvents, SubEvents

(***************************************************************************)
(* Cores and their requests                                                *)
(***************************************************************************)
\* A core whose wakeup runs has no request in Ruby.
LEMMA AwakeHasNoRequest ==
    ASSUME OneOutstanding, NEW p \in Procs, core[p] # Unscheduled
    PROVE  /\ inflight[p] = 0
           /\ \A t \in Threads : CoreOf(t) = p => ~sub[t].msgTriggered
<1>1. inflight[p] = 0
    BY DEF OneOutstanding
<1>. QED BY <1>1, SMTT(20) DEF OneOutstanding

\* A step of core p that neither sends nor receives keeps the property.
LEMMA NoRequestStep ==
    ASSUME OneOutstanding, NEW p \in Procs, inflight[p] = 0, UNCHANGED inflight,
           \A t \in Threads : CoreOf(t) = p => ~sub'[t].msgTriggered,
           \A t \in Threads : CoreOf(t) # p => sub'[t].msgTriggered = sub[t].msgTriggered,
           \A r \in Procs \ {p} : threadMap'[r] = threadMap[r] /\ core'[r] = core[r],
           CoreTypes
    PROVE  OneOutstanding'
<1>1. ASSUME NEW r \in Procs, inflight'[r] # 0
      PROVE  inflight'[r] = 1 /\ core'[r] = Unscheduled /\ sub'[threadMap'[r][1]].msgTriggered
    <2>1. r # p /\ inflight[r] # 0
        BY <1>1
    <2>2. inflight[r] = 1 /\ core[r] = Unscheduled /\ sub[Running(r)].msgTriggered
        BY <2>1 DEF OneOutstanding
    <2>3. Running(r) \in Threads /\ CoreOf(Running(r)) = r
        BY RunningIn
    <2>. QED BY <2>1, <2>2, <2>3 DEF Running
<1>2. ASSUME NEW t \in Threads, sub'[t].msgTriggered
      PROVE  threadMap'[CoreOf(t)][1] = t /\ inflight'[CoreOf(t)] = 1
    <2>1. CoreOf(t) # p /\ sub[t].msgTriggered
        BY <1>2
    <2>2. CoreOf(t) \in Procs
        BY CoreOfIn
    <2>. QED BY <2>1, <2>2, SMTT(20) DEF OneOutstanding, Running
<1>. QED BY <1>1, <1>2 DEF OneOutstanding, Running, CoreOf

\* swapStalledThreads keeps every thread on its core.
LEMMA SwapCoreTypes ==
    ASSUME CoreTypes, NEW p \in Procs, NEW q \in Seq(ThreadsOf(p)), q # << >>,
           NEW c \in Nat \cup {Unscheduled}, SwapStalled(p, q, c),
           inflight' \in [Procs -> Nat]
    PROVE  /\ CoreTypes'
           /\ \A r \in Procs \ {p} : threadMap'[r] = threadMap[r] /\ core'[r] = core[r]
<1>1. ThreadsOf(p) \subseteq Threads
    BY DEF ThreadsOf
<1>2. /\ threadMap' \in [Procs -> Seq(Threads)]
      /\ threadMap'[p] \in Seq(ThreadsOf(p)) /\ threadMap'[p] # << >>
      /\ \A r \in Procs \ {p} : threadMap'[r] = threadMap[r] /\ core'[r] = core[r]
      /\ core' \in [Procs -> Nat \cup {Unscheduled}]
    BY <1>1, SwapStalledEffect DEF CoreTypes
<1>3. \A r : ThreadsOf(r)' = ThreadsOf(r)
    BY DEF ThreadsOf, Threads, CoreOf, num_of_mapped_processors
<1>. QED BY <1>2, <1>3 DEF CoreTypes

(***************************************************************************)
(* Core wakeups                                                            *)
(***************************************************************************)
\* A wakeup of core p that completes no event and sends nothing.
LEMMA CoreOnlyStep ==
    ASSUME IInv, NEW p \in Procs, core[p] # Unscheduled, FlagTypes',
           NEW c \in Nat \cup {Unscheduled}, SwapStalled(p, threadMap[p], c),
           UNCHANGED <<file, popped, loaded, stopped, inflight>>, ClockTypes',
           sub' \in [Threads -> SubEvents],
           \A t \in Threads :
               /\ sub'[t].msgTriggered = sub[t].msgTriggered
               /\ sub'[t].left = sub[t].left \/ (sub'[t].left > 0 /\ popped[t] # loaded[t])
    PROVE  IInv'
<1>1. QueueInv'
    BY DEF IInv, QueueInv, QueueTypes, QueueOK, StoppedMeansReplayed
<1>2. /\ CoreTypes'
      /\ \A r \in Procs \ {p} : threadMap'[r] = threadMap[r] /\ core'[r] = core[r]
    BY SwapCoreTypes DEF IInv, CoreTypes
<1>3. SubTypes'
    BY DEF IInv, SubTypes, SubEvents
<1>4. OneOutstanding'
    BY <1>2, AwakeHasNoRequest, NoRequestStep DEF IInv
<1>. QED BY <1>1, <1>2, <1>3, <1>4 DEF IInv

\* The common prefix of the branches of progressEvents.
LEMMA ProgressFacts ==
    ASSUME IInv, NEW p \in Procs, Progress(p)
    PROVE  /\ Running(p) \in Threads /\ CoreOf(Running(p)) = p
           /\ core[p] # Unscheduled
           /\ popped[Running(p)] # loaded[Running(p)]
           /\ sub[Running(p)].left > 0
           /\ ~sub[Running(p)].msgTriggered
BY RunningIn, SMTT(20) DEF IInv, Progress, Due, Runnable, NonEmpty, Empty, Unscheduled

\* A sub-event that is tried again in the next cycle keeps the invariant.
LEMMA RetryInv ==
    ASSUME IInv, NEW p \in Procs, Progress(p), FlagTypes', Retry(p)
    PROVE  IInv'
<1>. DEFINE h == Running(p)
<1>1. h \in Threads /\ core[p] # Unscheduled
    BY ProgressFacts
<1>2. sub' = [sub EXCEPT ![h].trigger = 1]
    BY DEF Retry
<1>3. sub' = [sub EXCEPT ![h] = [sub[h] EXCEPT !.trigger = 1]]
    BY <1>2
<1>4. sub[h] \in SubEvents
    BY <1>1 DEF IInv, SubTypes
<1>5. /\ [sub[h] EXCEPT !.trigger = 1] \in SubEvents
      /\ [sub[h] EXCEPT !.trigger = 1].left = sub[h].left
      /\ [sub[h] EXCEPT !.trigger = 1].msgTriggered = sub[h].msgTriggered
    BY <1>4 DEF SubEvents
<1>. HIDE DEF h
<1>6. /\ sub' \in [Threads -> SubEvents]
      /\ \A t \in Threads : /\ sub'[t].msgTriggered = sub[t].msgTriggered
                            /\ sub'[t].left = sub[t].left
    BY <1>1, <1>3, <1>5 DEF IInv, SubTypes
<1>7. /\ UNCHANGED <<file, popped, loaded, stopped, inflight, master, aborted>>
      /\ SwapStalled(p, threadMap[p], 1)
    BY DEF Retry, queueVars, runVars
<1>8. ClockTypes'
    BY <1>7 DEF IInv, ClockTypes
<1>. QED BY <1>1, <1>6, <1>7, <1>8, CoreOnlyStep

\* The end of an event: pop, swap, replenish, and the new head's sub-events.
LEMMA FinishInv ==
    ASSUME IInv, NEW p \in Procs, Progress(p), FlagTypes', Finish(p)
    PROVE  IInv'
<1>. DEFINE h == Running(p)
            q == swapThreads(threadMap[p], Ready')
            new == q[1]
            ended == [sub EXCEPT ![h] = NoSubEvents]
            e == file[new][popped'[new] + 1]
<1>1. h \in Threads /\ CoreOf(h) = p /\ core[p] # Unscheduled /\ popped[h] # loaded[h]
    BY ProgressFacts
<1>2. /\ UNCHANGED <<file, master, inflight, stopped, aborted>>
      /\ popped' = [popped EXCEPT ![h] = @ + 1]
      /\ loaded' = [loaded EXCEPT ![h] = AfterPop(h)]
      /\ SwapStalled(p, q, 1)
    BY DEF Finish, runVars
<1>3. PICK d \in Costs :
          sub' = IF Len(q) > 1 /\ new \in Runnable' /\ ended[new].left = 0
                 THEN [ended EXCEPT ![new] = Pulled(e, NumSubEvents(e), d)]
                 ELSE ended
    BY DEF Finish
<1>4. q \in Seq(ThreadsOf(p)) /\ q # << >>
    BY SwapThreadsSeq DEF IInv, CoreTypes
<1>. HIDE DEF h, q
<1>5. QueueInv'
    BY <1>1, <1>2, PopQueueInv DEF IInv
<1>6. /\ CoreTypes'
      /\ \A r \in Procs \ {p} : threadMap'[r] = threadMap[r] /\ core'[r] = core[r]
    BY <1>2, <1>4, SwapCoreTypes DEF IInv, CoreTypes
<1>7. new \in Threads /\ CoreOf(new) = p
    BY <1>4, EmptySeq, ElementOfSeq, SMTT(20) DEF ThreadsOf
<1>8. /\ ended \in [Threads -> SubEvents]
      /\ ended[h] = NoSubEvents
      /\ \A t \in Threads \ {h} : ended[t] = sub[t]
    BY <1>1, NoSubEventsType DEF IInv, SubTypes
<1>9. ASSUME new \in Runnable'
      PROVE  /\ popped'[new] # loaded'[new]
             /\ Pulled(e, NumSubEvents(e), d) \in SubEvents
             /\ Pulled(e, NumSubEvents(e), d).left > 0
             /\ ~Pulled(e, NumSubEvents(e), d).msgTriggered
    <2>1. popped'[new] # loaded'[new]
        BY <1>9 DEF Runnable, NonEmpty, Empty
    <2>2. file \in Programs /\ popped'[new] \in Nat /\ popped'[new] < Len(file[new])
        BY <1>2, <1>5, <1>7, <2>1, FileTypes, SMTT(20) DEF QueueInv, QueueTypes
    <2>3. NumSubEvents(e) \in Nat \ {0}
        BY <1>7, <2>2, EventInFile
    <2>. HIDE DEF e
    <2>. QED BY <2>1, <2>3, PulledType, SMTT(20)
<1>. HIDE DEF new, ended, e
<1>10. \A t \in Threads :
          \/ sub'[t] = ended[t]
          \/ /\ t = new /\ new \in Runnable'
             /\ sub'[t] = Pulled(e, NumSubEvents(e), d)
    BY <1>3, <1>7, <1>8
<1>11. sub' \in [Threads -> SubEvents]
    BY <1>3, <1>7, <1>8, <1>9
<1>12. \A t \in Threads \ {h} : popped'[t] = popped[t] /\ loaded'[t] = loaded[t]
    BY <1>1, <1>2 DEF IInv, QueueInv, QueueTypes
<1>13. SubTypes'
    <2>. SUFFICES ASSUME NEW t \in Threads
                  PROVE  /\ sub'[t].msgTriggered => sub'[t].left > 0
                         /\ sub'[t].left > 0 => popped'[t] # loaded'[t]
        BY <1>11 DEF SubTypes
    <2>1. CASE sub'[t] = ended[t] /\ t = h
        BY <1>8, <2>1, SMTT(20) DEF NoSubEvents
    <2>2. CASE sub'[t] = ended[t] /\ t # h
        BY <1>8, <1>12, <2>2 DEF IInv, SubTypes
    <2>3. CASE t = new /\ new \in Runnable' /\ sub'[t] = Pulled(e, NumSubEvents(e), d)
        BY <1>9, <2>3
    <2>. QED BY <1>10, <2>1, <2>2, <2>3
<1>14. inflight[p] = 0 /\ \A t \in Threads : CoreOf(t) = p => ~sub[t].msgTriggered
    BY <1>1, AwakeHasNoRequest DEF IInv
<1>15. \A t \in Threads : CoreOf(t) = p => ~sub'[t].msgTriggered
    BY <1>8, <1>9, <1>10, <1>14, SMTT(20) DEF NoSubEvents
<1>16. \A t \in Threads : CoreOf(t) # p => sub'[t].msgTriggered = sub[t].msgTriggered
    BY <1>1, <1>7, <1>8, <1>10
<1>17. OneOutstanding'
    BY <1>2, <1>6, <1>14, <1>15, <1>16, NoRequestStep DEF IInv
<1>. QED BY <1>2, <1>5, <1>6, <1>13, <1>17 DEF IInv, ClockTypes

\* A sent request stays with the running thread: swapStalledThreads does not
\* move it, and nothing schedules the core.
LEMMA WakeSendInv ==
    ASSUME IInv, NEW p \in Procs, WakeSend(p)
    PROVE  IInv'
<1>. DEFINE h == Running(p)
<1>1. /\ h \in Threads /\ CoreOf(h) = p /\ core[p] # Unscheduled
      /\ popped[h] # loaded[h] /\ sub[h].left > 0
    BY ProgressFacts DEF WakeSend
<1>2. inflight[p] = 0 /\ \A t \in Threads : CoreOf(t) = p => ~sub[t].msgTriggered
    BY <1>1, AwakeHasNoRequest DEF IInv
<1>3. RubyAccepts(p)
    BY <1>2, SizesAssumption, SMTT(20) DEF RubyAccepts
<1>4. /\ sub' = [sub EXCEPT ![h] = [sub[h] EXCEPT !.msgTriggered = TRUE]]
      /\ inflight' = [inflight EXCEPT ![p] = inflight[p] + 1]
      /\ UNCHANGED <<file, popped, loaded, master, stopped, aborted,
                     threadStartedMap, threadMutexMap, threadContMap, mutexLocks,
                     spinLocks, threadWaitMap, worker_thread_count>>
      /\ SwapStalled(p, threadMap[p], Unscheduled)
      /\ h \in Runnable
      /\ ContainsMsg(Front(h))
    BY <1>3 DEF WakeSend, Progress, queueVars, threadVars, lockVars
<1>5. /\ [sub[h] EXCEPT !.msgTriggered = TRUE] \in SubEvents
      /\ [sub[h] EXCEPT !.msgTriggered = TRUE].left = sub[h].left
      /\ [sub[h] EXCEPT !.msgTriggered = TRUE].msgTriggered
    BY <1>1 DEF IInv, SubTypes, SubEvents
<1>6. inflight' \in [Procs -> Nat] /\ inflight'[p] = 1
    BY <1>2, <1>4, SMTT(20) DEF IInv, CoreTypes
<1>7. threadMap[p][1] = h
    BY DEF Running
<1>. HIDE DEF h
<1>8. /\ sub' \in [Threads -> SubEvents]
      /\ \A t \in Threads \ {h} : sub'[t] = sub[t]
      /\ sub'[h].left = sub[h].left /\ sub'[h].msgTriggered
    BY <1>1, <1>4, <1>5 DEF IInv, SubTypes
<1>9. /\ CoreTypes'
      /\ \A r \in Procs \ {p} : threadMap'[r] = threadMap[r] /\ core'[r] = core[r]
    BY <1>4, <1>6, SwapCoreTypes DEF IInv, CoreTypes, Unscheduled
<1>10. ~IsPthread(file[h][popped[h] + 1], "P_JOIN")
       /\ ~IsPthread(file[h][popped[h] + 1], "P_MUTEX_LK")
       /\ ~IsPthread(file[h][popped[h] + 1], "P_BARRIER_WT")
    BY <1>4 DEF ContainsMsg, IsPthread, Front
<1>11. h \in Runnable'
    BY <1>4 DEF Runnable, NonEmpty, Empty
<1>12. h \notin Yielding' /\ h \notin AtBarrier'
    BY <1>4, <1>8, <1>10, <1>11 DEF Yielding, Stalled, AtBarrier, Front
<1>13. threadMap'[p] = threadMap[p] /\ core'[p] = Unscheduled
    BY <1>4, <1>7, <1>12 DEF SwapStalled, IInv, CoreTypes
<1>14. OneOutstanding'
    <2>1. ASSUME NEW r \in Procs, inflight'[r] # 0
          PROVE  /\ inflight'[r] = 1 /\ core'[r] = Unscheduled
                 /\ sub'[threadMap'[r][1]].msgTriggered
        <3>1. CASE r = p
            BY <1>6, <1>7, <1>8, <1>13, <3>1
        <3>2. CASE r # p
            <4>1. inflight[r] # 0 /\ inflight'[r] = inflight[r]
                BY <1>4, <2>1, <3>2 DEF IInv, CoreTypes
            <4>2. Running(r) \in Threads /\ CoreOf(Running(r)) = r
                BY RunningIn DEF IInv
            <4>. QED BY <1>1, <1>8, <1>9, <3>2, <4>1, <4>2, SMTT(20) DEF IInv, OneOutstanding, Running
        <3>. QED BY <3>1, <3>2
    <2>2. ASSUME NEW t \in Threads, sub'[t].msgTriggered
          PROVE  threadMap'[CoreOf(t)][1] = t /\ inflight'[CoreOf(t)] = 1
        <3>1. CASE t = h
            BY <1>1, <1>6, <1>7, <1>13, <3>1
        <3>2. CASE t # h
            <4>1. sub[t].msgTriggered /\ CoreOf(t) # p /\ CoreOf(t) \in Procs
                BY <1>2, <1>8, <2>2, <3>2, CoreOfIn
            <4>. QED BY <1>4, <1>9, <4>1, SMTT(20) DEF IInv, OneOutstanding, Running, CoreTypes
        <3>. QED BY <3>1, <3>2
    <2>. QED BY <2>1, <2>2 DEF OneOutstanding, Running, CoreOf
<1>15. SubTypes'
    BY <1>1, <1>4, <1>8 DEF IInv, SubTypes
<1>16. FlagTypes' /\ QueueInv' /\ ClockTypes'
    BY <1>4 DEF IInv, FlagTypes, QueueInv, QueueTypes, QueueOK, StoppedMeansReplayed, ClockTypes
<1>. QED BY <1>9, <1>14, <1>15, <1>16 DEF IInv

\* Wakeups that end before progressEvents reaches its first branch.
LEMMA WakeWaitInv ==
    ASSUME IInv, NEW p \in Procs, WakeIdle(p) \/ WakeCreateSubEvents(p) \/ WakeEarly(p)
    PROVE  IInv'
<1>. DEFINE h == Running(p)
<1>1. h \in Threads /\ CoreOf(h) = p
    BY RunningIn DEF IInv
<1>2. core[p] # Unscheduled
    BY SMTT(20) DEF WakeIdle, WakeCreateSubEvents, WakeEarly, Due, Unscheduled
<1>3. /\ UNCHANGED <<file, popped, loaded, stopped, inflight, master>>
      /\ FlagTypes'
    BY DEF WakeIdle, WakeCreateSubEvents, WakeEarly, IInv, FlagTypes, queueVars,
           threadVars, lockVars, runVars
<1>4. CASE WakeIdle(p)
    <2>1. ClockTypes' /\ sub' = sub /\ SwapStalled(p, threadMap[p], Unscheduled)
        BY <1>4 DEF WakeIdle, IInv, ClockTypes, runVars
    <2>. QED BY <1>2, <1>3, <2>1, CoreOnlyStep DEF IInv, SubTypes
<1>5. CASE WakeEarly(p)
    <2>1. /\ sub' = sub /\ SwapStalled(p, threadMap[p], sub[h].trigger)
          /\ aborted' = sub[h].msgTriggered
        BY <1>5 DEF WakeEarly
    <2>2. sub[h].trigger \in Nat /\ sub[h].msgTriggered \in BOOLEAN
        BY <1>1 DEF IInv, SubTypes, SubEvents
    <2>3. ClockTypes'
        BY <1>3, <2>1, <2>2 DEF IInv, ClockTypes
    <2>. HIDE DEF h
    <2>. QED BY <1>2, <1>3, <2>1, <2>2, <2>3, CoreOnlyStep DEF IInv, SubTypes
<1>6. CASE WakeCreateSubEvents(p)
    <2>. DEFINE e == Front(h)
    <2>1. PICK d \in Costs :
              /\ sub' = [sub EXCEPT ![h] = Pulled(e, NumSubEvents(e), d)]
              /\ SwapStalled(p, threadMap[p], sub'[h].trigger)
        BY <1>6 DEF WakeCreateSubEvents
    <2>2. popped[h] # loaded[h] /\ sub[h].left = 0 /\ aborted' = aborted
        BY <1>6 DEF WakeCreateSubEvents, Runnable, NonEmpty, Empty, runVars
    <2>3. NumSubEvents(e) \in Nat \ {0}
        <3>1. file \in Programs /\ popped[h] \in Nat /\ popped[h] < Len(file[h])
            BY <1>1, <2>2, FileTypes, SMTT(20) DEF IInv, QueueInv, QueueTypes
        <3>. QED BY <1>1, <3>1, EventInFile DEF Front
    <2>. DEFINE s == Pulled(e, NumSubEvents(e), d)
    <2>4. s \in SubEvents /\ s.left > 0 /\ ~s.msgTriggered
        <3>. HIDE DEF e
        <3>. QED BY <2>3, PulledType, SMTT(20)
    <2>5. s.trigger \in Nat
        BY <2>4 DEF SubEvents
    <2>6. ~sub[h].msgTriggered
        BY <1>1, <2>2, SMTT(20) DEF IInv, SubTypes
    <2>7. ClockTypes'
        BY <1>3, <2>2 DEF IInv, ClockTypes
    <2>. HIDE DEF s, e, h
    <2>8. /\ sub' \in [Threads -> SubEvents] /\ sub'[h] = s
          /\ \A t \in Threads \ {h} : sub'[t] = sub[t]
        BY <1>1, <2>1, <2>4 DEF IInv, SubTypes, s
    <2>9. \A t \in Threads :
              /\ sub'[t].msgTriggered = sub[t].msgTriggered
              /\ sub'[t].left = sub[t].left \/ (sub'[t].left > 0 /\ popped[t] # loaded[t])
        <3>1. sub'[h].msgTriggered = sub[h].msgTriggered
            BY <1>1, <2>4, <2>6, <2>8 DEF IInv, SubTypes, SubEvents
        <3>. QED BY <1>1, <2>2, <2>4, <2>8, <3>1
    <2>. QED BY <1>2, <1>3, <2>1, <2>5, <2>7, <2>8, <2>9, CoreOnlyStep
<1>. QED BY <1>4, <1>5, <1>6

\* Every wakeup of a core keeps the invariant.
LEMMA CoreWakeupInv ==
    ASSUME IInv, NEW p \in Procs, CoreWakeup(p)
    PROVE  IInv'
<1>. USE DEF AtPthread
<1>1. FlagTypes
    BY DEF IInv
<1>2. ASSUME Progress(p)
      PROVE  /\ Running(p) \in Threads
             /\ FrontAddr(p) \in Addrs
             /\ AddresstoIdMap[FrontAddr(p)] \in Threads
    <2>1. Running(p) \in Threads /\ popped[Running(p)] # loaded[Running(p)]
        BY <1>2, ProgressFacts
    <2>2. /\ file \in Programs /\ popped[Running(p)] \in Nat
          /\ popped[Running(p)] < Len(file[Running(p)])
        BY <2>1, FileTypes, SMTT(20) DEF IInv, QueueInv, QueueTypes
    <2>3. Front(Running(p)) \in Event
        BY <2>1, <2>2, EventInFile DEF Front
    <2>4. FrontAddr(p) \in Addrs
        BY <2>3 DEF FrontAddr, Event
    <2>. QED BY <2>1, <2>4, MapsAssumption
<1>3. CASE WakeIdle(p) \/ WakeCreateSubEvents(p) \/ WakeEarly(p)
    BY <1>3, WakeWaitInv
<1>4. CASE WakeSend(p)
    BY <1>4, WakeSendInv
<1>5. CASE WakeCommWait(p)
    BY <1>1, <1>5, RetryInv DEF WakeCommWait, FlagTypes, threadVars, lockVars
<1>6. CASE WakeComputed(p)
    BY <1>1, <1>6, FinishInv DEF WakeComputed, FlagTypes, threadVars, lockVars
<1>7. CASE MutexLock(p)
    <2>1. Progress(p) /\ Finish(p)
        BY <1>7 DEF MutexLock
    <2>2. FlagTypes'
        BY <1>1, <1>2, <1>7, <2>1 DEF MutexLock, FlagTypes
    <2>. QED BY <2>1, <2>2, FinishInv
<1>8. CASE MutexUnlock(p)
    <2>1. Progress(p) /\ Finish(p)
        BY <1>8 DEF MutexUnlock
    <2>2. FlagTypes'
        BY <1>1, <1>2, <1>8, <2>1 DEF MutexUnlock, FlagTypes
    <2>. QED BY <2>1, <2>2, FinishInv
<1>9. CASE LockWait(p)
    <2>1. Progress(p) /\ Retry(p) /\ FlagTypes'
        BY <1>1, <1>9 DEF LockWait, FlagTypes, threadVars, lockVars
    <2>. QED BY <2>1, RetryInv
<1>10. CASE Create(p)
    <2>1. Progress(p) /\ Finish(p)
        BY <1>10 DEF Create
    <2>2. FlagTypes'
        BY <1>1, <1>2, <1>10, <2>1, SMTT(20) DEF Create, FlagTypes
    <2>. QED BY <2>1, <2>2, FinishInv
<1>11. CASE Join(p) \/ JoinWait(p)
    <2>1. FlagTypes'
        BY <1>1, <1>11, SizesAssumption, SMTT(20) DEF Join, JoinWait, FlagTypes, threadVars, AtLeast
    <2>. QED BY <1>11, <2>1, FinishInv, RetryInv DEF Join, JoinWait
<1>12. CASE BarrierArrive(p)
    <2>1. Progress(p) /\ Retry(p)
        BY <1>12 DEF BarrierArrive
    <2>2. FlagTypes'
        BY <1>1, <1>2, <1>12, <2>1 DEF BarrierArrive, FlagTypes
    <2>. QED BY <2>1, <2>2, RetryInv
<1>13. CASE BarrierLeave(p)
    <2>1. Progress(p) /\ Finish(p)
        BY <1>13 DEF BarrierLeave
    <2>2. FlagTypes'
        BY <1>1, <1>2, <1>13, <2>1 DEF BarrierLeave, FlagTypes, lockVars
    <2>. QED BY <2>1, <2>2, FinishInv
<1>14. CASE Cond(p)
    <2>1. Progress(p) /\ Finish(p) /\ FlagTypes'
        BY <1>1, <1>14 DEF Cond, FlagTypes, threadVars, lockVars
    <2>. QED BY <2>1, FinishInv
<1>15. CASE SpinLock(p) \/ SpinUnlock(p)
    <2>1. Progress(p) /\ Finish(p)
        BY <1>15 DEF SpinLock, SpinUnlock
    <2>2. FlagTypes'
        BY <1>1, <1>2, <1>15, <2>1 DEF SpinLock, SpinUnlock, FlagTypes, threadVars
    <2>. QED BY <2>1, <2>2, FinishInv
<1>16. CASE AssertFails(p)
    <2>1. /\ aborted' = TRUE
          /\ UNCHANGED <<file, sub, threadMap, core, popped, loaded, threadStartedMap,
                         threadMutexMap, threadContMap, mutexLocks, spinLocks,
                         threadWaitMap, worker_thread_count, master, inflight, stopped>>
        BY <1>16 DEF AssertFails, queueVars, threadVars, lockVars
    <2>. QED BY <2>1 DEF IInv, FlagTypes, QueueInv, QueueTypes, QueueOK,
                StoppedMeansReplayed, SubTypes, CoreTypes, ClockTypes, OneOutstanding,
                Running, ThreadsOf
<1>. QED BY <1>3, <1>4, <1>5, <1>6, <1>7, <1>8, <1>9, <1>10, <1>11, <1>12, <1>13,
            <1>14, <1>15, <1>16 DEF CoreWakeup

(***************************************************************************)
(* Responses                                                               *)
(***************************************************************************)
\* A response finds the request's thread running and its core unscheduled.
LEMMA HitFacts ==
    ASSUME IInv, NEW p \in Procs, inflight[p] > 0
    PROVE  /\ Running(p) \in Threads /\ CoreOf(Running(p)) = p
           /\ inflight[p] = 1 /\ core[p] = Unscheduled
           /\ sub[Running(p)].msgTriggered
           /\ sub[Running(p)].left > 0
           /\ popped[Running(p)] # loaded[Running(p)]
           /\ \A t \in Threads \ {Running(p)} : CoreOf(t) = p => ~sub[t].msgTriggered
<1>1. Running(p) \in Threads /\ CoreOf(Running(p)) = p
    BY RunningIn DEF IInv
<1>2. inflight[p] = 1 /\ core[p] = Unscheduled /\ sub[Running(p)].msgTriggered
    BY SMTT(20) DEF IInv, OneOutstanding
<1>. QED BY <1>1, <1>2 DEF IInv, OneOutstanding, SubTypes

\* The response ends the request of core p.
LEMMA AnsweredStep ==
    ASSUME IInv, NEW p \in Procs, inflight[p] > 0, Answered(p),
           \A t \in Threads : CoreOf(t) = p => ~sub'[t].msgTriggered,
           \A t \in Threads : CoreOf(t) # p => sub'[t] = sub[t],
           \A r \in Procs \ {p} : threadMap'[r] = threadMap[r] /\ core'[r] = core[r]
    PROVE  OneOutstanding'
<1>1. /\ inflight'[p] = 0
      /\ \A r \in Procs \ {p} : inflight'[r] = inflight[r]
    BY HitFacts, SMTT(20) DEF Answered, IInv, CoreTypes
<1>2. ASSUME NEW r \in Procs, inflight'[r] # 0
      PROVE  inflight'[r] = 1 /\ core'[r] = Unscheduled /\ sub'[threadMap'[r][1]].msgTriggered
    <2>1. r # p /\ inflight[r] # 0
        BY <1>1, <1>2
    <2>2. Running(r) \in Threads /\ CoreOf(Running(r)) = r
        BY RunningIn DEF IInv
    <2>. QED BY <1>1, <2>1, <2>2, SMTT(20) DEF IInv, OneOutstanding, Running
<1>3. ASSUME NEW t \in Threads, sub'[t].msgTriggered
      PROVE  threadMap'[CoreOf(t)][1] = t /\ inflight'[CoreOf(t)] = 1
    <2>1. CoreOf(t) # p /\ CoreOf(t) \in Procs /\ sub[t].msgTriggered
        BY <1>3, CoreOfIn
    <2>. QED BY <1>1, <2>1, SMTT(20) DEF IInv, OneOutstanding, Running
<1>. QED BY <1>2, <1>3 DEF OneOutstanding, Running, CoreOf

\* hitCallback with sub-events left pulls up the next one: the core, which slept
\* through the request, is scheduled and has no request any more.
LEMMA HitNextInv ==
    ASSUME IInv, NEW p \in Procs, HitNext(p)
    PROVE  IInv'
<1>. DEFINE h == Running(p)
<1>1. /\ inflight[p] > 0 /\ sub[h].left > 1 /\ Answered(p)
      /\ UNCHANGED <<file, threadMap, popped, loaded, threadStartedMap, threadMutexMap,
                     threadContMap, mutexLocks, spinLocks, threadWaitMap,
                     worker_thread_count, master, stopped>>
    BY DEF HitNext, queueVars, threadVars, lockVars
<1>2. /\ h \in Threads /\ CoreOf(h) = p /\ inflight[p] = 1 /\ core[p] = Unscheduled
      /\ popped[h] # loaded[h]
      /\ \A t \in Threads \ {h} : CoreOf(t) = p => ~sub[t].msgTriggered
    BY <1>1, HitFacts
<1>3. PICK d \in Costs :
          /\ sub' = [sub EXCEPT ![h] = Pulled(Front(h), sub[h].left - 1, d)]
          /\ Schedule(p, sub'[h].trigger)
    BY DEF HitNext
<1>4. sub[h].left - 1 \in Nat /\ sub[h].left - 1 > 0
    BY <1>1, <1>2, SMTT(20) DEF IInv, SubTypes, SubEvents
<1>. DEFINE s == Pulled(Front(h), sub[h].left - 1, d)
<1>5. s \in SubEvents /\ s.left > 0 /\ ~s.msgTriggered
    BY <1>4, PulledType
<1>6. s.trigger \in Nat
    BY <1>5 DEF SubEvents
<1>. HIDE DEF s, h
<1>7. /\ sub' \in [Threads -> SubEvents] /\ sub'[h] = s
      /\ \A t \in Threads \ {h} : sub'[t] = sub[t]
    BY <1>2, <1>3, <1>5 DEF IInv, SubTypes, s
<1>8. /\ core' = [core EXCEPT ![p] = s.trigger] /\ aborted' = FALSE
    BY <1>2, <1>3, <1>7 DEF Schedule, IInv, CoreTypes
<1>9. inflight' \in [Procs -> Nat]
    BY <1>1, SMTT(20) DEF Answered, IInv, CoreTypes
<1>10. CoreTypes'
    BY <1>1, <1>6, <1>8, <1>9 DEF IInv, CoreTypes, ThreadsOf
<1>11. SubTypes'
    BY <1>1, <1>2, <1>5, <1>7 DEF IInv, SubTypes
<1>12. OneOutstanding'
    BY <1>1, <1>2, <1>5, <1>7, <1>8, AnsweredStep DEF IInv, CoreTypes
<1>13. FlagTypes' /\ QueueInv' /\ ClockTypes'
    BY <1>1, <1>8 DEF IInv, FlagTypes, QueueInv, QueueTypes, QueueOK,
                      StoppedMeansReplayed, ClockTypes
<1>. QED BY <1>10, <1>11, <1>12, <1>13 DEF IInv

\* hitCallback for the last sub-event pops the event and may swap the head: the
\* old head was the only thread of the core with a request, so none is left.
LEMMA HitLastInv ==
    ASSUME IInv, NEW p \in Procs, HitLast(p)
    PROVE  IInv'
<1>. DEFINE h == Running(p)
            q == swapThreads(threadMap[p], Ready')
<1>1. /\ inflight[p] > 0 /\ Answered(p)
      /\ UNCHANGED <<file, threadStartedMap, threadMutexMap, threadContMap, mutexLocks,
                     spinLocks, threadWaitMap, worker_thread_count, master, stopped>>
    BY DEF HitLast, threadVars, lockVars
<1>2. /\ h \in Threads /\ CoreOf(h) = p /\ inflight[p] = 1 /\ core[p] = Unscheduled
      /\ popped[h] # loaded[h] /\ sub[h].msgTriggered
      /\ \A t \in Threads \ {h} : CoreOf(t) = p => ~sub[t].msgTriggered
    BY <1>1, HitFacts
<1>3. /\ popped' = [popped EXCEPT ![h] = @ + 1]
      /\ loaded' = [loaded EXCEPT ![h] = AfterPop(h)]
      /\ sub' = [sub EXCEPT ![h] = NoSubEvents]
      /\ threadMap' = [threadMap EXCEPT ![p] = q]
      /\ Schedule(p, 1)
    BY <1>2 DEF HitLast
<1>4. q \in Seq(ThreadsOf(p)) /\ q # << >>
    BY SwapThreadsSeq DEF IInv, CoreTypes
<1>5. q \in Seq(Threads)
    BY <1>4, SeqMonotonic DEF ThreadsOf
<1>. HIDE DEF h, q
<1>6. QueueInv'
    BY <1>1, <1>2, <1>3, PopQueueInv DEF IInv
<1>7. core' = [core EXCEPT ![p] = 1] /\ aborted' = FALSE
    BY <1>2, <1>3 DEF Schedule, IInv, CoreTypes
<1>8. inflight' \in [Procs -> Nat]
    BY <1>1, SMTT(20) DEF Answered, IInv, CoreTypes
<1>9. CoreTypes'
    <2>1. threadMap' \in [Procs -> Seq(Threads)] /\ core' \in [Procs -> Nat \cup {Unscheduled}]
        BY <1>3, <1>5, <1>7 DEF IInv, CoreTypes
    <2>2. \A r \in Procs : threadMap'[r] \in Seq(ThreadsOf(r)) /\ threadMap'[r] # << >>
        BY <1>3, <1>4 DEF IInv, CoreTypes
    <2>3. \A r : ThreadsOf(r)' = ThreadsOf(r)
        BY DEF ThreadsOf, Threads, CoreOf, num_of_mapped_processors
    <2>. QED BY <1>8, <2>1, <2>2, <2>3 DEF CoreTypes
<1>10. /\ sub' \in [Threads -> SubEvents] /\ sub'[h] = NoSubEvents
       /\ \A t \in Threads \ {h} : /\ sub'[t] = sub[t]
                                   /\ popped'[t] = popped[t] /\ loaded'[t] = loaded[t]
    BY <1>2, <1>3, NoSubEventsType DEF IInv, SubTypes, QueueInv, QueueTypes
<1>11. SubTypes'
    BY <1>10, SMTT(20) DEF IInv, SubTypes, NoSubEvents
<1>12. OneOutstanding'
    <2>1. \A t \in Threads : CoreOf(t) = p => ~sub'[t].msgTriggered
        BY <1>2, <1>10, SMTT(20) DEF NoSubEvents
    <2>2. \A r \in Procs \ {p} : threadMap'[r] = threadMap[r] /\ core'[r] = core[r]
        BY <1>3, <1>7 DEF IInv, CoreTypes
    <2>. QED BY <1>1, <1>2, <1>10, <2>1, <2>2, AnsweredStep
<1>13. FlagTypes' /\ ClockTypes'
    BY <1>1, <1>7 DEF IInv, FlagTypes, ClockTypes
<1>. QED BY <1>6, <1>9, <1>11, <1>12, <1>13 DEF IInv

(***************************************************************************)
(* The master wakeup and the clock                                         *)
(***************************************************************************)
LEMMA TickInv ==
    ASSUME IInv, Tick
    PROVE  IInv'
<1>1. /\ master > 0 /\ master' = master - 1
      /\ \A p \in Procs : core[p] # 0
      /\ core' = [p \in Procs |-> IF core[p] = Unscheduled THEN Unscheduled ELSE core[p] - 1]
      /\ sub' = [t \in Threads |-> Age(t)]
      /\ UNCHANGED <<file, threadMap, popped, loaded, threadStartedMap, threadMutexMap,
                     threadContMap, mutexLocks, spinLocks, threadWaitMap,
                     worker_thread_count, inflight, stopped, aborted>>
    BY DEF Tick, queueVars, threadVars, lockVars
<1>2. ASSUME NEW t \in Threads
      PROVE  /\ Age(t) \in SubEvents
             /\ Age(t).left = sub[t].left /\ Age(t).msgTriggered = sub[t].msgTriggered
    <2>1. sub[t] \in SubEvents
        BY DEF IInv, SubTypes
    <2>. DEFINE x == AtLeast(0, sub[t].trigger - 1)
                y == IF Front(t).type = "COMMUNICATION"
                     THEN AtMost(sub[t].waited + 1, MAX_COMM_WAIT + 1) ELSE sub[t].waited
    <2>2. x \in Nat /\ y \in Int
        BY <2>1, SizesAssumption, SMTT(20) DEF SubEvents, AtLeast, AtMost
    <2>3. Age(t) = IF sub[t].left = 0 \/ sub[t].msgTriggered THEN sub[t]
                   ELSE [sub[t] EXCEPT !.trigger = x, !.waited = y]
        BY DEF Age
    <2>. HIDE DEF x, y
    <2>. QED BY <2>1, <2>2, <2>3 DEF SubEvents
<1>3. /\ sub' \in [Threads -> SubEvents]
      /\ \A t \in Threads : /\ sub'[t].left = sub[t].left
                            /\ sub'[t].msgTriggered = sub[t].msgTriggered
    BY <1>1, <1>2
<1>4. CoreTypes'
    BY <1>1, SMTT(20) DEF IInv, CoreTypes, ThreadsOf, Unscheduled
<1>5. SubTypes'
    BY <1>1, <1>3 DEF IInv, SubTypes
<1>6. OneOutstanding'
    <2>1. \A p \in Procs : Running(p) \in Threads
        BY RunningIn DEF IInv
    <2>. QED BY <1>1, <1>3, <2>1 DEF IInv, OneOutstanding, Running
<1>7. FlagTypes' /\ QueueInv' /\ ClockTypes'
    BY <1>1, SMTT(20) DEF IInv, FlagTypes, QueueInv, QueueTypes, QueueOK, StoppedMeansReplayed, ClockTypes
<1>. QED BY <1>4, <1>5, <1>6, <1>7 DEF IInv

\* The master wakeup replenishes all queues, creates missing sub-events and
\* wakes cores that have none scheduled.
LEMMA MasterWakeupInv ==
    ASSUME IInv, MasterWakeup
    PROVE  IInv'
<1>1. /\ UNCHANGED <<file, popped, threadMap, threadStartedMap, threadMutexMap,
                     threadContMap, mutexLocks, spinLocks, threadWaitMap,
                     worker_thread_count, inflight, aborted>>
      /\ loaded' = [t \in Threads |-> ReplenishTo(t, popped[t], loaded[t])]
      /\ stopped' = (stopped \/ checkCompletion')
      /\ master' = MasterWakeupFreq
    BY DEF MasterWakeup, threadVars, lockVars
<1>. DEFINE created == {p \in Procs : Running(p) \in Runnable' /\ sub[Running(p)].left = 0}
<1>2. PICK d \in [Procs -> Costs] :
          /\ sub' = [t \in Threads |->
                        IF CoreOf(t) \in created /\ Running(CoreOf(t)) = t
                        THEN Pulled(Front(Running(CoreOf(t))),
                                    NumSubEvents(Front(Running(CoreOf(t)))), d[CoreOf(t)])
                        ELSE sub[t]]
          /\ core' = [p \in Procs |->
                         IF p \in created /\ core[p] = Unscheduled
                         THEN Pulled(Front(Running(p)),
                                     NumSubEvents(Front(Running(p))), d[p]).trigger
                         ELSE core[p]]
    BY DEF MasterWakeup
<1>3. ASSUME NEW t \in Threads
      PROVE  /\ loaded'[t] \in Nat /\ loaded[t] <= loaded'[t] /\ loaded'[t] <= Len(file[t])
             /\ loaded'[t] - popped[t] < READ_BLOCK + MIN_EVENTS_SIZE
             /\ loaded'[t] - popped[t] >= MIN_EVENTS_SIZE \/ loaded'[t] = Len(file[t])
    BY <1>1, ReplenishToBounds DEF IInv, QueueInv, QueueTypes, QueueOK
<1>4. loaded' \in [Threads -> Nat]
    BY <1>1, <1>3
<1>5. stopped' \in BOOLEAN
    BY <1>1 DEF IInv, QueueInv, QueueTypes, checkCompletion
<1>6. QueueTypes' /\ QueueOK'
    <2>1. \A t \in Threads : popped[t] <= loaded'[t]
        BY <1>3, SMTT(20) DEF IInv, QueueInv, QueueTypes
    <2>. QED BY <1>1, <1>3, <1>4, <1>5, <2>1 DEF IInv, QueueInv, QueueTypes, QueueOK
<1>7. StoppedMeansReplayed'
    <2>1. CASE stopped
        BY <1>1, <2>1 DEF IInv, QueueInv, StoppedMeansReplayed
    <2>2. CASE ~stopped
        <3>. SUFFICES ASSUME checkCompletion', NEW t \in Threads
                      PROVE  popped[t] = Len(file[t])
            BY <1>1, <2>2 DEF StoppedMeansReplayed
        <3>1. popped[t] = loaded'[t]
            BY <1>1 DEF checkCompletion, NonEmpty, Empty
        <3>. QED BY <1>3, <3>1, SizesAssumption, SMTT(20) DEF IInv, QueueInv, QueueTypes
    <2>. QED BY <2>1, <2>2 DEF IInv, QueueInv, QueueTypes
<1>8. ASSUME NEW p \in created
      PROVE  LET s == Pulled(Front(Running(p)), NumSubEvents(Front(Running(p))), d[p])
             IN  s \in SubEvents /\ s.left > 0 /\ ~s.msgTriggered /\ s.trigger \in Nat
    <2>1. p \in Procs /\ Running(p) \in Threads
        BY RunningIn DEF IInv
    <2>2. popped[Running(p)] # loaded'[Running(p)]
        BY <1>1 DEF Runnable, NonEmpty, Empty
    <2>3. /\ file \in Programs /\ popped[Running(p)] \in Nat
          /\ popped[Running(p)] < Len(file[Running(p)])
        BY <1>3, <2>1, <2>2, FileTypes, SMTT(20) DEF IInv, QueueInv, QueueTypes
    <2>. DEFINE e == Front(Running(p))
    <2>4. NumSubEvents(e) \in Nat \ {0}
        BY <2>1, <2>3, EventInFile DEF Front
    <2>5. d[p] \in Costs
        BY <2>1
    <2>. HIDE DEF e
    <2>6. /\ Pulled(e, NumSubEvents(e), d[p]) \in SubEvents
          /\ Pulled(e, NumSubEvents(e), d[p]).left > 0
          /\ ~Pulled(e, NumSubEvents(e), d[p]).msgTriggered
        BY <2>4, <2>5, PulledType, SMTT(20)
    <2>. QED BY <2>6 DEF e, SubEvents
<1>9. ASSUME NEW t \in Threads
      PROVE  \/ sub'[t] = sub[t]
             \/ /\ CoreOf(t) \in created /\ Running(CoreOf(t)) = t
                /\ sub'[t] \in SubEvents /\ sub'[t].left > 0 /\ ~sub'[t].msgTriggered
    BY <1>2, <1>8
<1>10. sub' \in [Threads -> SubEvents]
    <2>1. \A t \in Threads : sub'[t] \in SubEvents
        BY <1>9 DEF IInv, SubTypes
    <2>. QED BY <1>2, <2>1
<1>11. \A t \in Threads : ~sub'[t].msgTriggered \/ sub'[t] = sub[t]
    BY <1>9
<1>12. SubTypes'
    <2>. SUFFICES ASSUME NEW t \in Threads
                  PROVE  /\ sub'[t].msgTriggered => sub'[t].left > 0
                         /\ sub'[t].left > 0 => popped'[t] # loaded'[t]
        BY <1>10 DEF SubTypes
    <2>1. CASE sub'[t] = sub[t]
        BY <1>1, <1>3, <2>1, SMTT(20) DEF IInv, SubTypes, QueueInv, QueueTypes
    <2>2. CASE /\ CoreOf(t) \in created /\ Running(CoreOf(t)) = t
               /\ sub'[t].left > 0 /\ ~sub'[t].msgTriggered
        BY <1>1, <2>2 DEF Runnable, NonEmpty, Empty
    <2>. QED BY <1>9, <2>1, <2>2
<1>13. core' \in [Procs -> Nat \cup {Unscheduled}]
    <2>1. \A p \in Procs : core'[p] \in Nat \cup {Unscheduled}
        BY <1>2, <1>8 DEF IInv, CoreTypes
    <2>. QED BY <1>2, <2>1
<1>14. CoreTypes'
    BY <1>1, <1>13 DEF IInv, CoreTypes, ThreadsOf
<1>15. OneOutstanding'
    <2>1. ASSUME NEW p \in Procs, inflight[p] # 0
          PROVE  /\ inflight[p] = 1 /\ core'[p] = Unscheduled
                 /\ sub'[Running(p)].msgTriggered
        <3>1. /\ inflight[p] = 1 /\ core[p] = Unscheduled /\ sub[Running(p)].msgTriggered
              /\ Running(p) \in Threads /\ CoreOf(Running(p)) = p
            BY <2>1, RunningIn DEF IInv, OneOutstanding
        <3>2. p \notin created
            BY <3>1, SMTT(20) DEF IInv, SubTypes
        <3>. QED BY <1>2, <3>1, <3>2
    <2>2. ASSUME NEW t \in Threads, sub'[t].msgTriggered
          PROVE  Running(CoreOf(t)) = t /\ inflight[CoreOf(t)] = 1
        BY <1>11, <2>2 DEF IInv, OneOutstanding
    <2>. QED BY <1>1, <2>1, <2>2 DEF OneOutstanding, Running
<1>16. FlagTypes' /\ ClockTypes'
    BY <1>1, SizesAssumption DEF IInv, FlagTypes, ClockTypes
<1>. QED BY <1>6, <1>7, <1>12, <1>14, <1>15, <1>16 DEF IInv, QueueInv

(***************************************************************************)
(* The initial state                                                       *)
(***************************************************************************)
\* initialThreadMapping deals every thread to core CoreOf of it.
LEMMA InitialMapping ==
    ASSUME NEW p \in Procs
    PROVE  /\ initialThreadMapping[p] \in Seq(ThreadsOf(p))
           /\ initialThreadMapping[p] # << >>
<1>. DEFINE n == num_of_mapped_processors
            len == ((NumThreads - 1 - p) \div n) + 1
            q == [k \in 1 .. len |-> p + (k - 1) * n]
<1>1. /\ n \in Nat \ {0} /\ NumThreads \in Nat \ {0} /\ n <= NumThreads
      /\ p \in Nat /\ p < n
    BY ProcsPositive, SMTT(20) DEF Procs
<1>. HIDE DEF n
<1>2. /\ (NumThreads - 1 - p) \div n \in Nat
      /\ n * ((NumThreads - 1 - p) \div n) <= NumThreads - 1 - p
    BY <1>1, SMTT(20)
<1>3. len \in Nat \ {0}
    BY <1>2, SMTT(20)
<1>4. ASSUME NEW k \in 1 .. len
      PROVE  p + (k - 1) * n \in ThreadsOf(p)
    <2>1. k - 1 \in Nat /\ k - 1 <= (NumThreads - 1 - p) \div n
        BY <1>2, <1>4, SMTT(20)
    <2>. DEFINE j == k - 1
                D == (NumThreads - 1 - p) \div n
    <2>2. j * n <= D * n /\ j * n \in Nat
        <3>. HIDE DEF j, D
        <3>. QED BY <1>1, <1>2, <2>1, SMTT(20) DEF j, D
    <2>3. p + j * n \in Nat /\ p + j * n <= NumThreads - 1
        BY <1>1, <1>2, <2>2, SMTT(20)
    <2>4. (p + j * n) % n = p
        <3>. HIDE DEF j
        <3>. QED BY <1>1, <2>1, SMTT(20) DEF j
    <2>. QED BY <1>1, <2>3, <2>4, SMTT(20) DEF ThreadsOf, Threads, CoreOf, n
<1>5. q \in [1 .. len -> ThreadsOf(p)]
    BY <1>4
<1>6. q \in Seq(ThreadsOf(p)) /\ Len(q) = len
    <2>. HIDE DEF len, q
    <2>1. q \in Seq(ThreadsOf(p))
        BY <1>3, <1>5, SeqDef
    <2>. QED BY <1>3, <1>5, <2>1, LenProperties, SMTT(20)
<1>7. initialThreadMapping[p] = q
    BY DEF initialThreadMapping, n
<1>. HIDE DEF q, len
<1>. QED BY <1>3, <1>6, <1>7, EmptySeq

\* init() establishes the invariant: the first block of every file is read, the
\* threads are dealt out, and no core is scheduled.
LEMMA InitInv == Init => IInv
<1>. SUFFICES ASSUME Init PROVE IInv
    OBVIOUS
<1>1. FlagTypes
    BY SMTT(20) DEF Init, FlagTypes
<1>2. ASSUME NEW t \in Threads
      PROVE  /\ loaded[t] \in Nat /\ loaded[t] <= Len(file[t])
             /\ loaded[t] < READ_BLOCK + MIN_EVENTS_SIZE
             /\ loaded[t] >= MIN_EVENTS_SIZE \/ loaded[t] = Len(file[t])
    <2>1. file \in Programs /\ loaded[t] = AtMost(0 + READ_BLOCK, Len(file[t]))
        BY DEF Init, ReadEventFile
    <2>2. Len(file[t]) \in Nat
        BY <2>1, FileTypes
    <2>. QED BY <2>1, <2>2, SizesAssumption, SMTT(20) DEF AtMost
<1>3. QueueTypes
    <2>1. loaded \in [Threads -> Nat] /\ popped \in [Threads -> Nat]
        BY <1>2 DEF Init
    <2>2. \A t \in Threads : popped[t] <= loaded[t] /\ loaded[t] <= Len(file[t])
        BY <1>2, SMTT(20) DEF Init
    <2>3. file \in Programs /\ stopped \in BOOLEAN
        BY DEF Init
    <2>. QED BY <2>1, <2>2, <2>3 DEF QueueTypes
<1>4. QueueOK
    BY <1>2, SMTT(20) DEF Init, QueueOK
<1>5. StoppedMeansReplayed /\ ClockTypes
    BY DEF Init, StoppedMeansReplayed, ClockTypes
<1>6. SubTypes
    BY NoSubEventsType, SMTT(20) DEF Init, SubTypes, NoSubEvents
<1>7. CoreTypes
    <2>1. \A p \in Procs : threadMap[p] \in Seq(ThreadsOf(p)) /\ threadMap[p] # << >>
        BY InitialMapping DEF Init
    <2>2. ASSUME NEW p \in Procs PROVE threadMap[p] \in Seq(Threads)
        <3>1. ThreadsOf(p) \subseteq Threads
            BY DEF ThreadsOf
        <3>. QED BY <2>1, <3>1, SeqMonotonic
    <2>3. threadMap \in [Procs -> Seq(Threads)]
        BY <2>2 DEF Init, initialThreadMapping
    <2>. QED BY <2>1, <2>3 DEF Init, CoreTypes
<1>8. OneOutstanding
    BY DEF Init, OneOutstanding, NoSubEvents
<1>. QED BY <1>1, <1>3, <1>4, <1>5, <1>6, <1>7, <1>8 DEF IInv, QueueInv

\* Every step keeps the invariant.
LEMMA NextInv == IInv /\ [Next]_vars => IInv'
<1>. SUFFICES ASSUME IInv, [Next]_vars PROVE IInv'
    OBVIOUS
<1>1. CASE MasterWakeup
    BY <1>1, MasterWakeupInv
<1>2. CASE \E p \in Procs : CoreWakeup(p) \/ hitCallback(p)
    BY <1>2, CoreWakeupInv, HitNextInv, HitLastInv DEF hitCallback
<1>3. CASE Tick
    BY <1>3, TickInv
<1>4. CASE UNCHANGED vars
    BY <1>4 DEF vars, IInv, FlagTypes, QueueInv, QueueTypes, QueueOK, StoppedMeansReplayed,
                SubTypes, CoreTypes, ClockTypes, OneOutstanding, Running, ThreadsOf
<1>. QED BY <1>1, <1>2, <1>3, <1>4 DEF Next, Step, Terminated

\* The invariant holds in every state of a replay.
LEMMA Invariance == Spec => []IInv
BY InitInv, NextInv, PTL DEF Spec

(***************************************************************************)
(* Theorems                                                                *)
(***************************************************************************)
\* Type correctness: every table of the engine keeps its type, every core keeps
\* a thread to run, and no queue runs past the end of its file.
THEOREM TypeCorrect == Spec => []TypeOK
BY Invariance, IInvTypeOK, PTL

\* replenishEvents never overflows the READ_BLOCK + MIN_EVENTS_SIZE slots of a
\* queue, and lets it run short only at the end of its file.
THEOREM QueuesCorrect == Spec => []QueueOK
<1>1. IInv => QueueOK
    BY DEF IInv, QueueInv
<1>. QED BY <1>1, Invariance, PTL

\* checkCompletion ends the simulation only when all traces were replayed.
THEOREM StopsWhenReplayed == Spec => []StoppedMeansReplayed
<1>1. IInv => StoppedMeansReplayed
    BY DEF IInv, QueueInv
<1>. QED BY <1>1, Invariance, PTL

\* A core has at most one request in Ruby, it is the running thread's, and the
\* core sleeps meanwhile: hitCallback never schedules a scheduled core.
THEOREM OneRequestPerCore == Spec => []OneOutstanding
<1>1. IInv => OneOutstanding
    BY DEF IInv
<1>. QED BY <1>1, Invariance, PTL
=============================================================================
