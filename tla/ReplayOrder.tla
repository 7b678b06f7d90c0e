----------------------------- MODULE ReplayOrder -----------------------------
(***************************************************************************)
(* What a replay promises about the recorded synchronisation, whatever the *)
(* cores, the scheduler and the memory system do: the threads' events are  *)
(* completed one at a time, in an order that the traces allow.  The only   *)
(* state is how far each thread is; who holds a lock, who has been created *)
(* and how often a barrier was passed follow from it.                      *)
(***************************************************************************)
EXTENDS Integers, FiniteSets, Sequences

CONSTANTS Threads, Addrs, OS, Programs, AddresstoIdMap, BarrierMap

VARIABLES file, done

vars == <<file, done>>

Is(e, kind) == e.type = "PTHREAD_API" /\ e.pth = kind

Finished(t) == done[t] = Len(file[t])

Current(t) == file[t][done[t] + 1]

\* t has completed the event kind of a, and no later event undo of a.
Inside(t, a, kind, undo) ==
    \E i \in 1 .. done[t] :
        /\ Is(file[t][i], kind) /\ file[t][i].addr = a
        /\ \A j \in (i + 1) .. done[t] : ~(Is(file[t][j], undo) /\ file[t][j].addr = a)

\* The last mutex event that t completed was a lock.
InCriticalSection(t) ==
    \E i \in 1 .. done[t] :
        /\ Is(file[t][i], "P_MUTEX_LK")
        /\ \A j \in (i + 1) .. done[t] : ~Is(file[t][j], "P_MUTEX_ULK")

Created(t) ==
    t = 0 \/ \E u \in Threads : \E i \in 1 .. done[u] :
                 Is(file[u][i], "P_CREATE") /\ AddresstoIdMap[file[u][i].addr] = t

Rounds(t, b) ==
    Cardinality({i \in 1 .. done[t] : Is(file[t][i], "P_BARRIER_WT") /\ file[t][i].addr = b})

\* u stands at b, in the round of t, or has gone on.
Arrived(u, t, b) ==
    \/ Rounds(u, b) > Rounds(t, b)
    \/ /\ Rounds(u, b) = Rounds(t, b) /\ ~Finished(u)
       /\ Is(Current(u), "P_BARRIER_WT") /\ Current(u).addr = b

\* What the recorded order asks for before t completes its current event.
MayComplete(t) ==
    LET e == Current(t)
        free(kind, undo) == \A u \in Threads : ~Inside(u, e.addr, kind, undo)
    IN  /\ Created(t)
        /\ e.type = "COMMUNICATION" /\ ~InCriticalSection(t) =>
               \A k \in 1 .. Len(e.deps) :
                   \/ e.deps[k].thread = OS
                   \/ done[e.deps[k].thread] >= e.deps[k].event
                   \/ Finished(e.deps[k].thread)
        /\ Is(e, "P_MUTEX_LK") => free("P_MUTEX_LK", "P_MUTEX_ULK")
        /\ Is(e, "P_SPIN_LK") => free("P_SPIN_LK", "P_SPIN_ULK")
        /\ Is(e, "P_JOIN") => Finished(AddresstoIdMap[e.addr])
        /\ Is(e, "P_BARRIER_WT") => \A u \in BarrierMap[e.addr] : Arrived(u, t, e.addr)

Init ==
    /\ file \in Programs
    /\ done = [t \in Threads |-> 0]

Complete(t) ==
    /\ ~Finished(t)
    /\ MayComplete(t)
    /\ done' = [done EXCEPT ![t] = @ + 1]
    /\ UNCHANGED file

Next == \E t \in Threads : Complete(t)

Spec == Init /\ [][Next]_vars
=============================================================================
