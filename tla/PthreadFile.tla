----------------------------- MODULE PthreadFile -----------------------------
(***************************************************************************)
(* What SynchroTrace::processPthreadFile makes of sigil.pthread.out: the   *)
(* thread behind the address of a create, from lines of two number signs,  *)
(* an address and a thread, and the threads of a barrier, from lines of    *)
(* two stars, an address and a list of threads, each with a comma after    *)
(* it.  The file numbers threads from 1, the engine from 0.                *)
(*                                                                         *)
(* A line is a record: whether a # is in it, its first field, the numbers  *)
(* that follow, and whether the last of them is followed by a comma.       *)
(***************************************************************************)
EXTENDS Integers, Sequences, TLC

LOCAL INSTANCE SequencesExt

ThreadLine(a, id) == [hash |-> TRUE, addr |-> a, ids |-> <<id>>, comma |-> FALSE]

BarrierLine(a, ids, comma) == [hash |-> FALSE, addr |-> a, ids |-> ids, comma |-> comma]

EmptyMap == << >>

NoMaps == [AddresstoIdMap |-> EmptyMap, BarrierMap |-> EmptyMap, threadWaitMap |-> EmptyMap]

\* map[key] = value
Put(map, key, value) == (key :> value) @@ map

processAddressToID(maps, line) ==
    [maps EXCEPT !.AddresstoIdMap = Put(@, line.addr, line.ids[1] - 1)]

\* The loop over the commas: a number counts if a comma follows it.
ListedIds(line) ==
    {line.ids[i] - 1 : i \in {j \in 1 .. Len(line.ids) : j < Len(line.ids) \/ line.comma}}

processBarrierEvent(maps, line) ==
    [maps EXCEPT !.BarrierMap = Put(@, line.addr, ListedIds(line)),
                 !.threadWaitMap = Put(@, line.addr, {})]

\* A line without # is taken for a barrier, whatever is in it.
processLine(maps, line) ==
    IF line.hash THEN processAddressToID(maps, line) ELSE processBarrierEvent(maps, line)

processPthreadFile(lines) == FoldLeft(processLine, NoMaps, lines)

\* AddresstoIdMap[a] and BarrierMap[a], which insert a zero or an empty set for
\* an address that the file does not list.
IdOf(maps, a) ==
    IF a \in DOMAIN maps.AddresstoIdMap THEN maps.AddresstoIdMap[a] ELSE 0

ParticipantsOf(maps, a) ==
    IF a \in DOMAIN maps.BarrierMap THEN maps.BarrierMap[a] ELSE {}
=============================================================================
