--------------------------- MODULE RubyPortProofs ---------------------------
(***************************************************************************)
(* Proofs about RubyPort, for any ports, lines, packets, limit and         *)
(* threshold.  SendRetries is a loop over the retry list, so its effect is *)
(* established by induction on the position, as an argument about the      *)
(* least position at which it would fail (LeastNat).                       *)
(***************************************************************************)
EXTENDS RubyPort, FiniteSetTheorems, WellFoundedInduction, TLAPS

\* First-order leaves go to Zenon, the others name their solver.
USE Zenon

\* A non-empty set of natural numbers has a least element.
LEMMA LeastNat ==
  ASSUME NEW T \in SUBSET Nat, T # {}
  PROVE  \E x \in T : \A y \in T : x <= y
<1>. DEFINE R == {ss \in Nat \X Nat : ss[1] < ss[2]}
<1>1. IsWellFoundedOn(R, Nat)
  BY NatLessThanWellFounded DEF OpToRel
<1>2. PICK x \in T : \A y \in T : ~(<<y, x>> \in R)
  <2>. HIDE DEF R
  <2>. QED BY <1>1, WFMin
<1>3. ASSUME NEW y \in T PROVE x <= y
  <2>1. y < x => <<y, x>> \in R
    OBVIOUS
  <2>2. x \in Nat /\ y \in Nat
    OBVIOUS
  <2>. HIDE DEF R
  <2>. QED BY <1>2, <2>1, <2>2, SMTT(20)
<1>. QED BY <1>3

-----------------------------------------------------------------------------
\* The packets of the masters, whatever the port.
AnyPacket == [line : Lines, type : {"LD", "ST"}]

Requests == [line : Lines, port : Ports, age : 0 .. 2 * deadlock_threshold]

\* The packet that each port's master waits to send again.
Refusals ==
  {f \in [Ports -> AnyPacket \cup {NoPkt}] : \A p \in Ports : f[p] \in Packets[p] \cup {NoPkt}}

\* The entry that insertRequest makes.
NewRequest(p, pkt) == [line |-> pkt.line, port |-> p, age |-> 0]

States ==
  [read : SUBSET Requests, write : SUBSET Requests, outstanding : Nat,
   check : Off .. deadlock_threshold, retryList : Seq(Ports),
   refused : Refusals]

\* The tables of TablesAgree, of a state s of the sequencer.
Tables(s) ==
  /\ IsFiniteSet(s.read) /\ IsFiniteSet(s.write)
  /\ s.outstanding = Cardinality(s.read) + Cardinality(s.write)
  /\ s.outstanding <= max_outstanding_requests
  /\ \A r1, r2 \in Outstanding(s) : r1.line = r2.line => r1 = r2
  /\ s.read \cap s.write = {}

\* p is on the retry list.
Listed(s, p) == \E i \in 1 .. Len(s.retryList) : s.retryList[i] = p

\* The retry list while the ports in W are still to be told to retry: it has every
\* other refused port, once, and there is a request to wait for.
Waits(s, W) ==
  /\ \A i, j \in 1 .. Len(s.retryList) : s.retryList[i] = s.retryList[j] => i = j
  /\ \A p \in Ports : Listed(s, p) <=> s.refused[p] # NoPkt /\ p \notin W
  /\ \A p \in W : s.refused[p] # NoPkt
  /\ s.retryList # <<>> => Outstanding(s) # {}

\* The check comes before a request grows as old as two thresholds.
Timed(s) ==
  \A r \in Outstanding(s) : s.check # Off /\ r.age + s.check < 2 * deadlock_threshold

SqInv(s, W) == s \in States /\ Tables(s) /\ Waits(s, W)

-----------------------------------------------------------------------------
\* The limits of the sequencer are positive.
LEMMA Parameters ==
  /\ max_outstanding_requests \in Nat /\ max_outstanding_requests > 0
  /\ deadlock_threshold \in Nat /\ deadlock_threshold > 0
BY ParametersAssumption, SMTT(20)

\* One port's packet is refused or sent.
LEMMA RefusalsExcept ==
  ASSUME NEW f \in Refusals, NEW p \in Ports, NEW x \in Packets[p] \cup {NoPkt}
  PROVE  [f EXCEPT ![p] = x] \in Refusals
<1>1. x \in AnyPacket \cup {NoPkt}
  BY ParametersAssumption DEF AnyPacket
<1>. QED BY <1>1 DEF Refusals

\* The packets that the ports send have the form of a packet.
LEMMA PacketsAreAny == \A p \in Ports : Packets[p] \subseteq AnyPacket
BY ParametersAssumption DEF AnyPacket

\* A table has as many requests as its count, so a full one is not empty.
LEMMA CountZero ==
  ASSUME NEW s \in States, Tables(s)
  PROVE  s.outstanding = 0 <=> Outstanding(s) = {}
<1>1. Cardinality(s.read) \in Nat /\ Cardinality(s.write) \in Nat
  BY FS_CardinalityType DEF Tables
<1>2. (Cardinality(s.read) = 0 <=> s.read = {}) /\ (Cardinality(s.write) = 0 <=> s.write = {})
  BY FS_EmptySet DEF Tables
<1>3. \A m, n \in Nat : m + n = 0 <=> m = 0 /\ n = 0
  BY SMTT(20)
<1>4. s.outstanding = Cardinality(s.read) + Cardinality(s.write)
  BY DEF Tables
<1>5. s.outstanding = 0 <=> s.read = {} /\ s.write = {}
  BY <1>1, <1>2, <1>3, <1>4, SMTT(20)
<1>. QED BY <1>5 DEF Outstanding

\* A refusal: the port joins the list, unless it is on it.
LEMMA RefuseInv ==
  ASSUME NEW s, NEW W, SqInv(s, W), NEW p \in Ports, ~Listed(s, p),
         NEW pkt \in Packets[p], Outstanding(s) # {}
  PROVE  /\ SqInv(addToRetryList(s, p, pkt), W \ {p})
         /\ addToRetryList(s, p, pkt) = [s EXCEPT !.refused[p] = pkt, !.retryList = Append(@, p)]
<1>. DEFINE t == [s EXCEPT !.refused[p] = pkt, !.retryList = Append(@, p)]
<1>1. addToRetryList(s, p, pkt) = t
  BY DEF addToRetryList, Listed, SqInv, States
<1>2. /\ s \in States /\ s.retryList \in Seq(Ports) /\ Len(s.retryList) \in Nat
      /\ t.read = s.read /\ t.write = s.write /\ t.outstanding = s.outstanding
      /\ t.check = s.check /\ t.retryList = Append(s.retryList, p)
      /\ t.refused = [s.refused EXCEPT ![p] = pkt]
  BY SMTT(20) DEF SqInv, States
<1>3. t \in States
  <2>1. Append(s.retryList, p) \in Seq(Ports)
    BY <1>2, SMTT(20)
  <2>2. [s.refused EXCEPT ![p] = pkt] \in Refusals
    BY <1>2, RefusalsExcept DEF States
  <2>. QED BY <1>2, <2>1, <2>2 DEF States
<1>4. Outstanding(t) = Outstanding(s)
  BY <1>2 DEF Outstanding
<1>5. Tables(t)
  BY <1>2, <1>4 DEF SqInv, Tables
<1>6. pkt # NoPkt
  BY ParametersAssumption, PacketsAreAny DEF AnyPacket
<1>7. \A q : Listed(t, q) <=> Listed(s, q) \/ q = p
  <2>1. Len(t.retryList) = Len(s.retryList) + 1
    BY <1>2, SMTT(20)
  <2>2. \A i \in 1 .. Len(s.retryList) + 1 : t.retryList[i] = IF i = Len(s.retryList) + 1 THEN p ELSE s.retryList[i]
    BY <1>2, SMTT(20)
  <2>3. PICK n \in Nat : n = Len(s.retryList)
    BY <1>2
  <2>. HIDE DEF t
  <2>4. ASSUME NEW q, Listed(t, q) PROVE Listed(s, q) \/ q = p
    <3>1. PICK i \in 1 .. n + 1 : t.retryList[i] = q
      BY <2>1, <2>3, <2>4 DEF Listed
    <3>2. i = n + 1 \/ i \in 1 .. n
      BY SMTT(20)
    <3>. QED BY <2>2, <2>3, <3>1, <3>2 DEF Listed
  <2>5. ASSUME NEW q, Listed(s, q) PROVE Listed(t, q)
    <3>1. PICK i \in 1 .. n : s.retryList[i] = q
      BY <2>3, <2>5 DEF Listed
    <3>2. i \in 1 .. n + 1 /\ i # n + 1
      BY SMTT(20)
    <3>. QED BY <2>1, <2>2, <2>3, <3>1, <3>2 DEF Listed
  <2>6. Listed(t, p)
    <3>1. n + 1 \in 1 .. n + 1
      BY SMTT(20)
    <3>. QED BY <2>1, <2>2, <2>3, <3>1 DEF Listed
  <2>. QED BY <2>4, <2>5, <2>6
<1>8. \A i, j \in 1 .. Len(t.retryList) : t.retryList[i] = t.retryList[j] => i = j
  BY <1>2, SMTT(20) DEF SqInv, Waits, Listed
<1>9. \A q \in Ports : t.refused[q] = IF q = p THEN pkt ELSE s.refused[q]
  BY <1>2 DEF States, Refusals
<1>10. Waits(t, W \ {p})
  BY <1>4, <1>6, <1>7, <1>8, <1>9, SMTT(20) DEF SqInv, Waits
<1>. QED BY <1>1, <1>3, <1>5, <1>10 DEF SqInv

\* An accepted request: its line was free, so the tables stay disjoint.
LEMMA IssueInv ==
  ASSUME NEW s, NEW W, SqInv(s, W), NEW p \in Ports, ~Listed(s, p),
         NEW pkt \in Packets[p],
         s.outstanding < max_outstanding_requests, ~Aliased(s, pkt.line)
  PROVE  /\ SqInv(Issue(s, p, pkt), W \ {p})
         /\ Issue(s, p, pkt).check = s.check
         /\ Outstanding(Issue(s, p, pkt)) = Outstanding(s) \cup {NewRequest(p, pkt)}
<1>. DEFINE r == NewRequest(p, pkt)
            t == Issue(s, p, pkt)
<1>1. /\ s \in States /\ r \in Requests /\ r.line = pkt.line
      /\ s.read \in SUBSET Requests /\ s.write \in SUBSET Requests
      /\ s.outstanding \in Nat /\ s.retryList \in Seq(Ports)
      /\ s.refused \in Refusals /\ s.refused \in [Ports -> AnyPacket \cup {NoPkt}]
      /\ Tables(s) /\ Waits(s, W)
  BY PacketsAreAny, Parameters, SMTT(20) DEF SqInv, States, Requests, AnyPacket, NewRequest, Refusals
<1>2. /\ t.read = IF pkt.type = "ST" THEN s.read ELSE s.read \cup {r}
      /\ t.write = IF pkt.type = "ST" THEN s.write \cup {r} ELSE s.write
      /\ t.outstanding = s.outstanding + 1
      /\ t.check = s.check /\ t.retryList = s.retryList
      /\ t.refused = [s.refused EXCEPT ![p] = NoPkt]
  BY <1>1 DEF Issue, States, NewRequest
<1>3. t \in States
  <2>1. t = [read |-> t.read, write |-> t.write, outstanding |-> t.outstanding,
             check |-> t.check, retryList |-> t.retryList, refused |-> t.refused]
    BY <1>1 DEF Issue, States, NewRequest
  <2>2. t.refused \in Refusals
    <3>1. [s.refused EXCEPT ![p] = NoPkt] \in Refusals
      BY <1>1, RefusalsExcept
    <3>. QED BY <1>2, <3>1
  <2>3. t.read \in SUBSET Requests /\ t.write \in SUBSET Requests
    BY <1>1, <1>2
  <2>4. t.outstanding \in Nat /\ t.retryList \in Seq(Ports) /\ t.check \in Off .. deadlock_threshold
    BY <1>1, <1>2, SMTT(20) DEF States
  <2>. HIDE DEF t
  <2>. QED BY <2>1, <2>2, <2>3, <2>4 DEF States
<1>. HIDE DEF t, r
<1>4. Outstanding(t) = Outstanding(s) \cup {r}
  BY <1>2 DEF Outstanding
<1>5. r \notin Outstanding(s) /\ \A u \in Outstanding(s) : u.line # r.line
  BY <1>1 DEF Aliased
<1>6. Tables(t)
  <2>1. /\ IsFiniteSet(s.read) /\ IsFiniteSet(s.write)
        /\ Cardinality(s.read) \in Nat /\ Cardinality(s.write) \in Nat
        /\ s.outstanding = Cardinality(s.read) + Cardinality(s.write)
    BY <1>1, FS_CardinalityType DEF Tables
  <2>2. r \notin s.read /\ r \notin s.write
    BY <1>5 DEF Outstanding
  <2>3. /\ IsFiniteSet(s.read \cup {r}) /\ IsFiniteSet(s.write \cup {r})
        /\ Cardinality(s.read \cup {r}) = Cardinality(s.read) + 1
        /\ Cardinality(s.write \cup {r}) = Cardinality(s.write) + 1
    BY <2>1, <2>2, FS_AddElement
  <2>4. /\ IsFiniteSet(t.read) /\ IsFiniteSet(t.write)
        /\ t.outstanding = Cardinality(t.read) + Cardinality(t.write)
    BY <1>2, <2>1, <2>3, SMTT(20)
  <2>5. t.outstanding <= max_outstanding_requests
    BY <1>1, <1>2, Parameters, SMTT(20)
  <2>6. \A u, v \in Outstanding(t) : u.line = v.line => u = v
    BY <1>1, <1>4, <1>5 DEF Tables
  <2>7. t.read \cap t.write = {}
    BY <1>1, <1>2, <2>2 DEF Tables
  <2>. QED BY <2>4, <2>5, <2>6, <2>7 DEF Tables
<1>7. Waits(t, W \ {p})
  <2>1. \A q : Listed(t, q) <=> Listed(s, q)
    BY <1>2 DEF Listed
  <2>2. \A q \in Ports : t.refused[q] = IF q = p THEN NoPkt ELSE s.refused[q]
    BY <1>1, <1>2
  <2>3. \A q \in W : q \in W \ {p} => t.refused[q] # NoPkt
    BY <1>1, <1>2, SMTT(20) DEF Waits
  <2>. QED BY <1>1, <1>2, <1>4, <2>1, <2>2, <2>3 DEF Waits
<1>. QED BY <1>2, <1>3, <1>4, <1>6, <1>7 DEF SqInv, r, t

\* What the attempt to send a packet does, first or repeated: the invariant of the
\* sequencer holds with the port off the list of those still to retry.
LEMMA MakeRequestInv ==
  ASSUME NEW s, NEW W \in SUBSET Ports, SqInv(s, W), NEW p \in Ports, ~Listed(s, p),
         NEW pkt \in Packets[p]
  PROVE  /\ SqInv(makeRequest(s, p, pkt), W \ {p})
         /\ Timed(s) => Timed(makeRequest(s, p, pkt))
<1>. DEFINE u == ScheduleCheck(s)
<1>1. /\ s \in States /\ s.outstanding \in Nat /\ s.check \in Off .. deadlock_threshold
      /\ s.refused \in Refusals /\ s.refused \in [Ports -> AnyPacket \cup {NoPkt}]
      /\ s.read \in SUBSET Requests /\ s.write \in SUBSET Requests
  BY DEF SqInv, States, Refusals
<1>2. /\ u.read = s.read /\ u.write = s.write /\ u.outstanding = s.outstanding
      /\ u.retryList = s.retryList /\ u.refused = s.refused
      /\ u.check = IF s.check = Off THEN deadlock_threshold ELSE s.check
      /\ u \in States
  BY <1>1, Parameters, SMTT(20) DEF ScheduleCheck, States, Off
<1>. HIDE DEF u
<1>3. Outstanding(u) = Outstanding(s) /\ (\A q : Listed(u, q) <=> Listed(s, q))
  BY <1>2 DEF Outstanding, Listed
<1>4. SqInv(u, W)
  BY <1>2, <1>3 DEF SqInv, Tables, Waits
<1>5. Timed(s) => Timed(u)
  BY <1>2, <1>3 DEF Timed
<1>6. CASE s.outstanding >= max_outstanding_requests
  <2>1. Outstanding(s) # {}
    BY <1>1, <1>6, CountZero, Parameters, SMTT(20) DEF SqInv
  <2>2. makeRequest(s, p, pkt) = addToRetryList(s, p, pkt)
    BY <1>6 DEF makeRequest
  <2>3. /\ SqInv(addToRetryList(s, p, pkt), W \ {p})
        /\ addToRetryList(s, p, pkt) = [s EXCEPT !.refused[p] = pkt, !.retryList = Append(@, p)]
    BY <2>1, RefuseInv
  <2>4. Timed(s) => Timed(addToRetryList(s, p, pkt))
    BY <1>1, <2>3 DEF Timed, Outstanding, States
  <2>. QED BY <2>2, <2>3, <2>4
<1>7. CASE s.outstanding < max_outstanding_requests /\ Aliased(u, pkt.line)
  <2>1. Outstanding(u) # {}
    BY <1>7 DEF Aliased
  <2>2. makeRequest(s, p, pkt) = addToRetryList(u, p, pkt)
    BY <1>1, <1>7, Parameters, SMTT(20) DEF makeRequest, u
  <2>3. /\ SqInv(addToRetryList(u, p, pkt), W \ {p})
        /\ addToRetryList(u, p, pkt) = [u EXCEPT !.refused[p] = pkt, !.retryList = Append(@, p)]
    BY <1>3, <1>4, <2>1, RefuseInv
  <2>4. Timed(u) => Timed(addToRetryList(u, p, pkt))
    BY <1>2, <2>3 DEF Timed, Outstanding, States
  <2>. QED BY <1>5, <2>2, <2>3, <2>4
<1>8. CASE s.outstanding < max_outstanding_requests /\ ~Aliased(u, pkt.line)
  <2>1. makeRequest(s, p, pkt) = Issue(u, p, pkt)
    BY <1>1, <1>8, Parameters, SMTT(20) DEF makeRequest, u
  <2>2. /\ SqInv(Issue(u, p, pkt), W \ {p})
        /\ Issue(u, p, pkt).check = u.check
        /\ Outstanding(Issue(u, p, pkt)) = Outstanding(u) \cup {NewRequest(p, pkt)}
    <3>1. ~Listed(u, p) /\ u.outstanding < max_outstanding_requests /\ ~Aliased(u, pkt.line)
      BY <1>2, <1>3, <1>8
    <3>. QED BY <1>4, <3>1, IssueInv, SMTT(20)
  <2>3. Timed(u) => Timed(Issue(u, p, pkt))
    <3>1. u.check # Off /\ u.check < 2 * deadlock_threshold
      BY <1>1, <1>2, Parameters, SMTT(20) DEF Off
    <3>2. NewRequest(p, pkt).age + u.check = u.check
      BY <1>1, <1>2, Parameters, SMTT(20) DEF Off, NewRequest
    <3>. QED BY <2>2, <3>1, <3>2 DEF Timed
  <2>. QED BY <1>5, <2>1, <2>2, <2>3
<1>. QED BY <1>1, <1>6, <1>7, <1>8, Parameters, SMTT(20)

\* f[i] is the sequencer after the first i ports of the list were told to retry.
Retried(s, n, f) ==
  f = [i \in 0 .. n |->
         IF i = 0 THEN [s EXCEPT !.retryList = <<>>]
         ELSE makeRequest(f[i - 1], s.retryList[i], s.refused[s.retryList[i]])]

\* The loop of ruby_hit_callback is well defined: by induction, there is such an f
\* for every number of ports.
LEMMA RetriedExists ==
  ASSUME NEW s, NEW n \in Nat
  PROVE  \E f : Retried(s, n, f)
<1>. DEFINE T == {m \in Nat : ~ \E f : Retried(s, m, f)}
<1>1. SUFFICES ASSUME T # {} PROVE FALSE
  OBVIOUS
<1>2. PICK m \in T : \A k \in T : m <= k
  <2>1. T \in SUBSET Nat
    OBVIOUS
  <2>. HIDE DEF T
  <2>. QED BY <1>1, <2>1, LeastNat
<1>3. CASE m = 0
  <2>1. Retried(s, 0, [i \in 0 .. 0 |-> [s EXCEPT !.retryList = <<>>]])
    BY SMTT(20) DEF Retried
  <2>. QED BY <1>3, <2>1
<1>4. CASE m # 0
  <2>1. m \in Nat /\ m - 1 \in Nat /\ m - 1 \notin T
    BY <1>2, <1>4, SMTT(20)
  <2>2. PICK f : Retried(s, m - 1, f)
    BY <2>1
  <2>3. \A i \in 0 .. m - 1 : f[i] =
          IF i = 0 THEN [s EXCEPT !.retryList = <<>>]
          ELSE makeRequest(f[i - 1], s.retryList[i], s.refused[s.retryList[i]])
    BY <2>2 DEF Retried
  <2>. DEFINE g == [i \in 0 .. m |-> IF i = m
                      THEN makeRequest(f[m - 1], s.retryList[m], s.refused[s.retryList[m]])
                      ELSE f[i]]
              h == [i \in 0 .. m |-> IF i = 0 THEN [s EXCEPT !.retryList = <<>>]
                      ELSE makeRequest(g[i - 1], s.retryList[i], s.refused[s.retryList[i]])]
  <2>4. ASSUME NEW i \in 0 .. m PROVE g[i] = h[i]
    <3>1. CASE i = 0
      BY <1>4, <2>1, <2>3, <3>1, SMTT(20)
    <3>2. CASE i # 0
      <4>1. i - 1 \in 0 .. m /\ i - 1 # m /\ g[i - 1] = f[i - 1]
        BY <2>1, <3>2, SMTT(20)
      <4>2. h[i] = makeRequest(f[i - 1], s.retryList[i], s.refused[s.retryList[i]])
        BY <3>2, <4>1
      <4>3. g[i] = makeRequest(f[i - 1], s.retryList[i], s.refused[s.retryList[i]])
        BY <2>1, <2>3, <3>2, SMTT(20)
      <4>. QED BY <4>2, <4>3
    <3>. QED BY <3>1, <3>2
  <2>5. g = h
    BY <2>4
  <2>6. Retried(s, m, g)
    BY <2>5 DEF Retried
  <2>. QED BY <2>6
<1>. QED BY <1>3, <1>4

\* The retries of a hit callback run port by port, to the length of the list.
LEMMA SendRetriesRun ==
  ASSUME NEW s, Len(s.retryList) \in Nat
  PROVE  \E f : Retried(s, Len(s.retryList), f) /\ SendRetries(s) = f[Len(s.retryList)]
<1>. DEFINE g == CHOOSE f : Retried(s, Len(s.retryList), f)
<1>1. Retried(s, Len(s.retryList), g)
  BY RetriedExists
<1>2. SendRetries(s) = g[Len(s.retryList)]
  BY DEF SendRetries, Retried
<1>. QED BY <1>1, <1>2

\* Telling every refused port to retry leaves the sequencer coherent, whichever of
\* them are refused again, and with nobody forgotten.
LEMMA SendRetriesInv ==
  ASSUME NEW s \in States, Tables(s),
         \A i, j \in 1 .. Len(s.retryList) : s.retryList[i] = s.retryList[j] => i = j,
         \A p \in Ports : Listed(s, p) <=> s.refused[p] # NoPkt
  PROVE  /\ SqInv(SendRetries(s), {})
         /\ Timed(s) => Timed(SendRetries(s))
<1>. DEFINE list == s.retryList
            n == Len(list)
            W(i) == {list[j] : j \in i + 1 .. n}
<1>1. list \in Seq(Ports) /\ n \in Nat /\ \A i \in 1 .. n : list[i] \in Ports
  BY SMTT(20) DEF States
<1>2. PICK f : Retried(s, n, f) /\ SendRetries(s) = f[n]
  BY <1>1, SendRetriesRun
<1>3. /\ f[0] = [s EXCEPT !.retryList = <<>>]
      /\ \A i \in 1 .. n : f[i] = makeRequest(f[i - 1], list[i], s.refused[list[i]])
  <2>1. \A i \in 0 .. n : f[i] =
          IF i = 0 THEN [s EXCEPT !.retryList = <<>>]
          ELSE makeRequest(f[i - 1], s.retryList[i], s.refused[s.retryList[i]])
    BY <1>2 DEF Retried
  <2>2. 0 \in 0 .. n /\ \A i \in 1 .. n : i \in 0 .. n /\ i # 0
    BY <1>1, SMTT(20)
  <2>. QED BY <2>1, <2>2
<1>. DEFINE Good(i) == SqInv(f[i], W(i)) /\ (Timed(s) => Timed(f[i]))
            T == {i \in 0 .. n : ~Good(i)}
<1>4. Good(0)
  <2>1. /\ f[0].read = s.read /\ f[0].write = s.write /\ f[0].outstanding = s.outstanding
        /\ f[0].check = s.check /\ f[0].refused = s.refused /\ f[0].retryList = <<>>
        /\ f[0] \in States
    <3>. DEFINE e == [s EXCEPT !.retryList = <<>>]
    <3>1. /\ e.read = s.read /\ e.write = s.write /\ e.outstanding = s.outstanding
          /\ e.check = s.check /\ e.refused = s.refused /\ e.retryList = <<>>
          /\ e \in States
      <4>1. <<>> \in Seq(Ports)
        BY SMTT(20)
      <4>2. e = [read |-> s.read, write |-> s.write, outstanding |-> s.outstanding,
                 check |-> s.check, retryList |-> <<>>, refused |-> s.refused]
        BY SMTT(20) DEF States
      <4>. QED BY <4>1, <4>2 DEF States
    <3>. HIDE DEF e
    <3>. QED BY <1>3, <3>1 DEF e
  <2>2. Outstanding(f[0]) = Outstanding(s)
    BY <2>1 DEF Outstanding
  <2>3. Tables(f[0])
    BY <2>1, <2>2 DEF Tables
  <2>4. \A p : ~Listed(f[0], p)
    BY <2>1, SMTT(20) DEF Listed
  <2>5. \A p \in Ports : p \in W(0) <=> s.refused[p] # NoPkt
    BY <1>1, SMTT(20) DEF Listed
  <2>6. W(0) \subseteq Ports
    BY <1>1, SMTT(20)
  <2>7. Waits(f[0], W(0))
    <3>. HIDE DEF W
    <3>. QED BY <2>1, <2>4, <2>5, <2>6, SMTT(20) DEF Waits
  <2>8. Timed(s) => Timed(f[0])
    BY <2>1, <2>2 DEF Timed
  <2>. QED BY <2>1, <2>3, <2>7, <2>8 DEF SqInv
<1>5. ASSUME NEW i \in 1 .. n, Good(i - 1) PROVE Good(i)
  <2>1. /\ list[i] \in Ports /\ s.refused[list[i]] # NoPkt /\ s.refused[list[i]] \in Packets[list[i]]
    BY <1>1 DEF Listed, States, Refusals
  <2>2. list[i] \in W(i - 1) /\ W(i - 1) \in SUBSET Ports
    BY <1>1, SMTT(20)
  <2>3. W(i - 1) \ {list[i]} = W(i)
    BY <1>1, SMTT(20)
  <2>. HIDE DEF W, list, n
  <2>4. ~Listed(f[i - 1], list[i])
    BY <1>5, <2>1, <2>2 DEF SqInv, Waits
  <2>5. /\ SqInv(makeRequest(f[i - 1], list[i], s.refused[list[i]]), W(i - 1) \ {list[i]})
        /\ Timed(f[i - 1]) => Timed(makeRequest(f[i - 1], list[i], s.refused[list[i]]))
    BY <1>5, <2>1, <2>2, <2>4, MakeRequestInv
  <2>. QED BY <1>3, <1>5, <2>3, <2>5
<1>6. T = {}
  <2>1. SUFFICES ASSUME T # {} PROVE FALSE
    OBVIOUS
  <2>. HIDE DEF Good
  <2>2. T \in SUBSET Nat
    BY <1>1, SMTT(20)
  <2>3. PICK m \in T : \A k \in T : m <= k
    <3>. HIDE DEF T
    <3>. QED BY <2>1, <2>2, LeastNat
  <2>4. m # 0 /\ m \in 0 .. n /\ ~Good(m)
    BY <1>4, <2>3
  <2>5. m \in 1 .. n /\ m - 1 \in 0 .. n /\ m - 1 \notin T
    BY <1>1, <2>3, <2>4, SMTT(20)
  <2>. QED BY <1>5, <2>4, <2>5
<1>7. Good(n)
  <2>. HIDE DEF Good
  <2>. QED BY <1>1, <1>6, SMTT(20)
<1>8. W(n) = {}
  BY <1>1, SMTT(20)
<1>. QED BY <1>2, <1>7, <1>8

-----------------------------------------------------------------------------
DrainTypes ==
  [state : {"Running", "Draining", "Drained"}, event : BOOLEAN, queues : SUBSET Ports, count : Int]

\* The inductive invariant.  A port that has been asked to drain and keeps its
\* drain event has no deadlock check; any other has one in time.
PortInv ==
  /\ SqInv(sq, {})
  /\ queue \in [Ports -> [due : Nat, later : Nat]]
  /\ drain \in DrainTypes
  /\ ~drain.event => Timed(sq)

\* The idle sequencer satisfies the invariant.
LEMMA InitPort == Init => PortInv
<1>. SUFFICES ASSUME Init PROVE PortInv
  OBVIOUS
<1>1. /\ sq.read = {} /\ sq.write = {} /\ sq.outstanding = 0 /\ sq.check = Off
      /\ sq.retryList = <<>> /\ sq.refused = [p \in Ports |-> NoPkt]
  BY DEF Init
<1>2. sq \in States
  <2>1. [p \in Ports |-> NoPkt] \in Refusals
    BY DEF Refusals
  <2>2. Off \in Off .. deadlock_threshold /\ <<>> \in Seq(Ports)
    BY Parameters, SMTT(20) DEF Off
  <2>. QED BY <2>1, <2>2 DEF Init, States
<1>3. Outstanding(sq) = {}
  BY <1>1 DEF Outstanding
<1>4. Tables(sq)
  BY <1>1, <1>3, FS_EmptySet, Parameters, SMTT(20) DEF Tables
<1>5. Waits(sq, {})
  BY <1>1, <1>3, SMTT(20) DEF Waits, Listed
<1>6. queue \in [Ports -> [due : Nat, later : Nat]] /\ drain \in DrainTypes
  BY SMTT(20) DEF Init, DrainTypes
<1>. QED BY <1>2, <1>3, <1>4, <1>5, <1>6 DEF PortInv, SqInv, Timed

\* A drained port has no request.
LEMMA DrainCountZero ==
  ASSUME NEW s \in States, Tables(s), NEW q, getDrainCount(s, q) = 0
  PROVE  Outstanding(s) = {}
<1>. DEFINE B == {p \in Ports : Busy(q[p])}
<1>1. IsFiniteSet(B)
  BY ParametersAssumption, FS_Subset
<1>2. Cardinality(B) \in Nat
  BY <1>1, FS_CardinalityType
<1>3. s.outstanding + Cardinality(B) = 0 /\ s.outstanding \in Nat
  BY DEF getDrainCount, States
<1>. HIDE DEF B
<1>4. s.outstanding = 0
  BY <1>2, <1>3, SMTT(20)
<1>. QED BY <1>4, CountZero

\* The counted event changes nothing but the count.
LEMMA ProcessedType ==
  ASSUME NEW d \in DrainTypes
  PROVE  Processed(d) \in DrainTypes /\ Processed(d).event = d.event
BY SMTT(20) DEF DrainTypes, Processed

\* The response and the retries after it.
LEMMA HitInv ==
  ASSUME PortInv, NEW s \in States, Tables(s), NEW p \in Ports,
         \A i, j \in 1 .. Len(s.retryList) : s.retryList[i] = s.retryList[j] => i = j,
         \A q \in Ports : Listed(s, q) <=> s.refused[q] # NoPkt,
         Timed(sq) => Timed(s),
         ruby_hit_callback(s, p)
  PROVE  PortInv'
<1>1. SqInv(SendRetries(s), {}) /\ (Timed(s) => Timed(SendRetries(s)))
  BY SendRetriesInv
<1>2. sq' = SendRetries(s)
  BY DEF ruby_hit_callback
<1>3. PICK t : t = SendRetries(s)
  OBVIOUS
<1>4. sq' = t /\ SqInv(t, {}) /\ (Timed(s) => Timed(t))
  BY <1>1, <1>2, <1>3
<1>5. SqInv(sq', {}) /\ t \in States /\ Tables(t)
  BY <1>4 DEF SqInv
<1>6. queue' \in [Ports -> [due : Nat, later : Nat]]
  <2>1. queue' = [queue EXCEPT ![p] = [queue[p] EXCEPT !.later = queue[p].later + 1]]
    BY DEF ruby_hit_callback
  <2>2. queue[p] \in [due : Nat, later : Nat] /\ queue \in [Ports -> [due : Nat, later : Nat]]
    BY DEF PortInv
  <2>3. [queue[p] EXCEPT !.later = queue[p].later + 1] \in [due : Nat, later : Nat]
    BY <2>2, SMTT(20)
  <2>. QED BY <2>1, <2>2, <2>3
<1>7. drain' \in DrainTypes
  <2>1. PICK Q \in SUBSET Ports : Q = WithDrainEvent([queue EXCEPT ![p].later = @ + 1])
    BY DEF WithDrainEvent
  <2>2. \/ drain' = drain
        \/ drain' = Processed([drain EXCEPT !.event = FALSE])
        \/ drain' = [drain EXCEPT !.queues = @ \cup Q]
    BY <2>1 DEF ruby_hit_callback
  <2>3. drain \in DrainTypes
    BY DEF PortInv
  <2>4. /\ [drain EXCEPT !.event = FALSE] \in DrainTypes
        /\ [drain EXCEPT !.queues = @ \cup Q] \in DrainTypes
    BY <2>3 DEF DrainTypes
  <2>. QED BY <2>2, <2>3, <2>4, ProcessedType
<1>8. ~drain'.event => Timed(t)
  <2>1. CASE ~drain.event
    BY <1>4, <2>1 DEF PortInv
  <2>2. CASE drain.event /\ ~drain'.event
    <3>1. getDrainCount(t, queue') = 0
      BY <1>3, <2>2 DEF ruby_hit_callback, PortInv, DrainTypes
    <3>2. Outstanding(t) = {}
      BY <1>5, <3>1, DrainCountZero
    <3>. QED BY <3>2 DEF Timed
  <2>. QED BY <2>1, <2>2
<1>9. ~drain'.event => Timed(sq')
  BY <1>4, <1>8
<1>. QED BY <1>5, <1>6, <1>7, <1>9
     DEF PortInv, SqInv, States, Tables, Waits, Listed, Timed, Outstanding

\* A response takes its request from the table.
LEMMA AnswerInv ==
  ASSUME PortInv, NEW r \in Outstanding(sq), NEW s \in States,
         \/ r \in sq.read /\ s = [sq EXCEPT !.read = @ \ {r}, !.outstanding = @ - 1]
         \/ r \in sq.write /\ s = [sq EXCEPT !.write = @ \ {r}, !.outstanding = @ - 1],
         ruby_hit_callback(s, r.port)
  PROVE  PortInv'
<1>1. /\ sq \in States /\ Tables(sq) /\ Waits(sq, {}) /\ r \in Requests /\ r.port \in Ports
      /\ sq.outstanding \in Nat
  BY DEF PortInv, SqInv, States, Outstanding, Requests
<1>2. /\ s.check = sq.check /\ s.retryList = sq.retryList /\ s.refused = sq.refused
      /\ s.outstanding = sq.outstanding - 1
      /\ \/ r \in sq.read /\ s.read = sq.read \ {r} /\ s.write = sq.write
         \/ r \in sq.write /\ s.write = sq.write \ {r} /\ s.read = sq.read
  BY <1>1 DEF States
<1>3. Outstanding(s) \subseteq Outstanding(sq)
  BY <1>2 DEF Outstanding
<1>4. Tables(s)
  <2>1. /\ IsFiniteSet(sq.read) /\ IsFiniteSet(sq.write)
        /\ Cardinality(sq.read) \in Nat /\ Cardinality(sq.write) \in Nat
        /\ sq.outstanding = Cardinality(sq.read) + Cardinality(sq.write)
        /\ sq.outstanding <= max_outstanding_requests
    BY <1>1, FS_CardinalityType DEF Tables
  <2>2. /\ IsFiniteSet(sq.read \ {r}) /\ IsFiniteSet(sq.write \ {r})
        /\ r \in sq.read => Cardinality(sq.read \ {r}) = Cardinality(sq.read) - 1
        /\ r \in sq.write => Cardinality(sq.write \ {r}) = Cardinality(sq.write) - 1
    BY <2>1, FS_RemoveElement
  <2>3. /\ IsFiniteSet(s.read) /\ IsFiniteSet(s.write)
        /\ s.outstanding = Cardinality(s.read) + Cardinality(s.write)
        /\ s.outstanding <= max_outstanding_requests
    <3>1. \A m, n, x \in Nat : m + n <= x => m - 1 + n <= x /\ m - 1 + n = m + n - 1
                                            /\ m + (n - 1) <= x /\ m + (n - 1) = m + n - 1
      BY SMTT(20)
    <3>2. /\ Cardinality(sq.read) - 1 + Cardinality(sq.write) = s.outstanding
          /\ Cardinality(sq.read) + (Cardinality(sq.write) - 1) = s.outstanding
          /\ s.outstanding <= max_outstanding_requests
      BY <1>2, <2>1, <3>1, Parameters, SMTT(20)
    <3>. QED BY <1>2, <2>1, <2>2, <3>2
  <2>. QED BY <1>1, <1>2, <1>3, <2>3 DEF Tables
<1>5. \A q : Listed(s, q) <=> Listed(sq, q)
  BY <1>2 DEF Listed
<1>6. Timed(sq) => Timed(s)
  BY <1>2, <1>3 DEF Timed
<1>7. /\ \A i, j \in 1 .. Len(s.retryList) : s.retryList[i] = s.retryList[j] => i = j
      /\ \A q \in Ports : Listed(s, q) <=> s.refused[q] # NoPkt
  BY <1>1, <1>2, <1>5 DEF Waits
<1>. QED BY <1>1, <1>4, <1>6, <1>7, HitInv

\* A read or write callback keeps the invariant.
LEMMA CallbackInv ==
  ASSUME PortInv, NEW line \in Lines, readCallback(line) \/ writeCallback(line)
  PROVE  PortInv'
<1>1. /\ sq \in States /\ Tables(sq) /\ sq.outstanding \in Nat
      /\ sq.read \in SUBSET Requests /\ sq.write \in SUBSET Requests
  BY DEF PortInv, SqInv, States
<1>2. ASSUME NEW r \in Outstanding(sq) PROVE sq.outstanding - 1 \in Nat
  <2>1. sq.outstanding # 0
    BY <1>1, CountZero
  <2>. QED BY <1>1, <2>1, SMTT(20)
<1>3. CASE readCallback(line)
  <2>1. PICK r \in sq.read :
          ruby_hit_callback([sq EXCEPT !.read = @ \ {r}, !.outstanding = @ - 1], r.port)
    BY <1>3 DEF readCallback
  <2>2. r \in Outstanding(sq) /\ sq.outstanding - 1 \in Nat /\ sq.read \ {r} \in SUBSET Requests
    BY <1>1, <1>2 DEF Outstanding
  <2>3. PICK s : s = [sq EXCEPT !.read = @ \ {r}, !.outstanding = @ - 1]
    OBVIOUS
  <2>4. s \in States
    BY <1>1, <2>2, <2>3 DEF States
  <2>. QED BY <2>1, <2>2, <2>3, <2>4, AnswerInv
<1>4. CASE writeCallback(line)
  <2>1. PICK r \in sq.write :
          ruby_hit_callback([sq EXCEPT !.write = @ \ {r}, !.outstanding = @ - 1], r.port)
    BY <1>4 DEF writeCallback
  <2>2. r \in Outstanding(sq) /\ sq.outstanding - 1 \in Nat /\ sq.write \ {r} \in SUBSET Requests
    BY <1>1, <1>2 DEF Outstanding
  <2>3. PICK s : s = [sq EXCEPT !.write = @ \ {r}, !.outstanding = @ - 1]
    OBVIOUS
  <2>4. s \in States
    BY <1>1, <2>2, <2>3 DEF States
  <2>. QED BY <2>1, <2>2, <2>3, <2>4, AnswerInv
<1>. QED BY <1>3, <1>4

\* So does a request that a port receives,
LEMMA RecvInv ==
  ASSUME PortInv, NEW p \in Ports, recvTimingReq(p)
  PROVE  PortInv'
<1>1. PICK pkt \in Packets[p] : sq' = makeRequest(sq, p, pkt)
  BY DEF recvTimingReq
<1>2. SqInv(sq, {}) /\ ~Listed(sq, p)
  BY DEF PortInv, SqInv, Waits, recvTimingReq
<1>3. PICK t : t = makeRequest(sq, p, pkt)
  OBVIOUS
<1>4. SqInv(t, {} \ {p}) /\ (Timed(sq) => Timed(t))
  BY <1>2, <1>3, MakeRequestInv
<1>5. {} \ {p} = {}
  OBVIOUS
<1>6. SqInv(sq', {}) /\ (Timed(sq) => Timed(sq'))
  BY <1>1, <1>3, <1>4, <1>5
<1>7. queue' = queue /\ drain' = drain
  BY DEF recvTimingReq
<1>8. SqInv(sq, {})' /\ (Timed(sq) => Timed(sq)')
  BY <1>6 DEF SqInv, States, Tables, Waits, Listed, Timed, Outstanding
<1>. QED BY <1>7, <1>8 DEF PortInv

\* an instruction fetch that is shortened,
LEMMA FetchInv ==
  ASSUME PortInv, NEW p \in Ports, ShortFetch(p)
  PROVE  PortInv'
<1>1. /\ sq \in States /\ Tables(sq) /\ ruby_hit_callback(sq, p)
      /\ \A i, j \in 1 .. Len(sq.retryList) : sq.retryList[i] = sq.retryList[j] => i = j
      /\ \A q \in Ports : Listed(sq, q) <=> sq.refused[q] # NoPkt
  BY DEF PortInv, SqInv, Waits, ShortFetch
<1>. QED BY <1>1, HitInv

\* a response that is sent later,
LEMMA DeferredInv ==
  ASSUME PortInv, NEW p \in Ports, sendDeferredPacket(p)
  PROVE  PortInv'
<1>1. sq' = sq /\ queue[p].due \in Nat \ {0} /\ queue[p].later \in Nat
  BY SMTT(20) DEF sendDeferredPacket, PortInv
<1>2. queue' = [queue EXCEPT ![p] = [queue[p] EXCEPT !.due = queue[p].due - 1]]
  BY DEF sendDeferredPacket
<1>3. queue' \in [Ports -> [due : Nat, later : Nat]]
  <2>1. queue[p].due - 1 \in Nat
    BY <1>1, SMTT(20)
  <2>2. queue[p] \in [due : Nat, later : Nat] /\ queue \in [Ports -> [due : Nat, later : Nat]]
    BY DEF PortInv
  <2>3. [queue[p] EXCEPT !.due = queue[p].due - 1] \in [due : Nat, later : Nat]
    BY <2>1, <2>2
  <2>. QED BY <1>2, <2>2, <2>3
<1>4. drain' \in DrainTypes /\ drain'.event = drain.event
  <2>1. drain' = drain \/ drain' = Processed([drain EXCEPT !.queues = @ \ {p}])
    BY DEF sendDeferredPacket
  <2>2. drain \in DrainTypes
    BY DEF PortInv
  <2>3. /\ [drain EXCEPT !.queues = @ \ {p}] \in DrainTypes
        /\ [drain EXCEPT !.queues = @ \ {p}].event = drain.event
    BY <2>2 DEF DrainTypes
  <2>. QED BY <2>1, <2>2, <2>3, ProcessedType
<1>5. SqInv(sq, {})' /\ (Timed(sq)' <=> Timed(sq))
  BY <1>1 DEF PortInv, SqInv, States, Tables, Waits, Listed, Timed, Outstanding
<1>. QED BY <1>3, <1>4, <1>5 DEF PortInv

\* A step that moves the check's countdown only.
LEMMA CheckMoves ==
  ASSUME PortInv, NEW c \in Off .. deadlock_threshold, sq' = [sq EXCEPT !.check = c]
  PROVE  /\ SqInv(sq, {})'
         /\ sq'.check = c /\ Outstanding(sq)' = Outstanding(sq)
<1>1. /\ sq'.read = sq.read /\ sq'.write = sq.write /\ sq'.outstanding = sq.outstanding
      /\ sq'.retryList = sq.retryList /\ sq'.refused = sq.refused /\ sq'.check = c
      /\ sq' \in States
  BY DEF PortInv, SqInv, States
<1>2. Outstanding(sq)' = Outstanding(sq) /\ (\A q : Listed(sq, q)' <=> Listed(sq, q))
  BY <1>1 DEF Outstanding, Listed
<1>3. Tables(sq)'
  BY <1>1, <1>2 DEF PortInv, SqInv, Tables
<1>4. Waits(sq, {})'
  BY <1>1, <1>2, SMTT(20) DEF PortInv, SqInv, Waits
<1>5. (sq \in States)'
  BY <1>1 DEF States
<1>. QED BY <1>1, <1>2, <1>3, <1>4, <1>5 DEF SqInv

\* the deadlock check,
LEMMA WakeupInv ==
  ASSUME PortInv, wakeup
  PROVE  PortInv'
<1>1. queue' = queue /\ drain' = drain
  BY DEF wakeup
<1>2. /\ sq \in States /\ Tables(sq) /\ sq.outstanding \in Nat
      /\ \A r \in Outstanding(sq) : r.age \in 0 .. 2 * deadlock_threshold
  BY DEF PortInv, SqInv, States, Outstanding, Requests
<1>3. CASE sq' = sq
  <2>1. SqInv(sq, {})' /\ (Timed(sq)' <=> Timed(sq))
    BY <1>3 DEF PortInv, SqInv, States, Tables, Waits, Listed, Timed, Outstanding
  <2>. QED BY <1>1, <2>1 DEF PortInv
<1>4. CASE ~ \E r \in Outstanding(sq) : r.age >= deadlock_threshold
  <2>1. PICK c : c = IF sq.outstanding > 0 THEN deadlock_threshold ELSE Off
    OBVIOUS
  <2>2. c \in Off .. deadlock_threshold
    BY <2>1, Parameters, SMTT(20) DEF Off
  <2>3. sq' = [sq EXCEPT !.check = c]
    BY <1>4, <2>1 DEF wakeup
  <2>4. SqInv(sq, {})' /\ sq'.check = c /\ Outstanding(sq)' = Outstanding(sq)
    BY <2>2, <2>3, CheckMoves
  <2>5. ASSUME NEW r \in Outstanding(sq)
        PROVE  c # Off /\ r.age + c < 2 * deadlock_threshold
    <3>1. c = deadlock_threshold
      BY <1>2, <2>1, CountZero, SMTT(20)
    <3>2. r.age < deadlock_threshold /\ r.age \in Nat
      BY <1>2, <1>4, Parameters, SMTT(20)
    <3>. QED BY <3>1, <3>2, Parameters, SMTT(20) DEF Off
  <2>6. Timed(sq)'
    BY <2>4, <2>5 DEF Timed
  <2>. QED BY <1>1, <2>4, <2>6 DEF PortInv
<1>. QED BY <1>3, <1>4 DEF wakeup

\* a drain and a resume,
LEMMA DrainInv ==
  ASSUME PortInv, Drain \/ Resume
  PROVE  PortInv'
<1>1. sq \in States /\ Tables(sq) /\ drain \in DrainTypes /\ sq.outstanding \in Nat
  BY DEF PortInv, SqInv, States
<1>2. CASE Resume
  <2>1. sq' = sq /\ queue' = queue /\ drain' = [drain EXCEPT !.state = "Running"]
    BY <1>2 DEF Resume
  <2>2. drain' \in DrainTypes /\ drain'.event = drain.event
    BY <1>1, <2>1 DEF DrainTypes
  <2>3. SqInv(sq, {})' /\ (Timed(sq)' <=> Timed(sq))
    BY <2>1 DEF PortInv, SqInv, States, Tables, Waits, Listed, Timed, Outstanding
  <2>. QED BY <2>1, <2>2, <2>3 DEF PortInv
<1>3. CASE Drain
  <2>1. PICK n : n = getDrainCount(sq, queue)
    OBVIOUS
  <2>2. /\ sq' = [sq EXCEPT !.check = Off] /\ queue' = queue
        /\ drain' = [state |-> IF n = 0 THEN "Drained" ELSE "Draining",
                     event |-> drain.event \/ n # 0,
                     queues |-> WithDrainEvent(queue), count |-> n]
    BY <1>3, <2>1 DEF Drain
  <2>3. SqInv(sq, {})' /\ sq'.check = Off /\ Outstanding(sq)' = Outstanding(sq)
    BY <2>2, CheckMoves, Parameters, SMTT(20) DEF Off
  <2>4. n \in Nat
    <3>1. IsFiniteSet({p \in Ports : Busy(queue[p])})
      BY ParametersAssumption, FS_Subset
    <3>2. Cardinality({p \in Ports : Busy(queue[p])}) \in Nat
      BY <3>1, FS_CardinalityType
    <3>. QED BY <1>1, <2>1, <3>2, SMTT(20) DEF getDrainCount
  <2>5. drain' \in DrainTypes
    <3>1. WithDrainEvent(queue) \in SUBSET Ports /\ (drain.event \/ n # 0) \in BOOLEAN
      BY DEF WithDrainEvent
    <3>. QED BY <2>2, <2>4, <3>1, SMTT(20) DEF DrainTypes
  <2>6. ~drain'.event => Timed(sq)'
    <3>1. SUFFICES ASSUME ~drain'.event PROVE Timed(sq)'
      OBVIOUS
    <3>2. n = 0
      BY <2>2, <3>1
    <3>3. Outstanding(sq) = {}
      BY <1>1, <2>1, <3>2, DrainCountZero
    <3>. QED BY <2>3, <3>3 DEF Timed
  <2>. QED BY <2>2, <2>3, <2>5, <2>6 DEF PortInv
<1>. QED BY <1>2, <1>3

\* A request one cycle later.
Aged(r) == [r EXCEPT !.age = IF @ < 2 * deadlock_threshold THEN @ + 1 ELSE @]

\* A request of the tables grows older up to twice the threshold.
LEMMA AgedType ==
  ASSUME NEW r \in Requests
  PROVE  /\ Aged(r) \in Requests /\ Aged(r).line = r.line
         /\ Aged(r).age = IF r.age < 2 * deadlock_threshold THEN r.age + 1 ELSE r.age
         /\ r.age \in Nat
<1>1. r.age \in 0 .. 2 * deadlock_threshold /\ 2 * deadlock_threshold \in Nat
  BY Parameters, SMTT(20) DEF Requests
<1>2. (IF r.age < 2 * deadlock_threshold THEN r.age + 1 ELSE r.age) \in 0 .. 2 * deadlock_threshold
  BY <1>1, SMTT(20)
<1>. QED BY <1>1, <1>2, SMTT(20) DEF Aged, Requests

\* The passing of a cycle merges no two requests, since they differ in their lines.
LEMMA OlderTable ==
  ASSUME NEW S \in SUBSET Requests, IsFiniteSet(S),
         \A r1, r2 \in S : r1.line = r2.line => r1 = r2
  PROVE  /\ Older(S) = {Aged(r) : r \in S} /\ Older(S) \in SUBSET Requests
         /\ IsFiniteSet(Older(S)) /\ Cardinality(Older(S)) = Cardinality(S)
<1>1. Older(S) = {Aged(r) : r \in S}
  BY DEF Older, Aged
<1>. DEFINE f == [r \in S |-> Aged(r)]
<1>2. \A r \in S : Aged(r) \in Requests /\ Aged(r).line = r.line
  BY AgedType
<1>3. Older(S) \in SUBSET Requests
  BY <1>1, <1>2
<1>4. f \in Bijection(S, Older(S))
  <2>1. f \in [S -> Older(S)]
    BY <1>1
  <2>2. \A r1, r2 \in S : f[r1] = f[r2] => r1 = r2
    BY <1>2, SMTT(20)
  <2>3. \A t \in Older(S) : \E r \in S : f[r] = t
    BY <1>1
  <2>. HIDE DEF f
  <2>. QED BY <2>1, <2>2, <2>3 DEF Bijection, Injection, Surjection, IsInjective
<1>5. ExistsBijection(S, Older(S))
  BY <1>4 DEF ExistsBijection
<1>. QED BY <1>1, <1>3, <1>5, FS_Bijection

\* and the passing of a cycle.
LEMMA TickInv ==
  ASSUME PortInv, Tick
  PROVE  PortInv'
<1>1. /\ sq \in States /\ Tables(sq) /\ Waits(sq, {})
      /\ sq.read \in SUBSET Requests /\ sq.write \in SUBSET Requests
      /\ sq.check \in Off .. deadlock_threshold /\ sq.check # 0
      /\ Outstanding(sq) \in SUBSET Requests
  BY DEF PortInv, SqInv, States, Tick, Outstanding
<1>2. PICK R, S : R = Older(sq.read) /\ S = Older(sq.write)
  OBVIOUS
<1>3. PICK c : c = IF sq.check = Off THEN Off ELSE sq.check - 1
  OBVIOUS
<1>4. sq' = [sq EXCEPT !.read = R, !.write = S, !.check = c]
  BY <1>2, <1>3 DEF Tick
<1>5. /\ R = {Aged(r) : r \in sq.read} /\ R \in SUBSET Requests
      /\ IsFiniteSet(R) /\ Cardinality(R) = Cardinality(sq.read)
  BY <1>1, <1>2, OlderTable DEF Tables, Outstanding
<1>6. /\ S = {Aged(r) : r \in sq.write} /\ S \in SUBSET Requests
      /\ IsFiniteSet(S) /\ Cardinality(S) = Cardinality(sq.write)
  BY <1>1, <1>2, OlderTable DEF Tables, Outstanding
<1>7. c \in Off .. deadlock_threshold /\ (sq.check # Off => c = sq.check - 1 /\ c # Off)
  BY <1>1, <1>3, Parameters, SMTT(20) DEF Off
<1>8. /\ sq'.read = R /\ sq'.write = S /\ sq'.check = c /\ sq'.outstanding = sq.outstanding
      /\ sq'.retryList = sq.retryList /\ sq'.refused = sq.refused /\ sq' \in States
  BY <1>1, <1>4, <1>5, <1>6, <1>7 DEF States
<1>9. Outstanding(sq)' = {Aged(r) : r \in Outstanding(sq)}
  BY <1>5, <1>6, <1>8, SMTT(20) DEF Outstanding
<1>10. Tables(sq)'
  <2>1. \A r \in Outstanding(sq) : Aged(r).line = r.line
    BY <1>1, AgedType
  <2>2. \A r1, r2 \in Outstanding(sq)' : r1.line = r2.line => r1 = r2
    BY <1>1, <1>9, <2>1, SMTT(20) DEF Tables
  <2>3. R \cap S = {}
    <3>1. SUFFICES ASSUME NEW x \in R, x \in S PROVE FALSE
      OBVIOUS
    <3>2. PICK r \in sq.read, s \in sq.write : x = Aged(r) /\ x = Aged(s)
      BY <1>5, <1>6, <3>1
    <3>3. r.line = s.line /\ r \in Outstanding(sq) /\ s \in Outstanding(sq)
      BY <2>1, <3>2 DEF Outstanding
    <3>. QED BY <1>1, <3>2, <3>3 DEF Tables
  <2>. QED BY <1>1, <1>5, <1>6, <1>8, <2>2, <2>3 DEF Tables
<1>11. Waits(sq, {})'
  <2>1. \A q : Listed(sq, q)' <=> Listed(sq, q)
    BY <1>8 DEF Listed
  <2>2. Outstanding(sq) # {} => Outstanding(sq)' # {}
    BY <1>9
  <2>. QED BY <1>1, <1>8, <2>1, <2>2 DEF Waits
<1>12. Timed(sq) => Timed(sq)'
  <2>1. SUFFICES ASSUME Timed(sq), NEW r \in Outstanding(sq)
                 PROVE  c # Off /\ Aged(r).age + c < 2 * deadlock_threshold
    BY <1>8, <1>9 DEF Timed
  <2>2. sq.check # Off /\ r.age + sq.check < 2 * deadlock_threshold /\ sq.check \in Nat \ {0}
    BY <1>1, <2>1, Parameters, SMTT(20) DEF Timed, Off
  <2>3. /\ r.age \in Nat
        /\ Aged(r).age = IF r.age < 2 * deadlock_threshold THEN r.age + 1 ELSE r.age
    BY <1>1, AgedType
  <2>. QED BY <1>7, <2>2, <2>3, Parameters, SMTT(20)
<1>13. queue' \in [Ports -> [due : Nat, later : Nat]] /\ drain' = drain
  BY DEF Tick, PortInv
<1>14. (sq \in States)'
  BY <1>8 DEF States
<1>. QED BY <1>10, <1>11, <1>12, <1>13, <1>14 DEF PortInv, SqInv

\* Every step keeps the invariant.
LEMMA NextPort == PortInv /\ [Next]_vars => PortInv'
<1>1. ASSUME PortInv, UNCHANGED vars PROVE PortInv'
  BY <1>1 DEF PortInv, SqInv, States, Tables, Waits, Listed, Timed, Outstanding, vars
<1>2. ASSUME PortInv, Next PROVE PortInv'
  BY <1>2, RecvInv, FetchInv, DeferredInv, CallbackInv, WakeupInv, DrainInv, TickInv DEF Next
<1>. QED BY <1>1, <1>2

\* The invariant holds in every state, for any ports, lines, packets, limit and
\* threshold.
THEOREM PortInvariance == Spec => []PortInv
BY InitPort, NextPort, PTL DEF Spec

\* Every variable keeps its type; in particular no age runs past two thresholds.
THEOREM PortTypeCorrect == Spec => []TypeOK
<1>1. PortInv => TypeOK
  BY SMTT(20) DEF PortInv, SqInv, States, Requests, Refusals, DrainTypes, TypeOK, Outstanding
<1>. QED BY <1>1, PortInvariance, PTL

\* The count of makeRequest, insertRequest and the callbacks is that of the two
\* tables, within the limit, and a line is in one of them at most.
THEOREM TablesAlwaysAgree == Spec => []TablesAgree
<1>1. PortInv => TablesAgree
  BY DEF PortInv, SqInv, Tables, TablesAgree
<1>. QED BY <1>1, PortInvariance, PTL

\* Every refused port is on the retry list, once, and a request is outstanding
\* whose response will make it retry.
THEOREM NoRetryLost == Spec => []RefusedPortsWait
<1>1. ASSUME PortInv, NEW p \in Ports
      PROVE  /\ Cardinality({i \in 1 .. Len(sq.retryList) : sq.retryList[i] = p})
                  = (IF sq.refused[p] = NoPkt THEN 0 ELSE 1)
             /\ sq.refused[p] # NoPkt => Outstanding(sq) # {}
  <2>1. Waits(sq, {}) /\ Len(sq.retryList) \in Nat /\ sq.retryList \in Seq(Ports)
    BY <1>1, SMTT(20) DEF PortInv, SqInv, States
  <2>2. CASE sq.refused[p] = NoPkt
    <3>1. {i \in 1 .. Len(sq.retryList) : sq.retryList[i] = p} = {}
      BY <2>1, <2>2 DEF Waits, Listed
    <3>. QED BY <2>2, <3>1, FS_EmptySet
  <2>3. CASE sq.refused[p] # NoPkt
    <3>1. PICK i \in 1 .. Len(sq.retryList) : sq.retryList[i] = p
      BY <2>1, <2>3 DEF Waits, Listed
    <3>2. {j \in 1 .. Len(sq.retryList) : sq.retryList[j] = p} = {i}
      BY <2>1, <3>1 DEF Waits
    <3>3. Cardinality({i}) = 1
      BY FS_Singleton
    <3>4. sq.retryList # <<>>
      BY <2>1, <3>1, SMTT(20)
    <3>. QED BY <2>1, <2>3, <3>2, <3>3, <3>4 DEF Waits
  <2>. QED BY <2>2, <2>3
<1>2. PortInv => RefusedPortsWait
  BY <1>1 DEF RefusedPortsWait
<1>. QED BY <1>2, PortInvariance, PTL

\* A request that is not answered is reported before it is two thresholds old,
\* unless the port has been asked to drain.
THEOREM DeadlockAlwaysDetected == Spec => []DeadlockDetected
<1>1. ASSUME PortInv, ~drain.event, NEW r \in Outstanding(sq)
      PROVE  sq.check # Off /\ r.age < 2 * deadlock_threshold
  <2>1. sq.check # Off /\ r.age + sq.check < 2 * deadlock_threshold
    BY <1>1 DEF PortInv, Timed
  <2>2. r.age \in Nat /\ sq.check \in Nat
    BY <1>1, <2>1, Parameters, SMTT(20) DEF PortInv, SqInv, States, Requests, Outstanding, Off
  <2>. QED BY <2>1, <2>2, Parameters, SMTT(20)
<1>2. PortInv => DeadlockDetected
  BY <1>1 DEF DeadlockDetected
<1>. QED BY <1>2, PortInvariance, PTL
=============================================================================
