-------------------------- MODULE EventQueueProofs --------------------------
(***************************************************************************)
(* The event queue, for every set of events, every priority and every      *)
(* bound on the delays: whatever is scheduled, descheduled, rescheduled and*)
(* served, the pointers hold the scheduled events in bins in the order of  *)
(* time and priority, so no event is ever missed or served late, and they  *)
(* implement the list of EventList.                                        *)
(***************************************************************************)
EXTENDS EventQueueRefinement, FiniteSetTheorems, WellFoundedInduction, TLAPS

\* First-order leaves go to Zenon, the others name their solver.
USE Zenon

\* A non-empty set of natural numbers has a least element.
LEMMA LeastNat ==
    ASSUME NEW T \in SUBSET Nat, T # {}
    PROVE  \E x \in T : \A y \in T : x <= y
<1>. DEFINE R == {ss \in Nat \X Nat : ss[1] < ss[2]}
<1>1. IsWellFoundedOn(R, Nat)
    BY NatLessThanWellFounded DEF OpToRel
<1>2. PICK x \in T : \A y \in T : ~(<<y, x>> \in R)
    <2>. HIDE DEF R
    <2>. QED BY <1>1, WFMin
<1>3. ASSUME NEW y \in T PROVE x <= y
    <2>1. y < x => <<y, x>> \in R
        OBVIOUS
    <2>2. x \in Nat /\ y \in Nat
        OBVIOUS
    <2>. HIDE DEF R
    <2>. QED BY <1>2, <2>1, <2>2, SMTT(20)
<1>. QED BY <1>3

\* Induction up to n, over the set of the numbers for which a statement holds.
LEMMA UpTo ==
    ASSUME NEW n \in Nat, NEW G, 0 \in G,
           \A i \in 1 .. n : i - 1 \in G => i \in G
    PROVE  \A i \in 0 .. n : i \in G
<1>. DEFINE T == {i \in 0 .. n : i \notin G}
<1>. SUFFICES ASSUME T # {} PROVE FALSE
    OBVIOUS
<1>1. T \in SUBSET Nat
    BY SMTT(20)
<1>2. PICK m \in T : \A i \in T : m <= i
    BY <1>1, LeastNat
<1>3. m \in 0 .. n /\ m \notin G /\ m # 0
    BY <1>2
<1>4. m \in 1 .. n /\ m - 1 \in 0 .. n /\ ~(m <= m - 1)
    BY <1>3, SMTT(20)
<1>5. m - 1 \in G
    BY <1>2, <1>4
<1>. QED BY <1>3, <1>4, <1>5

\* f runs the steps one after the other from a.
Runs(n, S, a, step, f) ==
    /\ f \in [0 .. n -> S] /\ f[0] = a
    /\ \A i \in 1 .. n : f[i] = step[i][f[i - 1]]

\* A function defined by recursion on its argument exists.
LEMMA Recursion ==
    ASSUME NEW n \in Nat, NEW S, NEW a \in S, NEW step \in [1 .. n -> [S -> S]]
    PROVE  \E f : Runs(n, S, a, step, f)
<1>. DEFINE G == {m \in 0 .. n : \E f : Runs(m, S, a, step, f)}
<1>1. 0 \in G
    <2>. DEFINE f == [i \in 0 .. 0 |-> a]
    <2>1. 0 \in 0 .. n /\ 0 \in 0 .. 0 /\ 1 .. 0 = {}
        BY SMTT(20)
    <2>2. Runs(0, S, a, step, f)
        BY <2>1 DEF Runs
    <2>. QED BY <2>1, <2>2
<1>2. ASSUME NEW m \in 1 .. n, m - 1 \in G
      PROVE  m \in G
    <2>1. PICK f : Runs(m - 1, S, a, step, f)
        BY <1>2
    <2>. DEFINE g == [i \in 0 .. m |-> IF i = m THEN step[m][f[m - 1]] ELSE f[i]]
    <2>2. /\ m \in 0 .. n /\ m - 1 \in 0 .. m - 1 /\ 0 \in 0 .. m /\ 0 # m /\ m \in 0 .. m
          /\ \A i \in 0 .. m : i # m => i \in 0 .. m - 1
          /\ \A i \in 1 .. m : i \in 0 .. m /\ i - 1 \in 0 .. m /\ i - 1 # m
          /\ \A i \in 1 .. m : i # m => i \in 1 .. m - 1
        BY SMTT(20)
    <2>3. g \in [0 .. m -> S]
        BY <2>1, <2>2 DEF Runs
    <2>4. g[0] = a
        BY <2>1, <2>2 DEF Runs
    <2>5. ASSUME NEW i \in 1 .. m PROVE g[i] = step[i][g[i - 1]]
        <3>1. g[i - 1] = f[i - 1]
            BY <2>2
        <3>2. CASE i = m
            BY <2>2, <3>1, <3>2
        <3>3. CASE i # m
            <4>1. g[i] = f[i] /\ f[i] = step[i][f[i - 1]]
                BY <2>1, <2>2, <3>3 DEF Runs
            <4>. QED BY <3>1, <4>1
        <3>. QED BY <3>2, <3>3
    <2>. HIDE DEF g
    <2>6. Runs(m, S, a, step, g)
        BY <2>3, <2>4, <2>5 DEF Runs
    <2>. QED BY <2>2, <2>6
<1>. HIDE DEF G
<1>3. n \in G
    <2>1. \A m \in 1 .. n : m - 1 \in G => m \in G
        BY <1>2
    <2>2. \A m \in 0 .. n : m \in G
        BY <1>1, <2>1, UpTo
    <2>. QED BY <2>2, SMTT(20)
<1>. QED BY <1>3 DEF G

-----------------------------------------------------------------------------
(* Walks along the pointers. *)

\* What a pointer may hold.
Pointers == Events \cup {Null}

\* A walk is defined: each step goes to the next event, and stays at NULL.
LEMMA WalkedSteps ==
    ASSUME NEW next \in [Events -> Pointers], NEW e \in Pointers
    PROVE  /\ Walked(next, e) \in [0 .. Cardinality(Events) -> Pointers]
           /\ Walked(next, e)[0] = e
           /\ \A n \in 1 .. Cardinality(Events) :
                Walked(next, e)[n] = IF Walked(next, e)[n - 1] = Null THEN Null
                                     ELSE next[Walked(next, e)[n - 1]]
<1>. DEFINE N == Cardinality(Events)
            step == [f \in Pointers |-> IF f = Null THEN Null ELSE next[f]]
            steps == [n \in 1 .. N |-> step]
            Rec(f) == f = [n \in 0 .. N |-> IF n = 0 THEN e ELSE step[f[n - 1]]]
            at == CHOOSE f : Rec(f)
<1>0. N \in Nat
    BY EventsAssumption, FS_CardinalityType
<1>1. step \in [Pointers -> Pointers]
    BY DEF Pointers
<1>2. steps \in [1 .. N -> [Pointers -> Pointers]]
    BY <1>1
<1>3. Walked(next, e) = at
    BY DEF Walked, Pointers
<1>4. PICK f : Runs(N, Pointers, e, steps, f)
    <2>. HIDE DEF N, steps, step
    <2>. QED BY <1>0, <1>2, Recursion
<1>. HIDE DEF N
<1>5. /\ 0 \in 0 .. N /\ \A n \in 0 .. N : n # 0 => n \in 1 .. N
      /\ \A n \in 1 .. N : n \in 0 .. N /\ n - 1 \in 0 .. N /\ n # 0
    BY <1>0, SMTT(20)
<1>6. Rec(f)
    <2>. HIDE DEF step
    <2>1. ASSUME NEW n \in 0 .. N PROVE f[n] = IF n = 0 THEN e ELSE step[f[n - 1]]
        BY <1>4, <1>5 DEF Runs
    <2>. QED BY <1>4, <2>1 DEF Runs
<1>7. Rec(at)
    <2>. HIDE DEF Rec
    <2>. QED BY <1>6
<1>. HIDE DEF at
<1>8. at[0] = e /\ \A n \in 1 .. N : at[n] = step[at[n - 1]]
    <2>. HIDE DEF step
    <2>. QED BY <1>5, <1>7
<1>. DEFINE G == {n \in 0 .. N : at[n] \in Pointers}
<1>9. \A n \in 0 .. N : n \in G
    <2>1. 0 \in G
        BY <1>5, <1>8
    <2>2. \A n \in 1 .. N : n - 1 \in G => n \in G
        <3>. HIDE DEF step
        <3>. QED BY <1>1, <1>5, <1>8
    <2>. HIDE DEF G
    <2>. QED BY <1>0, <2>1, <2>2, UpTo
<1>10. at \in [0 .. N -> Pointers]
    <2>1. at = [n \in 0 .. N |-> at[n]]
        <3>. HIDE DEF step
        <3>. QED BY <1>7
    <2>. QED BY <1>9, <2>1
<1>11. \A n \in 1 .. N : at[n] = IF at[n - 1] = Null THEN Null ELSE next[at[n - 1]]
    <2>. TAKE n \in 1 .. N
    <2>1. at[n - 1] \in Pointers /\ at[n] = step[at[n - 1]]
        BY <1>5, <1>8, <1>10
    <2>. QED BY <2>1
<1>. QED BY <1>3, <1>8, <1>10, <1>11 DEF N

\* c is the walk from e: it ends at NULL, or is cut short.
Follows(next, e, c) ==
    /\ c \in Seq(Events) /\ Len(c) \in 0 .. Cardinality(Events) + 1
    /\ e # Null => Len(c) # 0 /\ c[1] = e
    /\ \A i \in 1 .. Len(c) : i + 1 \in 1 .. Len(c) => c[i + 1] = next[c[i]]
    /\ Len(c) \in 1 .. Cardinality(Events) => next[c[Len(c)]] = Null

\* Chain follows the pointers.
LEMMA ChainFollows ==
    ASSUME NEW next \in [Events -> Pointers], NEW e \in Pointers
    PROVE  Follows(next, e, Chain(next, e))
<1>. DEFINE N == Cardinality(Events)
            at == Walked(next, e)
            L == {n \in 0 .. N : at[n] # Null}
            c == [i \in 1 .. Cardinality(L) |-> at[i - 1]]
<1>0. N \in Nat
    BY EventsAssumption, FS_CardinalityType
<1>1. /\ at \in [0 .. N -> Pointers] /\ at[0] = e
      /\ \A n \in 1 .. N : at[n] = IF at[n - 1] = Null THEN Null ELSE next[at[n - 1]]
    BY WalkedSteps
<1>. HIDE DEF at, N
<1>2. c = Chain(next, e)
    <2>1. DOMAIN at = 0 .. N
        BY <1>1
    <2>. QED BY <2>1 DEF Chain, at
<1>3. \E k \in 0 .. N + 1 : L = 0 .. k - 1 /\ (k \in 0 .. N => at[k] = Null)
    <2>. DEFINE M == {n \in 0 .. N : at[n] = Null}
    <2>1. CASE M = {}
        <3>1. L = 0 .. N
            BY <2>1
        <3>2. N + 1 \in 0 .. N + 1 /\ (N + 1) - 1 = N /\ N + 1 \notin 0 .. N
            BY <1>0, SMTT(20)
        <3>. QED BY <3>1, <3>2
    <2>2. CASE M # {}
        <3>1. M \in SUBSET Nat
            BY <1>0, SMTT(20)
        <3>2. PICK k \in M : \A n \in M : k <= n
            BY <2>2, <3>1, LeastNat
        <3>3. k \in 0 .. N /\ at[k] = Null /\ k \in Nat
            BY <3>1, <3>2
        <3>. DEFINE G == {n \in Nat : k + n \in 0 .. N => at[k + n] = Null}
        <3>4. \A n \in 0 .. N : n \in G
            <4>1. 0 \in G
                <5>1. k + 0 = k
                    BY <3>3, SMTT(20)
                <5>. QED BY <3>3, <5>1
            <4>2. ASSUME NEW n \in 1 .. N, n - 1 \in G PROVE n \in G
                <5>1. /\ n \in Nat /\ (k + n) - 1 = k + (n - 1)
                      /\ k + n \in 0 .. N => k + n \in 1 .. N /\ k + (n - 1) \in 0 .. N
                    BY <1>0, <3>3, SMTT(20)
                <5>. QED BY <1>1, <4>2, <5>1
            <4>3. \A n \in 1 .. N : n - 1 \in G => n \in G
                BY <4>2
            <4>. HIDE DEF G
            <4>. QED BY <1>0, <4>1, <4>3, UpTo
        <3>5. \A n \in 0 .. N : k <= n => at[n] = Null
            <4>. TAKE n \in 0 .. N
            <4>. HAVE k <= n
            <4>1. n - k \in 0 .. N /\ k + (n - k) = n
                BY <1>0, <3>3, SMTT(20)
            <4>2. n - k \in G
                BY <3>4, <4>1
            <4>. QED BY <4>1, <4>2
        <3>6. \A n \in 0 .. N : n \in L <=> ~(k <= n)
            BY <3>2, <3>5
        <3>7. L = 0 .. k - 1
            <4>1. \A n \in L : n \in 0 .. k - 1
                <5>1. \A n \in 0 .. N : ~(k <= n) => n \in 0 .. k - 1
                    BY <1>0, <3>3, SMTT(20)
                <5>. QED BY <3>6, <5>1
            <4>2. \A n \in 0 .. k - 1 : n \in L
                <5>1. \A n \in 0 .. k - 1 : n \in 0 .. N /\ ~(k <= n)
                    BY <1>0, <3>3, SMTT(20)
                <5>. QED BY <3>6, <5>1
            <4>. HIDE DEF L
            <4>. QED BY <4>1, <4>2
        <3>8. k \in 0 .. N + 1
            BY <1>0, <3>3, SMTT(20)
        <3>. QED BY <3>3, <3>7, <3>8
    <2>. QED BY <2>1, <2>2
<1>4. PICK k \in 0 .. N + 1 : L = 0 .. k - 1 /\ (k \in 0 .. N => at[k] = Null)
    BY <1>3
<1>5. k \in Nat /\ Cardinality(L) = k
    <2>1. k \in Nat /\ 0 \in Int /\ k - 1 \in Int
        BY <1>0, SMTT(20)
    <2>2. Cardinality(0 .. k - 1) = IF 0 > k - 1 THEN 0 ELSE (k - 1) - 0 + 1
        BY <2>1, FS_Interval
    <2>3. Cardinality(0 .. k - 1) = k
        BY <2>1, <2>2, SMTT(20)
    <2>. QED BY <1>4, <2>1, <2>3
<1>6. c = [i \in 1 .. k |-> at[i - 1]]
    BY <1>5
<1>. HIDE DEF c
<1>7. /\ \A i \in 1 .. k : i - 1 \in 0 .. N /\ i - 1 \in 0 .. k - 1
      /\ \A i \in 1 .. k : i + 1 \in 1 .. k => i \in 1 .. N /\ (i + 1) - 1 = i
      /\ k \in 1 .. N => k \in 1 .. k /\ k \in 0 .. N
    BY <1>0, <1>5, SMTT(20)
<1>8. \A i \in 1 .. k : at[i - 1] \in Events /\ at[i - 1] # Null
    BY <1>1, <1>4, <1>7 DEF Pointers
<1>9. c \in Seq(Events) /\ Len(c) = k
    <2>1. c \in [1 .. k -> Events]
        BY <1>6, <1>8
    <2>. QED BY <1>5, <2>1, SMTT(20)
<1>10. e # Null => k # 0 /\ c[1] = e
    <2>. HAVE e # Null
    <2>1. 0 \in 0 .. N
        BY <1>0, SMTT(20)
    <2>2. 0 \in L
        BY <1>1, <2>1
    <2>3. k # 0 /\ 1 \in 1 .. k /\ 1 - 1 = 0
        <3>. HIDE DEF L
        <3>. QED BY <1>4, <1>5, <2>2, SMTT(20)
    <2>. QED BY <1>1, <1>6, <2>3
<1>11. \A i \in 1 .. k : i + 1 \in 1 .. k => c[i + 1] = next[c[i]]
    BY <1>1, <1>6, <1>7, <1>8
<1>12. k \in 1 .. N => next[c[k]] = Null
    <2>. HAVE k \in 1 .. N
    <2>1. at[k] = Null /\ c[k] = at[k - 1] /\ at[k - 1] # Null
        BY <1>4, <1>6, <1>7, <1>8
    <2>. QED BY <1>1, <2>1
<1>13. Follows(next, e, c)
    BY <1>4, <1>9, <1>10, <1>11, <1>12 DEF Follows, N
<1>. QED BY <1>2, <1>13

\* The pointers stay in U and go up in the strict order R.
Climbs(next, U, R) ==
    /\ U \subseteq Events
    /\ \A x \in U : <<x, x>> \notin R
    /\ \A x, y, z \in U : <<x, y>> \in R /\ <<y, z>> \in R => <<x, z>> \in R
    /\ \A x \in U : next[x] # Null => next[x] \in U /\ <<x, next[x]>> \in R

\* c is the whole walk from e to NULL.
Whole(next, U, R, e, c) ==
    /\ Len(c) \in Nat \ {0} /\ DOMAIN c = 1 .. Len(c) /\ c[1] = e
    /\ \A i \in 1 .. Len(c) : c[i] \in U
    /\ \A i \in 1 .. Len(c) : i + 1 \in 1 .. Len(c) => c[i + 1] = next[c[i]]
    /\ \A i, j \in 1 .. Len(c) : i < j => <<c[i], c[j]>> \in R
    /\ next[c[Len(c)]] = Null

\* A walk up reaches NULL before it is cut short: it meets no event twice.
LEMMA ChainIsWhole ==
    ASSUME NEW next \in [Events -> Pointers], NEW U, NEW R, Climbs(next, U, R),
           NEW e \in U
    PROVE  Whole(next, U, R, e, Chain(next, e))
<1>. DEFINE c == Chain(next, e)
            N == Cardinality(Events)
            k == Len(c)
<1>0. N \in Nat /\ e \in Pointers /\ e # Null /\ U \subseteq Events /\ Null \notin Events
    BY EventsAssumption, FS_CardinalityType DEF Climbs, Pointers
<1>1. Follows(next, e, c)
    BY <1>0, ChainFollows
<1>. HIDE DEF c, N
<1>2. c \in Seq(Events) /\ k \in 0 .. N + 1 /\ k # 0 /\ c[1] = e
    BY <1>0, <1>1 DEF Follows, N
<1>3. \A i \in 1 .. k : i + 1 \in 1 .. k => c[i + 1] = next[c[i]]
    BY <1>1 DEF Follows
<1>4. k \in Nat /\ \A i \in 1 .. k : c[i] \in Events /\ c[i] # Null
    <2>1. k \in Nat
        BY <1>0, <1>2, SMTT(20)
    <2>2. \A i \in 1 .. k : c[i] \in Events
        BY <1>2, SMTT(20)
    <2>. QED BY <1>0, <2>1, <2>2
<1>. HIDE DEF k
<1>5. \A i \in 1 .. k : c[i] \in U
    <2>. DEFINE G == {i \in Nat : i \in 1 .. k => c[i] \in U}
    <2>1. 0 \in G
        BY <1>4, SMTT(20)
    <2>2. ASSUME NEW i \in 1 .. k, i - 1 \in G PROVE i \in G
        <3>1. i \in Nat /\ (i # 1 => i - 1 \in 1 .. k) /\ (i - 1) + 1 = i
            BY <1>4, SMTT(20)
        <3>2. CASE i = 1
            BY <1>2, <3>1, <3>2
        <3>3. CASE i # 1
            <4>1. c[i - 1] \in U /\ c[i] = next[c[i - 1]] /\ c[i] # Null
                BY <1>3, <1>4, <2>2, <3>1, <3>3
            <4>. QED BY <3>1, <4>1 DEF Climbs
        <3>. QED BY <3>2, <3>3
    <2>3. \A i \in 1 .. k : i - 1 \in G => i \in G
        BY <2>2
    <2>. HIDE DEF G
    <2>4. \A i \in 0 .. k : i \in G
        BY <1>4, <2>1, <2>3, UpTo
    <2>5. \A i \in 1 .. k : i \in 0 .. k
        BY <1>4, SMTT(20)
    <2>. QED BY <2>4, <2>5 DEF G
<1>6. \A i, j \in 1 .. k : i < j => <<c[i], c[j]>> \in R
    <2>. TAKE i \in 1 .. k
    <2>. DEFINE G == {j \in Nat : j \in 1 .. k /\ i < j => <<c[i], c[j]>> \in R}
    <2>1. 0 \in G
        BY <1>4, SMTT(20)
    <2>2. ASSUME NEW j \in 1 .. k, j - 1 \in G PROVE j \in G
        <3>1. /\ j \in Nat /\ (j - 1) + 1 = j
              /\ i < j => j - 1 \in 1 .. k /\ (i = j - 1 \/ i < j - 1)
            BY <1>4, SMTT(20)
        <3>2. ASSUME i < j PROVE <<c[i], c[j]>> \in R
            <4>1. j - 1 \in 1 .. k /\ (i = j - 1 \/ i < j - 1)
                BY <3>1, <3>2
            <4>2. c[i] \in U /\ c[j] \in U /\ c[j - 1] \in U
                BY <1>5, <4>1
            <4>3. c[j] = next[c[j - 1]] /\ c[j] # Null
                BY <1>3, <1>4, <3>1, <4>1
            <4>4. <<c[j - 1], c[j]>> \in R
                BY <4>2, <4>3 DEF Climbs
            <4>5. CASE i = j - 1
                BY <4>4, <4>5
            <4>6. CASE i < j - 1
                <5>1. <<c[i], c[j - 1]>> \in R
                    BY <2>2, <4>1, <4>6
                <5>. QED BY <4>2, <4>4, <5>1 DEF Climbs
            <4>. QED BY <4>1, <4>5, <4>6
        <3>. QED BY <3>1, <3>2
    <2>3. \A j \in 1 .. k : j - 1 \in G => j \in G
        BY <2>2
    <2>. HIDE DEF G
    <2>4. \A j \in 0 .. k : j \in G
        BY <1>4, <2>1, <2>3, UpTo
    <2>5. \A j \in 1 .. k : j \in 0 .. k
        BY <1>4, SMTT(20)
    <2>. QED BY <2>4, <2>5 DEF G
<1>7. k \in 1 .. N
    <2>. DEFINE f == [i \in 1 .. k |-> c[i]]
    <2>1. f \in [1 .. k -> Events]
        BY <1>4
    <2>2. ASSUME NEW i \in 1 .. k, NEW j \in 1 .. k, f[i] = f[j] PROVE i = j
        <3>1. c[i] = c[j] /\ c[i] \in U
            BY <1>5, <2>2
        <3>2. ~(i < j) /\ ~(j < i)
            BY <1>6, <3>1 DEF Climbs
        <3>. QED BY <1>4, <3>2, SMTT(20)
    <2>3. f \in Injection(1 .. k, Events)
        <3>. HIDE DEF f
        <3>. QED BY <2>1, <2>2 DEF Injection, IsInjective
    <2>4. Cardinality(1 .. k) <= N
        <3>. HIDE DEF f
        <3>. QED BY <2>3, EventsAssumption, FS_Injection DEF N
    <2>5. Cardinality(1 .. k) = k
        <3>1. 1 \in Int /\ k \in Int
            BY <1>4, SMTT(20)
        <3>2. Cardinality(1 .. k) = IF 1 > k THEN 0 ELSE k - 1 + 1
            BY <3>1, FS_Interval
        <3>. QED BY <1>4, <3>2, SMTT(20)
    <2>6. k <= N
        BY <2>4, <2>5
    <2>. QED BY <1>0, <1>2, <1>4, <2>6, SMTT(20)
<1>8. next[c[k]] = Null
    BY <1>1, <1>7 DEF Follows, k, N
<1>9. k \in Nat \ {0}
    BY <1>2, <1>4
<1>10. DOMAIN c = 1 .. k
    BY <1>2, SMTT(20) DEF k
<1>11. Whole(next, U, R, e, c)
    BY <1>2, <1>3, <1>5, <1>6, <1>8, <1>9, <1>10 DEF Whole, k
<1>. QED BY <1>11 DEF c

\* s is what a walk up from e meets.
Reached(next, U, R, e, s) ==
    /\ s \subseteq U /\ e \in s
    /\ \A x \in s : x = e \/ <<e, x>> \in R
    /\ \A x \in s : next[x] # Null => next[x] \in s
    /\ \E x \in s : next[x] = Null

\* A walk up meets e, what follows each event it meets, and a last event.
LEMMA WalkReaches ==
    ASSUME NEW next \in [Events -> Pointers], NEW U, NEW R, Climbs(next, U, R),
           NEW e \in U
    PROVE  Reached(next, U, R, e, Range(Chain(next, e)))
<1>. DEFINE c == Chain(next, e)
            k == Len(c)
<1>1. Whole(next, U, R, e, c)
    BY ChainIsWhole
<1>. HIDE DEF c
<1>2. /\ k \in Nat \ {0} /\ DOMAIN c = 1 .. k /\ c[1] = e /\ next[c[k]] = Null
      /\ \A i \in 1 .. k : c[i] \in U
      /\ \A i \in 1 .. k : i + 1 \in 1 .. k => c[i + 1] = next[c[i]]
      /\ \A i, j \in 1 .. k : i < j => <<c[i], c[j]>> \in R
    BY <1>1 DEF Whole
<1>. HIDE DEF k
<1>3. Range(c) = {c[i] : i \in 1 .. k} /\ 1 \in 1 .. k /\ k \in 1 .. k
    <2>1. 1 \in 1 .. k /\ k \in 1 .. k
        BY <1>2, SMTT(20)
    <2>. QED BY <1>2, <2>1 DEF Range
<1>4. ASSUME NEW x \in Range(c) PROVE x = e \/ <<e, x>> \in R
    <2>1. PICK i \in 1 .. k : x = c[i]
        BY <1>3
    <2>2. i = 1 \/ 1 < i
        BY <1>2, <2>1, SMTT(20)
    <2>. QED BY <1>2, <1>3, <2>1, <2>2
<1>5. ASSUME NEW x \in Range(c), next[x] # Null PROVE next[x] \in Range(c)
    <2>1. PICK i \in 1 .. k : x = c[i]
        BY <1>3
    <2>2. i # k
        BY <1>2, <1>5, <2>1
    <2>3. i + 1 \in 1 .. k
        BY <1>2, <2>1, <2>2, SMTT(20)
    <2>. QED BY <1>2, <1>3, <2>1, <2>3
<1>6. Range(c) \subseteq U /\ e \in Range(c) /\ \E x \in Range(c) : next[x] = Null
    BY <1>2, <1>3
<1>. QED BY <1>4, <1>5, <1>6 DEF Reached, c

\* It meets nothing else.
LEMMA WalkLeast ==
    ASSUME NEW next \in [Events -> Pointers], NEW U, NEW R, Climbs(next, U, R),
           NEW e \in U, NEW G, e \in G,
           \A x \in Range(Chain(next, e)) : x \in G /\ next[x] # Null => next[x] \in G
    PROVE  Range(Chain(next, e)) \subseteq G
<1>. DEFINE c == Chain(next, e)
            k == Len(c)
            H == {n \in 0 .. k - 1 : c[n + 1] \in G}
<1>1. Whole(next, U, R, e, c) /\ U \subseteq Events /\ Null \notin Events
    BY ChainIsWhole, EventsAssumption DEF Climbs
<1>2. \A x \in Range(c) : x \in G /\ next[x] # Null => next[x] \in G
    OBVIOUS
<1>. HIDE DEF c
<1>3. /\ k \in Nat \ {0} /\ DOMAIN c = 1 .. k /\ c[1] = e
      /\ \A i \in 1 .. k : c[i] \in U
      /\ \A i \in 1 .. k : i + 1 \in 1 .. k => c[i + 1] = next[c[i]]
    BY <1>1 DEF Whole
<1>. HIDE DEF k
<1>4. Range(c) = {c[i] : i \in 1 .. k}
    BY <1>3 DEF Range
<1>5. 0 \in H
    <2>1. 0 \in 0 .. k - 1 /\ 0 + 1 = 1
        BY <1>3, SMTT(20)
    <2>. QED BY <1>3, <2>1
<1>6. ASSUME NEW i \in 1 .. k - 1, i - 1 \in H PROVE i \in H
    <2>1. i \in 0 .. k - 1 /\ i \in 1 .. k /\ i + 1 \in 1 .. k /\ (i - 1) + 1 = i
        BY <1>3, SMTT(20)
    <2>2. c[i] \in G
        BY <1>6, <2>1
    <2>3. c[i + 1] = next[c[i]] /\ c[i + 1] # Null
        BY <1>1, <1>3, <2>1
    <2>. QED BY <1>2, <1>4, <2>1, <2>2, <2>3
<1>7. \A n \in 0 .. k - 1 : n \in H
    <2>1. k - 1 \in Nat
        BY <1>3, SMTT(20)
    <2>. HIDE DEF H
    <2>. QED BY <1>5, <1>6, <2>1, UpTo
<1>8. \A i \in 1 .. k : i - 1 \in 0 .. k - 1 /\ (i - 1) + 1 = i
    BY <1>3, SMTT(20)
<1>9. \A i \in 1 .. k : c[i] \in G
    <2>. TAKE i \in 1 .. k
    <2>1. i - 1 \in H
        BY <1>7, <1>8
    <2>. QED BY <1>8, <2>1
<1>. QED BY <1>4, <1>9 DEF c

\* There is no walk from NULL.
LEMMA NoWalk ==
    ASSUME NEW next \in [Events -> Pointers]
    PROVE  Range(Chain(next, Null)) = {}
<1>. DEFINE N == Cardinality(Events)
            at == Walked(next, Null)
            H == {n \in 0 .. N : at[n] = Null}
<1>0. N \in Nat
    BY EventsAssumption, FS_CardinalityType
<1>1. /\ at \in [0 .. N -> Pointers] /\ at[0] = Null
      /\ \A n \in 1 .. N : at[n] = IF at[n - 1] = Null THEN Null ELSE next[at[n - 1]]
    BY WalkedSteps DEF Pointers
<1>2. Chain(next, Null) = [i \in 1 .. Cardinality({n \in DOMAIN at : at[n] # Null}) |-> at[i - 1]]
    BY DEF Chain
<1>. HIDE DEF N, at
<1>3. 0 \in H
    <2>1. 0 \in 0 .. N
        BY <1>0, SMTT(20)
    <2>. QED BY <1>1, <2>1
<1>4. ASSUME NEW i \in 1 .. N, i - 1 \in H PROVE i \in H
    <2>1. i \in 0 .. N
        BY <1>0, SMTT(20)
    <2>. QED BY <1>1, <1>4, <2>1
<1>5. \A n \in 0 .. N : n \in H
    <2>. HIDE DEF H
    <2>. QED BY <1>0, <1>3, <1>4, UpTo
<1>6. {n \in DOMAIN at : at[n] # Null} = {}
    BY <1>1, <1>5
<1>7. DOMAIN Chain(next, Null) = {}
    <2>1. Cardinality({}) = 0
        BY FS_EmptySet
    <2>2. 1 .. 0 = {}
        BY SMTT(20)
    <2>. QED BY <1>2, <1>6, <2>1, <2>2
<1>. QED BY <1>7 DEF Range

-----------------------------------------------------------------------------
(* The order of events, whatever their times are. *)

\* operator<, of the times alone.
Before(w, e, f) == w[e] < w[f] \/ (w[e] = w[f] /\ Priority[e] < Priority[f])

\* Of one time and priority: of one bin.
Alike(w, e, f) == w[e] = w[f] /\ Priority[e] = Priority[f]

\* A strict order of the events of E in which the incomparable ones are alike.
Ordered(w, E) ==
    /\ \A x \in E : ~Before(w, x, x) /\ Alike(w, x, x)
    /\ \A x, y \in E : Alike(w, x, y) => Alike(w, y, x) /\ ~Before(w, x, y)
    /\ \A x, y \in E : Before(w, x, y) \/ Alike(w, x, y) \/ Before(w, y, x)
    /\ \A x, y, z \in E : Before(w, x, y) /\ Before(w, y, z) => Before(w, x, z)
    /\ \A x, y, z \in E : Before(w, x, y) /\ Alike(w, y, z) => Before(w, x, z)
    /\ \A x, y, z \in E : Alike(w, x, y) /\ Before(w, y, z) => Before(w, x, z)
    /\ \A x, y, z \in E : Alike(w, x, y) /\ Alike(w, y, z) => Alike(w, x, z)

\* operator< orders the events, whatever the times are.
LEMMA EventsOrdered ==
    ASSUME NEW w \in [Events -> Int]
    PROVE  Ordered(w, Events)
<1>1. \A x \in Events : w[x] \in Int /\ Priority[x] \in Int
    BY EventsAssumption
<1>2. \A x \in Events : ~Before(w, x, x) /\ Alike(w, x, x)
    BY <1>1, SMTT(20) DEF Before, Alike
<1>3. \A x, y \in Events : Alike(w, x, y) => Alike(w, y, x) /\ ~Before(w, x, y)
    BY <1>1, SMTT(20) DEF Before, Alike
<1>4. \A x, y \in Events : Before(w, x, y) \/ Alike(w, x, y) \/ Before(w, y, x)
    BY <1>1, SMTT(20) DEF Before, Alike
<1>5. \A x, y, z \in Events : Before(w, x, y) /\ Before(w, y, z) => Before(w, x, z)
    BY <1>1, SMTT(20) DEF Before
<1>6. \A x, y, z \in Events : Before(w, x, y) /\ Alike(w, y, z) => Before(w, x, z)
    BY <1>1, SMTT(20) DEF Before, Alike
<1>7. \A x, y, z \in Events : Alike(w, x, y) /\ Before(w, y, z) => Before(w, x, z)
    BY <1>1, SMTT(20) DEF Before, Alike
<1>8. \A x, y, z \in Events : Alike(w, x, y) /\ Alike(w, y, z) => Alike(w, x, z)
    BY <1>1, SMTT(20) DEF Before, Alike
<1>. QED BY <1>2, <1>3, <1>4, <1>5, <1>6, <1>7, <1>8 DEF Ordered

-----------------------------------------------------------------------------
(* The list of bins. *)

\* The head comes before every event.
Above(w, p, e) == p = Null \/ Before(w, p, e)

\* b is the first of the tops T behind p, or NULL.
FirstAbove(w, T, p, b) ==
    /\ b = Null => \A c \in T : ~Above(w, p, c)
    /\ b # Null => /\ b \in T /\ Above(w, p, b)
                   /\ \A c \in T : Above(w, p, c) => c = b \/ Before(w, b, c)

\* The links between the tops T, link[Null] being the head: one top for each
\* time and priority, and each links to the first one behind it.
Tops(link, w, T) ==
    /\ T \subseteq Events
    /\ \A x, y \in T : Alike(w, x, y) => x = y
    /\ \A p \in T \cup {Null} : FirstAbove(w, T, p, link[p])

\* A bin comes after one bin only.
LEMMA OneBefore ==
    ASSUME NEW link, NEW w, NEW T, Tops(link, w, T), Ordered(w, Events),
           NEW x \in T \cup {Null}, NEW y \in T \cup {Null},
           link[x] = link[y], link[x] # Null
    PROVE  x = y
<1>. DEFINE b == link[x]
<1>1. /\ b \in T /\ Above(w, x, b) /\ Above(w, y, b)
      /\ \A c \in T : Above(w, x, c) => c = b \/ Before(w, b, c)
      /\ \A c \in T : Above(w, y, c) => c = b \/ Before(w, b, c)
    BY DEF Tops, FirstAbove
<1>. HIDE DEF b
<1>2. \A c \in Events : ~Before(w, c, c)
    BY DEF Ordered
<1>3. Null \notin Events /\ T \subseteq Events
    BY EventsAssumption DEF Tops
<1>4. ASSUME NEW c \in T, Above(w, c, b) PROVE ~(c = b \/ Before(w, b, c))
    <2>1. Before(w, c, b)
        BY <1>3, <1>4 DEF Above
    <2>. QED BY <1>1, <1>2, <1>3, <2>1 DEF Ordered
<1>5. CASE x = Null \/ y = Null
    BY <1>1, <1>4, <1>5 DEF Above
<1>6. CASE x \in T /\ y \in T
    <2>1. ~Above(w, x, y) /\ ~Above(w, y, x)
        BY <1>1, <1>4, <1>6
    <2>2. ~Before(w, x, y) /\ ~Before(w, y, x)
        BY <2>1 DEF Above
    <2>3. Alike(w, x, y)
        BY <1>3, <1>6, <2>2 DEF Ordered
    <2>. QED BY <1>6, <2>3 DEF Tops
<1>. QED BY <1>5, <1>6

\* insertBefore() with a new bin for e between p and the bin p links to.
LEMMA NewTop ==
    ASSUME NEW link, NEW w, NEW T, Tops(link, w, T), Ordered(w, Events),
           NEW e \in Events, e \notin T, NEW p \in T \cup {Null}, Above(w, p, e),
           link[p] = Null \/ Before(w, e, link[p]),
           NEW link2, link2[e] = link[p], link2[p] = e,
           \A x \in T \cup {Null} : x # p => link2[x] = link[x]
    PROVE  Tops(link2, w, T \cup {e})
<1>0. /\ Null \notin Events /\ T \subseteq Events
      /\ \A x \in T \cup {Null} : FirstAbove(w, T, x, link[x])
      /\ \A x, y, z \in Events : Before(w, x, y) /\ Before(w, y, z) => Before(w, x, z)
      /\ \A x \in Events : ~Before(w, x, x)
    BY EventsAssumption DEF Tops, Ordered
<1>1. \A c \in T : Above(w, p, c) => link[p] # Null /\ Before(w, e, c)
    <2>. TAKE c \in T
    <2>. HAVE Above(w, p, c)
    <2>1. link[p] # Null /\ link[p] \in T /\ (c = link[p] \/ Before(w, link[p], c))
        BY <1>0 DEF FirstAbove
    <2>. QED BY <1>0, <2>1
<1>2. \A c \in T : Above(w, e, c) => Above(w, p, c)
    BY <1>0 DEF Above
<1>3. \A c \in T : ~Alike(w, c, e) /\ ~Alike(w, e, c)
    <2>. SUFFICES ASSUME NEW c \in T, Alike(w, c, e) \/ Alike(w, e, c) PROVE FALSE
        OBVIOUS
    <2>1. Alike(w, e, c) /\ ~Before(w, e, c)
        BY <1>0 DEF Ordered
    <2>2. Above(w, p, c)
        BY <1>0, <2>1 DEF Above, Ordered
    <2>. QED BY <1>1, <2>1, <2>2
<1>4. \A x, y \in T \cup {e} : Alike(w, x, y) => x = y
    <2>1. \A x, y \in T : Alike(w, x, y) => x = y
        BY DEF Tops
    <2>. QED BY <1>3, <2>1, SMTT(20)
<1>5. FirstAbove(w, T \cup {e}, e, link2[e])
    <2>1. ~Above(w, e, e)
        BY <1>0 DEF Above
    <2>2. FirstAbove(w, T, p, link[p])
        BY <1>0
    <2>3. link[p] # Null => Above(w, e, link[p])
        BY DEF Above
    <2>. QED BY <1>2, <2>1, <2>2, <2>3 DEF FirstAbove
<1>6. FirstAbove(w, T \cup {e}, p, link2[p])
    <2>1. e # Null
        BY <1>0
    <2>. QED BY <1>1, <2>1 DEF FirstAbove
<1>7. ASSUME NEW x \in T \cup {Null}, x # p
      PROVE  FirstAbove(w, T \cup {e}, x, link2[x])
    <2>1. FirstAbove(w, T, x, link[x]) /\ link2[x] = link[x]
        BY <1>0, <1>7
    <2>2. ASSUME Above(w, x, e) PROVE p # Null /\ p \in T /\ Above(w, x, p)
        <3>1. CASE x = Null
            BY <1>7, <3>1 DEF Above
        <3>2. CASE x # Null
            <4>1. x \in T /\ Before(w, x, e)
                BY <1>7, <2>2, <3>2 DEF Above
            <4>2. ~Before(w, e, x)
                BY <1>0, <4>1
            <4>3. ~Above(w, p, x)
                BY <1>1, <4>1, <4>2
            <4>4. p # Null /\ p \in T /\ ~Before(w, p, x)
                BY <4>3 DEF Above
            <4>5. ~Alike(w, p, x)
                BY <1>7, <4>1, <4>4 DEF Tops
            <4>6. Before(w, x, p)
                BY <1>0, <4>1, <4>4, <4>5 DEF Ordered
            <4>. QED BY <4>4, <4>6 DEF Above
        <3>. QED BY <3>1, <3>2
    <2>3. ASSUME Above(w, x, e) PROVE link[x] # Null /\ link[x] \in T /\ Before(w, link[x], e)
        <3>1. link[x] # Null /\ link[x] \in T /\ (p = link[x] \/ Before(w, link[x], p))
            BY <2>1, <2>2, <2>3 DEF FirstAbove
        <3>2. Before(w, p, e)
            BY <2>2, <2>3 DEF Above
        <3>. QED BY <1>0, <2>2, <2>3, <3>1, <3>2
    <2>. QED BY <2>1, <2>3 DEF FirstAbove
<1>. QED BY <1>0, <1>4, <1>5, <1>6, <1>7 DEF Tops

\* e takes the place of the top of its bin: pushed on it, or left by its pop.
LEMMA ReplaceTop ==
    ASSUME NEW link, NEW w, NEW T, Tops(link, w, T), Ordered(w, Events),
           NEW e \in Events, e \notin T, NEW p \in T \cup {Null}, NEW top \in T,
           link[p] = top, Alike(w, top, e),
           NEW link2, link2[e] = link[top], link2[p] = e,
           \A x \in T \cup {Null} : x # p => link2[x] = link[x]
    PROVE  Tops(link2, w, (T \ {top}) \cup {e})
<1>. DEFINE T2 == (T \ {top}) \cup {e}
<1>0. /\ Null \notin Events /\ T \subseteq Events /\ top \in Events /\ top # Null
      /\ \A x \in T \cup {Null} : FirstAbove(w, T, x, link[x])
      /\ \A x \in Events : ~Before(w, x, x)
      /\ Alike(w, e, top)
    BY EventsAssumption DEF Tops, Ordered
<1>1. \A x \in Events : Before(w, x, top) <=> Before(w, x, e)
    BY <1>0 DEF Ordered
<1>2. \A x \in Events : Before(w, top, x) <=> Before(w, e, x)
    BY <1>0 DEF Ordered
<1>3. \A x \in T \cup {Null} : Above(w, x, top) <=> Above(w, x, e)
    BY <1>0, <1>1 DEF Above
<1>4. \A x \in T : Above(w, top, x) <=> Above(w, e, x)
    BY <1>0, <1>2 DEF Above
<1>5. \A x \in T : Alike(w, x, e) \/ Alike(w, e, x) => x = top
    <2>1. \A x \in T : Alike(w, x, e) \/ Alike(w, e, x) => Alike(w, x, top)
        BY <1>0 DEF Ordered
    <2>. QED BY <2>1 DEF Tops
<1>6. \A x, y \in T2 : Alike(w, x, y) => x = y
    <2>1. \A x, y \in T : Alike(w, x, y) => x = y
        BY DEF Tops
    <2>2. \A x \in T2 : x = e \/ (x \in T /\ x # top)
        OBVIOUS
    <2>3. \A x \in T2 : Alike(w, x, e) \/ Alike(w, e, x) => x = e
        BY <1>5, <2>2
    <2>. HIDE DEF T2
    <2>. QED BY <2>1, <2>2, <2>3, SMTT(20)
<1>7. FirstAbove(w, T2, e, link2[e])
    <2>1. ~Above(w, e, e) /\ ~Above(w, top, top)
        BY <1>0 DEF Above
    <2>2. FirstAbove(w, T, top, link[top])
        BY <1>0
    <2>. QED BY <1>4, <2>1, <2>2 DEF FirstAbove
<1>8. FirstAbove(w, T2, p, link2[p])
    <2>1. FirstAbove(w, T, p, top) /\ e # Null
        BY <1>0
    <2>2. \A c \in T : Above(w, p, c) => c = top \/ Before(w, e, c)
        BY <1>0, <1>2, <2>1 DEF FirstAbove
    <2>3. Above(w, p, e)
        BY <1>0, <1>3, <2>1 DEF FirstAbove
    <2>. QED BY <2>1, <2>2, <2>3 DEF FirstAbove
<1>9. ASSUME NEW x \in T \cup {Null}, x # p, x # top
      PROVE  FirstAbove(w, T2, x, link2[x])
    <2>1. FirstAbove(w, T, x, link[x]) /\ link2[x] = link[x]
        BY <1>0, <1>9
    <2>2. link[x] # top
        BY <1>0, <1>9, OneBefore
    <2>3. ASSUME Above(w, x, e)
          PROVE  link[x] # Null /\ link[x] \in T /\ Before(w, link[x], e)
        <3>1. Above(w, x, top)
            BY <1>3, <2>3
        <3>2. link[x] # Null /\ link[x] \in T /\ Before(w, link[x], top)
            BY <2>1, <2>2, <3>1 DEF FirstAbove
        <3>. QED BY <1>0, <1>1, <3>2
    <2>. QED BY <2>1, <2>2, <2>3 DEF FirstAbove
<1>. HIDE DEF T2
<1>10. T2 \subseteq Events /\ \A x \in T2 \cup {Null} : x = e \/ (x \in T \cup {Null} /\ x # top)
    BY <1>0 DEF T2
<1>11. Tops(link2, w, T2)
    BY <1>6, <1>7, <1>8, <1>9, <1>10 DEF Tops
<1>. QED BY <1>11 DEF T2

\* The top of a bin of one event leaves, and the bin with it.
LEMMA DropTop ==
    ASSUME NEW link, NEW w, NEW T, Tops(link, w, T), Ordered(w, Events),
           NEW p \in T \cup {Null}, NEW top \in T, link[p] = top,
           NEW link2, link2[p] = link[top],
           \A x \in T \cup {Null} : x # p => link2[x] = link[x]
    PROVE  Tops(link2, w, T \ {top})
<1>. DEFINE T2 == T \ {top}
<1>0. /\ Null \notin Events /\ T \subseteq Events /\ top \in Events /\ top # Null
      /\ \A x \in T \cup {Null} : FirstAbove(w, T, x, link[x])
      /\ \A x \in Events : ~Before(w, x, x)
    BY EventsAssumption DEF Tops, Ordered
<1>1. FirstAbove(w, T2, p, link[top])
    <2>1. FirstAbove(w, T, p, top) /\ FirstAbove(w, T, top, link[top])
        BY <1>0
    <2>2. Above(w, p, top) /\ \A c \in T : Above(w, p, c) => c = top \/ Before(w, top, c)
        BY <1>0, <2>1 DEF FirstAbove
    <2>3. \A c \in T2 : Above(w, p, c) => Above(w, top, c)
        BY <2>2 DEF Above
    <2>4. \A c \in T : Above(w, top, c) => Before(w, top, c) /\ c # top
        BY <1>0 DEF Above
    <2>5. \A c \in T : Above(w, top, c) => Above(w, p, c) /\ c # top
        <3>. TAKE c \in T
        <3>. HAVE Above(w, top, c)
        <3>1. Before(w, top, c) /\ c # top
            BY <2>4
        <3>2. p # Null => p \in Events /\ Before(w, p, top)
            BY <1>0, <2>2 DEF Above
        <3>3. p # Null => Before(w, p, c)
            BY <1>0, <3>1, <3>2 DEF Ordered
        <3>. QED BY <3>1, <3>3 DEF Above
    <2>. QED BY <2>1, <2>3, <2>5 DEF FirstAbove
<1>2. ASSUME NEW x \in T2 \cup {Null}, x # p
      PROVE  FirstAbove(w, T2, x, link2[x])
    <2>1. FirstAbove(w, T, x, link[x]) /\ link2[x] = link[x]
        BY <1>0, <1>2
    <2>2. link[x] # top
        <3>. SUFFICES ASSUME link[x] = link[p], link[x] # Null PROVE x = p
            BY <1>0, <1>2
        <3>1. x \in T \cup {Null}
            OBVIOUS
        <3>. HIDE DEF T2
        <3>. QED BY <3>1, OneBefore
    <2>. QED BY <2>1, <2>2 DEF FirstAbove
<1>3. T2 \subseteq Events /\ \A x, y \in T2 : Alike(w, x, y) => x = y
    BY <1>0 DEF Tops
<1>. QED BY <1>1, <1>2, <1>3 DEF Tops

\* Two clocks order the events of E alike.
SameOrder(w, w2, E) ==
    \A x, y \in E : /\ Before(w2, x, y) <=> Before(w, x, y)
                    /\ Alike(w2, x, y) <=> Alike(w, x, y)

\* The bins depend on the order of the tops and on what these link to.
LEMMA SameTops ==
    ASSUME NEW link, NEW w, NEW T, Tops(link, w, T), NEW w2, SameOrder(w, w2, T),
           NEW link2, \A x \in T \cup {Null} : link2[x] = link[x]
    PROVE  Tops(link2, w2, T)
<1>1. \A p \in T \cup {Null}, c \in T : Above(w2, p, c) <=> Above(w, p, c)
    BY DEF Above, SameOrder
<1>2. ASSUME NEW p \in T \cup {Null} PROVE FirstAbove(w2, T, p, link2[p])
    <2>1. FirstAbove(w, T, p, link[p]) /\ link2[p] = link[p]
        BY DEF Tops
    <2>. QED BY <1>1, <2>1 DEF FirstAbove, SameOrder
<1>. QED BY <1>2 DEF Tops, SameOrder

-----------------------------------------------------------------------------
(* The bins. *)

\* The scheduled events S in stacks with the tops T: next links each event to a
\* deeper one of its bin (rank says how deep), no two to the same one, and the
\* tops are what nothing links to.
Stacks(next, w, S, T, rank) ==
    /\ T \subseteq S /\ S \subseteq Events /\ rank \in [Events -> Nat]
    /\ \A x \in S : next[x] # Null =>
         next[x] \in S /\ Alike(w, x, next[x]) /\ rank[x] < rank[next[x]]
    /\ \A x, y \in S : next[x] = next[y] /\ next[x] # Null => x = y
    /\ \A x \in S : x \in T <=> \A y \in S : next[y] # x

\* A new bin.
LEMMA NewStack ==
    ASSUME NEW next, NEW w, NEW S, NEW T, NEW rank, Stacks(next, w, S, T, rank),
           NEW e \in Events \ S, NEW next2, next2[e] = Null,
           \A x \in S : next2[x] = next[x]
    PROVE  Stacks(next2, w, S \cup {e}, T \cup {e}, rank)
<1>1. \A x \in S : next2[x] # Null =>
         next2[x] \in S /\ Alike(w, x, next2[x]) /\ rank[x] < rank[next2[x]]
    BY DEF Stacks
<1>2. \A x, y \in S : next2[x] = next2[y] /\ next2[x] # Null => x = y
    BY DEF Stacks
<1>3. \A x \in S : x \in T <=> \A y \in S : next2[y] # x
    BY DEF Stacks
<1>4. \A x \in S \cup {e} : x \in T \cup {e} <=> \A y \in S \cup {e} : next2[y] # x
    <2>0. T \subseteq S /\ Null \notin Events /\ S \subseteq Events
        BY EventsAssumption DEF Stacks
    <2>1. ASSUME NEW x \in S PROVE x \in T \cup {e} <=> \A y \in S \cup {e} : next2[y] # x
        <3>1. next2[e] # x /\ x # e
            BY <2>0
        <3>. QED BY <1>3, <3>1
    <2>2. ASSUME NEW y \in S \cup {e} PROVE next2[y] # e
        BY <1>1, <2>0
    <2>. QED BY <2>1, <2>2
<1>5. \A x \in S \cup {e} : next2[x] # Null =>
         next2[x] \in S \cup {e} /\ Alike(w, x, next2[x]) /\ rank[x] < rank[next2[x]]
    BY <1>1
<1>6. \A x, y \in S \cup {e} : next2[x] = next2[y] /\ next2[x] # Null => x = y
    BY <1>2
<1>. QED BY <1>4, <1>5, <1>6 DEF Stacks

\* e is pushed on the bin of top.
LEMMA PushStack ==
    ASSUME NEW next, NEW w, NEW S, NEW T, NEW rank, Stacks(next, w, S, T, rank),
           NEW e \in Events \ S, NEW top \in T, Alike(w, e, top),
           NEW next2, next2[e] = top, \A x \in S : next2[x] = next[x]
    PROVE  \E rank2 : Stacks(next2, w, S \cup {e}, (T \ {top}) \cup {e}, rank2)
<1>. DEFINE rank2 == [x \in Events |-> IF x = e THEN 0 ELSE rank[x] + 1]
<1>0. T \subseteq S /\ Null \notin Events /\ S \subseteq Events /\ rank \in [Events -> Nat]
    BY EventsAssumption DEF Stacks
<1>1. \A x \in S : next[x] # Null =>
         next[x] \in S /\ Alike(w, x, next[x]) /\ rank[x] < rank[next[x]]
    BY DEF Stacks
<1>2. rank2 \in [Events -> Nat] /\ rank2[e] = 0
    <2>1. \A x \in Events : rank[x] + 1 \in Nat
        BY <1>0, SMTT(20)
    <2>. QED BY <2>1, SMTT(20)
<1>3. \A x \in S : x # e /\ rank2[x] = rank[x] + 1 /\ rank[x] \in Nat
    BY <1>0
<1>. HIDE DEF rank2
<1>4. ASSUME NEW x \in S \cup {e}, next2[x] # Null
      PROVE  next2[x] \in S \cup {e} /\ Alike(w, x, next2[x]) /\ rank2[x] < rank2[next2[x]]
    <2>1. CASE x = e
        <3>1. rank2[top] = rank[top] + 1 /\ rank[top] \in Nat /\ top \in S
            BY <1>0, <1>3
        <3>2. rank2[e] < rank2[top]
            BY <1>2, <3>1, SMTT(20)
        <3>. QED BY <2>1, <3>1, <3>2
    <2>2. CASE x \in S
        <3>1. next2[x] = next[x] /\ next[x] \in S /\ Alike(w, x, next[x]) /\ rank[x] < rank[next[x]]
            BY <1>1, <1>4, <2>2
        <3>2. /\ rank2[x] = rank[x] + 1 /\ rank[x] \in Nat
              /\ rank2[next[x]] = rank[next[x]] + 1 /\ rank[next[x]] \in Nat
            BY <1>3, <2>2, <3>1
        <3>3. rank2[x] < rank2[next[x]]
            BY <3>1, <3>2, SMTT(20)
        <3>. QED BY <3>1, <3>3
    <2>. QED BY <2>1, <2>2
<1>5. \A y \in S : next[y] # top
    BY <1>0 DEF Stacks
<1>6. \A x, y \in S \cup {e} : next2[x] = next2[y] /\ next2[x] # Null => x = y
    <2>1. \A x, y \in S : next2[x] = next2[y] /\ next2[x] # Null => x = y
        BY DEF Stacks
    <2>2. \A y \in S : next2[y] # next2[e]
        BY <1>5
    <2>. QED BY <2>1, <2>2
<1>7. ASSUME NEW x \in S \cup {e}
      PROVE  x \in (T \ {top}) \cup {e} <=> \A y \in S \cup {e} : next2[y] # x
    <2>1. CASE x = e
        <3>1. \A y \in S : next2[y] # e
            BY <1>0, <1>1
        <3>2. next2[e] # e
            BY <1>0
        <3>. QED BY <2>1, <3>1, <3>2
    <2>2. CASE x = top
        BY <1>0, <2>2
    <2>3. CASE x # e /\ x # top
        <3>1. x \in T <=> \A y \in S : next2[y] # x
            BY <2>3 DEF Stacks
        <3>. QED BY <2>3, <3>1
    <2>. QED BY <2>1, <2>2, <2>3
<1>8. Stacks(next2, w, S \cup {e}, (T \ {top}) \cup {e}, rank2)
    <2>1. (T \ {top}) \cup {e} \subseteq S \cup {e} /\ S \cup {e} \subseteq Events
        BY <1>0
    <2>. QED BY <1>2, <1>4, <1>6, <1>7, <2>1 DEF Stacks
<1>. QED BY <1>8

\* The stacks without top: the next of its bin is a top, unless the bin is empty.
Popped(next, w, S, T, rank, top) ==
    /\ next[top] = Null => Stacks(next, w, S \ {top}, T \ {top}, rank)
    /\ next[top] # Null =>
         /\ next[top] \in S \ T
         /\ Stacks(next, w, S \ {top}, (T \ {top}) \cup {next[top]}, rank)

\* The top of a bin leaves.
LEMMA PopStack ==
    ASSUME NEW next, NEW w, NEW S, NEW T, NEW rank, Stacks(next, w, S, T, rank),
           NEW top \in T
    PROVE  Popped(next, w, S, T, rank, top)
<1>0. T \subseteq S /\ Null \notin Events /\ S \subseteq Events /\ rank \in [Events -> Nat]
    BY EventsAssumption DEF Stacks
<1>1. \A y \in S : next[y] # top
    BY <1>0 DEF Stacks
<1>2. \A x \in S \ {top} : next[x] # Null =>
         next[x] \in S \ {top} /\ Alike(w, x, next[x]) /\ rank[x] < rank[next[x]]
    BY <1>1 DEF Stacks
<1>3. \A x, y \in S : next[x] = next[y] /\ next[x] # Null => x = y
    BY DEF Stacks
<1>4. \A x \in S : x \in T <=> \A y \in S : next[y] # x
    BY DEF Stacks
<1>5. S \ {top} \subseteq Events /\ T \ {top} \subseteq S \ {top}
    BY <1>0
<1>6. \A x, y \in S \ {top} : next[x] = next[y] /\ next[x] # Null => x = y
    BY <1>3
<1>7. ASSUME next[top] = Null PROVE Stacks(next, w, S \ {top}, T \ {top}, rank)
    <2>1. ASSUME NEW x \in S \ {top}
          PROVE  x \in T \ {top} <=> \A y \in S \ {top} : next[y] # x
        <3>1. next[top] # x
            BY <1>0, <1>7
        <3>. QED BY <1>4, <3>1
    <2>. QED BY <1>0, <1>2, <1>5, <1>6, <2>1 DEF Stacks
<1>8. ASSUME next[top] # Null
      PROVE  /\ next[top] \in S \ T
             /\ Stacks(next, w, S \ {top}, (T \ {top}) \cup {next[top]}, rank)
    <2>1. next[top] \in S /\ next[top] # top
        BY <1>0, <1>1, <1>8 DEF Stacks
    <2>2. next[top] \notin T
        BY <1>0, <1>4, <2>1
    <2>3. ASSUME NEW x \in S \ {top}
          PROVE  x \in (T \ {top}) \cup {next[top]} <=> \A y \in S \ {top} : next[y] # x
        <3>1. CASE x = next[top]
            BY <1>0, <1>3, <1>8, <3>1
        <3>2. CASE x # next[top]
            BY <1>4, <3>2
        <3>. QED BY <3>1, <3>2
    <2>4. (T \ {top}) \cup {next[top]} \subseteq S \ {top}
        BY <1>5, <2>1
    <2>. QED BY <1>0, <1>2, <1>5, <1>6, <2>1, <2>2, <2>3, <2>4 DEF Stacks
<1>. QED BY <1>7, <1>8 DEF Popped

\* An event below the top leaves: the one above it links to the one below.
LEMMA Unlink ==
    ASSUME NEW next, NEW w, NEW S, NEW T, NEW rank, Stacks(next, w, S, T, rank),
           Ordered(w, Events),
           NEW e \in S \ T, NEW above \in S, next[above] = e,
           NEW next2, next2[above] = next[e], \A x \in S : x # above => next2[x] = next[x]
    PROVE  Stacks(next2, w, S \ {e}, T, rank)
<1>0. /\ T \subseteq S /\ Null \notin Events /\ S \subseteq Events
      /\ \A x \in S : rank[x] \in Nat
      /\ rank \in [Events -> Nat]
    BY EventsAssumption DEF Stacks
<1>1. \A x \in S : next[x] # Null =>
         next[x] \in S /\ Alike(w, x, next[x]) /\ rank[x] < rank[next[x]]
    BY DEF Stacks
<1>2. \A x \in S : next[x] # x
    <2>1. \A x \in S : ~(rank[x] < rank[x])
        BY <1>0, SMTT(20)
    <2>. QED BY <1>0, <1>1, <2>1
<1>3. \A x, y \in S : next[x] = next[y] /\ next[x] # Null => x = y
    BY DEF Stacks
<1>4. \A x \in S : x \in T <=> \A y \in S : next[y] # x
    BY DEF Stacks
<1>5. above # e /\ e # Null /\ e \in S
    BY <1>0, <1>2
<1>6. ASSUME NEW x \in S \ {e}, next2[x] # Null
      PROVE  next2[x] \in S \ {e} /\ Alike(w, x, next2[x]) /\ rank[x] < rank[next2[x]]
    <2>1. CASE x = above
        <3>1. /\ next2[x] = next[e] /\ next[e] \in S /\ Alike(w, e, next[e])
              /\ rank[e] < rank[next[e]] /\ next[e] # e
            BY <1>1, <1>2, <1>5, <1>6, <2>1
        <3>2. Alike(w, above, e) /\ rank[above] < rank[e]
            BY <1>1, <1>5
        <3>3. Alike(w, above, next[e])
            BY <1>0, <1>5, <3>1, <3>2 DEF Ordered
        <3>4. rank[above] \in Nat /\ rank[e] \in Nat /\ rank[next[e]] \in Nat
            BY <1>0, <1>5, <3>1
        <3>5. rank[above] < rank[next[e]]
            BY <3>1, <3>2, <3>4, SMTT(20)
        <3>. QED BY <2>1, <3>1, <3>3, <3>5
    <2>2. CASE x # above
        BY <1>1, <1>3, <1>5, <1>6, <2>2
    <2>. QED BY <2>1, <2>2
<1>7. ASSUME NEW x \in S \ {e}, NEW y \in S \ {e}, next2[x] = next2[y], next2[x] # Null
      PROVE  x = y
    <2>1. CASE x # above /\ y # above
        BY <1>3, <1>7, <2>1
    <2>2. CASE x = above /\ y # above
        BY <1>3, <1>5, <1>7, <2>2
    <2>3. CASE x # above /\ y = above
        BY <1>3, <1>5, <1>7, <2>3
    <2>. QED BY <2>1, <2>2, <2>3
<1>8. ASSUME NEW x \in S \ {e}
      PROVE  x \in T <=> \A y \in S \ {e} : next2[y] # x
    <2>1. ASSUME x \in T, NEW y \in S \ {e} PROVE next2[y] # x
        <3>1. next[y] # x /\ next[e] # x
            BY <1>4, <1>5, <2>1
        <3>. QED BY <3>1
    <2>2. ASSUME x \notin T PROVE \E y \in S \ {e} : next2[y] = x
        <3>1. PICK y \in S : next[y] = x
            BY <1>4, <2>2
        <3>2. CASE y = e
            BY <1>5, <3>1, <3>2
        <3>3. CASE y # e
            BY <1>5, <3>1, <3>3
        <3>. QED BY <3>2, <3>3
    <2>. QED BY <2>1, <2>2
<1>9. S \ {e} \subseteq Events /\ T \subseteq S \ {e}
    BY <1>0
<1>. QED BY <1>0, <1>6, <1>7, <1>8, <1>9 DEF Stacks

\* The stacks depend on the order of the scheduled events and on their links.
LEMMA SameStacks ==
    ASSUME NEW next, NEW w, NEW S, NEW T, NEW rank, Stacks(next, w, S, T, rank),
           NEW w2, SameOrder(w, w2, S), NEW next2, \A x \in S : next2[x] = next[x]
    PROVE  Stacks(next2, w2, S, T, rank)
<1>1. ASSUME NEW x \in S, next2[x] # Null
      PROVE  next2[x] \in S /\ Alike(w2, x, next2[x]) /\ rank[x] < rank[next2[x]]
    BY <1>1 DEF Stacks, SameOrder
<1>2. \A x, y \in S : next2[x] = next2[y] /\ next2[x] # Null => x = y
    BY DEF Stacks
<1>3. \A x \in S : x \in T <=> \A y \in S : next2[y] # x
    BY DEF Stacks
<1>. QED BY <1>1, <1>2, <1>3 DEF Stacks

-----------------------------------------------------------------------------
(* The queue. *)

\* The type of q, the times aside.
QueueType(r) ==
    r \in [head : Pointers, nextBin : [Events -> Pointers],
           nextInBin : [Events -> Pointers], when : [Events -> Int]]

\* Where each bin links to; the head is NULL's link.
Link(r) == [x \in Pointers |-> IF x = Null THEN r.head ELSE r.nextBin[x]]

\* The queue r holds the events S in bins with the tops T.
QueueOK(r, S, T, rank) ==
    /\ QueueType(r)
    /\ Tops(Link(r), r.when, T)
    /\ Stacks(r.nextInBin, r.when, S, T, rank)

\* The fields of a queue.
LEMMA QueueFields ==
    ASSUME NEW r, QueueType(r)
    PROVE  /\ r.head \in Pointers /\ r.nextBin \in [Events -> Pointers]
           /\ r.nextInBin \in [Events -> Pointers] /\ r.when \in [Events -> Int]
           /\ Ordered(r.when, Events)
           /\ Link(r)[Null] = r.head
           /\ \A x \in Events : Link(r)[x] = r.nextBin[x]
           /\ Null \notin Events
<1>1. /\ r.head \in Pointers /\ r.nextBin \in [Events -> Pointers]
      /\ r.nextInBin \in [Events -> Pointers] /\ r.when \in [Events -> Int]
    BY DEF QueueType
<1>2. Ordered(r.when, Events)
    BY <1>1, EventsOrdered
<1>3. Null \notin Events
    BY EventsAssumption
<1>4. Link(r)[Null] = r.head /\ \A x \in Events : Link(r)[x] = r.nextBin[x]
    BY <1>3 DEF Link, Pointers
<1>. QED BY <1>1, <1>2, <1>3, <1>4

\* The loop of insert() and remove() stops at the last bin before e.
LEMMA PrevIs ==
    ASSUME NEW r, QueueType(r), NEW T, Tops(Link(r), r.when, T), NEW e \in Events,
           r.head # Null, Before(r.when, r.head, e)
    PROVE  /\ Prev(r, e) \in T /\ Before(r.when, Prev(r, e), e)
           /\ r.nextBin[Prev(r, e)] # Null => ~Before(r.when, r.nextBin[Prev(r, e)], e)
<1>. DEFINE w == r.when
            R == {p \in Events \X Events : Before(w, p[1], p[2])}
            tops == Chain(r.nextBin, r.head)
            k == Len(tops)
            stops == {n \in 1 .. k : n = k \/ ~Before(w, tops[n + 1], e)}
            Least(n) == \A m \in stops : n <= m
            n0 == CHOOSE n \in stops : Least(n)
<1>0. /\ r.nextBin \in [Events -> Pointers] /\ Ordered(w, Events)
      /\ Link(r)[Null] = r.head /\ \A x \in Events : Link(r)[x] = r.nextBin[x]
      /\ Null \notin Events /\ T \subseteq Events
    BY QueueFields DEF Tops
<1>. HIDE DEF w
<1>1. \A x, y \in Events : <<x, y>> \in R <=> Before(w, x, y)
    OBVIOUS
<1>. HIDE DEF R
<1>2. \A x \in T : r.nextBin[x] # Null => r.nextBin[x] \in T /\ Before(w, x, r.nextBin[x])
    <2>. TAKE x \in T
    <2>. HAVE r.nextBin[x] # Null
    <2>1. FirstAbove(w, T, x, r.nextBin[x])
        BY <1>0 DEF Tops, w
    <2>. QED BY <1>0, <2>1 DEF FirstAbove, Above
<1>3. Climbs(r.nextBin, T, R)
    <2>1. \A x \in T : <<x, x>> \notin R
        BY <1>0, <1>1 DEF Ordered
    <2>2. \A x, y, z \in T : <<x, y>> \in R /\ <<y, z>> \in R => <<x, z>> \in R
        BY <1>0, <1>1 DEF Ordered
    <2>3. \A x \in T : r.nextBin[x] # Null => r.nextBin[x] \in T /\ <<x, r.nextBin[x]>> \in R
        BY <1>0, <1>1, <1>2
    <2>. QED BY <1>0, <2>1, <2>2, <2>3 DEF Climbs
<1>4. r.head \in T
    <2>1. FirstAbove(w, T, Null, r.head)
        BY <1>0 DEF Tops, w
    <2>. QED BY <2>1 DEF FirstAbove
<1>5. Whole(r.nextBin, T, R, r.head, tops)
    BY <1>0, <1>3, <1>4, ChainIsWhole
<1>6. Prev(r, e) = tops[n0]
    BY DEF Prev, Less, Before, w
<1>. HIDE DEF tops
<1>7. k \in Nat /\ k # 0 /\ tops[1] = r.head /\ r.nextBin[tops[k]] = Null
    BY <1>5 DEF Whole
<1>. HIDE DEF k
<1>8. n0 \in stops /\ Least(n0)
    <2>1. stops \in SUBSET Nat
        BY <1>7, SMTT(20)
    <2>2. k \in stops
        BY <1>7, SMTT(20)
    <2>. HIDE DEF stops
    <2>3. \E n \in stops : Least(n)
        BY <2>1, <2>2, LeastNat
    <2>. HIDE DEF Least
    <2>. QED BY <2>3
<1>. HIDE DEF n0
<1>9. n0 \in 1 .. k /\ tops[n0] \in T
    BY <1>5, <1>8 DEF Whole, k
<1>10. Before(w, tops[n0], e)
    <2>1. CASE n0 = 1
        BY <1>7, <2>1 DEF w
    <2>2. CASE n0 # 1
        <3>1. n0 - 1 \in 1 .. k /\ ~(n0 <= n0 - 1) /\ n0 - 1 # k /\ (n0 - 1) + 1 = n0
            BY <1>7, <1>9, <2>2, SMTT(20)
        <3>2. n0 - 1 \notin stops
            BY <1>8, <3>1
        <3>. QED BY <3>1, <3>2
    <2>. QED BY <2>1, <2>2
<1>11. r.nextBin[tops[n0]] # Null => ~Before(w, r.nextBin[tops[n0]], e)
    <2>. HAVE r.nextBin[tops[n0]] # Null
    <2>1. n0 # k /\ ~Before(w, tops[n0 + 1], e)
        BY <1>7, <1>8
    <2>2. n0 + 1 \in 1 .. k
        BY <1>7, <1>9, <2>1, SMTT(20)
    <2>3. tops[n0 + 1] = r.nextBin[tops[n0]]
        BY <1>5, <1>9, <2>2 DEF Whole, k
    <2>. QED BY <2>1, <2>3
<1>. QED BY <1>6, <1>9, <1>10, <1>11 DEF w

\* Going down from the top t one meets e, behind another event unless it is t.
InStack(r, S, t, e) ==
    LET stack == Range(Chain(r.nextInBin, t))
    IN  /\ stack \subseteq S /\ e \in stack
        /\ e # t => \E f \in stack : r.nextInBin[f] = e

\* Deeper in a bin.
RankOrder(rank, w) ==
    {p \in Events \X Events : rank[p[1]] < rank[p[2]] /\ Alike(w, p[1], p[2])}

\* The pointers of a stack lead down.
LEMMA StacksClimb ==
    ASSUME NEW next, NEW w, NEW S, NEW T, NEW rank, Stacks(next, w, S, T, rank),
           Ordered(w, Events)
    PROVE  /\ Climbs(next, S, RankOrder(rank, w))
           /\ \A x, y \in S : <<x, y>> \in RankOrder(rank, w) => Alike(w, x, y)
<1>. DEFINE R == RankOrder(rank, w)
<1>1. S \subseteq Events /\ \A x \in Events : rank[x] \in Nat
    BY DEF Stacks
<1>2. \A x, y \in Events : <<x, y>> \in R <=> rank[x] < rank[y] /\ Alike(w, x, y)
    BY DEF RankOrder
<1>. HIDE DEF R
<1>3. \A x \in S : <<x, x>> \notin R
    <2>1. \A x \in S : ~(rank[x] < rank[x])
        BY <1>1, SMTT(20)
    <2>. QED BY <1>1, <1>2, <2>1
<1>4. ASSUME NEW x \in S, NEW y \in S, NEW z \in S, <<x, y>> \in R, <<y, z>> \in R
      PROVE  <<x, z>> \in R
    <2>1. rank[x] < rank[y] /\ rank[y] < rank[z] /\ Alike(w, x, y) /\ Alike(w, y, z)
        BY <1>1, <1>2, <1>4
    <2>2. rank[x] < rank[z]
        BY <1>1, <2>1, SMTT(20)
    <2>3. Alike(w, x, z)
        BY <1>1, <2>1 DEF Ordered
    <2>. QED BY <1>1, <1>2, <2>2, <2>3
<1>5. \A x \in S : next[x] # Null => next[x] \in S /\ <<x, next[x]>> \in R
    BY <1>1, <1>2 DEF Stacks
<1>6. Climbs(next, S, R)
    BY <1>1, <1>3, <1>4, <1>5 DEF Climbs
<1>. QED BY <1>1, <1>2, <1>6 DEF R

\* Every scheduled event is in the stack of a top of its time and priority.
LEMMA EveryInStack ==
    ASSUME NEW r, NEW S, NEW T, NEW rank, QueueOK(r, S, T, rank), NEW e \in S
    PROVE  \E t \in T : Alike(r.when, t, e) /\ InStack(r, S, t, e)
<1>. DEFINE w == r.when
            next == r.nextInBin
            R == RankOrder(rank, w)
            C(t) == Chain(next, t)
            Met(x, t) == \E i \in 1 .. Len(C(t)) : C(t)[i] = x
<1>0. /\ next \in [Events -> Pointers] /\ Ordered(w, Events) /\ Null \notin Events
      /\ Stacks(next, w, S, T, rank)
    BY QueueFields DEF QueueOK
<1>. HIDE DEF w, next
<1>1. T \subseteq S /\ S \subseteq Events /\ \A x \in Events : rank[x] \in Nat
    BY <1>0 DEF Stacks
<1>2. \A x, y \in S : <<x, y>> \in R => Alike(w, x, y)
    BY <1>0, StacksClimb
<1>3. Climbs(next, S, R)
    BY <1>0, StacksClimb
<1>. HIDE DEF R
<1>4. \A t \in S : Whole(next, S, R, t, C(t))
    BY <1>0, <1>3, ChainIsWhole
<1>. HIDE DEF C
<1>5. \A t \in S : Met(t, t)
    <2>. TAKE t \in S
    <2>1. Len(C(t)) \in Nat \ {0} /\ C(t)[1] = t
        BY <1>4 DEF Whole
    <2>2. 1 \in 1 .. Len(C(t))
        BY <2>1, SMTT(20)
    <2>. QED BY <2>1, <2>2
<1>6. ASSUME NEW t \in S, NEW x \in S, NEW y \in S, Met(y, t), next[y] = x PROVE Met(x, t)
    <2>. DEFINE k == Len(C(t))
    <2>1. PICK i \in 1 .. k : C(t)[i] = y
        BY <1>6
    <2>2. /\ k \in Nat /\ next[C(t)[k]] = Null
          /\ \A j \in 1 .. k : j + 1 \in 1 .. k => C(t)[j + 1] = next[C(t)[j]]
        BY <1>4 DEF Whole
    <2>3. i # k
        BY <1>0, <1>1, <1>6, <2>1, <2>2
    <2>. HIDE DEF k
    <2>4. i + 1 \in 1 .. k
        BY <2>1, <2>2, <2>3, SMTT(20)
    <2>5. C(t)[i + 1] = x
        BY <1>6, <2>1, <2>2, <2>4
    <2>. QED BY <2>4, <2>5 DEF k
<1>7. \A x \in S : \E t \in T : Met(x, t)
    <2>. DEFINE B == {x \in S : ~\E t \in T : Met(x, t)}
                 ranks == {rank[x] : x \in B}
    <2>. HIDE DEF Met
    <2>. SUFFICES ASSUME B # {} PROVE FALSE
        OBVIOUS
    <2>1. ranks \in SUBSET Nat /\ ranks # {}
        BY <1>1
    <2>2. PICK m \in ranks : \A n \in ranks : m <= n
        <3>. HIDE DEF ranks
        <3>. QED BY <2>1, LeastNat
    <2>3. PICK x \in B : m = rank[x]
        OBVIOUS
    <2>4. x \notin T
        BY <1>1, <1>5, <2>3
    <2>5. PICK y \in S : next[y] = x
        BY <1>0, <2>3, <2>4 DEF Stacks
    <2>6. rank[y] < rank[x]
        <3>1. next[y] # Null
            BY <1>0, <1>1, <2>3, <2>5
        <3>. QED BY <1>0, <2>5, <3>1 DEF Stacks
    <2>7. ~(rank[x] <= rank[y])
        BY <1>1, <2>3, <2>6, SMTT(20)
    <2>8. y \notin B
        BY <2>2, <2>3, <2>7
    <2>9. PICK t \in T : Met(y, t)
        BY <2>8
    <2>10. Met(x, t)
        BY <1>1, <1>6, <2>3, <2>5, <2>9
    <2>. QED BY <2>3, <2>10
<1>8. PICK t \in T : Met(e, t)
    BY <1>7
<1>9. Whole(next, S, R, t, C(t)) /\ t \in S
    BY <1>1, <1>4
<1>10. PICK i \in 1 .. Len(C(t)) : C(t)[i] = e
    BY <1>8
<1>11. Len(C(t)) \in Nat \ {0} /\ C(t)[1] = t /\ Range(C(t)) = {C(t)[j] : j \in 1 .. Len(C(t))}
    BY <1>9 DEF Whole, Range
<1>12. Alike(w, t, e)
    <2>1. CASE i = 1
        <3>1. t = e
            BY <1>10, <1>11, <2>1
        <3>. QED BY <1>0, <1>1, <3>1 DEF Ordered
    <2>2. CASE i # 1
        <3>1. 1 < i /\ 1 \in 1 .. Len(C(t))
            BY <1>10, <1>11, <2>2, SMTT(20)
        <3>2. <<t, e>> \in R
            BY <1>9, <1>10, <1>11, <3>1 DEF Whole
        <3>. QED BY <1>1, <1>2, <1>9, <3>2
    <2>. QED BY <2>1, <2>2
<1>13. e # t => \E f \in Range(C(t)) : next[f] = e
    <2>. HAVE e # t
    <2>1. i - 1 \in 1 .. Len(C(t)) /\ (i - 1) + 1 = i
        <3>1. i # 1
            BY <1>10, <1>11
        <3>. QED BY <1>10, <1>11, <3>1, SMTT(20)
    <2>2. e = next[C(t)[i - 1]]
        BY <1>9, <1>10, <2>1 DEF Whole
    <2>. QED BY <1>11, <2>1, <2>2
<1>14. Range(C(t)) \subseteq S /\ e \in Range(C(t))
    BY <1>9, <1>10, <1>11 DEF Whole
<1>15. InStack(r, S, t, e)
    BY <1>13, <1>14 DEF InStack, C, next
<1>. QED BY <1>12, <1>15 DEF w

\* The bin that links to e's, or NULL for the head's.
BinBefore(r, e) == IF Equal(r, r.head, e) THEN Null ELSE Prev(r, e)

\* remove() finds every scheduled event, in the bin of its time and priority.
LEMMA BinIs ==
    ASSUME NEW r, NEW S, NEW T, NEW rank, QueueOK(r, S, T, rank), NEW e \in S
    PROVE  /\ BinOf(r, e) \in T /\ Alike(r.when, BinOf(r, e), e)
           /\ InStack(r, S, BinOf(r, e), e) /\ Found(r, e)
           /\ BinBefore(r, e) \in T \cup {Null}
           /\ BinBefore(r, e) = Null <=> Equal(r, r.head, e)
           /\ Link(r)[BinBefore(r, e)] = BinOf(r, e)
<1>. DEFINE w == r.when
            p == Prev(r, e)
<1>0. /\ Ordered(w, Events) /\ Link(r)[Null] = r.head
      /\ \A x \in Events : Link(r)[x] = r.nextBin[x]
      /\ Null \notin Events /\ T \subseteq Events /\ T \subseteq S /\ e \in Events
      /\ Tops(Link(r), w, T) /\ QueueType(r)
    BY QueueFields DEF QueueOK, Tops, Stacks
<1>1. PICK t \in T : Alike(w, t, e) /\ InStack(r, S, t, e)
    BY EveryInStack
<1>2. \A x, y : Equal(r, x, y) <=> Alike(w, x, y)
    BY DEF Equal, Alike
<1>. HIDE DEF w
<1>3. r.head # Null /\ r.head \in T /\ (t = r.head \/ Before(w, r.head, t))
    <2>1. FirstAbove(w, T, Null, r.head)
        BY <1>0 DEF Tops
    <2>. QED BY <2>1 DEF FirstAbove, Above
<1>4. Alike(w, e, t) /\ t \in Events /\ r.head \in Events /\ t # Null
    BY <1>0, <1>1, <1>3 DEF Ordered
<1>5. CASE Alike(w, r.head, e)
    <2>1. Alike(w, r.head, t)
        BY <1>0, <1>4, <1>5 DEF Ordered
    <2>2. r.head = t
        BY <1>0, <1>3, <2>1 DEF Tops
    <2>3. BinOf(r, e) = t /\ BinBefore(r, e) = Null
        BY <1>2, <1>5, <2>2 DEF BinOf, BinBefore
    <2>. QED BY <1>0, <1>1, <1>2, <1>4, <1>5, <2>2, <2>3 DEF Found, InStack, w
<1>6. CASE ~Alike(w, r.head, e)
    <2>1. Before(w, r.head, e)
        BY <1>0, <1>1, <1>3, <1>4, <1>6 DEF Ordered
    <2>2. p \in T /\ Before(w, p, e) /\ (r.nextBin[p] # Null => ~Before(w, r.nextBin[p], e))
        BY <1>0, <1>3, <2>1, PrevIs DEF w
    <2>. HIDE DEF p
    <2>3. FirstAbove(w, T, p, r.nextBin[p]) /\ Link(r)[p] = r.nextBin[p] /\ p \in Events
        BY <1>0, <2>2 DEF Tops
    <2>4. Above(w, p, t)
        BY <1>0, <1>4, <2>2, <2>3 DEF Ordered, Above
    <2>5. /\ r.nextBin[p] # Null /\ r.nextBin[p] \in T
          /\ t = r.nextBin[p] \/ Before(w, r.nextBin[p], t)
        BY <2>3, <2>4 DEF FirstAbove
    <2>6. ~Before(w, r.nextBin[p], t)
        BY <1>0, <1>1, <1>4, <2>2, <2>5 DEF Ordered
    <2>7. r.nextBin[p] = t
        BY <2>5, <2>6
    <2>8. BinOf(r, e) = t /\ BinBefore(r, e) = p
        BY <1>1, <1>2, <1>3, <1>4, <1>6, <2>7 DEF BinOf, BinBefore, p
    <2>. QED BY <1>0, <1>1, <1>2, <1>4, <1>6, <2>2, <2>3, <2>7, <2>8 DEF Found, InStack, w
<1>. QED BY <1>5, <1>6

\* The queue with another link of p, the head being NULL's link.
SetLink(r, p, b) ==
    IF p = Null THEN [r EXCEPT !.head = b] ELSE [r EXCEPT !.nextBin[p] = b]

\* r2 is the queue r but for the link of p, which is b.
Relinked(r, r2, p, b) ==
    /\ QueueType(r2) /\ r2.nextInBin = r.nextInBin /\ r2.when = r.when
    /\ Link(r2)[p] = b /\ \A x \in Pointers : x # p => Link(r2)[x] = Link(r)[x]

\* SetLink changes nothing else.
LEMMA SetLinkFields ==
    ASSUME NEW r, QueueType(r), NEW p \in Pointers, NEW b \in Pointers
    PROVE  Relinked(r, SetLink(r, p, b), p, b)
<1>. DEFINE r2 == SetLink(r, p, b)
<1>0. Null \notin Events
    BY EventsAssumption
<1>1. CASE p = Null
    <2>1. /\ r2.head = b /\ r2.nextBin = r.nextBin
          /\ r2.nextInBin = r.nextInBin /\ r2.when = r.when /\ QueueType(r2)
        BY <1>1, SMTT(20) DEF SetLink, QueueType
    <2>. HIDE DEF r2
    <2>. QED BY <1>1, <2>1 DEF Link, r2, Relinked
<1>2. CASE p # Null
    <2>0. p \in Events
        BY <1>2 DEF Pointers
    <2>1. /\ r2.head = r.head /\ r2.nextBin = [r.nextBin EXCEPT ![p] = b]
          /\ r2.nextInBin = r.nextInBin /\ r2.when = r.when /\ QueueType(r2)
        BY <1>2, <2>0, SMTT(20) DEF SetLink, QueueType
    <2>2. r.nextBin \in [Events -> Pointers]
        BY DEF QueueType
    <2>3. r2.nextBin[p] = b /\ \A x \in Events : x # p => r2.nextBin[x] = r.nextBin[x]
        BY <2>0, <2>1, <2>2
    <2>. HIDE DEF r2
    <2>. QED BY <1>2, <2>0, <2>1, <2>3 DEF Link, r2, Pointers, Relinked
<1>. QED BY <1>1, <1>2

\* The queue with another event below e.
SetNext(r, e, n) == [r EXCEPT !.nextInBin[e] = n]

\* r2 is the queue r but for what is below e, which is n.
Renexted(r, r2, e, n) ==
    /\ QueueType(r2) /\ r2.when = r.when /\ Link(r2) = Link(r)
    /\ r2.nextInBin[e] = n /\ \A x \in Events : x # e => r2.nextInBin[x] = r.nextInBin[x]

\* SetNext changes nothing else.
LEMMA SetNextFields ==
    ASSUME NEW r, QueueType(r), NEW e \in Events, NEW n \in Pointers
    PROVE  Renexted(r, SetNext(r, e, n), e, n)
<1>. DEFINE r2 == SetNext(r, e, n)
<1>1. /\ r2.head = r.head /\ r2.nextBin = r.nextBin /\ r2.when = r.when
      /\ r2.nextInBin = [r.nextInBin EXCEPT ![e] = n] /\ QueueType(r2)
    BY SMTT(20) DEF SetNext, QueueType
<1>2. r.nextInBin \in [Events -> Pointers]
    BY DEF QueueType
<1>. HIDE DEF r2
<1>3. r2.nextInBin[e] = n /\ \A x \in Events : x # e => r2.nextInBin[x] = r.nextInBin[x]
    BY <1>1, <1>2
<1>4. Link(r2) = Link(r)
    BY <1>1 DEF Link
<1>. QED BY <1>1, <1>3, <1>4 DEF r2, Renexted

\* The two ways insertBefore() links e.
LEMMA InsertBeforeFields ==
    ASSUME NEW r, QueueType(r), NEW e \in Events, NEW curr \in Pointers
    PROVE  LET r2 == insertBefore(r, e, curr)
               new == curr = Null \/ Before(r.when, e, curr)
           IN  /\ QueueType(r2) /\ r2.when = r.when
               /\ r2.nextInBin[e] = IF new THEN Null ELSE curr
               /\ \A x \in Events : x # e => r2.nextInBin[x] = r.nextInBin[x]
               /\ Link(r2)[e] = IF new THEN curr ELSE Link(r)[curr]
               /\ \A x \in Pointers : x # e => Link(r2)[x] = Link(r)[x]
<1>. DEFINE r2 == insertBefore(r, e, curr)
            new == curr = Null \/ Before(r.when, e, curr)
            b == IF new THEN curr ELSE Link(r)[curr]
            n == IF new THEN Null ELSE curr
<1>0. Null \notin Events /\ e \in Pointers /\ e # Null /\ (~new => curr \in Events)
    BY EventsAssumption DEF Pointers
<1>1. r2 = SetNext(SetLink(r, e, b), e, n)
    <2>1. new <=> curr = Null \/ Less(r, e, curr)
        BY DEF Less, Before
    <2>2. ~new => Link(r)[curr] = r.nextBin[curr]
        BY <1>0, QueueFields
    <2>. HIDE DEF new
    <2>3. CASE new
        BY <1>0, <2>1, <2>3 DEF insertBefore, SetNext, SetLink
    <2>4. CASE ~new
        BY <1>0, <2>1, <2>2, <2>4 DEF insertBefore, SetNext, SetLink
    <2>. QED BY <2>3, <2>4
<1>2. b \in Pointers /\ n \in Pointers
    <2>1. ~new => Link(r)[curr] \in Pointers
        BY <1>0, QueueFields
    <2>2. Null \in Pointers
        BY DEF Pointers
    <2>. QED BY <2>1, <2>2
<1>. HIDE DEF b, n, r2, new
<1>. DEFINE r1 == SetLink(r, e, b)
<1>3. /\ QueueType(r1) /\ r1.nextInBin = r.nextInBin /\ r1.when = r.when
      /\ Link(r1)[e] = b /\ \A x \in Pointers : x # e => Link(r1)[x] = Link(r)[x]
    <2>1. Relinked(r, r1, e, b)
        BY <1>0, <1>2, SetLinkFields
    <2>. HIDE DEF r1
    <2>. QED BY <2>1 DEF Relinked
<1>. HIDE DEF r1
<1>4. /\ QueueType(r2) /\ r2.when = r1.when /\ Link(r2) = Link(r1) /\ r2.nextInBin[e] = n
      /\ \A x \in Events : x # e => r2.nextInBin[x] = r1.nextInBin[x]
    <2>1. r2 = SetNext(r1, e, n)
        BY <1>1 DEF r1
    <2>2. Renexted(r1, r2, e, n)
        BY <1>2, <1>3, <2>1, SetNextFields
    <2>. QED BY <2>2 DEF Renexted
<1>. QED BY <1>3, <1>4 DEF r2, b, n, new

\* The queue r holds the events S, in some bins.
Holds(r, S) == \E T, rank : QueueOK(r, S, T, rank)

\* r2 is the queue r with e on top of its bin.
Pushed(r, r2, S, e) ==
    /\ \A x \in S : r2.nextInBin[x] = r.nextInBin[x]
    /\ \E T, rank : QueueOK(r2, S \cup {e}, T, rank) /\ e \in T

\* insert() adds e.
LEMMA InsertHolds ==
    ASSUME NEW r, NEW S, Holds(r, S), NEW e \in Events \ S
    PROVE  /\ Holds(insert(r, e), S \cup {e}) /\ insert(r, e).when = r.when
           /\ Pushed(r, insert(r, e), S, e)
<1>0. PICK T, rank : QueueOK(r, S, T, rank)
    BY DEF Holds
<1>. DEFINE w == r.when
            first == r.head = Null \/ LessEqual(r, e, r.head)
            p == IF first THEN Null ELSE Prev(r, e)
            curr == Link(r)[p]
            new == curr = Null \/ Before(w, e, curr)
            r1 == insertBefore(r, e, curr)
            r2 == SetLink(r1, p, e)
<1>1. /\ QueueType(r) /\ Tops(Link(r), w, T) /\ Stacks(r.nextInBin, w, S, T, rank)
      /\ Ordered(w, Events) /\ Link(r)[Null] = r.head
      /\ \A x \in Events : Link(r)[x] = r.nextBin[x]
      /\ T \subseteq S /\ S \subseteq Events /\ Null \notin Events /\ e \in Events
      /\ e \notin T
    BY <1>0, QueueFields DEF QueueOK, Stacks
<1>2. \A x, y : LessEqual(r, x, y) <=> Before(w, x, y) \/ Alike(w, x, y)
    BY DEF LessEqual, Less, Equal, Before, Alike
<1>. HIDE DEF w
<1>3. p \in T \cup {Null} /\ Above(w, p, e) /\ (p = Null <=> first)
      /\ (curr # Null => ~Before(w, curr, e))
    <2>1. CASE first
        <3>1. curr # Null => curr \in T
            <4>1. FirstAbove(w, T, Null, r.head)
                BY <1>1 DEF Tops
            <4>. QED BY <1>1, <2>1, <4>1 DEF FirstAbove
        <3>2. curr # Null => ~Before(w, curr, e)
            <4>. HAVE curr # Null
            <4>1. Before(w, e, curr) \/ Alike(w, e, curr)
                BY <1>1, <1>2, <2>1
            <4>2. curr \in Events
                BY <1>1, <3>1
            <4>. HIDE DEF curr
            <4>. QED BY <1>1, <4>1, <4>2 DEF Ordered
        <3>. QED BY <2>1, <3>2 DEF Above
    <2>2. CASE ~first
        <3>1. r.head # Null /\ ~Before(w, e, r.head) /\ ~Alike(w, e, r.head)
            BY <1>2, <2>2
        <3>2. r.head \in Events
            BY <1>1, <3>1, QueueFields DEF Pointers
        <3>3. Before(w, r.head, e)
            BY <1>1, <3>1, <3>2 DEF Ordered
        <3>4. /\ Prev(r, e) \in T /\ Before(w, Prev(r, e), e)
              /\ r.nextBin[Prev(r, e)] # Null => ~Before(w, r.nextBin[Prev(r, e)], e)
            BY <1>1, <3>1, <3>3, PrevIs DEF w
        <3>. QED BY <1>1, <2>2, <3>4 DEF Above
    <2>. QED BY <2>1, <2>2
<1>4. insert(r, e) = r2
    <2>1. CASE first
        <3>1. p = Null /\ curr = r.head
            BY <1>1, <2>1
        <3>. QED BY <2>1, <3>1 DEF insert, SetLink
    <2>2. CASE ~first
        <3>1. p = Prev(r, e) /\ p # Null /\ curr = r.nextBin[p]
            BY <1>1, <1>3, <2>2
        <3>. QED BY <2>2, <3>1 DEF insert, SetLink
    <2>. QED BY <2>1, <2>2
<1>. HIDE DEF p
<1>5. FirstAbove(w, T, p, curr)
    BY <1>1, <1>3 DEF Tops
<1>6. curr \in Pointers /\ p \in Pointers /\ e \in Pointers /\ p # e
    BY <1>1, <1>3, <1>5 DEF FirstAbove, Pointers
<1>. HIDE DEF curr
<1>7. /\ QueueType(r1) /\ r1.when = w
      /\ r1.nextInBin[e] = IF new THEN Null ELSE curr
      /\ \A x \in Events : x # e => r1.nextInBin[x] = r.nextInBin[x]
      /\ Link(r1)[e] = IF new THEN curr ELSE Link(r)[curr]
      /\ \A x \in Pointers : x # e => Link(r1)[x] = Link(r)[x]
    BY <1>1, <1>6, InsertBeforeFields, SMTT(20) DEF w
<1>. HIDE DEF r1
<1>8. Relinked(r1, r2, p, e)
    BY <1>6, <1>7, SetLinkFields
<1>. HIDE DEF r2
<1>9. /\ QueueType(r2) /\ r2.when = w /\ r2.nextInBin = r1.nextInBin
      /\ Link(r2)[p] = e /\ Link(r2)[e] = IF new THEN curr ELSE Link(r)[curr]
      /\ \A x \in T \cup {Null} : x # p => Link(r2)[x] = Link(r)[x]
    <2>1. /\ QueueType(r2) /\ r2.when = w /\ r2.nextInBin = r1.nextInBin
          /\ Link(r2)[p] = e /\ Link(r2)[e] = Link(r1)[e]
        BY <1>6, <1>7, <1>8 DEF Relinked
    <2>2. \A x \in T \cup {Null} : x \in Pointers /\ x # e
        BY <1>1 DEF Pointers
    <2>3. \A x \in T \cup {Null} : x # p => Link(r2)[x] = Link(r)[x]
        BY <1>7, <1>8, <2>2 DEF Relinked
    <2>. QED BY <1>7, <2>1, <2>3
<1>10. /\ r2.nextInBin[e] = IF new THEN Null ELSE curr
       /\ \A x \in S : r2.nextInBin[x] = r.nextInBin[x]
    BY <1>1, <1>7, <1>9
<1>11. CASE new
    <2>1. Link(r2)[e] = Link(r)[p] /\ (Link(r)[p] = Null \/ Before(w, e, Link(r)[p]))
        BY <1>9, <1>11 DEF curr
    <2>2. Tops(Link(r2), w, T \cup {e})
        BY <1>1, <1>3, <1>9, <2>1, NewTop, SMTT(20)
    <2>3. Stacks(r2.nextInBin, w, S \cup {e}, T \cup {e}, rank)
        BY <1>1, <1>10, <1>11, NewStack
    <2>4. QueueOK(r2, S \cup {e}, T \cup {e}, rank) /\ e \in T \cup {e}
        BY <1>9, <2>2, <2>3 DEF QueueOK
    <2>. QED BY <1>4, <1>9, <1>10, <2>4 DEF Holds, Pushed, w
<1>12. CASE ~new
    <2>1. curr # Null /\ ~Before(w, e, curr) /\ ~Before(w, curr, e) /\ curr \in T
        BY <1>3, <1>5, <1>12 DEF FirstAbove
    <2>2. Alike(w, curr, e) /\ Alike(w, e, curr)
        BY <1>1, <2>1 DEF Ordered
    <2>3. Link(r2)[e] = Link(r)[curr] /\ Link(r)[p] = curr /\ r2.nextInBin[e] = curr
        BY <1>9, <1>10, <1>12 DEF curr
    <2>4. Tops(Link(r2), w, (T \ {curr}) \cup {e})
        BY <1>1, <1>3, <1>9, <2>1, <2>2, <2>3, ReplaceTop, SMTT(20)
    <2>5. PICK rank2 : Stacks(r2.nextInBin, w, S \cup {e}, (T \ {curr}) \cup {e}, rank2)
        BY <1>1, <1>10, <2>1, <2>2, <2>3, PushStack, SMTT(20)
    <2>6. QueueOK(r2, S \cup {e}, (T \ {curr}) \cup {e}, rank2) /\ e \in (T \ {curr}) \cup {e}
        BY <1>9, <2>4, <2>5 DEF QueueOK
    <2>. QED BY <1>4, <1>9, <1>10, <2>6 DEF Holds, Pushed, w
<1>. QED BY <1>11, <1>12

\* In r2, what was above e is above what was below it.
Spliced(r, r2, S, e) ==
    \A x \in S \ {e} :
        r2.nextInBin[x] = IF r.nextInBin[x] = e THEN r.nextInBin[e] ELSE r.nextInBin[x]

\* popBin() takes the top of a bin away; p links to what takes its place.
LEMMA PopHolds ==
    ASSUME NEW r, NEW S, NEW T, NEW rank, QueueOK(r, S, T, rank), NEW top \in T,
           NEW p \in T \cup {Null}, Link(r)[p] = top,
           NEW r2, r2 = SetLink(popBin(r, top).queue, p, popBin(r, top).top)
    PROVE  Holds(r2, S \ {top}) /\ r2.when = r.when /\ Spliced(r, r2, S, top)
<1>. DEFINE w == r.when
            next == r.nextInBin[top]
<1>1. /\ QueueType(r) /\ Tops(Link(r), w, T) /\ Stacks(r.nextInBin, w, S, T, rank)
      /\ Ordered(w, Events) /\ Link(r)[top] = r.nextBin[top]
      /\ r.nextBin[top] \in Pointers
      /\ T \subseteq S /\ S \subseteq Events /\ Null \notin Events /\ top \in S
    <2>1. QueueType(r) /\ Tops(Link(r), w, T) /\ Stacks(r.nextInBin, w, S, T, rank)
        BY DEF QueueOK
    <2>2. T \subseteq S /\ S \subseteq Events /\ top \in Events /\ top \in S
        BY <2>1 DEF Stacks
    <2>. QED BY <2>1, <2>2, QueueFields
<1>. HIDE DEF w
<1>2. p \in Pointers /\ \A x \in T \cup {Null} : x \in Pointers
    BY <1>1 DEF Pointers
<1>3. /\ next = Null => Stacks(r.nextInBin, w, S \ {top}, T \ {top}, rank)
      /\ next # Null =>
           /\ next \in S \ T
           /\ Stacks(r.nextInBin, w, S \ {top}, (T \ {top}) \cup {next}, rank)
    <2>1. Popped(r.nextInBin, w, S, T, rank, top)
        BY <1>1, PopStack
    <2>. QED BY <2>1 DEF Popped
<1>4. r2.nextInBin = r.nextInBin => Spliced(r, r2, S, top)
    <2>1. \A x \in S : r.nextInBin[x] # top
        BY <1>1 DEF Stacks
    <2>. QED BY <2>1 DEF Spliced
<1>5. CASE next = Null
    <2>1. r2 = SetLink(r, p, r.nextBin[top])
        BY <1>5 DEF popBin
    <2>2. Relinked(r, r2, p, r.nextBin[top])
        BY <1>1, <1>2, <2>1, SetLinkFields
    <2>3. /\ QueueType(r2) /\ r2.when = w /\ r2.nextInBin = r.nextInBin
          /\ Link(r2)[p] = Link(r)[top]
          /\ \A x \in T \cup {Null} : x # p => Link(r2)[x] = Link(r)[x]
        BY <1>1, <1>2, <2>2 DEF Relinked, w
    <2>4. Tops(Link(r2), w, T \ {top})
        BY <1>1, <2>3, DropTop, SMTT(20)
    <2>5. Stacks(r2.nextInBin, w, S \ {top}, T \ {top}, rank)
        BY <1>5, <1>3, <2>3
    <2>6. QueueOK(r2, S \ {top}, T \ {top}, rank)
        BY <2>3, <2>4, <2>5 DEF QueueOK
    <2>. QED BY <1>4, <2>3, <2>6 DEF Holds, w
<1>6. CASE next # Null
    <2>. DEFINE r1 == SetLink(r, next, r.nextBin[top])
    <2>1. next \in S \ T /\ Stacks(r.nextInBin, w, S \ {top}, (T \ {top}) \cup {next}, rank)
        BY <1>6, <1>3
    <2>2. Alike(w, top, next)
        BY <1>1, <1>6 DEF Stacks
    <2>. HIDE DEF next
    <2>3. next \in Pointers /\ next \in Events /\ next \notin T /\ next # p
        BY <1>1, <2>1 DEF Pointers
    <2>4. r2 = SetLink(r1, p, next)
        BY <1>6, <2>3 DEF popBin, SetLink, next
    <2>5. Relinked(r, r1, next, r.nextBin[top])
        BY <1>1, <2>3, SetLinkFields
    <2>. HIDE DEF r1
    <2>6. QueueType(r1) /\ r1.when = w /\ r1.nextInBin = r.nextInBin
        BY <2>5 DEF Relinked, w
    <2>7. Relinked(r1, r2, p, next)
        BY <1>2, <2>3, <2>4, <2>6, SetLinkFields
    <2>8. /\ QueueType(r2) /\ r2.when = w /\ r2.nextInBin = r.nextInBin
          /\ Link(r2)[p] = next /\ Link(r2)[next] = Link(r)[top]
        BY <1>1, <2>3, <2>5, <2>6, <2>7 DEF Relinked
    <2>9. \A x \in T \cup {Null} : x # p => Link(r2)[x] = Link(r)[x]
        <3>. TAKE x \in T \cup {Null}
        <3>. HAVE x # p
        <3>1. x # next /\ x \in Pointers
            BY <1>1, <1>2, <2>3
        <3>. QED BY <2>5, <2>7, <3>1 DEF Relinked
    <2>10. Tops(Link(r2), w, (T \ {top}) \cup {next})
        BY <1>1, <2>2, <2>3, <2>8, <2>9, ReplaceTop, SMTT(20)
    <2>11. QueueOK(r2, S \ {top}, (T \ {top}) \cup {next}, rank)
        BY <2>1, <2>8, <2>10 DEF QueueOK
    <2>. QED BY <1>4, <2>8, <2>11 DEF Holds, w
<1>. QED BY <1>5, <1>6

\* remove() takes e away.
LEMMA RemoveHolds ==
    ASSUME NEW r, NEW S, Holds(r, S), NEW e \in S
    PROVE  /\ Holds(remove(r, e), S \ {e}) /\ remove(r, e).when = r.when /\ Found(r, e)
           /\ Spliced(r, remove(r, e), S, e)
<1>0. PICK T, rank : QueueOK(r, S, T, rank)
    BY DEF Holds
<1>. DEFINE w == r.when
            t == BinOf(r, e)
            p == BinBefore(r, e)
            removed == removeItem(r, e, t)
            r2 == SetLink(removed.queue, p, removed.top)
<1>1. /\ QueueType(r) /\ Tops(Link(r), w, T) /\ Stacks(r.nextInBin, w, S, T, rank)
      /\ Ordered(w, Events)
    BY <1>0, QueueFields DEF QueueOK
<1>2. T \subseteq S /\ S \subseteq Events /\ e \in Events
    BY <1>1 DEF Stacks
<1>3. /\ t \in T /\ Alike(w, t, e) /\ InStack(r, S, t, e) /\ Found(r, e)
      /\ p \in T \cup {Null} /\ Link(r)[p] = t /\ (p = Null <=> Equal(r, r.head, e))
    BY <1>0, BinIs
<1>4. remove(r, e) = r2
    <2>1. CASE p = Null
        BY <1>3, <2>1 DEF remove, SetLink
    <2>2. CASE p # Null
        <3>1. ~Equal(r, r.head, e) /\ p = Prev(r, e)
            BY <1>3, <2>2 DEF BinBefore
        <3>. QED BY <2>2, <3>1 DEF remove, SetLink
    <2>. QED BY <2>1, <2>2
<1>. HIDE DEF w, t, p
<1>5. CASE e = t
    <2>1. r2 = SetLink(popBin(r, t).queue, p, popBin(r, t).top)
        BY <1>5 DEF removeItem
    <2>. HIDE DEF r2
    <2>2. Holds(r2, S \ {t}) /\ r2.when = r.when /\ Spliced(r, r2, S, t)
        BY <1>0, <1>3, <2>1, PopHolds, SMTT(20)
    <2>. QED BY <1>3, <1>4, <1>5, <2>2
<1>6. CASE e # t
    <2>. DEFINE stack == Range(Chain(r.nextInBin, t))
                above == CHOOSE f \in stack : r.nextInBin[f] = e
                r1 == SetNext(r, above, r.nextInBin[e])
    <2>1. stack \subseteq S /\ \E f \in stack : r.nextInBin[f] = e
        BY <1>3, <1>6 DEF InStack
    <2>. HIDE DEF stack
    <2>2. above \in stack /\ r.nextInBin[above] = e
        BY <2>1
    <2>3. r2 = SetLink(r1, p, t)
        BY <1>6 DEF removeItem, SetNext, stack
    <2>. HIDE DEF above, removed
    <2>4. above \in S /\ above \in Events /\ r.nextInBin[e] \in Pointers
        BY <1>1, <1>2, <2>1, <2>2, QueueFields
    <2>5. Renexted(r, r1, above, r.nextInBin[e])
        BY <1>1, <2>4, SetNextFields
    <2>. HIDE DEF r1, r2
    <2>6. QueueType(r1) /\ r1.when = w /\ Link(r1) = Link(r)
        BY <2>5 DEF Renexted, w
    <2>7. p \in Pointers /\ t \in Pointers /\ \A x \in T \cup {Null} : x \in Pointers
        BY <1>2, <1>3 DEF Pointers
    <2>8. Relinked(r1, r2, p, t)
        BY <2>3, <2>6, <2>7, SetLinkFields
    <2>9. QueueType(r2) /\ r2.when = w /\ r2.nextInBin = r1.nextInBin
        BY <2>6, <2>8 DEF Relinked
    <2>10. \A x \in T \cup {Null} : Link(r2)[x] = Link(r)[x]
        BY <1>3, <2>6, <2>7, <2>8 DEF Relinked
    <2>11. Tops(Link(r2), w, T)
        <3>1. SameOrder(w, w, T)
            BY DEF SameOrder
        <3>. QED BY <1>1, <2>10, <3>1, SameTops
    <2>12. e \notin T
        BY <1>1, <1>3, <1>6 DEF Tops
    <2>13. /\ r2.nextInBin[above] = r.nextInBin[e]
           /\ \A x \in S : x # above => r2.nextInBin[x] = r.nextInBin[x]
        BY <1>2, <2>5, <2>9 DEF Renexted
    <2>14. Stacks(r2.nextInBin, w, S \ {e}, T, rank)
        BY <1>1, <2>2, <2>4, <2>12, <2>13, Unlink, SMTT(20)
    <2>15. Spliced(r, r2, S, e)
        <3>1. e # Null
            BY <1>2, EventsAssumption
        <3>2. \A x \in S : r.nextInBin[x] = e => x = above
            BY <1>1, <2>2, <2>4, <3>1 DEF Stacks
        <3>. QED BY <2>2, <2>13, <3>2 DEF Spliced
    <2>16. QueueOK(r2, S \ {e}, T, rank)
        BY <2>9, <2>11, <2>14 DEF QueueOK
    <2>. QED BY <1>3, <1>4, <2>9, <2>16, <2>15 DEF Holds, w
<1>. QED BY <1>5, <1>6

\* The queue depends on the order of the events it holds, not on the times.
LEMMA TimesHold ==
    ASSUME NEW r, NEW S, Holds(r, S), NEW w \in [Events -> Int], SameOrder(r.when, w, S),
           NEW r2, r2 = [r EXCEPT !.when = w]
    PROVE  Holds(r2, S) /\ r2.when = w /\ r2.nextInBin = r.nextInBin
<1>0. PICK T, rank : QueueOK(r, S, T, rank)
    BY DEF Holds
<1>1. /\ QueueType(r) /\ Tops(Link(r), r.when, T)
      /\ Stacks(r.nextInBin, r.when, S, T, rank)
    BY <1>0 DEF QueueOK
<1>2. /\ QueueType(r2) /\ r2.when = w /\ r2.nextInBin = r.nextInBin
      /\ r2.head = r.head /\ r2.nextBin = r.nextBin
    BY <1>1, SMTT(20) DEF QueueType
<1>3. Link(r2) = Link(r)
    BY <1>2, SMTT(20) DEF Link
<1>4. SameOrder(r.when, w, T)
    BY <1>1 DEF Stacks, SameOrder
<1>5. Tops(Link(r2), w, T)
    BY <1>1, <1>3, <1>4, SameTops
<1>6. Stacks(r2.nextInBin, w, S, T, rank)
    BY <1>1, <1>2, SameStacks
<1>. QED BY <1>2, <1>5, <1>6 DEF QueueOK, Holds

\* r2 holds the events S as r does, and e has the time t in it.
Timed(r, r2, S, e, t) ==
    /\ Holds(r2, S) /\ r2.when = [r.when EXCEPT ![e] = t] /\ r2.when[e] = t
    /\ SameOrder(r.when, r2.when, S) /\ r2.nextInBin = r.nextInBin
    /\ \A x \in S : r2.when[x] = r.when[x]

\* The time of an event that the queue does not hold is free.
LEMMA SetWhenHolds ==
    ASSUME NEW r, NEW S, Holds(r, S), NEW e \in Events \ S, NEW t \in Nat
    PROVE  Timed(r, setWhen(r, e, t), S, e, t)
<1>. DEFINE w == [r.when EXCEPT ![e] = t]
<1>1. r.when \in [Events -> Int] /\ S \subseteq Events
    BY QueueFields DEF Holds, QueueOK, Stacks
<1>2. w \in [Events -> Int] /\ w[e] = t /\ \A x \in S : w[x] = r.when[x]
    <2>1. t \in Int
        BY SMTT(20)
    <2>. QED BY <1>1, <2>1
<1>3. setWhen(r, e, t) = [r EXCEPT !.when = w]
    BY DEF setWhen
<1>. HIDE DEF w
<1>4. SameOrder(r.when, w, S)
    BY <1>2 DEF SameOrder, Before, Alike
<1>5. /\ Holds(setWhen(r, e, t), S) /\ setWhen(r, e, t).when = w
      /\ setWhen(r, e, t).nextInBin = r.nextInBin
    BY <1>2, <1>3, <1>4, TimesHold, SMTT(20)
<1>6. Timed(r, setWhen(r, e, t), S, e, t) <=> w = [r.when EXCEPT ![e] = t]
    BY <1>2, <1>4, <1>5 DEF Timed
<1>. QED BY <1>6 DEF w

\* The head is an event that comes before or with every other.
LEMMA HeadIsFirst ==
    ASSUME NEW r, NEW S, Holds(r, S)
    PROVE  /\ r.head # Null => r.head \in S
           /\ \A x \in S : r.head # Null /\ LessEqual(r, r.head, x)
<1>0. PICK T, rank : QueueOK(r, S, T, rank)
    BY DEF Holds
<1>. DEFINE w == r.when
<1>1. /\ Ordered(w, Events) /\ Link(r)[Null] = r.head /\ Tops(Link(r), w, T)
      /\ T \subseteq S /\ S \subseteq Events
    BY <1>0, QueueFields DEF QueueOK, Stacks
<1>2. FirstAbove(w, T, Null, r.head)
    BY <1>1 DEF Tops
<1>3. r.head # Null => r.head \in T
    BY <1>2 DEF FirstAbove
<1>4. ASSUME NEW x \in S PROVE r.head # Null /\ LessEqual(r, r.head, x)
    <2>1. PICK t \in T : Alike(w, t, x)
        BY <1>0, EveryInStack
    <2>2. r.head # Null /\ (t = r.head \/ Before(w, r.head, t))
        BY <1>2 DEF FirstAbove, Above
    <2>. HIDE DEF w
    <2>3. Alike(w, r.head, x) \/ Before(w, r.head, x)
        BY <1>1, <1>3, <2>1, <2>2 DEF Ordered
    <2>. QED BY <2>2, <2>3 DEF LessEqual, Less, Equal, Before, Alike, w
<1>. QED BY <1>1, <1>3, <1>4

-----------------------------------------------------------------------------
(* The list that the pointers make of the events. *)

\* The pairs of events of S of which the second is met on the walk from the first.
Deep(next, S) == {p \in S \X S : p[1] # p[2] /\ p[2] \in Range(Chain(next, p[1]))}

\* R relates each event of S to the next one and to what that one is related to.
Closes(next, S, R) ==
    /\ R \subseteq S \X S
    /\ \A x, y \in S :
         <<x, y>> \in R <=> next[x] # Null /\ (next[x] = y \/ <<next[x], y>> \in R)

\* What is met from an event is the next event and what is met from that.
LEMMA DeepCloses ==
    ASSUME NEW next \in [Events -> Pointers], NEW U, NEW R, Climbs(next, U, R)
    PROVE  Closes(next, U, Deep(next, U))
<1>. DEFINE M(x) == Range(Chain(next, x))
<1>0. /\ \A x \in U : <<x, x>> \notin R
      /\ \A x, y, z \in U : <<x, y>> \in R /\ <<y, z>> \in R => <<x, z>> \in R
      /\ \A x \in U : next[x] # Null => next[x] \in U /\ <<x, next[x]>> \in R
    BY DEF Climbs
<1>1. \A x \in U : Reached(next, U, R, x, M(x))
    BY WalkReaches
<1>2. ASSUME NEW x \in U, NEW G, x \in G,
             \A y \in M(x) : y \in G /\ next[y] # Null => next[y] \in G
      PROVE  M(x) \subseteq G
    BY <1>2, WalkLeast
<1>3. \A x, y \in U : <<x, y>> \in Deep(next, U) <=> x # y /\ y \in M(x)
    BY DEF Deep
<1>. HIDE DEF M
<1>4. ASSUME NEW x \in U, NEW y \in U
      PROVE  <<x, y>> \in Deep(next, U)
               <=> next[x] # Null /\ (next[x] = y \/ <<next[x], y>> \in Deep(next, U))
    <2>1. CASE next[x] = Null
        <3>1. M(x) \subseteq {x}
            BY <1>2, <2>1
        <3>. QED BY <1>3, <2>1, <3>1
    <2>2. CASE next[x] # Null
        <3>. DEFINE z == next[x]
        <3>0. z \in U /\ <<x, z>> \in R
            BY <1>0, <2>2
        <3>1. Reached(next, U, R, x, M(x)) /\ Reached(next, U, R, z, M(z))
            BY <1>1, <3>0
        <3>2. M(x) \subseteq {x} \cup M(z)
            <4>. DEFINE G == {x} \cup M(z)
            <4>1. x \in G /\ \A v \in M(x) : v \in G /\ next[v] # Null => next[v] \in G
                BY <3>1 DEF Reached
            <4>. HIDE DEF G
            <4>2. M(x) \subseteq G
                BY <1>2, <4>1
            <4>. QED BY <4>2 DEF G
        <3>3. M(z) \subseteq M(x)
            <4>1. z \in M(x)
                BY <2>2, <3>1 DEF Reached
            <4>2. \A v \in M(z) : v \in M(x) /\ next[v] # Null => next[v] \in M(x)
                BY <3>1 DEF Reached
            <4>. QED BY <1>2, <3>0, <4>1, <4>2
        <3>4. x \notin M(z)
            BY <1>0, <3>0, <3>1 DEF Reached
        <3>5. z \in M(z)
            BY <3>1 DEF Reached
        <3>6. <<x, y>> \in Deep(next, U) <=> y \in M(z)
            BY <1>3, <3>2, <3>3, <3>4
        <3>7. <<z, y>> \in Deep(next, U) <=> z # y /\ y \in M(z)
            BY <1>3, <3>0
        <3>. QED BY <2>2, <3>5, <3>6, <3>7
    <2>. QED BY <2>1, <2>2
<1>5. Deep(next, U) \subseteq U \X U
    BY DEF Deep
<1>. QED BY <1>4, <1>5 DEF Closes

\* Nothing else is closed in this way: walks end.
LEMMA DeepUnique ==
    ASSUME NEW next \in [Events -> Pointers], NEW U, NEW R, Climbs(next, U, R),
           NEW A, Closes(next, U, A)
    PROVE  A = Deep(next, U)
<1>. DEFINE D == Deep(next, U)
            B == {x \in U : \E y \in U : ~(<<x, y>> \in A <=> <<x, y>> \in D)}
<1>1. Closes(next, U, D)
    BY DeepCloses
<1>. HIDE DEF D
<1>2. \A x \in U : next[x] # Null => next[x] \in U
    BY DEF Climbs
<1>3. ASSUME NEW x \in B PROVE next[x] # Null /\ next[x] \in B
    <2>1. PICK y \in U : ~(<<x, y>> \in A <=> <<x, y>> \in D)
        BY <1>3
    <2>2. <<x, y>> \in A <=> next[x] # Null /\ (next[x] = y \/ <<next[x], y>> \in A)
        BY <1>3, <2>1 DEF Closes
    <2>3. <<x, y>> \in D <=> next[x] # Null /\ (next[x] = y \/ <<next[x], y>> \in D)
        BY <1>1, <1>3, <2>1 DEF Closes
    <2>4. next[x] # Null /\ ~(<<next[x], y>> \in A <=> <<next[x], y>> \in D)
        BY <2>1, <2>2, <2>3
    <2>. QED BY <1>2, <1>3, <2>1, <2>4
<1>4. B = {}
    <2>. SUFFICES ASSUME NEW x \in B PROVE FALSE
        OBVIOUS
    <2>1. x \in U
        OBVIOUS
    <2>. HIDE DEF B
    <2>2. Reached(next, U, R, x, Range(Chain(next, x)))
        BY <2>1, WalkReaches
    <2>3. Range(Chain(next, x)) \subseteq B
        BY <1>3, <2>1, WalkLeast
    <2>. QED BY <1>3, <2>2, <2>3 DEF Reached
<1>5. A \subseteq U \X U /\ D \subseteq U \X U
    BY <1>1 DEF Closes
<1>6. \A x, y \in U : <<x, y>> \in A <=> <<x, y>> \in D
    BY <1>4
<1>. HIDE DEF B
<1>7. A = D
    BY <1>5, <1>6, SMTT(20)
<1>. QED BY <1>7 DEF D

\* The order of the list that the queue r makes of the events S.
ListOrder(r, S) ==
    {p \in S \X S : Before(r.when, p[1], p[2]) \/ p \in Deep(r.nextInBin, S)}

\* From a bin the walk meets the bins behind it.
LEMMA BinsReached ==
    ASSUME NEW r, NEW S, NEW T, NEW rank, QueueOK(r, S, T, rank), NEW t \in T
    PROVE  Range(Chain(r.nextBin, t)) = {u \in T : u = t \/ Before(r.when, t, u)}
<1>. DEFINE w == r.when
            next == r.nextBin
            s == Range(Chain(next, t))
            R == {p \in Events \X Events : Before(w, p[1], p[2])}
<1>0. /\ next \in [Events -> Pointers] /\ Ordered(w, Events) /\ Null \notin Events
      /\ T \subseteq Events /\ \A x \in Events : Link(r)[x] = next[x]
      /\ Tops(Link(r), w, T)
    BY QueueFields DEF QueueOK, Tops
<1>. HIDE DEF w, next
<1>1. \A x, y \in Events : <<x, y>> \in R <=> Before(w, x, y)
    OBVIOUS
<1>. HIDE DEF R
<1>2. \A x \in T : FirstAbove(w, T, x, next[x]) /\ x # Null
    <2>. TAKE x \in T
    <2>1. Link(r)[x] = next[x] /\ x # Null
        BY <1>0
    <2>2. FirstAbove(w, T, x, Link(r)[x])
        BY <1>0 DEF Tops
    <2>. QED BY <2>1, <2>2
<1>3. Climbs(next, T, R)
    <2>1. \A x \in T : <<x, x>> \notin R
        BY <1>0, <1>1 DEF Ordered
    <2>2. \A x, y, z \in T : <<x, y>> \in R /\ <<y, z>> \in R => <<x, z>> \in R
        BY <1>0, <1>1 DEF Ordered
    <2>3. \A x \in T : next[x] # Null => next[x] \in T /\ <<x, next[x]>> \in R
        BY <1>0, <1>1, <1>2 DEF FirstAbove, Above
    <2>. QED BY <1>0, <2>1, <2>2, <2>3 DEF Climbs
<1>4. Reached(next, T, R, t, s)
    BY <1>0, <1>3, WalkReaches
<1>5. ASSUME NEW G, t \in G, \A x \in s : x \in G /\ next[x] # Null => next[x] \in G
      PROVE  s \subseteq G
    BY <1>0, <1>3, <1>5, WalkLeast
<1>. HIDE DEF s
<1>6. \A u \in s : u \in T /\ (u = t \/ Before(w, t, u))
    BY <1>0, <1>1, <1>4 DEF Reached
<1>7. ASSUME NEW u \in T, u = t \/ Before(w, t, u) PROVE u \in s
    <2>. SUFFICES ASSUME u \notin s PROVE FALSE
        OBVIOUS
    <2>. DEFINE G == {x \in T : Before(w, x, u)}
    <2>1. t \in G
        BY <1>4, <1>7 DEF Reached
    <2>2. ASSUME NEW x \in s, x \in G PROVE next[x] # Null /\ next[x] \in G
        <3>1. FirstAbove(w, T, x, next[x]) /\ Above(w, x, u)
            BY <1>2, <2>2 DEF Above
        <3>2. next[x] # Null /\ next[x] \in T /\ (u = next[x] \/ Before(w, next[x], u))
            BY <3>1 DEF FirstAbove
        <3>3. next[x] \in s
            BY <1>4, <2>2, <3>2 DEF Reached
        <3>. QED BY <3>2, <3>3
    <2>. HIDE DEF G
    <2>3. s \subseteq G
        BY <1>5, <2>1, <2>2
    <2>. QED BY <1>4, <2>2, <2>3 DEF Reached
<1>. QED BY <1>6, <1>7 DEF s, w, next

\* From the top of a bin the walk meets the events of its time and priority.
LEMMA BinReached ==
    ASSUME NEW r, NEW S, NEW T, NEW rank, QueueOK(r, S, T, rank), NEW t \in T
    PROVE  Bin(r, t) = {x \in S : Alike(r.when, t, x)}
<1>. DEFINE w == r.when
            R == RankOrder(rank, w)
<1>0. /\ r.nextInBin \in [Events -> Pointers] /\ Ordered(w, Events)
      /\ Stacks(r.nextInBin, w, S, T, rank) /\ Tops(Link(r), w, T)
    BY QueueFields DEF QueueOK
<1>1. T \subseteq S /\ S \subseteq Events
    BY <1>0 DEF Stacks
<1>2. Climbs(r.nextInBin, S, R) /\ \A x, y \in S : <<x, y>> \in R => Alike(w, x, y)
    BY <1>0, StacksClimb
<1>. HIDE DEF R
<1>3. Reached(r.nextInBin, S, R, t, Bin(r, t))
    <2>1. Reached(r.nextInBin, S, R, t, Range(Chain(r.nextInBin, t)))
        BY <1>0, <1>1, <1>2, WalkReaches
    <2>. QED BY <2>1 DEF Bin
<1>. HIDE DEF w
<1>4. \A x \in Bin(r, t) : x \in S /\ Alike(w, t, x)
    BY <1>0, <1>1, <1>2, <1>3 DEF Reached, Ordered
<1>5. ASSUME NEW x \in S, Alike(w, t, x) PROVE x \in Bin(r, t)
    <2>1. PICK u \in T : Alike(w, u, x) /\ InStack(r, S, u, x)
        BY EveryInStack DEF w
    <2>2. Alike(w, x, u)
        BY <1>0, <1>1, <2>1 DEF Ordered
    <2>3. Alike(w, t, u)
        BY <1>0, <1>1, <1>5, <2>2 DEF Ordered
    <2>4. t = u
        BY <1>0, <2>3 DEF Tops
    <2>. QED BY <2>1, <2>4 DEF InStack, Bin
<1>. QED BY <1>4, <1>5 DEF w

\* debugVerify() walks over the events of the queue, in the order of the list.
LEMMA WalkIs ==
    ASSUME NEW r, NEW S, Holds(r, S)
    PROVE  Walk(r) = S /\ WalkOrder(r) = ListOrder(r, S)
<1>0. PICK T, rank : QueueOK(r, S, T, rank)
    BY DEF Holds
<1>. DEFINE w == r.when
            R == RankOrder(rank, w)
<1>1. /\ r.nextInBin \in [Events -> Pointers] /\ Ordered(w, Events)
      /\ r.nextBin \in [Events -> Pointers] /\ Link(r)[Null] = r.head
      /\ Stacks(r.nextInBin, w, S, T, rank) /\ Tops(Link(r), w, T)
    BY <1>0, QueueFields DEF QueueOK
<1>2. T \subseteq S /\ S \subseteq Events
    BY <1>1 DEF Stacks
<1>3. FirstAbove(w, T, Null, r.head)
    BY <1>1 DEF Tops
<1>. HIDE DEF w
<1>4. \A t \in T : Range(Chain(r.nextBin, t)) = {u \in T : u = t \/ Before(w, t, u)}
    BY <1>0, BinsReached DEF w
<1>5. \A t \in T : Bin(r, t) = {x \in S : Alike(w, t, x)}
    <2>. TAKE t \in T
    <2>1. Bin(r, t) = {x \in S : Alike(r.when, t, x)}
        BY <1>0, BinReached, SMTT(20)
    <2>. QED BY <2>1 DEF w
<1>6. Bins(r) = T
    <2>1. CASE r.head = Null
        <3>1. T = {}
            BY <1>3, <2>1 DEF FirstAbove, Above
        <3>2. Range(Chain(r.nextBin, Null)) = {}
            BY <1>1, NoWalk
        <3>. QED BY <2>1, <3>1, <3>2 DEF Bins
    <2>2. CASE r.head # Null
        <3>1. r.head \in T /\ \A u \in T : u = r.head \/ Before(w, r.head, u)
            BY <1>3, <2>2 DEF FirstAbove, Above
        <3>2. Bins(r) = {u \in T : u = r.head \/ Before(w, r.head, u)}
            BY <1>4, <3>1 DEF Bins
        <3>. QED BY <3>1, <3>2
    <2>. QED BY <2>1, <2>2
<1>7. \A x \in S : \E t \in T : Alike(w, t, x)
    BY <1>0, EveryInStack DEF w
<1>8. Walk(r) = S
    <2>1. \A x : x \in Walk(r) <=> \E t \in T : x \in Bin(r, t)
        BY <1>6 DEF Walk
    <2>. QED BY <1>5, <1>7, <2>1
<1>9. \A x, y : <<x, y>> \in Ordering(r.nextInBin, S) <=> x \in S /\ y \in S /\ <<x, y>> \in Deep(r.nextInBin, S)
    <2>1. \A x, y : <<x, y>> \in Ordering(r.nextInBin, S)
             <=> x \in S /\ y # x /\ y \in Range(Chain(r.nextInBin, x))
        BY SMTT(20) DEF Ordering
    <2>2. Climbs(r.nextInBin, S, R)
        BY <1>1, StacksClimb
    <2>. HIDE DEF R
    <2>3. \A x \in S : Reached(r.nextInBin, S, R, x, Range(Chain(r.nextInBin, x)))
        BY <1>1, <2>2, WalkReaches
    <2>4. \A x \in S : Range(Chain(r.nextInBin, x)) \subseteq S
        BY <2>3 DEF Reached
    <2>5. \A x, y \in S : <<x, y>> \in Deep(r.nextInBin, S)
             <=> x # y /\ y \in Range(Chain(r.nextInBin, x))
        BY DEF Deep
    <2>. QED BY <2>1, <2>4, <2>5
<1>10. \A t, u : <<t, u>> \in Ordering(r.nextBin, T) <=> t \in T /\ u \in T /\ Before(w, t, u)
    <2>1. \A t, u : <<t, u>> \in Ordering(r.nextBin, T)
             <=> t \in T /\ u # t /\ u \in Range(Chain(r.nextBin, t))
        BY SMTT(20) DEF Ordering
    <2>2. \A t \in T : ~Before(w, t, t)
        BY <1>1, <1>2 DEF Ordered
    <2>. QED BY <1>4, <2>1, <2>2
<1>. DEFINE Between == UNION {Bin(r, p[1]) \X Bin(r, p[2]) : p \in Ordering(r.nextBin, T)}
<1>11. \A x, y : <<x, y>> \in Between <=> x \in S /\ y \in S /\ Before(w, x, y)
    <2>. DEFINE InBins(x, y) ==
                   \E t, u \in T : Before(w, t, u) /\ x \in Bin(r, t) /\ y \in Bin(r, u)
    <2>1. \A x, y : <<x, y>> \in Between <=> InBins(x, y)
        <3>1. \A p \in Ordering(r.nextBin, T) : p = <<p[1], p[2]>>
            BY SMTT(20) DEF Ordering
        <3>2. ASSUME NEW x, NEW y, <<x, y>> \in Between
              PROVE  InBins(x, y)
            <4>1. PICK p \in Ordering(r.nextBin, T) : <<x, y>> \in Bin(r, p[1]) \X Bin(r, p[2])
                BY <3>2
            <4>2. <<p[1], p[2]>> \in Ordering(r.nextBin, T)
                BY <3>1, <4>1
            <4>3. p[1] \in T /\ p[2] \in T /\ Before(w, p[1], p[2])
                BY <1>10, <4>2
            <4>. QED BY <4>1, <4>3
        <3>3. ASSUME NEW x, NEW y, InBins(x, y)
              PROVE  <<x, y>> \in Between
            <4>0. PICK t \in T, u \in T : Before(w, t, u) /\ x \in Bin(r, t) /\ y \in Bin(r, u)
                BY <3>3
            <4>. DEFINE p == <<t, u>>
            <4>1. p \in Ordering(r.nextBin, T)
                BY <1>10, <4>0
            <4>2. <<x, y>> \in Bin(r, p[1]) \X Bin(r, p[2])
                BY <4>0
            <4>. HIDE DEF p
            <4>. QED BY <4>1, <4>2
        <3>. HIDE DEF Between, InBins
        <3>. QED BY <3>2, <3>3
    <2>. HIDE DEF Between
    <2>2. ASSUME NEW x, NEW y, NEW t \in T, NEW u \in T, Before(w, t, u),
                 x \in Bin(r, t), y \in Bin(r, u)
          PROVE  x \in S /\ y \in S /\ Before(w, x, y)
        <3>1. x \in S /\ y \in S /\ Alike(w, t, x) /\ Alike(w, u, y)
            BY <1>5, <2>2
        <3>2. Before(w, t, y) /\ Alike(w, x, t)
            BY <1>1, <1>2, <2>2, <3>1 DEF Ordered
        <3>. QED BY <1>1, <1>2, <3>1, <3>2 DEF Ordered
    <2>3. ASSUME NEW x \in S, NEW y \in S, Before(w, x, y)
          PROVE  InBins(x, y)
        <3>1. PICK t \in T : Alike(w, t, x)
            BY <1>7
        <3>2. PICK u \in T : Alike(w, u, y)
            BY <1>7
        <3>3. Before(w, t, y) /\ Alike(w, y, u)
            BY <1>1, <1>2, <2>3, <3>1, <3>2 DEF Ordered
        <3>4. Before(w, t, u)
            BY <1>1, <1>2, <3>3 DEF Ordered
        <3>. QED BY <1>5, <3>1, <3>2, <3>4
    <2>4. \A x, y : InBins(x, y) <=> x \in S /\ y \in S /\ Before(w, x, y)
        BY <2>2, <2>3, SMTT(20)
    <2>. HIDE DEF InBins
    <2>. QED BY <2>1, <2>4
<1>12. WalkOrder(r) = Ordering(r.nextInBin, S) \cup Between
    BY <1>6, <1>8 DEF WalkOrder
<1>13. \A p \in Ordering(r.nextInBin, S) \cup Between : p = <<p[1], p[2]>>
    BY SMTT(20) DEF Ordering
<1>. HIDE DEF Between
<1>14. \A x, y : <<x, y>> \in ListOrder(r, S)
          <=> x \in S /\ y \in S /\ (Before(w, x, y) \/ <<x, y>> \in Deep(r.nextInBin, S))
    BY DEF ListOrder, w
<1>15. \A p \in ListOrder(r, S) : p = <<p[1], p[2]>>
    BY SMTT(20) DEF ListOrder
<1>16. \A x, y : <<x, y>> \in WalkOrder(r) <=> <<x, y>> \in ListOrder(r, S)
    BY <1>9, <1>11, <1>12, <1>14
<1>17. \A p : p \in WalkOrder(r) <=> p \in ListOrder(r, S)
    <2>1. \A p \in WalkOrder(r) : p = <<p[1], p[2]>>
        BY <1>12, <1>13
    <2>2. \A p \in WalkOrder(r) : p \in ListOrder(r, S)
        BY <1>16, <2>1, SMTT(20)
    <2>3. \A p \in ListOrder(r, S) : p \in WalkOrder(r)
        BY <1>15, <1>16, SMTT(20)
    <2>. QED BY <2>2, <2>3
<1>. QED BY <1>8, <1>17

\* D2 is the order D within the bins of S, and e is ahead of the events of its own.
OnTop(w, D, D2, S, e) ==
    /\ \A x, y \in S : <<x, y>> \in D2 <=> <<x, y>> \in D
    /\ \A x \in S : <<x, e>> \notin D2
    /\ \A y \in S : <<e, y>> \in D2 <=> Alike(w, e, y)

\* A pushed event is ahead of its bin, and the rest stays as it is.
LEMMA DeepPushed ==
    ASSUME NEW r, NEW S, Holds(r, S), NEW e \in Events \ S, NEW r2, Pushed(r, r2, S, e)
    PROVE  OnTop(r2.when, Deep(r.nextInBin, S), Deep(r2.nextInBin, S \cup {e}), S, e)
<1>. DEFINE next == r.nextInBin
            next2 == r2.nextInBin
            S2 == S \cup {e}
            D2 == Deep(next2, S2)
            A == {p \in D2 : p \in S \X S}
<1>1. PICK T, rank : QueueOK(r, S, T, rank)
    BY DEF Holds
<1>2. PICK T2, rank2 : QueueOK(r2, S2, T2, rank2) /\ e \in T2
    BY DEF Pushed
<1>3. \A x \in S : next2[x] = next[x]
    BY DEF Pushed
<1>4. next \in [Events -> Pointers] /\ Climbs(next, S, RankOrder(rank, r.when))
    BY <1>1, StacksClimb, QueueFields DEF QueueOK
<1>5. next2 \in [Events -> Pointers] /\ Climbs(next2, S2, RankOrder(rank2, r2.when))
    BY <1>2, StacksClimb, QueueFields DEF QueueOK
<1>6. \A x \in S : next[x] # Null => next[x] \in S
    BY <1>4 DEF Climbs
<1>7. Bin(r2, e) = {x \in S2 : Alike(r2.when, e, x)}
    BY <1>2, BinReached, SMTT(20)
<1>8. \A x, y \in S2 : <<x, y>> \in D2 <=> x # y /\ y \in Range(Chain(next2, x))
    BY DEF Deep
<1>9. \A y \in S : <<e, y>> \in D2 <=> Alike(r2.when, e, y)
    BY <1>7, <1>8 DEF Bin
<1>10. \A x \in S : <<x, e>> \notin D2
    <2>. TAKE x \in S
    <2>1. \A y \in Range(Chain(next2, x)) : y \in S /\ next2[y] # Null => next2[y] \in S
        BY <1>3, <1>6
    <2>2. x \in S2
        OBVIOUS
    <2>3. Range(Chain(next2, x)) \subseteq S
        <3>. HIDE DEF next2, S2
        <3>. QED BY <1>5, <2>1, <2>2, WalkLeast
    <2>. QED BY <1>8, <2>3
<1>11. Closes(next2, S2, D2)
    <2>. HIDE DEF next2, S2
    <2>. QED BY <1>5, DeepCloses
<1>. HIDE DEF D2
<1>12. \A x, y \in S : <<x, y>> \in A <=> <<x, y>> \in D2
    OBVIOUS
<1>13. Closes(next, S, A)
    <2>1. A \subseteq S \X S
        OBVIOUS
    <2>. HIDE DEF A
    <2>2. ASSUME NEW x \in S, NEW y \in S
          PROVE  <<x, y>> \in A <=> next[x] # Null /\ (next[x] = y \/ <<next[x], y>> \in A)
        <3>1. <<x, y>> \in D2 <=> next2[x] # Null /\ (next2[x] = y \/ <<next2[x], y>> \in D2)
            BY <1>11 DEF Closes
        <3>2. next2[x] = next[x]
            BY <1>3
        <3>. QED BY <1>6, <1>12, <3>1, <3>2
    <2>. QED BY <2>1, <2>2 DEF Closes
<1>14. A = Deep(next, S)
    <2>. HIDE DEF A, next
    <2>. QED BY <1>4, <1>13, DeepUnique
<1>. HIDE DEF A
<1>. QED BY <1>9, <1>10, <1>12, <1>14 DEF OnTop, D2

\* insert() puts e ahead of the events of its bin, behind those before it.
LEMMA InsertOrder ==
    ASSUME NEW r, NEW S, Holds(r, S), NEW e \in Events \ S, NEW r2, Pushed(r, r2, S, e),
           r2.when = r.when
    PROVE  ListOrder(r2, S \cup {e}) =
             ListOrder(r, S) \cup {<<f, e>> : f \in {g \in S : Before(r2.when, g, e)}}
                             \cup {<<e, f>> : f \in {g \in S : ~Before(r2.when, g, e)}}
<1>. DEFINE w == r.when
            D == Deep(r.nextInBin, S)
            D2 == Deep(r2.nextInBin, S \cup {e})
            L == ListOrder(r, S)
            L2 == ListOrder(r2, S \cup {e})
            Behind == {<<f, e>> : f \in {g \in S : Before(w, g, e)}}
            Ahead == {<<e, f>> : f \in {g \in S : ~Before(w, g, e)}}
<1>1. /\ \A x, y \in S : <<x, y>> \in D2 <=> <<x, y>> \in D
      /\ \A x \in S : <<x, e>> \notin D2
      /\ \A y \in S : <<e, y>> \in D2 <=> Alike(w, e, y)
    <2>1. OnTop(r2.when, D, D2, S, e)
        BY DeepPushed
    <2>. HIDE DEF D, D2
    <2>. QED BY <2>1 DEF OnTop
<1>2. <<e, e>> \notin D2 /\ Ordered(w, Events) /\ S \subseteq Events
    BY QueueFields DEF Deep, Holds, QueueOK, Stacks
<1>3. \A x, y \in S \cup {e} : <<x, y>> \in L2 <=> Before(w, x, y) \/ <<x, y>> \in D2
    BY DEF ListOrder
<1>4. \A x, y \in S : <<x, y>> \in L <=> Before(w, x, y) \/ <<x, y>> \in D
    BY DEF ListOrder
<1>5. L \subseteq S \X S /\ L2 \subseteq (S \cup {e}) \X (S \cup {e})
    BY DEF ListOrder
<1>. HIDE DEF w, D, D2, L, L2
<1>6. \A y \in S : <<e, y>> \in L2 <=> ~Before(w, y, e)
    BY <1>1, <1>2, <1>3 DEF Ordered
<1>7. \A x \in S : <<x, e>> \in L2 <=> Before(w, x, e)
    BY <1>1, <1>3
<1>8. <<e, e>> \notin L2
    BY <1>2, <1>3 DEF Ordered
<1>9. \A x, y \in S : <<x, y>> \in L2 <=> <<x, y>> \in L
    BY <1>1, <1>3, <1>4
<1>10. L2 = L \cup Behind \cup Ahead
    BY <1>5, <1>6, <1>7, <1>8, <1>9, SMTT(20)
<1>. QED BY <1>10 DEF L2, L, w

\* What is left when e leaves the queue stays in its order.
LEMMA SpliceOrder ==
    ASSUME NEW r, NEW S, Holds(r, S), NEW e \in S, NEW r2, Holds(r2, S \ {e}),
           Spliced(r, r2, S, e), r2.when = r.when
    PROVE  ListOrder(r2, S \ {e}) = {p \in ListOrder(r, S) : p[1] # e /\ p[2] # e}
<1>. DEFINE next == r.nextInBin
            next2 == r2.nextInBin
            U == S \ {e}
            D == Deep(next, S)
            A == {p \in D : p \in U \X U}
<1>1. PICK T, rank : QueueOK(r, S, T, rank)
    BY DEF Holds
<1>2. PICK T2, rank2 : QueueOK(r2, U, T2, rank2)
    BY DEF Holds
<1>3. next \in [Events -> Pointers] /\ Climbs(next, S, RankOrder(rank, r.when))
    BY <1>1, StacksClimb, QueueFields DEF QueueOK
<1>4. next2 \in [Events -> Pointers] /\ Climbs(next2, U, RankOrder(rank2, r2.when))
    BY <1>2, StacksClimb, QueueFields DEF QueueOK
<1>5. \A x \in U : next2[x] = IF next[x] = e THEN next[e] ELSE next[x]
    BY DEF Spliced
<1>6. \A x \in S : next[x] # Null => next[x] \in S /\ next[x] # x
    BY <1>3 DEF Climbs
<1>7. Closes(next, S, D) /\ e # Null
    <2>1. e # Null
        BY <1>3, EventsAssumption DEF Climbs
    <2>. HIDE DEF next
    <2>. QED BY <1>3, <2>1, DeepCloses
<1>8. \A x, y \in S : <<x, y>> \in D <=> next[x] # Null /\ (next[x] = y \/ <<next[x], y>> \in D)
    BY <1>7 DEF Closes
<1>. HIDE DEF D
<1>9. \A x, y \in U : <<x, y>> \in A <=> <<x, y>> \in D
    OBVIOUS
<1>10. Closes(next2, U, A)
    <2>1. A \subseteq U \X U
        OBVIOUS
    <2>. HIDE DEF A
    <2>2. ASSUME NEW x \in U, NEW y \in U
          PROVE  <<x, y>> \in A <=> next2[x] # Null /\ (next2[x] = y \/ <<next2[x], y>> \in A)
        <3>1. CASE next[x] = e
            <4>1. next2[x] = next[e]
                BY <1>5, <3>1
            <4>2. <<x, y>> \in D <=> <<e, y>> \in D
                BY <1>7, <1>8, <3>1
            <4>3. <<e, y>> \in D <=> next[e] # Null /\ (next[e] = y \/ <<next[e], y>> \in D)
                BY <1>8
            <4>4. next[e] # Null => next[e] \in U
                BY <1>6
            <4>. QED BY <1>9, <4>1, <4>2, <4>3, <4>4
        <3>2. CASE next[x] # e
            <4>1. next2[x] = next[x] /\ (next[x] # Null => next[x] \in U)
                BY <1>5, <1>6, <3>2
            <4>2. <<x, y>> \in D <=> next[x] # Null /\ (next[x] = y \/ <<next[x], y>> \in D)
                BY <1>8
            <4>. QED BY <1>9, <4>1, <4>2
        <3>. QED BY <3>1, <3>2
    <2>. QED BY <2>1, <2>2 DEF Closes
<1>11. A = Deep(next2, U)
    <2>. HIDE DEF A, next2, U
    <2>. QED BY <1>4, <1>10, DeepUnique
<1>12. \A x, y \in U : <<x, y>> \in Deep(next2, U) <=> <<x, y>> \in D
    <2>. HIDE DEF A
    <2>. QED BY <1>9, <1>11
<1>13. \A x, y \in U : <<x, y>> \in ListOrder(r2, U) <=> <<x, y>> \in ListOrder(r, S)
    BY <1>12 DEF ListOrder, D
<1>14. ListOrder(r2, U) \subseteq U \X U /\ ListOrder(r, S) \subseteq S \X S
    BY DEF ListOrder
<1>. HIDE DEF U
<1>15. \A x : x \in U <=> x \in S /\ x # e
    BY DEF U
<1>16. ListOrder(r2, U) = {p \in ListOrder(r, S) : p[1] # e /\ p[2] # e}
    BY <1>13, <1>14, <1>15, SMTT(20)
<1>. QED BY <1>16 DEF U

\* The order is that of the times, not the times.
LEMMA TimesOrder ==
    ASSUME NEW r, NEW S, NEW r2, r2.nextInBin = r.nextInBin, SameOrder(r.when, r2.when, S)
    PROVE  ListOrder(r2, S) = ListOrder(r, S)
<1>1. \A p \in S \X S : Before(r2.when, p[1], p[2]) <=> Before(r.when, p[1], p[2])
    BY DEF SameOrder
<1>. QED BY <1>1 DEF ListOrder

-----------------------------------------------------------------------------
(* The theorems. *)

\* No panic so far, the pointers hold the scheduled events, none of them past.
QueueInv ==
    /\ ~aborted /\ scheduled \subseteq Events
    /\ Holds(q, scheduled)
    /\ \A x \in scheduled : q.when[x] \in Nat

\* The empty queue holds nothing.
LEMMA QueueInit == Init => QueueInv
<1>. SUFFICES ASSUME Init PROVE QueueInv
    OBVIOUS
<1>. DEFINE rank == [x \in Events |-> 0]
<1>1. /\ q.head = Null /\ \A x \in Events : q.nextInBin[x] = Null
      /\ q.nextBin = [x \in Events |-> Null]
      /\ scheduled = {} /\ ~aborted
    BY SMTT(20) DEF Init
<1>2. QueueType(q)
    <2>1. Null \in Pointers /\ 0 \in Int
        BY SMTT(20) DEF Pointers
    <2>. QED BY <2>1, SMTT(20) DEF Init, QueueType
<1>3. Tops(Link(q), q.when, {})
    <2>1. Link(q)[Null] = Null
        BY <1>1, <1>2, QueueFields
    <2>. QED BY <2>1 DEF Tops, FirstAbove
<1>4. rank \in [Events -> Nat]
    <2>1. 0 \in Nat
        BY SMTT(20)
    <2>. QED BY <2>1
<1>. HIDE DEF rank
<1>5. Stacks(q.nextInBin, q.when, {}, {}, rank)
    BY <1>4 DEF Stacks
<1>6. Holds(q, {})
    BY <1>2, <1>3, <1>5 DEF Holds, QueueOK
<1>. QED BY <1>1, <1>6 DEF QueueInv

\* A scheduled event gets a time ahead and a place.
LEMMA InsertStep ==
    ASSUME NEW r, NEW S, S \subseteq Events, Holds(r, S), \A x \in S : r.when[x] \in Nat,
           NEW e \in Events \ S, NEW t \in Nat
    PROVE  /\ Holds(insert(setWhen(r, e, t), e), S \cup {e})
           /\ \A x \in S \cup {e} : insert(setWhen(r, e, t), e).when[x] \in Nat
<1>. DEFINE r1 == setWhen(r, e, t)
<1>1. Holds(r1, S) /\ r1.when[e] = t /\ \A x \in S : r1.when[x] = r.when[x]
    <2>1. Timed(r, r1, S, e, t)
        BY SetWhenHolds
    <2>. HIDE DEF r1
    <2>. QED BY <2>1 DEF Timed
<1>. HIDE DEF r1
<1>2. Holds(insert(r1, e), S \cup {e}) /\ insert(r1, e).when = r1.when
    BY <1>1, InsertHolds
<1>. QED BY <1>1, <1>2 DEF r1

\* Every step keeps the invariant.
LEMMA QueueNext == QueueInv /\ [Next]_vars => QueueInv'
<1>. SUFFICES ASSUME QueueInv, [Next]_vars PROVE QueueInv'
    OBVIOUS
<1>0. /\ ~aborted /\ scheduled \subseteq Events /\ Holds(q, scheduled)
      /\ \A x \in scheduled : q.when[x] \in Nat
    BY DEF QueueInv
<1>1. \A t \in 0 .. MaxDelay : t \in Nat
    BY EventsAssumption, SMTT(20)
<1>2. ASSUME NEW e \in Events, NEW t \in 0 .. MaxDelay, schedule(e, t) PROVE QueueInv'
    <2>1. e \in Events \ scheduled /\ t \in Nat
        BY <1>1, <1>2 DEF schedule
    <2>2. /\ q' = insert(setWhen(q, e, t), e) /\ scheduled' = scheduled \cup {e}
          /\ aborted' = aborted
        BY <1>2 DEF schedule
    <2>3. Holds(q', scheduled') /\ \A x \in scheduled' : q'.when[x] \in Nat
        BY <1>0, <2>1, <2>2, InsertStep
    <2>. QED BY <1>0, <2>2, <2>3 DEF QueueInv
<1>3. ASSUME NEW e \in Events, NEW t \in 0 .. MaxDelay, reschedule(e, t) PROVE QueueInv'
    <2>. DEFINE base == IF e \in scheduled THEN remove(q, e) ELSE q
                S == scheduled \ {e}
    <2>1. Holds(base, S) /\ base.when = q.when /\ (e \in scheduled => Found(q, e))
        <3>1. CASE e \in scheduled
            <4>1. Holds(remove(q, e), S) /\ remove(q, e).when = q.when /\ Found(q, e)
                BY <1>0, <3>1, RemoveHolds
            <4>. QED BY <3>1, <4>1
        <3>2. CASE e \notin scheduled
            <4>1. S = scheduled
                BY <3>2
            <4>. QED BY <1>0, <3>2, <4>1
        <3>. QED BY <3>1, <3>2
    <2>2. /\ aborted' = FALSE /\ q' = insert(setWhen(base, e, t), e)
          /\ scheduled' = S \cup {e}
        <3>1. aborted' = FALSE
            BY <1>3, <2>1 DEF reschedule
        <3>2. scheduled' = S \cup {e}
            BY <1>3 DEF reschedule
        <3>. QED BY <1>3, <3>1, <3>2 DEF reschedule
    <2>3. S \subseteq Events /\ e \in Events \ S /\ t \in Nat /\ \A x \in S : base.when[x] \in Nat
        BY <1>0, <1>1, <2>1
    <2>. HIDE DEF base, S
    <2>4. Holds(q', scheduled') /\ \A x \in scheduled' : q'.when[x] \in Nat
        BY <2>1, <2>2, <2>3, InsertStep
    <2>. QED BY <2>2, <2>3, <2>4 DEF QueueInv
<1>4. ASSUME NEW e \in Events, deschedule(e) PROVE QueueInv'
    <2>. DEFINE S == scheduled \ {e}
    <2>1. Holds(remove(q, e), S) /\ remove(q, e).when = q.when /\ Found(q, e)
        BY <1>0, <1>4, RemoveHolds DEF deschedule
    <2>2. aborted' = FALSE /\ q' = setWhen(remove(q, e), e, 0) /\ scheduled' = S
        BY <1>4, <2>1 DEF deschedule
    <2>3. e \in Events \ S /\ 0 \in Nat /\ S \subseteq Events
        BY <1>0, SMTT(20)
    <2>4. Holds(q', S) /\ \A x \in S : q'.when[x] = remove(q, e).when[x]
        <3>. HIDE DEF S
        <3>1. Timed(remove(q, e), setWhen(remove(q, e), e, 0), S, e, 0)
            BY <2>1, <2>3, SetWhenHolds
        <3>. QED BY <2>2, <3>1 DEF Timed
    <2>. QED BY <1>0, <2>1, <2>2, <2>3, <2>4 DEF QueueInv
<1>5. ASSUME NEW e \in Events, squash(e) PROVE QueueInv'
    BY <1>0, <1>5 DEF squash, QueueInv
<1>6. CASE serviceOne
    <2>. DEFINE event == q.head
                S == scheduled \ {event}
                w == [e \in Events |-> IF e \in S THEN q.when[e] - q.when[event] ELSE 0]
                r2 == SetLink(popBin(q, event).queue, Null, popBin(q, event).top)
    <2>1. /\ event # Null /\ scheduled' = S /\ aborted' = (q.when[event] < 0)
          /\ q' = [r2 EXCEPT !.when = w]
        BY <1>6 DEF serviceOne, SetLink
    <2>2. event \in scheduled /\ \A x \in scheduled : LessEqual(q, event, x)
        BY <1>0, <2>1, HeadIsFirst
    <2>3. Holds(r2, S) /\ r2.when = q.when
        <3>1. PICK T, rank : QueueOK(q, scheduled, T, rank)
            BY <1>0 DEF Holds
        <3>2. Link(q)[Null] = event
            BY <3>1, QueueFields DEF QueueOK
        <3>3. event \in T
            <4>1. FirstAbove(q.when, T, Null, event)
                BY <3>1, <3>2 DEF QueueOK, Tops
            <4>. QED BY <2>1, <4>1 DEF FirstAbove
        <3>4. Null \in T \cup {Null}
            OBVIOUS
        <3>. HIDE DEF event
        <3>5. r2 = SetLink(popBin(q, event).queue, Null, popBin(q, event).top)
            OBVIOUS
        <3>. HIDE DEF r2
        <3>. QED BY <3>1, <3>2, <3>3, <3>4, <3>5, PopHolds, SMTT(20)
    <2>. HIDE DEF event, r2
    <2>4. q.when[event] \in Nat /\ \A x \in S : q.when[x] \in Nat
        BY <1>0, <2>2
    <2>5. \A x \in S : w[x] = q.when[x] - q.when[event]
        BY <1>0
    <2>6. \A x \in S : q.when[event] <= q.when[x]
        <3>. TAKE x \in S
        <3>1. LessEqual(q, event, x) /\ q.when[x] \in Nat
            BY <2>2, <2>4
        <3>. QED BY <2>4, <3>1, SMTT(20) DEF LessEqual, Less, Equal
    <2>7. \A x \in S : w[x] \in Nat
        BY <2>4, <2>5, <2>6, SMTT(20)
    <2>8. w \in [Events -> Int]
        <3>1. \A x \in S : w[x] \in Int
            BY <2>7, SMTT(20)
        <3>2. \A x \in Events : x \notin S => w[x] \in Int
            BY SMTT(20)
        <3>. QED BY <3>1, <3>2
    <2>. HIDE DEF w, S
    <2>9. SameOrder(r2.when, w, S)
        <3>1. \A x, y \in S : /\ q.when[x] < q.when[y] <=> w[x] < w[y]
                              /\ q.when[x] = q.when[y] <=> w[x] = w[y]
            BY <2>4, <2>5, SMTT(20)
        <3>. QED BY <2>3, <3>1 DEF SameOrder, Before, Alike
    <2>10. Holds(q', S) /\ q'.when = w
        BY <2>1, <2>3, <2>8, <2>9, TimesHold, SMTT(20)
    <2>11. ~(q.when[event] < 0) /\ S \subseteq Events
        BY <1>0, <2>4, SMTT(20) DEF S
    <2>. QED BY <2>1, <2>7, <2>10, <2>11 DEF QueueInv
<1>7. CASE UNCHANGED vars
    BY <1>0, <1>7 DEF vars, QueueInv
<1>. QED BY <1>2, <1>3, <1>4, <1>5, <1>6, <1>7 DEF Next

\* In r2 the event e has the time t, and its place in the list of r.
Inserted(r, r2, S, e, t) ==
    /\ r2.when = [r.when EXCEPT ![e] = t]
    /\ ListOrder(r2, S \cup {e}) =
         ListOrder(r, S) \cup {<<f, e>> : f \in {g \in S : Before(r2.when, g, e)}}
                         \cup {<<e, f>> : f \in {g \in S : ~Before(r2.when, g, e)}}

\* schedule() and reschedule() put an event in its place.
LEMMA InsertPlaces ==
    ASSUME NEW r, NEW S, Holds(r, S), NEW e \in Events \ S, NEW t \in Nat
    PROVE  Inserted(r, insert(setWhen(r, e, t), e), S, e, t)
<1>. DEFINE r1 == setWhen(r, e, t)
            r2 == insert(r1, e)
<1>1. Timed(r, r1, S, e, t)
    BY SetWhenHolds
<1>. HIDE DEF r1
<1>2. /\ Holds(r1, S) /\ r1.when = [r.when EXCEPT ![e] = t]
      /\ SameOrder(r.when, r1.when, S) /\ r1.nextInBin = r.nextInBin
    BY <1>1 DEF Timed
<1>3. r2.when = r1.when /\ Pushed(r1, r2, S, e)
    BY <1>2, InsertHolds
<1>4. ListOrder(r1, S) = ListOrder(r, S)
    BY <1>2, TimesOrder
<1>. HIDE DEF r2
<1>5. ListOrder(r2, S \cup {e}) =
         ListOrder(r1, S) \cup {<<f, e>> : f \in {g \in S : Before(r2.when, g, e)}}
                          \cup {<<e, f>> : f \in {g \in S : ~Before(r2.when, g, e)}}
    BY <1>2, <1>3, InsertOrder, SMTT(20)
<1>6. Inserted(r, r2, S, e, t)
    BY <1>2, <1>3, <1>4, <1>5 DEF Inserted
<1>. QED BY <1>6 DEF r1, r2

\* The bins hold exactly the scheduled events, linked as the loops of insert()
\* and remove() take them to be, after every sequence of schedule, deschedule,
\* reschedule, squash and serviceOne.
THEOREM QueueInvariance == Spec => []QueueInv
BY QueueInit, QueueNext, PTL DEF Spec

\* For any number of events, of priorities and of ticks ahead: remove() always
\* finds a scheduled event, and simulate() finds none scheduled in the past.
THEOREM NeverPanics == Spec => []NeverAborts
<1>1. QueueInv => NeverAborts
    BY DEF QueueInv, NeverAborts
<1>. QED BY <1>1, QueueInvariance, PTL

\* The head, which serviceOne() takes, comes before or with every other event.
HeadFirst == \A e \in scheduled : q.head # Null /\ LessEqual(q, q.head, e)

\* serviceOne() serves the events in the order of time and priority.
THEOREM ServedInOrder == Spec => []HeadFirst
<1>1. QueueInv => HeadFirst
    BY HeadIsFirst DEF QueueInv, HeadFirst
<1>. QED BY <1>1, QueueInvariance, PTL

\* Only scheduled events are squashed.
SquashInv == squashed \subseteq scheduled

\* A squash ends with the schedule it was meant for.
LEMMA SquashNext == QueueInv /\ SquashInv /\ [Next]_vars => SquashInv'
<1>. SUFFICES ASSUME QueueInv, SquashInv, [Next]_vars PROVE SquashInv'
    OBVIOUS
<1>1. ASSUME NEW e \in Events, NEW t \in 0 .. MaxDelay, schedule(e, t) PROVE SquashInv'
    BY <1>1 DEF schedule, SquashInv
<1>2. ASSUME NEW e \in Events, NEW t \in 0 .. MaxDelay, reschedule(e, t) PROVE SquashInv'
    BY <1>2 DEF reschedule, SquashInv
<1>3. ASSUME NEW e \in Events, deschedule(e) PROVE SquashInv'
    BY <1>3 DEF deschedule, SquashInv
<1>4. ASSUME NEW e \in Events, squash(e) PROVE SquashInv'
    BY <1>4 DEF squash, SquashInv
<1>5. CASE serviceOne
    BY <1>5 DEF serviceOne, SquashInv
<1>6. CASE UNCHANGED vars
    BY <1>6 DEF vars, SquashInv
<1>. QED BY <1>1, <1>2, <1>3, <1>4, <1>5, <1>6 DEF Next

\* A step of the queue that puts e in its place is Set of the list.
LEMMA SetStep ==
    ASSUME QueueInv, QueueInv', NEW e \in Events, NEW t \in 0 .. MaxDelay,
           squashed' = squashed \ {e}, scheduled' = scheduled \cup {e},
           NEW r, Holds(r, scheduled \ {e}), r.when = q.when,
           ListOrder(r, scheduled \ {e}) =
             {p \in ListOrder(q, scheduled) : p[1] # e /\ p[2] # e},
           q' = insert(setWhen(r, e, t), e)
    PROVE  EventListOfQueue!Set(e, t)
<1>. DEFINE S == scheduled \ {e}
            Behind == {<<f, e>> : f \in {g \in S : Before(q'.when, g, e)}}
            Ahead == {<<e, f>> : f \in {g \in S : ~Before(q'.when, g, e)}}
<1>0. t \in Nat /\ e \in Events \ S /\ S \cup {e} = scheduled'
    BY EventsAssumption, SMTT(20)
<1>1. Walk(q) = scheduled /\ WalkOrder(q) = ListOrder(q, scheduled)
    BY WalkIs DEF QueueInv
<1>2. Walk(q') = scheduled' /\ WalkOrder(q') = ListOrder(q', scheduled')
    BY WalkIs DEF QueueInv
<1>3. Inserted(r, q', S, e, t)
    <2>. HIDE DEF S
    <2>. QED BY <1>0, InsertPlaces
<1>4. q'.when = [q.when EXCEPT ![e] = t]
    BY <1>3 DEF Inserted
<1>5. ListOrder(q', scheduled') = ListOrder(r, S) \cup Behind \cup Ahead
    <2>. HIDE DEF S
    <2>. QED BY <1>0, <1>3 DEF Inserted
<1>6. \A g \in S : EventListOfQueue!After(q'.when, e, g) <=> Before(q'.when, g, e)
    <2>1. q'.when \in [Events -> Int] /\ S \subseteq Events
        BY QueueFields DEF QueueInv, Holds, QueueOK
    <2>. DEFINE w == q'.when
    <2>2. \A x \in Events : w[x] \in Int /\ Priority[x] \in Int
        BY <2>1, EventsAssumption
    <2>. HIDE DEF w, S
    <2>3. \A g \in S : EventListOfQueue!After(w, e, g) <=> Before(w, g, e)
        BY <2>1, <2>2, SMTT(20) DEF EventListOfQueue!After, Before
    <2>. QED BY <2>3 DEF w
<1>7. EventListOfQueue!Placed(q'.when, e) = Behind \cup Ahead
    <2>1. EventListOfQueue!Placed(q'.when, e) =
             {<<f, e>> : f \in {g \in S : EventListOfQueue!After(q'.when, e, g)}}
               \cup {<<e, f>> : f \in {g \in S : ~EventListOfQueue!After(q'.when, e, g)}}
        BY <1>1 DEF EventListOfQueue!Placed
    <2>2. {g \in S : EventListOfQueue!After(q'.when, e, g)} = {g \in S : Before(q'.when, g, e)}
        BY <1>6
    <2>3. {g \in S : ~EventListOfQueue!After(q'.when, e, g)} = {g \in S : ~Before(q'.when, g, e)}
        BY <1>6
    <2>. QED BY <2>1, <2>2, <2>3
<1>8. EventListOfQueue!Without(e) = ListOrder(r, S)
    BY <1>1 DEF EventListOfQueue!Without
<1>. HIDE DEF S, Behind, Ahead
<1>9. WalkOrder(q') = EventListOfQueue!Without(e) \cup EventListOfQueue!Placed(q'.when, e)
    BY <1>2, <1>5, <1>7, <1>8
<1>. QED BY <1>1, <1>2, <1>4, <1>9 DEF EventListOfQueue!Set

\* Every step of the pointers is a step of the list.
LEMMA QueueStep ==
    QueueInv /\ QueueInv' /\ SquashInv /\ [Next]_vars
        => [EventListOfQueue!Next]_(EventListOfQueue!vars)
<1>. SUFFICES ASSUME QueueInv, QueueInv', SquashInv, [Next]_vars
              PROVE  EventListOfQueue!Next \/ UNCHANGED EventListOfQueue!vars
    OBVIOUS
<1>0. Holds(q, scheduled) /\ scheduled \subseteq Events /\ ~aborted
    BY DEF QueueInv
<1>1. Walk(q) = scheduled /\ WalkOrder(q) = ListOrder(q, scheduled)
    BY <1>0, WalkIs
<1>2. Walk(q') = scheduled' /\ WalkOrder(q') = ListOrder(q', scheduled')
    BY WalkIs DEF QueueInv
<1>3. ASSUME NEW e \in scheduled
      PROVE  /\ Holds(remove(q, e), scheduled \ {e}) /\ remove(q, e).when = q.when /\ Found(q, e)
             /\ ListOrder(remove(q, e), scheduled \ {e}) =
                  {p \in ListOrder(q, scheduled) : p[1] # e /\ p[2] # e}
    <2>1. /\ Holds(remove(q, e), scheduled \ {e}) /\ remove(q, e).when = q.when /\ Found(q, e)
          /\ Spliced(q, remove(q, e), scheduled, e)
        BY <1>0, <1>3, RemoveHolds
    <2>. DEFINE r2 == remove(q, e)
    <2>. HIDE DEF r2
    <2>2. /\ Holds(r2, scheduled \ {e}) /\ r2.when = q.when
          /\ Spliced(q, r2, scheduled, e)
        BY <2>1 DEF r2
    <2>3. ListOrder(r2, scheduled \ {e}) = {p \in ListOrder(q, scheduled) : p[1] # e /\ p[2] # e}
        BY <1>0, <1>3, <2>2, SpliceOrder, SMTT(20)
    <2>. QED BY <2>1, <2>3 DEF r2
<1>4. ASSUME NEW e \in Events \ scheduled
      PROVE  /\ scheduled \ {e} = scheduled
             /\ ListOrder(q, scheduled) = {p \in ListOrder(q, scheduled) : p[1] # e /\ p[2] # e}
    <2>1. ListOrder(q, scheduled) \subseteq scheduled \X scheduled
        BY DEF ListOrder
    <2>2. scheduled \ {e} = scheduled
        BY <1>4
    <2>. QED BY <1>4, <2>1, <2>2
<1>5. ASSUME NEW e \in Events, NEW t \in 0 .. MaxDelay, schedule(e, t)
      PROVE  EventListOfQueue!Set(e, t)
    <2>1. /\ e \in Events \ scheduled /\ q' = insert(setWhen(q, e, t), e)
          /\ scheduled' = scheduled \cup {e} /\ squashed' = squashed \ {e}
        BY <1>5 DEF schedule, SquashInv
    <2>2. Holds(q, scheduled \ {e}) /\ q.when = q.when
        BY <1>0, <1>4, <2>1
    <2>3. ListOrder(q, scheduled \ {e}) = {p \in ListOrder(q, scheduled) : p[1] # e /\ p[2] # e}
        BY <1>4, <2>1
    <2>. QED BY <2>1, <2>2, <2>3, SetStep, SMTT(20)
<1>6. ASSUME NEW e \in Events, NEW t \in 0 .. MaxDelay, reschedule(e, t)
      PROVE  EventListOfQueue!Set(e, t)
    <2>. DEFINE base == IF e \in scheduled THEN remove(q, e) ELSE q
    <2>1. scheduled' = scheduled \cup {e} /\ squashed' = squashed \ {e}
        BY <1>6 DEF reschedule
    <2>2. q' = insert(setWhen(base, e, t), e)
        <3>1. ~aborted'
            BY DEF QueueInv
        <3>. QED BY <1>6, <3>1 DEF reschedule
    <2>3. Holds(base, scheduled \ {e}) /\ base.when = q.when
        BY <1>0, <1>3, <1>4
    <2>4. ListOrder(base, scheduled \ {e}) = {p \in ListOrder(q, scheduled) : p[1] # e /\ p[2] # e}
        BY <1>3, <1>4
    <2>. HIDE DEF base
    <2>. QED BY <2>1, <2>2, <2>3, <2>4, SetStep, SMTT(20)
<1>7. ASSUME NEW e \in Events, deschedule(e) PROVE EventListOfQueue!Cancel(e)
    <2>. DEFINE r == remove(q, e)
                S == scheduled \ {e}
    <2>1. e \in scheduled /\ scheduled' = S /\ squashed' = squashed \ {e}
        BY <1>7 DEF deschedule
    <2>2. Holds(r, S) /\ r.when = q.when /\ Found(q, e)
        BY <1>3, <2>1
    <2>3. ListOrder(r, S) = {p \in ListOrder(q, scheduled) : p[1] # e /\ p[2] # e}
        BY <1>3, <2>1
    <2>4. q' = setWhen(r, e, 0) /\ 0 \in Nat /\ e \in Events \ S
        <3>1. 0 \in Nat
            BY SMTT(20)
        <3>. QED BY <1>7, <2>2, <3>1 DEF deschedule
    <2>. HIDE DEF r, S
    <2>5. Timed(r, q', S, e, 0)
        BY <2>2, <2>4, SetWhenHolds
    <2>6. q'.when = [q.when EXCEPT ![e] = 0] /\ ListOrder(q', S) = ListOrder(r, S)
        BY <2>2, <2>5, TimesOrder DEF Timed
    <2>7. WalkOrder(q') = EventListOfQueue!Without(e)
        BY <1>1, <1>2, <2>1, <2>3, <2>6 DEF EventListOfQueue!Without
    <2>. QED BY <1>1, <1>2, <2>1, <2>6, <2>7 DEF EventListOfQueue!Cancel, S
<1>8. ASSUME NEW e \in Events, squash(e) PROVE EventListOfQueue!Squash(e)
    <2>1. q' = q /\ squashed' = squashed \cup {e} /\ e \in scheduled
        BY <1>8 DEF squash
    <2>. QED BY <1>1, <2>1 DEF EventListOfQueue!Squash
<1>9. ASSUME serviceOne PROVE q.head \in Events /\ EventListOfQueue!Service(q.head)
    <2>. DEFINE event == q.head
                S == scheduled \ {event}
                w == [e \in Events |-> IF e \in S THEN q.when[e] - q.when[event] ELSE 0]
                r2 == SetLink(popBin(q, event).queue, Null, popBin(q, event).top)
    <2>1. /\ event # Null /\ scheduled' = S /\ squashed' = squashed \ {event}
          /\ q' = [r2 EXCEPT !.when = w]
        BY <1>9 DEF serviceOne, SetLink
    <2>2. event \in scheduled /\ \A x \in scheduled : LessEqual(q, event, x)
        BY <1>0, <2>1, HeadIsFirst
    <2>3. PICK T, rank : QueueOK(q, scheduled, T, rank)
        BY <1>0 DEF Holds
    <2>4. Link(q)[Null] = event /\ q.when \in [Events -> Int] /\ Ordered(q.when, Events)
        BY <2>3, QueueFields DEF QueueOK
    <2>5. event \in T
        <3>1. FirstAbove(q.when, T, Null, event)
            BY <2>3, <2>4 DEF QueueOK, Tops
        <3>. QED BY <2>1, <3>1 DEF FirstAbove
    <2>6. r2 = SetLink(popBin(q, event).queue, Null, popBin(q, event).top) /\ Null \in T \cup {Null}
        OBVIOUS
    <2>7. \A f \in scheduled : <<f, event>> \notin ListOrder(q, scheduled)
        <3>. TAKE f \in scheduled
        <3>1. ~Before(q.when, f, event)
            <4>1. LessEqual(q, event, f)
                BY <2>2
            <4>2. Before(q.when, event, f) \/ Alike(q.when, event, f)
                BY <4>1 DEF LessEqual, Less, Equal, Before, Alike
            <4>. HIDE DEF event
            <4>. QED BY <1>0, <2>2, <2>4, <4>2 DEF Ordered
        <3>2. <<f, event>> \notin Deep(q.nextInBin, scheduled)
            <4>. DEFINE next == q.nextInBin
                        G == scheduled \ {event}
            <4>1. next \in [Events -> Pointers] /\ Climbs(next, scheduled, RankOrder(rank, q.when))
                BY <2>3, StacksClimb, QueueFields DEF QueueOK
            <4>2. \A y \in scheduled : next[y] # event /\ (next[y] # Null => next[y] \in scheduled)
                BY <2>3, <2>5 DEF QueueOK, Stacks
            <4>. HIDE DEF event
            <4>3. ASSUME f # event PROVE Range(Chain(next, f)) \subseteq G
                <5>1. f \in G /\ \A y \in Range(Chain(next, f)) : y \in G /\ next[y] # Null => next[y] \in G
                    BY <4>2, <4>3
                <5>. HIDE DEF G, next
                <5>. QED BY <4>1, <5>1, WalkLeast
            <4>. QED BY <4>3 DEF Deep
        <3>. QED BY <3>1, <3>2 DEF ListOrder
    <2>. HIDE DEF event, r2
    <2>8. Holds(r2, S) /\ r2.when = q.when /\ Spliced(q, r2, scheduled, event)
        BY <2>3, <2>4, <2>5, <2>6, PopHolds, SMTT(20)
    <2>9. ListOrder(r2, S) = {p \in ListOrder(q, scheduled) : p[1] # event /\ p[2] # event}
        BY <1>0, <2>2, <2>8, SpliceOrder, SMTT(20)
    <2>10. w \in [Events -> Int] /\ \A x \in S : w[x] = q.when[x] - q.when[event]
        <3>1. \A x \in Events : q.when[x] \in Int /\ w[x] \in Int
            BY <1>0, <2>2, <2>4, SMTT(20)
        <3>. QED BY <1>0, <3>1
    <2>. HIDE DEF w
    <2>11. SameOrder(r2.when, w, S)
        <3>1. \A x \in S : q.when[x] \in Int
            BY <1>0, <2>4
        <3>2. q.when[event] \in Int
            BY <1>0, <2>2, <2>4
        <3>. HIDE DEF S
        <3>3. \A x, y \in S : /\ q.when[x] < q.when[y] <=> w[x] < w[y]
                              /\ q.when[x] = q.when[y] <=> w[x] = w[y]
            BY <2>10, <3>1, <3>2, SMTT(20)
        <3>. QED BY <2>8, <3>3 DEF SameOrder, Before, Alike
    <2>12. q'.when = w /\ q'.nextInBin = r2.nextInBin
        <3>. HIDE DEF S
        <3>. QED BY <2>1, <2>8, <2>10, <2>11, TimesHold, SMTT(20)
    <2>13. ListOrder(q', S) = ListOrder(r2, S)
        <3>. HIDE DEF S
        <3>. QED BY <2>11, <2>12, TimesOrder
    <2>14. WalkOrder(q') = EventListOfQueue!Without(event)
        BY <1>1, <1>2, <2>1, <2>9, <2>13 DEF EventListOfQueue!Without
    <2>15. q'.when = [f \in Events |-> IF f \in Walk(q) \ {event} THEN q.when[f] - q.when[event] ELSE 0]
        BY <1>1, <2>12 DEF w
    <2>16. EventListOfQueue!Service(event)
        BY <1>1, <1>2, <2>1, <2>2, <2>7, <2>14, <2>15 DEF EventListOfQueue!Service
    <2>. QED BY <1>0, <2>2, <2>16 DEF event
<1>10. CASE UNCHANGED vars
    BY <1>10 DEF vars, EventListOfQueue!vars
<1>. QED BY <1>5, <1>6, <1>7, <1>8, <1>9, <1>10 DEF Next, EventListOfQueue!Next

\* The pointers of the bins implement the list of Event's comment, for any
\* number of events, of priorities and of ticks ahead: insert() and remove() of
\* eventq.cc keep the scheduled events in the order of time and priority, last in
\* first out among those of one time and priority; serviceOne() takes the first;
\* and a squashed event is squashed until it is served, moved or taken out.
THEOREM QueueImplementsList == Spec => ImplementsEventList
<1>1. Init => EventListOfQueue!Init /\ SquashInv
    <2>. SUFFICES ASSUME Init PROVE EventListOfQueue!Init /\ SquashInv
        OBVIOUS
    <2>1. scheduled = {} /\ squashed = {} /\ q.when = [e \in Events |-> 0]
        BY SMTT(20) DEF Init
    <2>2. Walk(q) = {} /\ WalkOrder(q) = ListOrder(q, {})
        BY <2>1, QueueInit, WalkIs DEF QueueInv
    <2>3. ListOrder(q, {}) = {}
        BY DEF ListOrder
    <2>. QED BY <2>1, <2>2, <2>3 DEF EventListOfQueue!Init, SquashInv
<1>. QED BY <1>1, QueueInvariance, SquashNext, QueueStep, PTL
     DEF Spec, ImplementsEventList, EventListOfQueue!Spec
=============================================================================
